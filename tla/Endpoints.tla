------------------------------ MODULE Endpoints ------------------------------
(***************************************************************************)
(* The RPC endpoints of one chain as the event indexer uses them: the       *)
(* manager that picks an endpoint and puts a failing one aside, the adapter *)
(* that reports to it, the health of each stream and of the service.        *)
(*                                                                          *)
(* Live cycles are started by a timer that does not wait for the one        *)
(* before, so calls of one stream overlap and are answered in any order.    *)
(* What a batch does once pulled, and replays, are in Ingestion.            *)
(***************************************************************************)
EXTENDS Naturals, Sequences, SequencesExt

CONSTANTS
    Priorities,         \* the enabled endpoints, named by their priority
    Streams,            \* the contests followed on the chain
    FailureThreshold,   \* config.rpc.failureThreshold
    Cooldown,           \* config.rpc.cooldownMs, in ticks
    StreakCap,          \* bound: where the count of errors in a row stops
    MaxTick,            \* bound on time
    EndpointScenarios   \* the situations explored, see EndpointScene

EndpointSpending == {"flip", "storage", "queue"}
\* The endpoints down at first, the streams, whether the gateway wraps its errors
\* (the chain package's does, the one of the adapter's tests does not), and bounds:
\* calls of one stream under way, and what the environment does.
EndpointScene == [down : SUBSET Priorities, streams : SUBSET Streams, wraps : BOOLEAN,
                  calls : Nat, budget : [EndpointSpending -> Nat]]

ASSUME EndpointsAssumption ==
    /\ Priorities \subseteq Nat /\ Priorities # {} /\ IsFiniteSet(Priorities)
    /\ FailureThreshold \in Nat \ {0}
    /\ Cooldown \in Nat \ {0}
    /\ StreakCap \in Nat /\ StreakCap > 3 /\ MaxTick \in Nat
    /\ EndpointScenarios \subseteq EndpointScene

VARIABLES
    endpoints,       \* failureCount and cooldownUntil of each endpoint
    active,          \* activeEndpointId
    degradedUntil,   \* degradedUntil of the chain, 0 when unset
    calls,           \* the live cycles under way
    tracked,         \* the health tracker's state of each stream
    queueFailed,     \* the queue client has seen an error
    down,            \* the endpoints that do not answer
    tick,            \* Date.now()
    endpointSpent,   \* how much of the budget is used
    endpointScene    \* the situation explored

endpointVars == <<endpoints, active, degradedUntil, calls, tracked, queueFailed, down,
                  tick, endpointSpent, endpointScene>>

-----------------------------------------------------------------------------
EndpointState == [failures : Nat, until : Nat]
StreamState   == [streak : 0 .. StreakCap, degraded : BOOLEAN]
CallType      == [stream : Streams, step : {"status", "pull"}, endpoint : Priorities,
                  degraded : BOOLEAN, first : BOOLEAN]

SpendHere(what) ==
    /\ endpointSpent[what] < endpointScene.budget[what]
    /\ endpointSpent' = [endpointSpent EXCEPT ![what] = @ + 1]

EndpointsInit ==
    /\ endpointScene \in EndpointScenarios
    /\ endpoints = [e \in Priorities |-> [failures |-> 0, until |-> 0]]
    /\ active = Min(Priorities)
    /\ degradedUntil = 0
    /\ calls = <<>>
    /\ tracked = [s \in Streams |-> [streak |-> 0, degraded |-> FALSE]]
    /\ queueFailed = FALSE
    /\ down = endpointScene.down
    /\ tick = 0
    /\ endpointSpent = [what \in EndpointSpending |-> 0]

-----------------------------------------------------------------------------
(* The manager (rpcEndpointManager.ts)                                       *)

Cooling(e) == endpoints[e].until > tick

Available(excluded) == {e \in Priorities \ excluded : ~Cooling(e)}

\* The endpoint asked for: the first one that is not cooling down, or else
\* whichever was active.
Picked == IF Available({}) # {} THEN Min(Available({})) ELSE active

Degraded == Cooling(Picked) \/ degradedUntil > tick

GetActiveEndpoint ==
    /\ active' = Picked
    /\ degradedUntil' = IF Cooling(Picked) THEN endpoints[Picked].until
                        ELSE IF Degraded THEN degradedUntil ELSE 0

\* A mutant: the threshold must be passed, not met.
TrippedLate(e) == endpoints[e].failures + 1 > FailureThreshold

Tripped(e) == endpoints[e].failures + 1 >= FailureThreshold

RecordFailure(e) ==
    IF ~Tripped(e)
    THEN /\ endpoints' = [endpoints EXCEPT ![e].failures = @ + 1]
         /\ UNCHANGED <<active, degradedUntil>>
    ELSE /\ endpoints' = [endpoints EXCEPT ![e] = [failures |-> 0, until |-> tick + Cooldown]]
         /\ IF Available({e}) # {}
            THEN active' = Min(Available({e})) /\ UNCHANGED degradedUntil
            ELSE degradedUntil' = tick + Cooldown /\ UNCHANGED active

\* A mutant: an answer does not end the cooldown.
RecordSuccessStillCooling(e) ==
    /\ endpoints' = [endpoints EXCEPT ![e].failures = 0]
    /\ active' = e
    /\ UNCHANGED degradedUntil

RecordSuccess(e) ==
    /\ endpoints' = [endpoints EXCEPT ![e] = [failures |-> 0, until |-> 0]]
    /\ active' = e
    /\ degradedUntil' = 0

-----------------------------------------------------------------------------
(* The health of the streams and of the service                              *)

StreamSuccess(s, degraded) ==
    tracked' = [tracked EXCEPT ![s] = [streak |-> 0, degraded |-> degraded]]

StreamFailure(s, degraded) ==
    tracked' = [tracked EXCEPT ![s] =
        [streak |-> Min({@.streak + 1, StreakCap}), degraded |-> degraded]]

StreamHealth ==
    IF \E s \in Streams : tracked[s].streak >= 3 THEN "error"
    ELSE IF \E s \in Streams : tracked[s].degraded THEN "degraded" ELSE "ok"

\* An error of the queue client is kept until the service is restarted.
ServiceHealth == IF queueFailed THEN "error" ELSE StreamHealth

-----------------------------------------------------------------------------
(* A live cycle of a stream                                                  *)

Underway(s) == Cardinality({i \in DOMAIN calls : calls[i].stream = s})

StartCall(s) ==
    /\ Underway(s) < endpointScene.calls
    /\ GetActiveEndpoint
    /\ calls' = Append(calls, [stream |-> s, step |-> "status", endpoint |-> Picked,
                               degraded |-> Degraded, first |-> Degraded])
    /\ UNCHANGED <<endpoints, tracked, queueFailed, down, tick, endpointSpent>>

\* The cursor was read; the adapter asks the manager again and calls.
Pull(i) ==
    /\ calls[i].step = "status"
    /\ GetActiveEndpoint
    /\ calls' = [calls EXCEPT ![i].step = "pull", ![i].endpoint = Picked,
                              ![i].degraded = Degraded]
    /\ UNCHANGED <<endpoints, tracked, queueFailed, down, tick, endpointSpent>>

Over(i) == calls' = RemoveAt(calls, i)

\* The endpoint answers; the batch is then stored, or storing it fails.
Answered(i) ==
    /\ calls[i].step = "pull"
    /\ calls[i].endpoint \notin down
    /\ RecordSuccess(calls[i].endpoint)
    /\ Over(i)
    /\ \/ StreamSuccess(calls[i].stream, calls[i].degraded) /\ UNCHANGED endpointSpent
       \/ StreamFailure(calls[i].stream, calls[i].first) /\ SpendHere("storage")
    /\ UNCHANGED <<queueFailed, down, tick>>

\* The call fails.  The adapter records errors it can take for retryable ones;
\* the chain gateway's wrapper marks all it wraps as not retryable.
Unanswered(i) ==
    /\ calls[i].step = "pull"
    /\ calls[i].endpoint \in down
    /\ IF endpointScene.wraps THEN UNCHANGED <<endpoints, active, degradedUntil>>
                              ELSE RecordFailure(calls[i].endpoint)
    /\ StreamFailure(calls[i].stream, calls[i].degraded)
    /\ Over(i)
    /\ UNCHANGED <<queueFailed, down, tick, endpointSpent>>

\* The cursor could not be read.
Unread(i) ==
    /\ calls[i].step = "status"
    /\ SpendHere("storage")
    /\ StreamFailure(calls[i].stream, calls[i].first)
    /\ Over(i)
    /\ UNCHANGED <<endpoints, active, degradedUntil, queueFailed, down, tick>>

-----------------------------------------------------------------------------
(* The world                                                                 *)

Flip(e) ==
    /\ SpendHere("flip")
    /\ down' = IF e \in down THEN down \ {e} ELSE down \cup {e}
    /\ UNCHANGED <<endpoints, active, degradedUntil, calls, tracked, queueFailed, tick>>

QueueError ==
    /\ ~queueFailed
    /\ SpendHere("queue")
    /\ queueFailed' = TRUE
    /\ UNCHANGED <<endpoints, active, degradedUntil, calls, tracked, down, tick>>

PassTick ==
    /\ tick < MaxTick
    /\ tick' = tick + 1
    /\ UNCHANGED <<endpoints, active, degradedUntil, calls, tracked, queueFailed, down,
                   endpointSpent>>

Proceed(s) ==
    \E i \in DOMAIN calls :
        calls[i].stream = s /\ (Pull(i) \/ Answered(i) \/ Unanswered(i) \/ Unread(i))

EndpointsNext ==
    /\ \/ \E s \in endpointScene.streams : StartCall(s) \/ Proceed(s)
       \/ \E e \in Priorities : Flip(e)
       \/ QueueError
       \/ PassTick
    /\ UNCHANGED endpointScene

EndpointsSpec == EndpointsInit /\ [][EndpointsNext]_endpointVars

\* The timer starts the cycle of every stream again and again, and the calls of
\* every stream are answered or time out.
EndpointsFairness ==
    /\ \A s \in Streams :
          /\ WF_endpointVars(s \in endpointScene.streams /\ StartCall(s)
                                /\ UNCHANGED endpointScene)
          /\ WF_endpointVars(Proceed(s) /\ UNCHANGED endpointScene)

-----------------------------------------------------------------------------
(* Properties                                                                *)

\* Every variable has its type, and no endpoint counts up to its threshold
\* without being put aside.
EndpointsTypeOK ==
    /\ endpoints \in [Priorities -> EndpointState]
    /\ active \in Priorities
    /\ degradedUntil \in Nat
    /\ calls \in Seq(CallType)
    /\ tracked \in [Streams -> StreamState]
    /\ queueFailed \in BOOLEAN
    /\ down \subseteq Priorities
    /\ tick \in 0 .. MaxTick
    /\ \A e \in Priorities : endpoints[e].failures < FailureThreshold

\* The first outage: until a cooldown ends, with no other fault.
FirstOutage ==
    /\ \E e \in Priorities : e \notin endpointScene.down
    /\ \A what \in EndpointSpending : endpointSpent[what] = 0
    /\ tick < Cooldown

\* While another endpoint answers, each endpoint that does not answer costs a stream
\* no more failures in a row than the threshold and the calls that were under way
\* when it was met, until the first cooldown is over.
FailoverIsPrompt ==
    FirstOutage =>
        \A s \in Streams :
            tracked[s].streak
               <= Cardinality(endpointScene.down) * (FailureThreshold + endpointScene.calls - 1)

\* The same of a gateway that lets its errors through.
OutageIsShort == ~endpointScene.wraps => FailoverIsPrompt

\* /healthz recovers: once all endpoints answer for good and no queue error was
\* seen, the service reports ok again, even before the cooldowns are over.
HealthRecovers ==
    <>[](down = {}) => <>[](queueFailed \/ ServiceHealth = "ok")
===============================================================================
