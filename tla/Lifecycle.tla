------------------------------ MODULE Lifecycle ------------------------------
(***************************************************************************)
(* The lifecycle orchestrator of the tasks service beside one contest:      *)
(* apps/indexer/tasks/src/services/lifecycleOrchestrator.ts with the chain  *)
(* calls of packages/chain/src/lifecycle/contestLifecycle.ts, composed with *)
(* the contest itself (module Contest), on which everyone else keeps acting *)
(* between any two of its steps.                                            *)
(*                                                                          *)
(* The service has calls to sync, freeze, rank and seal a contest, and two  *)
(* of its conversions keep it from ever making them: it takes the array a   *)
(* getter of several values answers for an object, so no phase ever ends    *)
(* for it, and it asks for scores under vault ids the contract does not     *)
(* have, so none is ever there.  The steps "sync", "freeze", "rank" and     *)
(* "seal" below are where those calls would be; ServiceTypeOK says that no  *)
(* tick gets to one.  What is left to the service is to settle.             *)
(*                                                                          *)
(* A transaction is sent in one step and its effect is that step: what the  *)
(* others do while it waits in the mempool comes before it.  A reverted     *)
(* transaction is an exception, which ends the tick for this contest.       *)
(***************************************************************************)
EXTENDS Contest

CONSTANT MaxFailures     \* failed RPC calls and restarts explored

ASSUME LifecycleAssumption == MaxFailures \in Nat

VARIABLES
    step,        \* where processContest is
    entries,     \* the participants extractParticipants found
    seen,        \* the contest state it read
    unsettled,   \* entries still to be settled in this tick
    listed,      \* participants in the contest's metadata
    failures

service == <<step, entries, seen, unsettled, listed, failures>>
lvars == <<vars, service>>

Snapshot == [state |-> state, unranked |-> leaderboardVersion = 0,
             allSettled |-> participantCount = settledCount]

LifecycleInit ==
    /\ Init
    /\ step = "idle"
    /\ entries = {}
    /\ seen = Snapshot
    /\ unsettled = {}
    /\ listed = {}
    /\ failures = 0

-----------------------------------------------------------------------------
(* The surroundings                                                          *)

\* Anybody's transaction, and time.
Outside == Next /\ UNCHANGED service

\* The event indexer writes a registration into the contest's metadata.
Track(p) ==
    /\ p \in registered \ listed
    /\ listed' = listed \cup {p}
    /\ UNCHANGED <<vars, step, entries, seen, unsettled, failures>>

-----------------------------------------------------------------------------
(* What the service makes of the contract's answers                          *)

NaN == "NaN"

\* timeline() answers an array; its elements are read as named fields.
readContestTimeline ==
    [registeringEnds |-> NaN, liveEnds |-> NaN, claimEnds |-> NaN]

\* now >= time in JavaScript: false for NaN.
Reached(time) == time # NaN /\ now >= time

\* The id the contract gives a vault hashes padded arguments, the one the
\* event indexer writes into the metadata hashes packed ones.
ContractVaultId(p) == <<"padded", p>>
IndexedVaultId(p) == <<"packed", p>>

\* vaultSettled answers false for an id it does not know.
ReadsSettled(p) == \E q \in settled : ContractVaultId(q) = IndexedVaultId(p)

-----------------------------------------------------------------------------
(* One tick                                                                  *)

Keep == UNCHANGED <<listed, failures>>

Forget == step' = "idle" /\ entries' = {} /\ unsettled' = {}

\* Leaves processContest; what it had collected is gone.
Leave == Forget /\ UNCHANGED seen /\ Keep

\* handleTick reads the tracked contests; the contest must be deployed.
StartTick ==
    /\ step = "idle"
    /\ state # "Uninitialized"
    /\ step' = "read"
    /\ entries' = listed
    /\ UNCHANGED <<vars, seen, unsettled>>
    /\ Keep

\* The branches of processContest on the state it read.
Branch ==
    CASE state = "Registering" /\ Reached(readContestTimeline.registeringEnds) -> "sync"
      [] state = "Live" /\ Reached(readContestTimeline.liveEnds)               -> "freeze"
      [] state \in {"Frozen", "Sealed"} /\ entries # {}                        -> "scan"
      [] OTHER                                                                 -> "idle"

ReadState ==
    /\ step = "read"
    /\ seen' = Snapshot
    /\ step' = Branch
    /\ entries' = IF Branch = "idle" THEN {} ELSE entries
    /\ UNCHANGED <<vars, unsettled>>
    /\ Keep

\* What follows the reading of the scores, on the state read before it.
AfterScan(pending) ==
    IF pending # {} THEN "settle"
    ELSE CASE seen.state = "Frozen" /\ seen.unranked                     -> "rank"
           [] seen.state = "Frozen" /\ ~seen.unranked /\ seen.allSettled -> "seal"
           [] OTHER                                                      -> "idle"

\* The scores of all entries are read.
Scan ==
    /\ step = "scan"
    /\ unsettled' = {p \in entries : ~ReadsSettled(p)}
    /\ step' = AfterScan(unsettled')
    /\ UNCHANGED <<vars, entries, seen>>
    /\ Keep

ScoreOverflows(p) == \E price \in Prices : RoiMagnitude(Nav(vaults[p], price)) > MaxRoiBps

\* Mutant: a tick settles one participant.
OneATick(p) == {}

StillUnsettled(p) == unsettled \ {p}

\* settle of a participant who is settled already changes nothing.  A revert
\* ends the tick with the others unsettled.
SettleNext(p) ==
    /\ step = "settle"
    /\ p \in unsettled
    /\ \/ /\ Settle(p) \/ (state = "Frozen" /\ p \in settled /\ UNCHANGED vars)
          /\ IF StillUnsettled(p) = {}
             THEN Leave
             ELSE unsettled' = StillUnsettled(p) /\ UNCHANGED <<step, entries, seen>> /\ Keep
       \/ /\ state # "Frozen" \/ (p \notin settled /\ ScoreOverflows(p))
          /\ UNCHANGED vars
          /\ Leave

\* A call to the node fails, or the service restarts: the tick is over.
Fail ==
    /\ step # "idle"
    /\ failures < MaxFailures
    /\ failures' = failures + 1
    /\ Forget
    /\ UNCHANGED <<vars, seen, listed>>

-----------------------------------------------------------------------------
Service ==
    \/ StartTick \/ ReadState \/ Scan
    \/ \E p \in Participants : SettleNext(p)

LifecycleNext ==
    \/ Outside
    \/ \E p \in Participants : Track(p)
    \/ Service
    \/ Fail

LifecycleSpec == LifecycleInit /\ [][LifecycleNext]_lvars

\* The interval timer fires for ever and the indexer keeps up in the end;
\* nobody else has to act.
FairLifecycle ==
    /\ LifecycleSpec
    /\ WF_lvars(Service)
    /\ \A p \in Participants : WF_lvars(Track(p))

-----------------------------------------------------------------------------
(* Properties                                                                *)

\* The tick's variables have their types, no tick gets to one of the calls the
\* conversions rule out, and outside a tick nothing is kept from the last one:
\* a list of a former tick is never acted on.
ServiceTypeOK ==
    /\ step \in {"idle", "read", "scan", "settle"}
    /\ entries \subseteq registered
    /\ listed \subseteq registered
    /\ seen \in [state : Phases, unranked : BOOLEAN, allSettled : BOOLEAN]
    /\ unsettled \subseteq entries
    /\ failures \in 0..MaxFailures
    /\ step = "idle" => entries = {}
    /\ step # "settle" => unsettled = {}
    /\ step \in {"scan", "settle"} => entries # {}

\* Once a contest is frozen everybody who entered is scored in the end, if only
\* the service acts, although a tick ends at the first call that fails and never
\* sees that somebody is scored; unless somebody's return is beyond an int32,
\* which stops those behind as well.
EventuallySettled ==
    (state = "Frozen") ~>
        (settled = registered \/ \E p \in registered \ settled : ScoreOverflows(p))
=============================================================================
