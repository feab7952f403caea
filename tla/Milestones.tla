------------------------------ MODULE Milestones ------------------------------
(***************************************************************************)
(* The milestone queue of the tasks service: pg-boss jobs sent by the event *)
(* indexer and by operators, the workers that process them, the execution   *)
(* record of each milestone in PostgreSQL, the retry and pause controls.    *)
(*                                                                          *)
(* The module follows the milestones of ONE contest: the serial executor    *)
(* and the pause are per contest, so contests do not meet.  A job's start   *)
(* delay and the retry delay are abstracted to "at some later time".        *)
(***************************************************************************)
EXTENDS Naturals, Sequences, FiniteSets

CONSTANTS
    Processes,     \* instances of apps/indexer/tasks
    Milestones,    \* idempotency keys of the contest
    MaxAttempts,   \* config.thresholds.rpcFailure
    EventRetries,  \* retryLimit of the event indexer's queue client
    Scenarios      \* the deployments explored, see Scenario

Spending == {"dispatch", "retry", "pause", "expiry", "crash", "fault"}

\* The instances that run, and bounds on what their environment does.
Scenario == [processes : SUBSET Processes, budget : [Spending -> Nat]]

ASSUME ConstantsAssumption ==
    /\ MaxAttempts \in Nat \ {0}
    /\ EventRetries \in Nat
    /\ IsFiniteSet(Processes)
    /\ Scenarios \subseteq Scenario

VARIABLES
    jobs,      \* the pg-boss job table, in the order of sending
    records,   \* milestone_execution_records, by idempotency key
    effects,   \* how often executeMilestone has taken effect
    runs,      \* each process's chain of handler runs, the head running
    paused,    \* pausedContests of each process
    requests,  \* manual retries being served
    spent,     \* how much of the budget is used
    scenario   \* the scenario followed

vars == <<jobs, records, effects, runs, paused, requests, spent, scenario>>

-----------------------------------------------------------------------------
(* Types                                                                     *)

Statuses == {"pending", "in_progress", "retrying", "succeeded", "needs_attention"}
NoRecord == [status |-> "none", attempts |-> 0]
Record   == [status : Statuses, attempts : Nat] \cup {NoRecord}

JobType == [milestone : Milestones, retries : Nat, limit : Nat, keyed : BOOLEAN,
            state : {"created", "retry", "active", "completed", "failed", "expired"}]

Steps == {"begin", "upsert", "execute", "succeed", "succeeding",
          "fail", "failing", "reschedule", "done", "throw"}
RunType == [job : Nat \ {0}, attempt : Nat, tracked : Nat,
            step : Steps, abandoned : BOOLEAN]

RequestType == [process : Processes, milestone : Milestones, attempts : Nat,
                step : {"publish", "check", "write"}]

transitionGraph ==
    [ pending         |-> {"pending", "in_progress", "needs_attention"},
      in_progress     |-> {"in_progress", "succeeded", "retrying", "needs_attention"},
      retrying        |-> {"retrying", "in_progress", "succeeded", "needs_attention"},
      succeeded       |-> {"succeeded"},
      needs_attention |-> {"needs_attention", "in_progress", "retrying"} ]

Larger(a, b) == IF a > b THEN a ELSE b

-----------------------------------------------------------------------------
(* The queue (pg-boss)                                                       *)

Live(job) == job.state \in {"created", "retry", "active"}

NewJob(m, limit, keyed) ==
    [milestone |-> m, retries |-> 0, limit |-> limit, keyed |-> keyed, state |-> "created"]

\* A singleton key is taken while a job with it is created, waiting or active.
KeyTaken(m) ==
    \E j \in DOMAIN jobs : jobs[j].keyed /\ jobs[j].milestone = m /\ Live(jobs[j])

\* publishJob of the tasks service: its own retry limit, keyed by milestone.
Published(m) == Append(jobs, NewJob(m, MaxAttempts - 1, TRUE))

Fetched(job) ==
    [job EXCEPT !.state = "active",
                !.retries = IF job.state = "retry" THEN @ + 1 ELSE @]

\* A failed or timed-out job goes back for another attempt while it has one.
PutBack(job, end) ==
    [job EXCEPT !.state = IF job.retries < job.limit THEN "retry" ELSE end]

\* Runs are of jobs the process still answers for, unless the timer gave up.
Held(p, j) == \E i \in DOMAIN runs[p] : runs[p][i].job = j /\ ~runs[p][i].abandoned

-----------------------------------------------------------------------------
(* The running handler of a process                                          *)

Running(p, step) == runs[p] # <<>> /\ runs[p][1].step = step
Run(p)           == runs[p][1]
MilestoneOf(p)   == jobs[Run(p).job].milestone
RecordOf(p)      == records[MilestoneOf(p)]
Goto(p, step)    == runs' = [runs EXCEPT ![p][1].step = step]
Leave(p)         == runs' = [runs EXCEPT ![p] = Tail(@)]

CanTransition(from, to) == from \in DOMAIN transitionGraph /\ to \in transitionGraph[from]

\* A mutant: the record is not consulted before the milestone is executed.
NeverProcessed(record) == FALSE

AlreadyProcessed(record) == record.status = "succeeded"

TrackedAttempts(record, attempt) == Larger(record.attempts, attempt)

InitialRecord(run) ==
    [status   |-> IF run.attempt > 0 THEN "retrying" ELSE "in_progress",
     attempts |-> run.tracked]

\* A mutant: the threshold is met only exactly.
FailureRecordAtThreshold(run) ==
    [status   |-> IF run.tracked + 1 = MaxAttempts THEN "needs_attention" ELSE "retrying",
     attempts |-> run.tracked + 1]

FailureRecord(run) ==
    [status   |-> IF run.tracked + 1 >= MaxAttempts THEN "needs_attention" ELSE "retrying",
     attempts |-> run.tracked + 1]

\* A mutant: a storage call that fails before the try counts as handled.
HandlerSwallowing(step) ==
    CASE step \in {"succeed", "succeeding"} -> "fail"
      [] step \in {"begin", "upsert"}       -> "done"
      [] step \in {"fail", "failing", "reschedule", "done"} -> "throw"
      [] OTHER                              -> step

\* Where the exception of a failed storage call leads, by the step that made
\* it: process() lets it out before its try and inside its catch.
Handler(step) ==
    CASE step \in {"succeed", "succeeding"}                          -> "fail"
      [] step \in {"begin", "upsert", "fail", "failing",
                   "reschedule", "done"}                             -> "throw"
      [] OTHER                                                       -> step

Spend(what) ==
    /\ spent[what] < scenario.budget[what]
    /\ spent' = [spent EXCEPT ![what] = @ + 1]

-----------------------------------------------------------------------------
Init ==
    /\ jobs = <<>>
    /\ records = [m \in Milestones |-> NoRecord]
    /\ effects = [m \in Milestones |-> 0]
    /\ runs = [p \in Processes |-> <<>>]
    /\ paused = [p \in Processes |-> FALSE]
    /\ requests = {}
    /\ spent = [what \in Spending |-> 0]
    /\ scenario \in Scenarios

\* The event indexer sends a milestone; an overlapping cycle may send it again.
Dispatch(m) ==
    /\ Spend("dispatch")
    /\ jobs' = Append(jobs, NewJob(m, EventRetries, FALSE))
    /\ UNCHANGED <<records, effects, runs, paused, requests>>

\* A process takes a job once the one it took before is settled.  The handler
\* of a job the timer gave up may still run: the new one waits behind it.
Fetch(p, j) ==
    /\ jobs[j].state \in {"created", "retry"}
    /\ \A i \in DOMAIN runs[p] : runs[p][i].abandoned
    /\ jobs' = [jobs EXCEPT ![j] = Fetched(@)]
    /\ runs' = [runs EXCEPT ![p] = Append(@,
                  [job |-> j, attempt |-> Fetched(jobs[j]).retries, tracked |-> 0,
                   step |-> "begin", abandoned |-> FALSE])]
    /\ UNCHANGED <<records, effects, paused, requests, spent>>

-----------------------------------------------------------------------------
(* The handler, one action per storage call or effect                        *)

Defer(p) ==
    /\ Running(p, "begin")
    /\ paused[p]
    /\ Goto(p, "reschedule")
    /\ UNCHANGED <<jobs, records, effects, paused, requests, spent>>

Begin(p) ==
    /\ Running(p, "begin")
    /\ ~paused[p]
    /\ runs' = [runs EXCEPT ![p][1] =
                 IF AlreadyProcessed(RecordOf(p))
                 THEN [@ EXCEPT !.step = "done"]
                 ELSE [@ EXCEPT !.step = "upsert",
                                !.tracked = TrackedAttempts(RecordOf(p), Run(p).attempt)]]
    /\ UNCHANGED <<jobs, records, effects, paused, requests, spent>>

Upsert(p) ==
    /\ Running(p, "upsert")
    /\ records' = [records EXCEPT ![MilestoneOf(p)] = InitialRecord(Run(p))]
    /\ Goto(p, "execute")
    /\ UNCHANGED <<jobs, effects, paused, requests, spent>>

\* A mutant: an exception of executeMilestone is swallowed.
ExecuteQuietly(p) ==
    /\ Running(p, "execute")
    /\ Goto(p, "succeed")
    /\ \/ effects' = [effects EXCEPT ![MilestoneOf(p)] = @ + 1]
       \/ UNCHANGED effects
    /\ UNCHANGED <<jobs, records, paused, requests, spent>>

Execute(p) ==
    /\ Running(p, "execute")
    /\ \/ /\ effects' = [effects EXCEPT ![MilestoneOf(p)] = @ + 1]
          /\ Goto(p, "succeed")
       \/ /\ Goto(p, "fail")
          /\ UNCHANGED effects
    /\ UNCHANGED <<jobs, records, paused, requests, spent>>

\* transitionMilestoneExecutionStatus reads the row, then updates it: the read
\* takes no lock, so another process or an operator may write in between.
CheckTransition(p) ==
    /\ \/ /\ Running(p, "succeed")
          /\ Goto(p, IF CanTransition(RecordOf(p).status, "succeeded")
                     THEN "succeeding" ELSE "fail")
       \/ /\ Running(p, "fail")
          /\ Goto(p, IF CanTransition(RecordOf(p).status, FailureRecord(Run(p)).status)
                     THEN "failing" ELSE "throw")
    /\ UNCHANGED <<jobs, records, effects, paused, requests, spent>>

WriteTransition(p) ==
    /\ \/ /\ Running(p, "succeeding")
          /\ records' = [records EXCEPT ![MilestoneOf(p)] =
                           [status |-> "succeeded", attempts |-> Run(p).tracked]]
          /\ Goto(p, "done")
       \/ /\ Running(p, "failing")
          /\ records' = [records EXCEPT ![MilestoneOf(p)] = FailureRecord(Run(p))]
          /\ Goto(p, "throw")
    /\ UNCHANGED <<jobs, effects, paused, requests, spent>>

\* onComplete of a deferred job: send it again under the milestone's key,
\* unless it is at its retry limit or the key is taken.
Reschedule(p) ==
    /\ Running(p, "reschedule")
    /\ jobs' = IF Run(p).attempt < jobs[Run(p).job].limit /\ ~KeyTaken(MilestoneOf(p))
               THEN Published(MilestoneOf(p)) ELSE jobs
    /\ Goto(p, "done")
    /\ UNCHANGED <<records, effects, paused, requests, spent>>

\* pg-boss completes or fails the job, unless its timer already did.
Settle(p) ==
    /\ \/ Running(p, "done")
       \/ Running(p, "throw")
    /\ jobs' = IF Run(p).abandoned THEN jobs
               ELSE [jobs EXCEPT ![Run(p).job] =
                       IF Run(p).step = "done" THEN [@ EXCEPT !.state = "completed"]
                                               ELSE PutBack(@, "failed")]
    /\ Leave(p)
    /\ UNCHANGED <<records, effects, paused, requests, spent>>

-----------------------------------------------------------------------------
(* The operator (milestoneControl.ts)                                        *)

SetContestMode(p, mode) ==
    /\ paused[p] # mode
    /\ mode => Spend("pause")
    /\ ~mode => UNCHANGED spent
    /\ paused' = [paused EXCEPT ![p] = mode]
    /\ UNCHANGED <<jobs, records, effects, runs, requests>>

ALLOWED_RETRY_STATUSES == {"needs_attention", "retrying"}

RetryMilestone(p, m) ==
    /\ Spend("retry")
    /\ records[m].status \in ALLOWED_RETRY_STATUSES
    /\ requests' = requests \cup {[process |-> p, milestone |-> m, step |-> "publish",
                                   attempts |-> records[m].attempts + 1]}
    /\ UNCHANGED <<jobs, records, effects, runs, paused>>

Proceed(r, step) == requests' = (requests \ {r}) \cup {[r EXCEPT !.step = step]}
Answer(r)        == requests' = requests \ {r}

RetryPublish(r) ==
    /\ r.step = "publish"
    /\ \/ /\ KeyTaken(r.milestone)
          /\ Answer(r)
          /\ UNCHANGED jobs
       \/ /\ ~KeyTaken(r.milestone)
          /\ jobs' = Published(r.milestone)
          /\ Proceed(r, "check")
    /\ UNCHANGED <<records, effects, runs, paused, spent>>

RetryCheck(r) ==
    /\ r.step = "check"
    /\ IF CanTransition(records[r.milestone].status, "retrying")
       THEN Proceed(r, "write") ELSE Answer(r)
    /\ UNCHANGED <<jobs, records, effects, runs, paused, spent>>

RetryWrite(r) ==
    /\ r.step = "write"
    /\ records' = [records EXCEPT ![r.milestone] =
                     [status |-> "retrying", attempts |-> r.attempts]]
    /\ Answer(r)
    /\ UNCHANGED <<jobs, effects, runs, paused, spent>>

-----------------------------------------------------------------------------
(* Faults                                                                    *)

\* A storage call of the running handler throws; nothing was written.
StorageFault(p) ==
    /\ runs[p] # <<>>
    /\ Handler(Run(p).step) # Run(p).step
    /\ Spend("fault")
    /\ Goto(p, Handler(Run(p).step))
    /\ UNCHANGED <<jobs, records, effects, paused, requests>>

\* The job's time is up: pg-boss fails it, the handler runs on.
Expire(p, i) ==
    /\ ~runs[p][i].abandoned
    /\ runs[p][i].step \notin {"done", "throw"}
    /\ Spend("expiry")
    /\ jobs' = [jobs EXCEPT ![runs[p][i].job] = PutBack(@, "failed")]
    /\ runs' = [runs EXCEPT ![p][i].abandoned = TRUE]
    /\ UNCHANGED <<records, effects, paused, requests>>

\* A process stops and is started again: what it kept in memory is gone.
Crash(p) ==
    /\ Spend("crash")
    /\ runs' = [runs EXCEPT ![p] = <<>>]
    /\ paused' = [paused EXCEPT ![p] = FALSE]
    /\ requests' = {r \in requests : r.process # p}
    /\ UNCHANGED <<jobs, records, effects>>

\* pg-boss maintenance finds an active job that no process answers for.
ExpireLost(j) ==
    /\ jobs[j].state = "active"
    /\ \A p \in Processes : ~Held(p, j)
    /\ jobs' = [jobs EXCEPT ![j] = PutBack(@, "expired")]
    /\ UNCHANGED <<records, effects, runs, paused, requests, spent>>

-----------------------------------------------------------------------------
Handle(p) ==
    \/ Defer(p) \/ Begin(p) \/ Upsert(p) \/ Execute(p) \/ CheckTransition(p)
    \/ WriteTransition(p) \/ Reschedule(p) \/ Settle(p)

Poll(p)   == \E j \in DOMAIN jobs : Fetch(p, j)
Maintain  == \E j \in DOMAIN jobs : ExpireLost(j)
Serve     == \E r \in requests : RetryPublish(r) \/ RetryCheck(r) \/ RetryWrite(r)

Disturb(p) ==
    \/ StorageFault(p)
    \/ \E i \in DOMAIN runs[p] : Expire(p, i)
    \/ Crash(p)

Step ==
    \/ \E m \in Milestones : Dispatch(m)
    \/ \E p \in scenario.processes : Poll(p) \/ Handle(p) \/ Disturb(p)
    \/ \E p \in scenario.processes, mode \in BOOLEAN : SetContestMode(p, mode)
    \/ \E p \in scenario.processes, m \in Milestones : RetryMilestone(p, m)
    \/ Serve
    \/ Maintain

Next == Step /\ UNCHANGED scenario

Spec == Init /\ [][Next]_vars

\* A process polls, a handler runs to its end, maintenance runs.
FairSpec ==
    /\ Spec
    /\ \A p \in Processes :
          /\ WF_vars(p \in scenario.processes /\ Poll(p) /\ UNCHANGED scenario)
          /\ WF_vars(Handle(p) /\ UNCHANGED scenario)
    /\ WF_vars(Maintain /\ UNCHANGED scenario)

-----------------------------------------------------------------------------
(* Properties                                                                *)

\* Every variable has its type: jobs only of known milestones and never past
\* their retry limit, runs and requests only at the steps the handlers have.
TypeOK ==
    /\ jobs \in Seq(JobType)
    /\ records \in [Milestones -> Record]
    /\ effects \in [Milestones -> Nat]
    /\ runs \in [Processes -> Seq(RunType)]
    /\ paused \in [Processes -> BOOLEAN]
    /\ requests \in SUBSET RequestType
    /\ spent \in [Spending -> Nat]
    /\ scenario \in Scenarios
    /\ \A p \in Processes : \A i \in DOMAIN runs[p] : runs[p][i].job \in DOMAIN jobs
    /\ \A j \in DOMAIN jobs : jobs[j].retries <= jobs[j].limit

\* A milestone is recorded as succeeded only after executeMilestone took
\* effect for it, whatever fails, expires or is retried in between.
SucceededMeansDone ==
    \A m \in Milestones : records[m].status = "succeeded" => effects[m] > 0

\* With one process the serial executor and the record keep the effect single:
\* every repetition is paid for by a storage fault, a crash or an operator's
\* retry.  Duplicate events, failed attempts and timeouts alone repeat nothing.
Alone == Cardinality(scenario.processes) = 1

RepetitionsPaidFor ==
    Alone => \A m \in Milestones :
                 effects[m] <= 1 + spent["fault"] + spent["crash"] + spent["retry"]

Attended(m) == records[m].status = "succeeded" \/ records[m].status \in ALLOWED_RETRY_STATUSES

Pending(m) ==
    \/ \E j \in DOMAIN jobs : jobs[j].milestone = m /\ Live(jobs[j])
    \/ \E p \in Processes : \E i \in DOMAIN runs[p] : jobs[runs[p][i].job].milestone = m

\* Deferrals and operators' retries between them never put a second job of one
\* milestone in line: each is refused while the other's is unsettled.
OneScheduled ==
    \A i, j \in DOMAIN jobs :
        (/\ jobs[i].keyed /\ jobs[j].keyed /\ jobs[i].milestone = jobs[j].milestone
         /\ Live(jobs[i]) /\ Live(jobs[j])) => i = j

Mishaps == spent["fault"] + spent["crash"] + spent["expiry"]

\* While fewer things go wrong than a job has attempts, a milestone that was
\* sent and never paused is done, or still has a job or a handler at work, or
\* has a record that the operator's retry accepts: it is never simply gone.
\* (With two instances a handler that pg-boss gave up may write the record of
\* its first attempt after the job's last one: only one process rules that out.)
NeverGone ==
    (/\ Mishaps < MaxAttempts /\ Mishaps <= EventRetries
     /\ spent["pause"] = 0
     /\ Alone \/ spent["expiry"] = 0) =>
        \A j \in DOMAIN jobs : LET m == jobs[j].milestone IN Attended(m) \/ Pending(m)

\* Nothing happens but what the queue does itself: duplicates and timeouts.
Undisturbed == \A what \in {"retry", "pause", "crash", "fault"} : scenario.budget[what] = 0

\* A milestone that was sent is in the end succeeded or marked for attention,
\* whatever duplicates, failed attempts and timeouts come between.
EventuallySettled ==
    Undisturbed => \A m \in Milestones :
        (\E j \in DOMAIN jobs : jobs[j].milestone = m)
            ~> [](records[m].status \in {"succeeded", "needs_attention"})

\* With one process the attempt counter of a milestone never goes down while
\* no operator has intervened: no job forgets an attempt another one made.
AttemptsKept ==
    [][\A m \in Milestones :
         (Alone /\ spent["retry"] = 0) => records'[m].attempts >= records[m].attempts]_vars

\* No attempt is forgotten, and so they run out: a milestone ends settled.
AttemptsRunOut == AttemptsKept /\ EventuallySettled

\* README: once attempts reach the threshold the milestone is marked for
\* attention, when nothing is left that could still finish it (a crash in the
\* last attempt leaves it unmarked, see the README).
ExhaustedIsMarked ==
    Undisturbed => \A m \in Milestones :
        (records[m].attempts >= MaxAttempts /\ ~Pending(m)) =>
            records[m].status \in {"succeeded", "needs_attention"}

\* The record and the queue tell the truth of a milestone: a success took effect,
\* one follow-up job at most is in line, and one given up is marked for attention.
BooksAreTrue == SucceededMeansDone /\ OneScheduled /\ ExhaustedIsMarked

=============================================================================
