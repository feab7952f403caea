------------------------------- MODULE Reports -------------------------------
(***************************************************************************)
(* Reconciliation reports in the tasks service: the jobs of the queue       *)
(* indexer.reconcile, the worker that files a report and sends its          *)
(* notifications, the ledger row in PostgreSQL and the reviewer who moves   *)
(* it on.                                                                   *)
(*                                                                          *)
(* The module follows ONE report, which always has one notification, and    *)
(* notifications are enabled.  What the event indexer sends after a replay  *)
(* is not in the form the worker parses; a report is filed only from jobs   *)
(* sent in the worker's own form.                                           *)
(***************************************************************************)
EXTENDS Naturals, Sequences

CONSTANTS
    Workers,         \* instances of apps/indexer/tasks
    Threshold,       \* config.thresholds.rpcFailure
    SenderRetries,   \* retryLimit of the sender's queue client
    ReportScenarios  \* the situations explored, see ReportScene

ReportSpending == {"send", "replay", "review", "repeat", "fault", "outside", "expiry", "crash"}
ReportScene == [workers : SUBSET Workers, budget : [ReportSpending -> Nat]]

ASSUME ReportsAssumption ==
    /\ Threshold \in Nat \ {0}
    /\ SenderRetries \in Nat
    /\ ReportScenarios \subseteq ReportScene

VARIABLES
    report,       \* the row of reconciliation_report_ledgers
    mailed,       \* how often the notification was sent
    reportJobs,   \* the pg-boss jobs, in the order of sending
    handlers,     \* each worker's chain of handlers, the head running
    review,       \* the reviewer's request being served
    reportSpent,  \* how much of the budget is used
    reportScene   \* the situation explored

reportVars == <<report, mailed, reportJobs, handlers, review, reportSpent, reportScene>>

-----------------------------------------------------------------------------
ReportStatuses == {"pending_review", "in_review", "resolved", "needs_attention"}

ReportGraph ==
    [ pending_review  |-> {"pending_review", "in_review", "needs_attention"},
      in_review       |-> {"in_review", "resolved", "needs_attention"},
      resolved        |-> {"resolved", "needs_attention"},
      needs_attention |-> {"needs_attention", "in_review"} ]

\* job 0: no row.  audit counts the notifications the row says were sent.
NoReport == [job |-> 0, status |-> "none", attempts |-> 0, audit |-> 0]
Row      == [job : Nat, status : ReportStatuses, attempts : Nat, audit : Nat]

ReportJob == [readable : BOOLEAN, retries : Nat,
              state : {"created", "retry", "active", "completed", "failed"}]
HandlerType == [job : Nat \ {0}, attempt : Nat, audit : Nat, abandoned : BOOLEAN,
                step : {"read", "upsert", "mail", "check", "write",
                        "flag", "flagging", "done", "throw"}]
NoReview   == [step |-> "none"]
ReviewType == [seen : Row, to : ReportStatuses, step : {"check", "write"}]

SpendOn(what) ==
    /\ reportSpent[what] < reportScene.budget[what]
    /\ reportSpent' = [reportSpent EXCEPT ![what] = @ + 1]

GivenBack(job) ==
    [job EXCEPT !.state = IF job.retries < SenderRetries THEN "retry" ELSE "failed"]

TakenUp(job) ==
    [job EXCEPT !.state = "active", !.retries = IF job.state = "retry" THEN @ + 1 ELSE @]

ReportsInit ==
    /\ report = NoReport
    /\ mailed = 0
    /\ reportJobs = <<>>
    /\ handlers = [w \in Workers |-> <<>>]
    /\ review = NoReview
    /\ reportSpent = [what \in ReportSpending |-> 0]
    /\ reportScene \in ReportScenarios

-----------------------------------------------------------------------------
(* The queue                                                                 *)

Enqueued(readable) ==
    reportJobs' = Append(reportJobs, [readable |-> readable, retries |-> 0, state |-> "created"])

\* The event indexer sends the report of a replay: its range is one field and
\* its differences have another name, so the worker's strict schema refuses it.
SendReplayReport ==
    /\ SpendOn("replay")
    /\ Enqueued(FALSE)
    /\ UNCHANGED <<report, mailed, handlers, review>>

SendReport ==
    /\ SpendOn("send")
    /\ Enqueued(TRUE)
    /\ UNCHANGED <<report, mailed, handlers, review>>

\* A worker takes a job once it has settled the last one; a handler that was
\* given up keeps its place at the head of the contest's chain.
TakeUp(w, j) ==
    /\ reportJobs[j].state \in {"created", "retry"}
    /\ \A i \in DOMAIN handlers[w] : handlers[w][i].abandoned
    /\ \/ /\ reportJobs[j].readable
          /\ reportJobs' = [reportJobs EXCEPT ![j] = TakenUp(@)]
          /\ handlers' = [handlers EXCEPT ![w] = Append(@,
                [job |-> j, attempt |-> TakenUp(reportJobs[j]).retries, audit |-> 0,
                 step |-> "read", abandoned |-> FALSE])]
       \/ /\ ~reportJobs[j].readable
          /\ reportJobs' = [reportJobs EXCEPT ![j] = GivenBack(TakenUp(@))]
          /\ UNCHANGED handlers
    /\ UNCHANGED <<report, mailed, review, reportSpent>>

-----------------------------------------------------------------------------
(* The handler (reconciliationProcessor.ts), one action per call it awaits   *)

At(w, step)     == handlers[w] # <<>> /\ handlers[w][1].step = step
Handling(w)     == handlers[w][1]
GoOn(w, step)   == handlers' = [handlers EXCEPT ![w][1].step = step]

\* A mutant: only a report under review counts as processed.
FiledOnlyUnderReview(w) ==
    /\ report # NoReport /\ report.job # Handling(w).job
    /\ report.status \in {"in_review", "resolved"}

Filed(w) ==
    /\ report # NoReport /\ report.job # Handling(w).job
    /\ report.status # "needs_attention"

ReadReport(w) ==
    /\ At(w, "read")
    /\ handlers' = [handlers EXCEPT
          ![w][1].step = IF Filed(w) THEN "done" ELSE "upsert",
          ![w][1].audit = report.audit]
    /\ UNCHANGED <<report, mailed, reportJobs, review, reportSpent>>

\* The row is written over, whatever status it has by now.
UpsertReport(w) ==
    /\ At(w, "upsert")
    /\ report' = [job |-> Handling(w).job, status |-> "pending_review",
                  attempts |-> Handling(w).attempt, audit |-> Handling(w).audit]
    /\ GoOn(w, "mail")
    /\ UNCHANGED <<mailed, reportJobs, review, reportSpent>>

Notify(w) ==
    /\ At(w, "mail")
    /\ mailed' = mailed + 1
    /\ handlers' = [handlers EXCEPT ![w][1].step = "check", ![w][1].audit = @ + 1]
    /\ UNCHANGED <<report, reportJobs, review, reportSpent>>

\* A mutant: attention is asked for at the threshold only.
FailedStatusAtThreshold(w) ==
    IF Handling(w).attempt + 1 = Threshold THEN "needs_attention" ELSE "pending_review"

FailedStatus(w) ==
    IF Handling(w).attempt + 1 >= Threshold THEN "needs_attention" ELSE "pending_review"

Allowed(from, to) == from \in DOMAIN ReportGraph /\ to \in ReportGraph[from]

\* A status transition reads the row and updates it afterwards, without a lock.
CheckReport(w) ==
    /\ \/ /\ At(w, "check")
          /\ GoOn(w, IF Allowed(report.status, "pending_review") THEN "write" ELSE "flag")
       \/ /\ At(w, "flag")
          /\ GoOn(w, IF Allowed(report.status, FailedStatus(w)) THEN "flagging" ELSE "throw")
    /\ UNCHANGED <<report, mailed, reportJobs, review, reportSpent>>

WriteReport(w) ==
    /\ \/ /\ At(w, "write")
          /\ report' = [report EXCEPT !.status = "pending_review",
                           !.attempts = Handling(w).attempt, !.audit = Handling(w).audit]
          /\ GoOn(w, "done")
       \/ /\ At(w, "flagging")
          /\ report' = [report EXCEPT !.status = FailedStatus(w),
                           !.attempts = Handling(w).attempt + 1]
          /\ GoOn(w, "throw")
    /\ UNCHANGED <<mailed, reportJobs, review, reportSpent>>

\* A duplicate counts as done; any other error is thrown to the queue.
SettleReport(w) ==
    /\ At(w, "done") \/ At(w, "throw")
    /\ reportJobs' = IF Handling(w).abandoned THEN reportJobs
                     ELSE [reportJobs EXCEPT ![Handling(w).job] =
                             IF At(w, "done") THEN [@ EXCEPT !.state = "completed"]
                                              ELSE GivenBack(@)]
    /\ handlers' = [handlers EXCEPT ![w] = Tail(@)]
    /\ UNCHANGED <<report, mailed, review, reportSpent>>

-----------------------------------------------------------------------------
(* The reviewer (reconciliationAdmin.ts)                                     *)

\* The route reads the row and asks the graph; the update asks it again and
\* writes back the attempts and the audit that were read first.
RequestReview(to) ==
    /\ review = NoReview
    /\ Allowed(report.status, to)
    /\ SpendOn(IF to = "pending_review" THEN "repeat" ELSE "review")
    /\ review' = [seen |-> report, to |-> to, step |-> "check"]
    /\ UNCHANGED <<report, mailed, reportJobs, handlers>>

CheckReview ==
    /\ review.step = "check"
    /\ review' = IF Allowed(report.status, review.to)
                 THEN [review EXCEPT !.step = "write"] ELSE NoReview
    /\ UNCHANGED <<report, mailed, reportJobs, handlers, reportSpent>>

WriteReview ==
    /\ review.step = "write"
    /\ report' = [report EXCEPT !.status = review.to, !.attempts = review.seen.attempts,
                                !.audit = review.seen.audit]
    /\ review' = NoReview
    /\ UNCHANGED <<mailed, reportJobs, handlers, reportSpent>>

-----------------------------------------------------------------------------
(* Faults                                                                    *)

\* A storage call throws: inside the try the report is flagged, outside it the
\* error goes straight to the queue.
LoseCall(w) ==
    /\ \/ /\ \E step \in {"upsert", "check", "write"} : At(w, step)
          /\ SpendOn("fault")
          /\ GoOn(w, "flag")
       \/ /\ \E step \in {"read", "flag", "flagging"} : At(w, step)
          /\ SpendOn("outside")
          /\ GoOn(w, "throw")
    /\ UNCHANGED <<report, mailed, reportJobs, review>>

\* pg-boss gives a job up; its handler runs on.
ExpireReport(w, i) ==
    /\ ~handlers[w][i].abandoned
    /\ handlers[w][i].step \notin {"done", "throw"}
    /\ SpendOn("expiry")
    /\ reportJobs' = [reportJobs EXCEPT ![handlers[w][i].job] = GivenBack(@)]
    /\ handlers' = [handlers EXCEPT ![w][i].abandoned = TRUE]
    /\ UNCHANGED <<report, mailed, review>>

StopWorker(w) ==
    /\ SpendOn("crash")
    /\ handlers' = [handlers EXCEPT ![w] = <<>>]
    /\ UNCHANGED <<report, mailed, reportJobs, review>>

\* Maintenance gives back a job that nobody works on.
GiveBackLost(j) ==
    /\ reportJobs[j].state = "active"
    /\ \A w \in Workers : \A i \in DOMAIN handlers[w] :
          handlers[w][i].job = j => handlers[w][i].abandoned
    /\ reportJobs' = [reportJobs EXCEPT ![j] = GivenBack(@)]
    /\ UNCHANGED <<report, mailed, handlers, review, reportSpent>>

-----------------------------------------------------------------------------
Handle(w) ==
    \/ ReadReport(w) \/ UpsertReport(w) \/ Notify(w) \/ CheckReport(w) \/ WriteReport(w)
    \/ SettleReport(w)

ReportsNext ==
    /\ \/ SendReplayReport \/ SendReport
       \/ \E w \in reportScene.workers :
             \/ \E j \in DOMAIN reportJobs : TakeUp(w, j)
             \/ Handle(w) \/ LoseCall(w) \/ StopWorker(w)
             \/ \E i \in DOMAIN handlers[w] : ExpireReport(w, i)
       \/ \E j \in DOMAIN reportJobs : GiveBackLost(j)
       \/ \E to \in ReportStatuses : RequestReview(to)
       \/ CheckReview \/ WriteReview
    /\ UNCHANGED reportScene

ReportsSpec == ReportsInit /\ [][ReportsNext]_reportVars

-----------------------------------------------------------------------------
(* Properties                                                                *)

\* Every variable has its type; no job is tried more often than the queue
\* allows, and every handler is of a job that was sent in a readable form.
ReportsTypeOK ==
    /\ report \in Row \cup {NoReport}
    /\ mailed \in Nat
    /\ reportJobs \in Seq(ReportJob)
    /\ handlers \in [Workers -> Seq(HandlerType)]
    /\ review \in ReviewType \cup {NoReview}
    /\ reportSpent \in [ReportSpending -> Nat]
    /\ \A j \in DOMAIN reportJobs : reportJobs[j].retries <= SenderRetries
    /\ \A w \in Workers : \A i \in DOMAIN handlers[w] :
          reportJobs[handlers[w][i].job].readable

\* The row never claims a notification that was not sent: retries, duplicate
\* jobs, overwriting reviewers and crashes can only lose entries, which is why
\* a notification may be sent again.
AuditIsOfSent == report.audit <= mailed

\* One instance of the service works on the queue.
Solitary == \E w \in Workers : reportScene.workers = {w}

\* With one worker a report whose job was given up after every attempt failed
\* inside the try is marked for attention: no later attempt leaves it looking
\* like one that was filed.  (With two, a handler that checked the row before it
\* was flagged writes "pending_review" over the flag.)
GivenUpIsFlagged ==
    (/\ Solitary
     /\ report # NoReport
     /\ reportJobs[report.job].state = "failed"
     /\ \A w \in Workers : handlers[w] = <<>>
     /\ \A what \in {"review", "repeat", "outside", "expiry", "crash"} : reportSpent[what] = 0)
        => report.status = "needs_attention"

\* The row a reviewer reads tells the truth about its report: what was sent, and
\* that it was given up.
RowIsTrue == AuditIsOfSent /\ GivenUpIsFlagged

\* With one worker a report that waits for its review stays with the job that
\* filed it: a duplicate job takes over only what needed attention, whatever
\* timeouts, retries and reviewers come between its read and its write, unless a
\* reviewer has put a report "pending" that was pending when it was read.
OwnerKept ==
    [][(Solitary /\ report.status = "pending_review" /\ reportSpent["repeat"] = 0)
          => report'.job = report.job]_reportVars
===============================================================================
