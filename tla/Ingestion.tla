------------------------------- MODULE Ingestion -------------------------------
(***************************************************************************)
(* The event indexer: live cycles and manual replays that pull a contest's  *)
(* events from an RPC endpoint, write them to PostgreSQL, advance the       *)
(* stream's cursor and send milestones to the queue.                        *)
(*                                                                          *)
(* The module follows ONE stream in one process.  An event is its number in *)
(* the contest's history; the chain decides at which block and log index    *)
(* that event stands.  At most one replay runs at a time.                   *)
(***************************************************************************)
EXTENDS Naturals, Sequences, FiniteSets

CONSTANTS
    Cycles,      \* live cycles that may overlap: setInterval does not wait
    History,     \* the kinds of the contest's events, in the order they happen
    MaxBlocks,   \* bound on the height of the chain
    MaxPerBlock, \* bound on the contest's events in a block
    Gaps,        \* how many logs of other contracts may precede them in a block
    Lag,         \* how many blocks an RPC endpoint may be behind the head
    BatchLimit,  \* config.service.maxBatchSize
    KnowsStart,  \* the registry file names the stream's start block
    Lookback,    \* how far back the first log is looked for without it
    ClaimEnds,   \* the first block whose time is not before claimEnds, the window's end
    Budgets      \* bounds on what the environment does, see Spending

Kinds    == {"registration", "frozen", "sealed"}
Spending == {"refresh", "replay", "fault", "domain", "send", "crash", "reorg"}

ASSUME ConstantsAssumption ==
    /\ History \in Seq(Kinds)
    /\ MaxBlocks \in Nat \ {0}
    /\ MaxPerBlock \in Nat
    /\ Gaps \subseteq Nat
    /\ Lag \in Nat
    /\ BatchLimit \in Nat \ {0}
    /\ KnowsStart \in BOOLEAN
    /\ Lookback \in Nat
    /\ ClaimEnds \in Nat
    /\ Budgets \subseteq [Spending -> Nat]

Replay  == "replay"
Workers == Cycles \cup {Replay}

ASSUME ReplayIsNoCycle == Replay \notin Cycles

VARIABLES
    head,      \* height of the chain
    log,       \* where each event of the history mined so far stands
    cursor,    \* the stream's row of ingestion_cursors
    recorded,  \* events in ingestion_events
    applied,   \* events whose domain write took effect
    phase,     \* metadata.phase of the contest's row
    sent,      \* events whose milestone is in the queue
    listed,    \* the stream is in the registry's entries
    mode,      \* the stream's mode in the health tracker
    runs,      \* what each cycle and the replay is doing
    span,      \* what the replay was asked for, and has replayed
    spent,     \* how much of the budget is used
    budget     \* the budget of this behaviour

vars == <<head, log, cursor, recorded, applied, phase, sent, listed, mode, runs, span, spent,
          budget>>
store == <<cursor, recorded, applied, phase, sent>>
chain == <<head, log>>

-----------------------------------------------------------------------------
(* Positions and batches                                                     *)

Position == [block : Nat, index : Nat]

\* The cursor of a stream that has no row yet: before every event.
NoCursor == [block |-> 0, index |-> 0]

Before(p, q) == p.block < q.block \/ (p.block = q.block /\ p.index < q.index)

Covered(k, p) == ~Before(p, log[k])

Oldest(S) == CHOOSE k \in S : \A i \in S : k <= i
Newest(S)  == CHOOSE k \in S : \A i \in S : i <= k

Run == [step   : {"idle", "read", "pull", "write", "apply", "advance", "insert",
                  "update", "dispatch", "request", "report"},
        cursor : Position, batch : SUBSET (1..Len(History)),
        todo   : SUBSET (1..Len(History)), next : Position,
        early  : SUBSET (1..Len(History))]

Idle == [step |-> "idle", cursor |-> NoCursor, batch |-> {}, todo |-> {}, next |-> NoCursor,
         early |-> {}]

IsMilestone(k) == History[k] # "registration"

MilestonesOf(batch) == {k \in batch : IsMilestone(k)}

\* The contract can be sealed at any time; sealContest refuses a time before the
\* end of the row's window.
SealedEarly(k) == History[k] = "sealed" /\ log[k].block < ClaimEnds

LogsIn(from, to) == {k \in DOMAIN log : log[k].block \in from..to}

\* resolveFromBlock: the registry's start block (here 0), or the first log in
\* the last Lookback blocks, or 0 when there is none or the scan failed.
FromBlocks(to) ==
    LET recent == LogsIn(IF to > Lookback THEN to - Lookback ELSE 0, to)
    IN  IF KnowsStart \/ recent = {} THEN {0} ELSE {0, log[Oldest(recent)].block}

\* A mutant: the rest of the cursor's block is taken for done.
IsInLaterBlock(k, c) == c.block < log[k].block

IsAfterCursor(k, c) == Before(c, log[k])

Limited(S) == {k \in S : Cardinality({i \in S : i < k}) < BatchLimit}

\* A mutant: the cursor of the last event seen, not of the last one returned.
NextCursorOfSeen(events, filtered, batch, c, to) ==
    IF filtered # {} THEN log[Newest(filtered)] ELSE c

NextCursor(events, filtered, batch, c, to) ==
    CASE batch # {}                   -> log[Newest(batch)]
      [] batch = {} /\ c # NoCursor   -> c
      [] batch = {} /\ c = NoCursor   ->
            [block |-> IF events = {} THEN to ELSE log[Newest(events)].block, index |-> 0]

\* pullContestEvents: events is what the endpoint has from the resolved block.
Pulled(run, events, c, fromBlock, to) ==
    LET filtered == {k \in events : IsAfterCursor(k, c) /\ log[k].block >= fromBlock}
        batch    == Limited(filtered)
    IN  [run EXCEPT !.step = "write", !.batch = batch, !.todo = batch,
                    !.next = NextCursor(events, filtered, batch, c, to),
                    !.early = {k \in batch : SealedEarly(k)}]

Goto(w, step) == runs' = [runs EXCEPT ![w].step = step]
Stop(w)       == runs' = [runs EXCEPT ![w] = Idle]
At(w, step)   == runs[w].step = step

Spend(what) == spent[what] < budget[what] /\ spent' = [spent EXCEPT ![what] = @ + 1]

-----------------------------------------------------------------------------
Init ==
    /\ head = 1
    /\ log = <<>>
    /\ cursor = NoCursor
    /\ recorded = {}
    /\ applied = {}
    /\ phase = "registration"
    /\ sent = {}
    /\ listed = TRUE
    /\ mode = "live"
    /\ runs = [w \in Workers |-> Idle]
    /\ span = [from |-> 0, to |-> 0, first |-> FALSE, seen |-> {}]
    /\ spent = [what \in Spending |-> 0]
    /\ budget \in Budgets

-----------------------------------------------------------------------------
(* The chain                                                                 *)

\* A block with the next n events of the contest.
Mine(n, gap) ==
    /\ head < MaxBlocks
    /\ Len(log) + n <= Len(History)
    /\ head' = head + 1
    /\ log' = log \o [i \in 1..n |-> [block |-> head + 1, index |-> gap + i - 1]]
    /\ UNCHANGED <<store, listed, mode, runs, span, spent>>

\* The newest block is dropped; its events may be mined again elsewhere.
Reorg ==
    /\ Spend("reorg")
    /\ head > 1
    /\ head' = head - 1
    /\ \E n \in 0..Len(log) :
          /\ 1..n = {k \in DOMAIN log : log[k].block < head}
          /\ log' = SubSeq(log, 1, n)
    /\ UNCHANGED <<store, listed, mode, runs, span>>

-----------------------------------------------------------------------------
(* The registry of streams                                                   *)

\* A cycle finds the registry old, or empty, and reloads it.  Its subscriber
\* registers every stream it finds with the health tracker, as live.
Reload ==
    /\ \/ ~listed /\ UNCHANGED spent
       \/ listed /\ Spend("refresh")
    /\ \/ listed' = TRUE /\ mode' = "live"
       \/ listed' = FALSE /\ UNCHANGED mode     \* the database query failed
    /\ UNCHANGED <<chain, store, runs, span>>

-----------------------------------------------------------------------------
(* Writing a batch (ingestionWriter.ts), for a cycle or the replay           *)

RecordEvent(w) ==
    /\ At(w, "write")
    /\ runs[w].todo # {}
    /\ recorded' = recorded \cup {Oldest(runs[w].todo)}
    /\ Goto(w, "apply")
    /\ UNCHANGED <<chain, cursor, applied, phase, sent, listed, mode, span, spent>>

\* The domain handler of the event; it logs an error and goes on.  A seal is
\* written in two calls, and the first refuses one that is early.
ApplyEvent(w) ==
    /\ At(w, "apply")
    /\ LET k == Oldest(runs[w].todo) IN
       /\ \/ /\ k \notin runs[w].early
             /\ applied' = applied \cup {k}
             /\ phase' = IF History[k] \in {"frozen", "sealed"} THEN History[k] ELSE phase
             /\ UNCHANGED spent
          \/ k \in runs[w].early /\ UNCHANGED <<applied, phase, spent>>
          \/ Spend("domain") /\ UNCHANGED <<applied, phase>>
       /\ runs' = [runs EXCEPT ![w].step = "write", ![w].todo = @ \ {k}]
    /\ UNCHANGED <<chain, cursor, recorded, sent, listed, mode, span>>

-----------------------------------------------------------------------------
(* A live cycle (liveIngestion.ts)                                           *)

StartCycle(c) ==
    /\ At(c, "idle")
    /\ listed
    /\ mode = "live"
    /\ Goto(c, "read")
    /\ UNCHANGED <<chain, store, listed, mode, span, spent>>

ReadCursor(c) ==
    /\ At(c, "read")
    /\ runs' = [runs EXCEPT ![c].step = "pull", ![c].cursor = cursor]
    /\ UNCHANGED <<chain, store, listed, mode, span, spent>>

\* The endpoint answers with the chain up to the block it has.
PullLive(c) ==
    /\ At(c, "pull")
    /\ \E to \in 1..head : \E from \in FromBlocks(to) :
          /\ to + Lag >= head
          /\ runs' = [runs EXCEPT ![c] =
                        Pulled(@, LogsIn(from, to), @.cursor, 0, to)]
    /\ UNCHANGED <<chain, store, listed, mode, span, spent>>

BatchWritten(c) ==
    /\ At(c, "write")
    /\ runs[c].todo = {}
    /\ runs' = [runs EXCEPT ![c] =
                  IF Before(@.cursor, @.next)
                  THEN [@ EXCEPT !.step = "advance"]
                  ELSE [@ EXCEPT !.step = "dispatch", !.todo = MilestonesOf(runs[c].batch)]]
    /\ UNCHANGED <<chain, store, listed, mode, span, spent>>

\* advanceCursor reads the row and refuses to go back; the read takes no lock.
CheckAdvance(c) ==
    /\ At(c, "advance")
    /\ \/ cursor = NoCursor /\ Goto(c, "insert")
       \/ cursor # NoCursor /\ Before(cursor, runs[c].next) /\ Goto(c, "update")
       \/ cursor # NoCursor /\ ~Before(cursor, runs[c].next) /\ Stop(c)
    /\ UNCHANGED <<chain, store, listed, mode, span, spent>>

Advanced(c) ==
    /\ cursor' = runs[c].next
    /\ runs' = [runs EXCEPT ![c].step = "dispatch", ![c].todo = MilestonesOf(runs[c].batch)]

WriteCursor(c) ==
    /\ \/ At(c, "update") /\ Advanced(c)
       \/ At(c, "insert") /\ cursor = NoCursor /\ Advanced(c)
       \/ At(c, "insert") /\ cursor # NoCursor /\ Stop(c) /\ UNCHANGED cursor
    /\ UNCHANGED <<chain, recorded, applied, phase, sent, listed, mode, span, spent>>

\* A milestone that cannot be sent is logged and left.
DispatchMilestone(c) ==
    /\ At(c, "dispatch")
    /\ runs[c].todo # {}
    /\ LET k == Oldest(runs[c].todo) IN
       /\ \/ sent' = sent \cup {k} /\ UNCHANGED spent
          \/ Spend("send") /\ UNCHANGED sent
       /\ runs' = [runs EXCEPT ![c].todo = @ \ {k}]
    /\ UNCHANGED <<chain, cursor, recorded, applied, phase, listed, mode, span>>

FinishCycle(c) ==
    /\ At(c, "dispatch")
    /\ runs[c].todo = {}
    /\ Stop(c)
    /\ UNCHANGED <<chain, store, listed, mode, span, spent>>

-----------------------------------------------------------------------------
(* A manual replay (scheduleReplay, replayIngestion.ts)                      *)

RequestReplay(from, to) ==
    /\ Spend("replay")
    /\ At(Replay, "idle")
    /\ listed
    /\ mode = "live"
    /\ mode' = "paused"
    /\ Goto(Replay, "request")
    /\ span' = [from |-> from, to |-> to, first |-> TRUE, seen |-> {}]
    /\ UNCHANGED <<chain, store, listed>>

\* The archival job is in the queue: the replay itself begins.
BeginReplay ==
    /\ At(Replay, "request")
    /\ mode' = "replay"
    /\ runs' = [runs EXCEPT ![Replay].step = "pull",
                            ![Replay].cursor = [block |-> span.from, index |-> 0]]
    /\ UNCHANGED <<chain, store, listed, span, spent>>

PullReplay ==
    /\ At(Replay, "pull")
    /\ \E from \in FromBlocks(span.to) :
          runs' = [runs EXCEPT ![Replay] =
                     Pulled(@, LogsIn(from, span.to),
                            IF span.first THEN NoCursor ELSE @.cursor,
                            IF span.first THEN span.from ELSE 0, span.to)]
    /\ UNCHANGED <<chain, store, listed, mode, span, spent>>

\* The last disjunct of the code compares the cursor with the last event of
\* the batch it was taken from: it is true of every batch that has an event.
ReachedEnd(run) ==
    \/ run.batch = {}
    \/ run.next.block > span.to
    \/ run.next.block = span.to

ReplayWritten ==
    /\ At(Replay, "write")
    /\ runs[Replay].todo = {}
    /\ span' = [span EXCEPT !.seen = @ \cup runs[Replay].batch, !.first = FALSE]
    /\ runs' = [runs EXCEPT ![Replay] =
                  IF ReachedEnd(@) \/ @.cursor = @.next
                  THEN [@ EXCEPT !.step = "report"]
                  ELSE [@ EXCEPT !.step = "pull", !.cursor = runs[Replay].next]]
    /\ UNCHANGED <<chain, store, listed, mode, spent>>

ReportReplay ==
    /\ At(Replay, "report")
    /\ mode' = "live"
    /\ Stop(Replay)
    /\ UNCHANGED <<chain, store, listed, span, spent>>

-----------------------------------------------------------------------------
(* Faults                                                                    *)

\* A mutant: a replay that fails leaves the mode as it is.
FailedMode(w) == mode

ModeAfterFailure(w) == IF w = Replay THEN "live" ELSE mode

\* A call to the endpoint, the database or the queue throws: the cycle or the
\* replay is over.  (Domain handlers and milestones have their own catch.)
Fail(w) ==
    /\ runs[w].step \notin {"idle", "apply", "dispatch"}
    /\ Spend("fault")
    /\ mode' = ModeAfterFailure(w)
    /\ Stop(w)
    /\ UNCHANGED <<chain, store, listed, span>>

\* The process stops and is started again.
Crash ==
    /\ Spend("crash")
    /\ runs' = [w \in Workers |-> Idle]
    /\ mode' = "live"
    /\ listed' = TRUE
    /\ UNCHANGED <<chain, store, span>>

-----------------------------------------------------------------------------
Live(c) ==
    \/ StartCycle(c) \/ ReadCursor(c) \/ PullLive(c) \/ BatchWritten(c)
    \/ CheckAdvance(c) \/ WriteCursor(c) \/ DispatchMilestone(c) \/ FinishCycle(c)

Replaying == BeginReplay \/ PullReplay \/ ReplayWritten \/ ReportReplay
Write(w)  == RecordEvent(w) \/ ApplyEvent(w)

Step ==
    \/ \E n \in 0..MaxPerBlock, gap \in Gaps : Mine(n, gap)
    \/ Reorg
    \/ Reload
    \/ \E c \in Cycles : Live(c)
    \/ \E from, to \in 1..MaxBlocks : from <= to /\ to <= head /\ RequestReplay(from, to)
    \/ Replaying
    \/ \E w \in Workers : Write(w) \/ Fail(w)
    \/ Crash

Next == Step /\ UNCHANGED budget

Spec == Init /\ [][Next]_vars

\* Timers fire, calls return, and an empty registry is at last reloaded.
FairSpec ==
    /\ Spec
    /\ \A c \in Cycles : WF_vars((Live(c) \/ Write(c)) /\ UNCHANGED budget)
    /\ WF_vars((Replaying \/ Write(Replay)) /\ UNCHANGED budget)
    /\ WF_vars(Reload /\ ~listed /\ listed' /\ UNCHANGED budget)

-----------------------------------------------------------------------------
(* Properties                                                                *)

\* Every variable has its type, and no batch is over the limit.
TypeOK ==
    /\ head \in 1..MaxBlocks
    /\ log \in Seq(Position)
    /\ cursor \in Position
    /\ recorded \subseteq 1..Len(History)
    /\ applied \subseteq 1..Len(History)
    /\ phase \in Kinds
    /\ sent \subseteq 1..Len(History)
    /\ listed \in BOOLEAN
    /\ mode \in {"live", "paused", "replay"}
    /\ runs \in [Workers -> Run]
    /\ span \in [from : Nat, to : Nat, first : BOOLEAN, seen : SUBSET (1..Len(History))]
    /\ spent \in [Spending -> Nat]
    /\ budget \in Budgets
    /\ \A w \in Workers : Cardinality(runs[w].batch) <= BatchLimit

\* The cursor never runs ahead of the events: whatever overlaps, fails or is
\* restarted, each event at or before it is in the database.  (The ingestion
\* is there to rebuild the truth of the chain: a later pull never looks back.)
CursorCovers == \A k \in DOMAIN log : Covered(k, cursor) => k \in recorded

\* A milestone the cursor has passed was sent, or a cycle is about to send it,
\* while no process stopped and no send failed.
MilestonesSent ==
    (spent["crash"] = 0 /\ spent["send"] = 0) =>
        \A k \in DOMAIN log :
            (IsMilestone(k) /\ Covered(k, cursor)) =>
                \/ k \in sent
                \/ \E c \in Cycles : At(c, "dispatch") /\ k \in runs[c].todo

\* What lies behind the cursor needs no second look: it is stored, and its
\* milestones are sent, whichever cycle moved the cursor there.
NothingPassedOver == CursorCovers /\ MilestonesSent

Rank(p) == CASE p = "registration" -> 0 [] p = "frozen" -> 1 [] p = "sealed" -> 2

\* The contest's phase in the database is never older than the events the
\* cursor has passed, but for a seal before the end of the claims, which is
\* never shown: writing an event twice changes nothing.  It holds with one cycle
\* at a time through crashes and failed calls, while nothing is replayed, no
\* domain write is lost and no block is reorganised (settlementHandler.ts,
\* sealContest, shouldAdvanceCursor).
PhaseCovers ==
    (\A what \in {"replay", "domain", "reorg"} : spent[what] = 0) =>
        \A k \in DOMAIN log :
            (Covered(k, cursor) /\ ~SealedEarly(k)) => Rank(phase) >= Rank(History[k])

\* Every event is at last recorded and, if it is a milestone, sent, unless a send or
\* a restart lost it or a reorganisation put the event before the cursor.
EventuallyIngested ==
    \A k \in 1..Len(History) :
        (k \in DOMAIN log) ~>
            \/ k \in recorded /\ (IsMilestone(k) => k \in sent)
            \/ \E what \in {"crash", "send", "reorg"} : spent[what] > 0

\* No replay, failed or not, leaves its stream paused for good.
EventuallyLive == (mode # "live") ~> (mode = "live")

================================================================================
