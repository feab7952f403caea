----------------------------- MODULE Participation -----------------------------
(***************************************************************************)
(* Taking part in one contest through the web: the participants' pages and *)
(* panels (ContestDetail, RegistrationPanel, RewardClaimPanel, settlement  *)
(* and principal of PostgamePanel), OrganizerControls' buttons, the routes *)
(* of the api-server under /contests/[contestId] with the plans of the     *)
(* contest gateway, and the database row those and the event indexer write.*)
(* A write of the row reads its whole metadata and writes it back, in one  *)
(* READ COMMITTED transaction without a lock: two actions, read and write. *)
(* The contract is reduced to what makes these transactions fail.          *)
(***************************************************************************)
EXTENDS Naturals, FiniteSets, Sequences

CONSTANTS
    Users,             \* participants, one browser each
    Organizer,         \* the contest's organizer
    Capacity,          \* maxParticipants
    RegistrationEnds,  \* timeline.registrationClosesAt, registeringEnds
    LiveEnds,          \* timeline.tradingClosesAt, liveEnds
    ClaimsFrom,        \* timeline.redemptionAvailableAt (claimEnds)
    MaxTime,           \* bound on the clock
    Approved,          \* users who have approved the entry before
    Overlap,           \* bound on the writes of the row under way together
    Scenarios          \* who takes part already, and bounds on what happens

\* Loads of other people's pages and of the participants', clicks, the acts of
\* the organizer and of others, replays, failures.
Spending  == {"browse", "visit", "click", "act", "service", "replay", "fault"}
Unlimited == 100  \* in a budget: not counted
Desk   == "desk"    \* the requests of the organizer's buttons
Others == "others"  \* pages of people who take no part

ASSUME ParticipationAssumption ==
    /\ IsFiniteSet(Users) /\ Organizer \notin Users /\ {Desk, Others} \cap (Users \cup {Organizer}) = {}
    /\ Capacity \in Nat \ {0} /\ Overlap \in Nat \ {0} /\ Approved \subseteq Users
    /\ RegistrationEnds \in Nat /\ LiveEnds \in Nat /\ ClaimsFrom \in Nat /\ MaxTime \in Nat
    /\ RegistrationEnds < LiveEnds /\ LiveEnds < ClaimsFrom
    /\ Scenarios \subseteq [entered : SUBSET Users, budget : [Spending -> 0..Unlimited]]
    /\ \A s \in Scenarios : Cardinality(s.entered) <= Capacity

VARIABLES
    now,       \* block time, and the clock of servers and browsers
    state,     \* the contract's state
    entered,   \* its participants
    scored,    \* those whose vault is settled
    allowed,   \* users who have approved the entry
    feed,      \* events the indexer has not applied
    row,       \* the contests row: status, and what is used of its metadata
    rows,      \* wallets with a participants row
    ingest,    \* the indexer's write transaction
    load,      \* getContest, for each page and the desk: where it is
    page,      \* the snapshot each visitor's page shows
    panel,     \* each user's panel: its step, the plan shown, what was read
    desk,      \* the organizer's buttons: the act under way
    left       \* what is left of this behaviour's budget

chain  == <<state, entered, scored, allowed, feed>>
record == <<row, rows, ingest>>
vars == <<now, chain, record, load, page, panel, desk, left>>

Visitors == Users \cup {Organizer}
Loaders  == Users \cup {Organizer, Desk, Others}

-----------------------------------------------------------------------------
(* Types                                                                     *)

States   == {"registering", "live", "frozen", "sealed"}
Statuses == {"registered", "active", "sealed", "settled"}
Phases   == {"registering", "live", "frozen", "sealed", "settled"}
Events   == [kind : {"entered"}, who : Users] \cup [kind : {"frozen", "sealed"}]
Meta     == [phase : Phases, count : 0..Capacity, settlement : {"none", "ready", "executed"}]
Acts     == {"goLive", "freeze", "seal"}

Fresh == [phase |-> "registering", count |-> 0, settlement |-> "none"]
NoTx  == [step |-> "idle", saved |-> Fresh]
NoLoad == [step |-> "idle", from |-> "registered", shown |-> Fresh, saved |-> Fresh]
NoAct  == [step |-> "idle", act |-> "goLive", ok |-> FALSE, saved |-> Fresh]

Plan   == [ready : BOOLEAN, missing : BOOLEAN]
NoPlan == [ready |-> FALSE, missing |-> FALSE]
Steps  == {"idle", "plan", "approve", "execute", "register", "settle", "settleSend", "refresh",
           "claim", "redeem"}
DeskSteps == {"idle", "plan", "planned", "send", "confirm", "confirmed", "read", "write"}

TypeOK ==
    /\ now \in 0..MaxTime
    /\ state \in States /\ entered \subseteq Users /\ scored \subseteq entered
    /\ allowed \subseteq Users /\ feed \in Seq(Events)
    /\ row \in [status : Statuses, meta : Meta]
    /\ rows \subseteq entered
    /\ ingest \in [step : {"idle", "write"}, saved : Meta]
    /\ load \in [Loaders -> [step : {"idle", "read", "write"}, from : Statuses,
                             shown : Meta, saved : Meta]]
    /\ page \in [Visitors -> Meta]
    /\ panel \in [Users -> [step : Steps, plan : Plan, seen : SUBSET Users]]
    /\ desk \in [step : DeskSteps, act : Acts, ok : BOOLEAN, saved : Meta]
    /\ left \in [Spending -> 0..Unlimited]

-----------------------------------------------------------------------------
Spend(what) ==
    /\ left[what] > 0
    /\ left' = IF left[what] = Unlimited THEN left ELSE [left EXCEPT ![what] = @ - 1]
Goto(u, step) == panel' = [panel EXCEPT ![u].step = step]

\* What a snapshot says (canonicalizePhase, isFull), and when the panel of
\* registration is enabled (disableReason).
Open(meta)    == meta.phase = "registering"
Full(meta)    == meta.count >= Capacity
Planning(u)   == Open(page[u]) /\ ~Full(page[u])

\* At most Overlap transactions are between their read and their write.
Writers == {v \in Loaders : load[v].step = "write"}
               \cup (IF ingest.step = "write" THEN {"ingest"} ELSE {})
               \cup (IF desk.step = "write" THEN {"confirm"} ELSE {})
Room == Cardinality(Writers) < Overlap

Init ==
    /\ now = 0
    /\ \E s \in Scenarios : entered = s.entered /\ left = s.budget
    /\ state = "registering" /\ scored = {} /\ allowed = Approved \ entered /\ feed = <<>>
    /\ row = [status |-> "registered", meta |-> [Fresh EXCEPT !.count = Cardinality(entered)]]
    /\ rows = entered /\ ingest = NoTx
    /\ load = [v \in Loaders |-> NoLoad]
    /\ page = [v \in Visitors |-> row.meta]
    /\ panel = [u \in Users |-> [step |-> "idle", plan |-> NoPlan, seen |-> {}]]
    /\ desk = NoAct

-----------------------------------------------------------------------------
(* The contract                                                              *)

Synced == IF state = "registering" /\ now > RegistrationEnds THEN "live" ELSE state

CanRegister(u) == /\ Synced = "registering" /\ u \notin entered
                  /\ Cardinality(entered) < Capacity /\ u \in allowed
CanAct == [goLive |-> TRUE,
           freeze |-> Synced = "live" /\ now >= LiveEnds,
           seal   |-> state = "frozen" /\ scored = entered]
After == [goLive |-> Synced, freeze |-> "frozen", seal |-> "sealed"]

\* An organizer's transaction, or anybody's of the same kind.
Act(act) ==
    /\ state' = IF CanAct[act] THEN After[act] ELSE state
    /\ feed' = IF CanAct[act] /\ act # "goLive" THEN Append(feed, [kind |-> After[act]]) ELSE feed
    /\ UNCHANGED <<entered, scored, allowed>>

\* Others act on the contract: syncState, freeze and seal are open to anybody.
ServiceActs ==
    /\ \/ \E act \in Acts : CanAct[act] /\ state # After[act] /\ Act(act)
       \/ /\ state = "frozen" /\ scored # entered
          /\ scored' = entered
          /\ UNCHANGED <<state, entered, allowed, feed>>
    /\ Spend("service")
    /\ UNCHANGED <<now, record, load, page, panel, desk>>

-----------------------------------------------------------------------------
(* The event indexer                                                         *)

\* A transaction reads the row.  A registration counts the participants rows
\* with its own; when there is one already, the violation of the unique index
\* aborts it.  A seal has by then written the status in one of its own.
IngestRead ==
    /\ ingest.step = "idle" /\ feed # <<>> /\ Room
    /\ LET e == Head(feed)
       IN IF e.kind = "entered" /\ e.who \in rows
          THEN feed' = Tail(feed) /\ UNCHANGED <<row, ingest>>
          ELSE /\ ingest' = [step |-> "write", saved |-> row.meta]
               /\ row' = IF e.kind = "sealed" THEN [row EXCEPT !.status = "sealed"] ELSE row
               /\ UNCHANGED feed
    /\ UNCHANGED <<now, state, entered, scored, allowed, rows, load, page, panel, desk, left>>

IngestWrite ==
    /\ ingest.step = "write"
    /\ LET e == Head(feed)
       IN IF e.kind = "entered"
          THEN /\ rows' = rows \cup {e.who}
               /\ row' = [row EXCEPT !.meta = [ingest.saved EXCEPT !.count = Cardinality(rows')]]
          ELSE /\ row' = [row EXCEPT !.meta = [ingest.saved EXCEPT !.phase = e.kind]]
               /\ UNCHANGED rows
    /\ feed' = Tail(feed) /\ ingest' = NoTx
    /\ UNCHANGED <<now, state, entered, scored, allowed, load, page, panel, desk, left>>

\* A replay applies an event that was applied before once more.
Replay ==
    /\ Spend("replay")
    /\ \E e \in [kind : {"entered"}, who : rows]
               \cup [kind : {k \in {"frozen", "sealed"} : state \in {k, "sealed"}}] :
           /\ \A i \in DOMAIN feed : feed[i] # e
           /\ feed' = Append(feed, e)
    /\ UNCHANGED <<now, state, entered, scored, allowed, record, load, page, panel, desk>>

-----------------------------------------------------------------------------
(* Loading the contest: getContest and its synchronizeContestPhase           *)

Due  == [registered |-> RegistrationEnds, active |-> LiveEnds, sealed |-> ClaimsFrom]
To   == [registered |-> "active", active |-> "sealed", sealed |-> "settled"]
Into == [registered |-> "live", active |-> "sealed", sealed |-> "settled"]

\* determineTransition: at most one step, by the server's clock.
MayAdvance(status) == status # "settled" /\ now >= Due[status]

\* The response reaches the page, or the organizer's route goes on.
Arrive(v, meta) ==
    /\ load' = [load EXCEPT ![v] = NoLoad]
    /\ IF v = Desk
       THEN /\ desk' = [desk EXCEPT !.step = IF @ = "plan" THEN "planned" ELSE "confirmed"]
            /\ UNCHANGED <<page, panel>>
       ELSE /\ page' = IF v = Others THEN page ELSE [page EXCEPT ![v] = meta]
            /\ panel' = IF v \in Users /\ panel[v].step = "refresh"
                        THEN [panel EXCEPT ![v].step = "idle"] ELSE panel
            /\ UNCHANGED desk

\* The query; a contest with a transition due is written before the answer.
Query(v) ==
    /\ load[v].step = "idle"
    /\ IF MayAdvance(row.status)
       THEN /\ load' = [load EXCEPT ![v] = [step |-> "read", from |-> row.status, saved |-> Fresh,
                            shown |-> IF v \in Visitors THEN row.meta ELSE Fresh]]
            /\ UNCHANGED <<page, panel, desk>>
       ELSE Arrive(v, row.meta)
    /\ UNCHANGED <<now, chain, record>>

\* A page is opened or loaded again.
Visit(v) == Spend("visit") /\ Query(v)

\* Somebody else's page, or the list of contests, is loaded.
Browse == Spend("browse") /\ Query(Others)

\* invalidateQueries after an execution, which waits for the new snapshot.
Refresh(u) == panel[u].step = "refresh" /\ Query(u) /\ UNCHANGED left

SyncRead(v) ==
    /\ load[v].step = "read" /\ Room
    /\ load' = [load EXCEPT ![v].step = "write", ![v].saved = row.meta]
    /\ UNCHANGED <<now, chain, record, page, panel, desk, left>>

\* A mutant: the phase is written without the status.
SyncWritePhase(v) ==
    /\ load[v].step = "write"
    /\ LET l == load[v]
       IN /\ row' = [row EXCEPT !.meta = [l.saved EXCEPT !.phase = Into[l.from]]]
          /\ Arrive(v, [l.shown EXCEPT !.phase = Into[l.from]])
    /\ UNCHANGED <<now, chain, rows, ingest, left>>

\* updateContestPhase: the status read by the query decides, not the row's.
SyncWrite(v) ==
    /\ load[v].step = "write"
    /\ LET l == load[v]
       IN /\ row' = [status |-> To[l.from], meta |-> [l.saved EXCEPT !.phase = Into[l.from]]]
          /\ Arrive(v, [l.shown EXCEPT !.phase = Into[l.from]])
    /\ UNCHANGED <<now, chain, rows, ingest, left>>

\* A failed write is logged; the snapshot is answered as it was read.
SyncFails(v) ==
    /\ load[v].step # "idle" /\ Spend("fault")
    /\ Arrive(v, load[v].shown)
    /\ UNCHANGED <<now, chain, record>>

-----------------------------------------------------------------------------
(* The registration panel                                                    *)

ClickPlan(u) ==
    /\ panel[u].step = "idle" /\ Planning(u) /\ Spend("click")
    /\ Goto(u, "plan")
    /\ UNCHANGED <<now, chain, record, load, page, desk>>

\* A mutant: the duplicate and capacity rules read the contest's phase alone.
EvaluatePhase(u, missing) ==
    [ready |-> Open(row.meta) /\ ~missing, missing |-> missing]

\* buildContestDefinition takes capacity and membership from the rows, phase
\* from the metadata, allowances (and balances, left out) from the chain.  The
\* window is judged at the definition's own time, which is always inside it.
\* Without an answer of the node an allowance counts as zero.
Evaluate(u, missing) ==
    [ready   |-> /\ Open(row.meta) /\ Cardinality(rows) < Capacity /\ u \notin rows
                 /\ ~missing,
     missing |-> missing]

\* The plans a request for one may be answered with.  A node that does not answer
\* makes an allowance that is there look missing.
Plans(u) == {Evaluate(u, missing) : missing \in {u \notin allowed, TRUE}}
Fail(u, plan) == IF plan.missing /\ u \in allowed THEN Spend("fault") ELSE UNCHANGED left

PlanAnswered(u) ==
    /\ panel[u].step = "plan"
    /\ \E plan \in Plans(u) :
          /\ Fail(u, plan)
          /\ panel' = [panel EXCEPT ![u].step = "idle", ![u].plan = plan]
    /\ UNCHANGED <<now, chain, record, load, page, desk>>

ClickApprove(u) ==
    /\ panel[u].step = "idle" /\ panel[u].plan.missing /\ Planning(u) /\ Spend("click")
    /\ Goto(u, "approve")
    /\ UNCHANGED <<now, chain, record, load, page, desk>>

\* The receipt is waited for, and a new plan asked for.
Approve(u) ==
    /\ panel[u].step = "approve"
    /\ allowed' = allowed \cup {u}
    /\ Goto(u, "plan")
    /\ UNCHANGED <<now, state, entered, scored, feed, record, load, page, desk, left>>

ClickExecute(u) ==
    /\ panel[u].step = "idle" /\ panel[u].plan.ready /\ Planning(u) /\ Spend("click")
    /\ Goto(u, "execute")
    /\ UNCHANGED <<now, chain, record, load, page, desk>>

\* executeParticipantRegistration plans again; a plan that is no longer ready
\* is answered 'noop'.
ExecuteAnswered(u) ==
    /\ panel[u].step = "execute"
    /\ \E plan \in Plans(u) :
          /\ Fail(u, plan)
          /\ panel' = [panel EXCEPT ![u].step = IF plan.ready THEN "register" ELSE "refresh",
                                    ![u].seen = rows]
    /\ UNCHANGED <<now, chain, record, load, page, desk>>

\* The wallet sends; waitForReceipt does not look at the receipt's status.
Register(u) ==
    /\ panel[u].step = "register"
    /\ IF CanRegister(u)
       THEN /\ entered' = entered \cup {u} /\ allowed' = allowed \ {u}
            /\ feed' = Append(feed, [kind |-> "entered", who |-> u])
       ELSE UNCHANGED <<entered, allowed, feed>>
    /\ Goto(u, "refresh")
    /\ UNCHANGED <<now, state, scored, record, load, page, desk, left>>

-----------------------------------------------------------------------------
(* The settlement section                                                    *)

ClickSettle(u) ==
    /\ panel[u].step = "idle" /\ ~Open(page[u]) /\ Spend("click")
    /\ Goto(u, "settle")
    /\ UNCHANGED <<now, chain, record, load, page, desk>>

\* executeContestSettlement: not configured is an error, executed is 'noop'.
SettleAnswered(u) ==
    /\ panel[u].step = "settle"
    /\ Goto(u, [none |-> "idle", ready |-> "settleSend", executed |-> "refresh"]
               [row.meta.settlement])
    /\ UNCHANGED <<now, chain, record, load, page, desk, left>>

\* settle(caller): a vault settled before is left as it is.
Settle(u) ==
    /\ panel[u].step = "settleSend"
    /\ scored' = IF state = "frozen" /\ u \in entered THEN scored \cup {u} ELSE scored
    /\ Goto(u, "refresh")
    /\ UNCHANGED <<now, state, entered, allowed, feed, record, load, page, desk, left>>

-----------------------------------------------------------------------------
(* The reward panel and the principal section                                *)

\* Both ask for a plan once the page shows the contest as settled.
Over(meta) == meta.phase \in {"sealed", "settled"}

ClickClaim(u) ==
    /\ panel[u].step = "idle" /\ Over(page[u]) /\ Spend("click")
    /\ Goto(u, "claim")
    /\ UNCHANGED <<now, chain, record, load, page, desk>>

ClickRedeem(u) ==
    /\ panel[u].step = "idle" /\ Over(page[u]) /\ Spend("click")
    /\ Goto(u, "redeem")
    /\ UNCHANGED <<now, chain, record, load, page, desk>>

\* Who has an entry in the definition's rewards and redemption: nothing in the
\* system writes one, so that both plans come back blocked and cannot be executed.
Entries == [claim |-> {}, redeem |-> {}]
Applied(u, what) == u \in Entries[what]

ClaimAnswered(u) ==
    /\ panel[u].step = "claim" /\ ~Applied(u, "claim")
    /\ Goto(u, "idle")
    /\ UNCHANGED <<now, chain, record, load, page, desk, left>>

RedeemAnswered(u) ==
    /\ panel[u].step = "redeem" /\ ~Applied(u, "redeem")
    /\ Goto(u, "idle")
    /\ UNCHANGED <<now, chain, record, load, page, desk, left>>

\* The user refuses in the wallet.
Refuse(u) ==
    /\ panel[u].step \in {"approve", "register", "settleSend"}
    /\ Goto(u, "idle")
    /\ UNCHANGED <<now, chain, record, load, page, desk, left>>

-----------------------------------------------------------------------------
(* The organizer                                                             *)

\* Whether the button is enabled, and whether the plan is ready, by the clock.
Enabled(act) == [goLive |-> now >= RegistrationEnds, freeze |-> now >= LiveEnds,
                 seal |-> page[Organizer].phase \notin {"registering", "live"}][act]
Ready(act)   == [goLive |-> now >= RegistrationEnds, freeze |-> now >= LiveEnds,
                 seal |-> TRUE][act]

ClickAct(act) ==
    /\ desk.step = "idle" /\ Enabled(act) /\ Spend("act")
    /\ desk' = [NoAct EXCEPT !.step = "plan", !.act = act]
    /\ UNCHANGED <<now, chain, record, load, page, panel>>

\* The plan and the confirm routes load the contest first.
DeskLoad == desk.step \in {"plan", "confirm"} /\ Query(Desk) /\ UNCHANGED left

AnswerPlan ==
    /\ desk.step = "planned"
    /\ desk' = IF Ready(desk.act) THEN [desk EXCEPT !.step = "send"] ELSE NoAct
    /\ UNCHANGED <<now, chain, record, load, page, panel, left>>

\* Going live is not confirmed.
SendAct ==
    /\ desk.step = "send"
    /\ Act(desk.act)
    /\ desk' = IF desk.act = "goLive" THEN NoAct
               ELSE [desk EXCEPT !.ok = CanAct[desk.act], !.step = "confirm"]
    /\ UNCHANGED <<now, record, load, page, panel, left>>

\* The receipt must be a success and the contract in the state of the act.
Confirm ==
    /\ desk.step = "confirmed"
    /\ desk' = IF desk.ok /\ state = After[desk.act] THEN [desk EXCEPT !.step = "read"] ELSE NoAct
    /\ UNCHANGED <<now, chain, record, load, page, panel, left>>

ConfirmRead ==
    /\ desk.step = "read" /\ Room
    /\ desk' = [desk EXCEPT !.step = "write", !.saved = row.meta]
    /\ UNCHANGED <<now, chain, record, load, page, panel, left>>

\* A mutant: the flag for a seal is given with a freeze too.
SettlementDone(act) == "executed"

\* buildSettlementMetadata: ready, and executed once sealed.
SettlementOf(act) == IF act = "seal" THEN "executed" ELSE "ready"

ConfirmWrite ==
    /\ desk.step = "write"
    /\ row' = [status |-> IF desk.act = "seal" THEN "sealed" ELSE row.status,
               meta |-> [desk.saved EXCEPT !.phase = After[desk.act],
                                                      !.settlement = SettlementOf(desk.act)]]
    /\ desk' = NoAct
    /\ UNCHANGED <<now, chain, rows, ingest, load, page, panel, left>>

\* A request of a panel fails.
RequestFails(u) ==
    /\ panel[u].step \in {"plan", "execute", "settle", "claim", "redeem"} /\ Spend("fault")
    /\ Goto(u, "idle")
    /\ UNCHANGED <<now, chain, record, load, page, desk>>

Tick ==
    /\ now < MaxTime
    /\ now' = now + 1
    /\ UNCHANGED <<chain, record, load, page, panel, desk, left>>

-----------------------------------------------------------------------------
Load(v)   == SyncRead(v) \/ SyncWrite(v)
Serve(u)  == \/ PlanAnswered(u) \/ ExecuteAnswered(u) \/ SettleAnswered(u) \/ Refresh(u)
             \/ ClaimAnswered(u) \/ RedeemAnswered(u)
Wallet(u) == Approve(u) \/ Register(u) \/ Settle(u) \/ Refuse(u)
DoAct     == DeskLoad \/ AnswerPlan \/ SendAct \/ Confirm \/ ConfirmRead \/ ConfirmWrite
Ingest    == IngestRead \/ IngestWrite

Next ==
    \/ Tick \/ Browse \/ ServiceActs \/ Ingest \/ Replay \/ DoAct
    \/ \E act \in Acts : ClickAct(act)
    \/ \E v \in Visitors : Visit(v)
    \/ \E v \in Loaders : Load(v) \/ SyncFails(v)
    \/ \E u \in Users : \/ Serve(u) \/ Wallet(u) \/ RequestFails(u)
                        \/ ClickPlan(u) \/ ClickApprove(u) \/ ClickExecute(u) \/ ClickSettle(u)
                        \/ ClickClaim(u) \/ ClickRedeem(u)

Spec == Init /\ [][Next]_vars

\* Time passes; requests, transactions and wallets are answered.  Nobody has
\* to click, to visit a page, or to act on the contract.
FairSpec ==
    /\ Spec
    /\ WF_vars(Tick) /\ WF_vars(Ingest) /\ WF_vars(DoAct)
    /\ \A v \in Loaders : WF_vars(Load(v))
    /\ \A u \in Users : WF_vars(Serve(u)) /\ WF_vars(Wallet(u))

-----------------------------------------------------------------------------
(* Properties                                                                *)

\* A page says the contest is full only when the contract is: the indexer, the
\* loads and the confirmations overwrite each other's metadata, and the count
\* in it may lag behind, but it never runs ahead (registrationCapacity.isFull).
FullMeansFull == \A v \in Visitors : Full(page[v]) => Cardinality(entered) = Capacity

\* Whatever is overwritten, the settlement block of the metadata never offers
\* a settlement before the contract is frozen nor calls it executed before the
\* contract is sealed (buildSettlementMetadata, executeContestSettlement).
SettlementKnown ==
    /\ row.meta.settlement # "none" => state \in {"frozen", "sealed"}
    /\ row.meta.settlement = "executed" => state = "sealed"

\* The pages are never ahead of the chain, however stale the row they are read
\* from: neither full before the contest is, nor settled before it can be.
NeverAhead == FullMeansFull /\ SettlementKnown

\* A registration the server has found ready fails on the chain only by a race:
\* registration is over by now, or an entry was not indexed when it was planned
\* (executeParticipantRegistration, evaluateRegistrationRules).
RevertsAreRaces ==
    [][\A u \in Users : Register(u) /\ ~CanRegister(u) =>
           Synced # "registering" \/ entered # panel[u].seen]_vars

\* As long as pages of the contest are loaded its status gets to the end of the
\* timeline and stays there, although every load moves it by one step at most,
\* from a status that may be out of date (synchronizeContestPhase).
SettledInTheEnd ==
    left["browse"] = Unlimited /\ WF_vars(Browse) => <>[](row.status = "settled")

\* No panel and no button stays busy.
PanelsReturn ==
    /\ \A u \in Users : panel[u].step # "idle" ~> panel[u].step = "idle"
    /\ desk.step # "idle" ~> desk.step = "idle"

\* Nothing hangs, neither the buttons nor the contest itself.
NothingHangs == PanelsReturn /\ SettledInTheEnd

===============================================================================
