------------------------------ MODULE Rebalance ------------------------------
(***************************************************************************)
(* Trading during the live phase: the rebalance section of a participant's  *)
(* PostgamePanel, the routes rebalance-plan, execute/rebalance and          *)
(* price-source/update, the gateway's plan with its rules, and the swaps    *)
(* the wallet sends to the participant's vault.                             *)
(* A plan is made in two steps: the definition is built from the row and    *)
(* the allowances, then the gateway reads the price source and the time.    *)
(* An execution is planned again; the plan on the screen only opens the     *)
(* button.  Prices come from outside (module PriceSource has the means).    *)
(***************************************************************************)
EXTENDS Naturals, FiniteSets

CONSTANTS
    Users,             \* participants, one panel each, whose entry is recorded
    Base, Quote,       \* the vault's assets; the entry asset is Base
    Other,             \* an asset of neither
    Intents,           \* what users fill in
    MaxTradeAmount,    \* maxTradeAmount
    Window,            \* priceFreshnessSeconds, which is twapSeconds
    Deadline,          \* deadlineSeconds
    ToleranceBps,      \* priceToleranceBps
    RegistrationEnds,  \* registrationClosesAt, registeringEnds
    LiveEnds,          \* tradingClosesAt, liveEnds
    Holding,           \* what a vault holds at first
    \* bounds of the model
    MaxTime,           \* the clock
    Rates,             \* mean prices, quote for one base
    Outs,              \* what the pool may pay for a trade
    Overlap,           \* plans of one panel under way together
    Scenarios          \* the budgets

BasisPoints == 10000
Spending    == {"fill", "press", "browse", "update", "fault", "gift", "callback"}
Assets      == {Base, Quote, Other}
Whitelist   == {Base, Quote}

ASSUME RebalanceAssumption ==
    /\ Cardinality(Assets) = 3
    /\ Intents \subseteq [sell : Assets, buy : Assets, amount : Nat, least : Nat]
    /\ {MaxTradeAmount, Window, Deadline, ToleranceBps, RegistrationEnds, LiveEnds,
        MaxTime, Overlap} \subseteq Nat
    /\ RegistrationEnds < LiveEnds
    /\ Window > 0  \* configure refuses a window under ten minutes
    /\ Holding \in [base : Nat, quote : Nat]
    /\ Rates \subseteq Nat \ {0} /\ Outs \subseteq Nat
    /\ Scenarios \subseteq [Spending -> Nat]

VARIABLES
    now,        \* block time, and the clock of the servers
    phase,      \* the phase in the contest's row
    state,      \* the contract's state
    source,     \* the price source's snapshot: its price and updatedAt
    vault,      \* each participant's vault
    allowance,  \* sell tokens each participant lets the contest spend
    panel,      \* each participant's panel
    requests,   \* each panel's plans under way
    mempool,    \* each participant's swaps that are sent and not mined
    traded,     \* each vault's last swap, for the properties
    left        \* what is left of the budget

chain == <<state, source, vault, allowance>>
vars  == <<now, phase, chain, panel, requests, mempool, traded, left>>

-----------------------------------------------------------------------------
(* Types                                                                     *)

\* What an approval is known by in the panel (approvalKey).
Approvals == [token : Assets, amount : Nat]
NoPlan    == [shown |-> FALSE, ready |-> FALSE, stale |-> FALSE, missing |-> {}]
\* A request for a plan, or to execute: whether the refresh or an approval waits
\* for it, and what is read on the way.
Request   == [for : {"plan", "execute"}, intent : Intents, step : {"asked", "defined"},
              newest : BOOLEAN, refresh : BOOLEAN, approval : SUBSET Approvals,
              live : BOOLEAN, allowed : Nat]
\* A swap the wallet sent; the panel waits for its receipt or does not.
Swap      == [intent : Intents, deadline : Nat, judgedAt : Nat, pricedAt : Nat,
              awaited : BOOLEAN]

TypeOK ==
    /\ now \in 0..MaxTime
    /\ phase \in {"registering", "live", "over"}
    /\ state \in {"registering", "live", "frozen"}
    /\ source.rate \in Rates /\ source.at \in 0..now
    /\ \A u \in Users :
        /\ vault[u] \in [base : Nat, quote : Nat]
        /\ \A a \in Assets : allowance[u][a] \in Nat
        /\ panel[u].intent \in Intents
        /\ panel[u].plan.missing \subseteq Approvals
        /\ panel[u].granted \cup panel[u].granting \subseteq Approvals
        /\ panel[u].execution \in {"idle", "asked", "sent"}
        /\ panel[u].refresh \in {"idle", "sent", "planning"}
        /\ \A r \in requests[u] : r \in Request
        /\ \A s \in mempool[u] : s \in Swap
        /\ Cardinality({r \in requests[u] : r.for = "plan" /\ r.newest}) <= 1
        /\ panel[u].execution = "asked" <=> \E r \in requests[u] : r.for = "execute"
        /\ panel[u].execution = "sent" <=> \E s \in mempool[u] : s.awaited
    /\ left \in [Spending -> Nat]

-----------------------------------------------------------------------------
Spend(what) == left[what] > 0 /\ left' = [left EXCEPT ![what] = @ - 1]

Init ==
    /\ now = 0 /\ phase = "registering" /\ state = "registering"
    /\ \E r \in Rates : source = [rate |-> r, at |-> 0]
    /\ vault = [u \in Users |-> Holding]
    /\ allowance = [u \in Users |-> [a \in Assets |-> 0]]
    /\ panel \in [Users -> [seen : {"registering"}, intent : Intents, plan : {NoPlan},
                            granted : {{}}, granting : {{}}, execution : {"idle"},
                            result : {"none"}, refresh : {"idle"}]]
    /\ requests = [u \in Users |-> {}] /\ mempool = [u \in Users |-> {}]
    /\ traded = [u \in Users |-> {}]
    /\ left \in Scenarios

-----------------------------------------------------------------------------
(* The chain                                                                 *)

Pass ==
    /\ now < MaxTime
    /\ now' = now + 1
    /\ UNCHANGED <<phase, chain, panel, requests, mempool, traded, left>>

\* syncState and freeze, by anybody.
Advance ==
    /\ \/ state = "registering" /\ now > RegistrationEnds /\ state' = "live"
       \/ state \in {"registering", "live"} /\ now > RegistrationEnds /\ now >= LiveEnds
          /\ state' = "frozen"
    /\ UNCHANGED <<now, phase, source, vault, allowance, panel, requests, mempool, traded, left>>

Outdated == source.at = 0 \/ now - source.at >= Window

\* update, sent by anybody.
Update ==
    /\ Spend("update")
    /\ \E r \in Rates : source' = [rate |-> r, at |-> now]
    /\ UNCHANGED <<now, phase, state, vault, allowance, panel, requests, mempool, traded>>

\* ERC-20 tokens sent straight to a vault.
GiveToVault(u) ==
    /\ Spend("gift")
    /\ \/ vault' = [vault EXCEPT ![u].base = @ + 1]
       \/ vault' = [vault EXCEPT ![u].quote = @ + 1]
    /\ UNCHANGED <<now, phase, state, source, allowance, panel, requests, mempool, traded>>

\* uniswapV3SwapCallback called outside a swap, in any phase: the caller is
\* compared with an address of the call's own data, and paid what it names.
SwapCallback(u) ==
    /\ Spend("callback")
    /\ \E b \in 0..vault[u].base, q \in 0..vault[u].quote :
        /\ b + q > 0
        /\ vault' = [vault EXCEPT ![u] = [base |-> @.base - b, quote |-> @.quote - q]]
    /\ UNCHANGED <<now, phase, state, source, allowance, panel, requests, mempool, traded>>

SellsBase(s) == s.intent.sell = Base

\* requireWithinTolerance
Near(base, quote, rate) ==
    LET gap == IF quote > base * rate THEN quote - base * rate ELSE base * rate - quote
    IN  gap * BasisPoints <= ToleranceBps * base * rate

Exchanged(v, s, out) ==
    IF SellsBase(s) THEN [base |-> v.base - s.intent.amount, quote |-> v.quote + out]
                    ELSE [base |-> v.base + out, quote |-> v.quote - s.intent.amount]

\* Mutants: only the state is looked at, not the end; the deadline is not.
MayTradeUntilFrozen(s) == state = "live" /\ now <= s.deadline

MayTrade(s) == state = "live" /\ now <= s.deadline /\ now < LiveEnds

Accepts(s, out, rate) ==
    IF SellsBase(s) THEN Near(s.intent.amount, out, rate) ELSE Near(out, s.intent.amount, rate)

\* swapExact, when it does not revert.
SwapExact(u, s) ==
    /\ MayTrade(s)
    /\ s.intent.amount <= IF SellsBase(s) THEN vault[u].base ELSE vault[u].quote
    /\ IF Outdated THEN \E r \in Rates : source' = [rate |-> r, at |-> now]
                   ELSE UNCHANGED source
    /\ \E out \in Outs :
        /\ out >= s.intent.least
        /\ Accepts(s, out, source'.rate)
        /\ vault' = [vault EXCEPT ![u] = Exchanged(@, s, out)]
    /\ traded' = [traded EXCEPT ![u] = {[at |-> now, judgedAt |-> s.judgedAt,
                     pricedAt |-> s.pricedAt, snapshotAt |-> source'.at]}]

-----------------------------------------------------------------------------
(* The server                                                                *)

\* collectTokenTargets: the allowances that are read.
Known(u, token) == IF token \in Whitelist THEN allowance[u][token] ELSE 0

\* hydrateParticipantProfile: an allowance that cannot be read is nothing.
Define(u, r) ==
    /\ r.step = "asked"
    /\ \E allowed \in {Known(u, r.intent.sell), 0} :
        /\ IF allowed = Known(u, r.intent.sell) THEN UNCHANGED left ELSE Spend("fault")
        /\ requests' = [requests EXCEPT ![u] = (@ \ {r}) \cup
                {[r EXCEPT !.step = "defined", !.live = phase = "live", !.allowed = allowed]}]
    /\ UNCHANGED <<now, phase, chain, panel, mempool, traded>>

\* resolvePriceSourceTimestamp: the time of the snapshot, or when there is none
\* or it cannot be read the time the contest was created.
PriceTime(at) == IF at > 0 THEN at ELSE 0

Fresh(at) == now <= PriceTime(at) + Window

\* inspectAllowances
Missing(r) == IF r.allowed < r.intent.amount
                THEN {[token |-> r.intent.sell, amount |-> r.intent.amount]} ELSE {}

\* evaluateRebalanceRules: nobody writes the times of the cooldown.
Ready(r, at) ==
    /\ r.live
    /\ {r.intent.sell, r.intent.buy} \subseteq Whitelist
    /\ r.intent.amount > 0 /\ r.intent.amount <= MaxTradeAmount
    /\ Fresh(at)
    /\ Missing(r) = {}

\* planTradeRoute
Route(r, at) == [intent |-> r.intent, deadline |-> now + Deadline,
                 judgedAt |-> now, pricedAt |-> PriceTime(at), awaited |-> TRUE]

-----------------------------------------------------------------------------
(* The panel                                                                 *)

\* determineTransition: each load of the contest moves its phase one step.
Moved == CASE phase = "registering" /\ now >= RegistrationEnds -> "live"
           [] phase = "live" /\ now >= LiveEnds -> "over"
           [] OTHER -> phase

Planning(u) == \E r \in requests[u] : r.for = "plan" /\ r.newest

\* disableReason, for a user who is signed in, connected and registered.
Enabled(u) == panel[u].seen = "live"

\* A request for a plan of the intent that is in the form now.
Ask(u, kind, refresh, approval) ==
    {[r EXCEPT !.newest = r.newest /\ r.for # kind] : r \in requests[u]} \cup
        {[for |-> kind, intent |-> panel[u].intent, step |-> "asked", newest |-> TRUE,
          refresh |-> refresh, approval |-> approval, live |-> FALSE, allowed |-> 0]}

RoomForPlan(u) == Cardinality({r \in requests[u] : r.for = "plan"}) < Overlap

Browse(u) ==
    /\ Spend("browse")
    /\ phase' = Moved
    /\ panel' = [panel EXCEPT ![u].seen = Moved]
    /\ UNCHANGED <<now, chain, requests, mempool, traded>>

\* The form is never disabled.
Fill(u, i) ==
    /\ i # panel[u].intent
    /\ Spend("fill")
    /\ panel' = [panel EXCEPT ![u].intent = i]
    /\ UNCHANGED <<now, phase, chain, requests, mempool, traded>>

\* handlePlan
PressPlan(u) ==
    /\ Enabled(u) /\ ~Planning(u) /\ panel[u].execution = "idle" /\ RoomForPlan(u)
    /\ Spend("press")
    /\ requests' = [requests EXCEPT ![u] = Ask(u, "plan", FALSE, {})]
    /\ UNCHANGED <<now, phase, chain, panel, mempool, traded>>

\* A mutant: the refresh waits for a plan that is the newest only.
EndedNewest(p, r) == IF r.refresh /\ r.newest THEN [p EXCEPT !.refresh = "idle"] ELSE p

\* What ends with a plan's answer; the refresh waits for its own.
Ended(p, r) == IF r.refresh THEN [p EXCEPT !.refresh = "idle"] ELSE p

\* planMutation, onSuccess
AnswerPlan(u, r) ==
    /\ r.for = "plan" /\ r.step = "defined"
    /\ \E at \in {source.at, 0} :
        /\ IF at = source.at THEN UNCHANGED left ELSE Spend("fault")
        /\ panel' = [panel EXCEPT ![u] = [Ended(panel[u], r) EXCEPT
                !.plan = [shown |-> TRUE, ready |-> Ready(r, at), stale |-> ~Fresh(at),
                          missing |-> Missing(r)],
                !.granted = @ \cap Missing(r), !.result = "none"]]
    /\ requests' = [requests EXCEPT ![u] = @ \ {r}]
    /\ UNCHANGED <<now, phase, chain, mempool, traded>>

\* The request fails on the way; an approval that waited counts as failed.
FailPlan(u, r) ==
    /\ r.for = "plan"
    /\ Spend("fault")
    /\ requests' = [requests EXCEPT ![u] = @ \ {r}]
    /\ panel' = [panel EXCEPT ![u] = [Ended(panel[u], r) EXCEPT !.granted = @ \ r.approval]]
    /\ UNCHANGED <<now, phase, chain, mempool, traded>>

\* handleApproval
PressApprove(u, a) ==
    /\ a \in panel[u].plan.missing \ (panel[u].granted \cup panel[u].granting)
    /\ ~Planning(u) /\ panel[u].execution = "idle"
    /\ Spend("press")
    /\ panel' = [panel EXCEPT ![u].granting = @ \cup {a}]
    /\ UNCHANGED <<now, phase, chain, requests, mempool, traded>>

Approved(u, a) ==
    /\ a \in panel[u].granting /\ RoomForPlan(u)
    /\ allowance' = [allowance EXCEPT ![u][a.token] = a.amount]
    /\ panel' = [panel EXCEPT ![u].granting = @ \ {a}, ![u].granted = @ \cup {a}]
    /\ requests' = [requests EXCEPT ![u] = Ask(u, "plan", FALSE, {a})]
    /\ UNCHANGED <<now, phase, state, source, vault, mempool, traded, left>>

\* The wallet refuses the approval or the refresh, or fails.
Refused(u) ==
    /\ Spend("fault")
    /\ \/ \E a \in panel[u].granting : panel' = [panel EXCEPT ![u].granting = @ \ {a}]
       \/ panel[u].refresh = "sent" /\ panel' = [panel EXCEPT ![u].refresh = "idle"]
    /\ UNCHANGED <<now, phase, chain, requests, mempool, traded>>

\* handleRefreshPrice
PressRefresh(u) ==
    /\ panel[u].plan.stale /\ panel[u].refresh = "idle" /\ ~Planning(u)
    /\ Spend("press")
    /\ panel' = [panel EXCEPT ![u].refresh = "sent"]
    /\ UNCHANGED <<now, phase, chain, requests, mempool, traded>>

\* priceRefreshMutation, its transaction and onSuccess
Refreshed(u) ==
    /\ panel[u].refresh = "sent" /\ RoomForPlan(u)
    /\ \E r \in Rates : source' = [rate |-> r, at |-> now]
    /\ panel' = [panel EXCEPT ![u].refresh = "planning"]
    /\ requests' = [requests EXCEPT ![u] = Ask(u, "plan", TRUE, {})]
    /\ UNCHANGED <<now, phase, state, vault, allowance, mempool, traded, left>>

\* handleExecute, canExecute
PressExecute(u) ==
    /\ Enabled(u) /\ panel[u].plan.ready /\ ~Planning(u) /\ panel[u].execution = "idle"
    /\ Spend("press")
    /\ panel' = [panel EXCEPT ![u].execution = "asked"]
    /\ requests' = [requests EXCEPT ![u] = Ask(u, "execute", FALSE, {})]
    /\ UNCHANGED <<now, phase, chain, mempool, traded>>

\* executeMutation, onSuccess: the result is shown and the contest loaded.
Done(p, result) == [p EXCEPT !.execution = "idle", !.result = result, !.seen = Moved]

\* A mutant: the swap is the one the plan on the screen allowed.
AnswerExecutePlanned(u, r) ==
    /\ r.for = "execute" /\ r.step = "defined"
    /\ requests' = [requests EXCEPT ![u] = @ \ {r}]
    /\ mempool' = [mempool EXCEPT ![u] = @ \cup {Route(r, source.at)}]
    /\ panel' = [panel EXCEPT ![u].execution = "sent"]
    /\ UNCHANGED <<now, phase, chain, traded, left>>

\* executePortfolioRebalance and the wallet's signature.
AnswerExecute(u, r) ==
    /\ r.for = "execute" /\ r.step = "defined"
    /\ requests' = [requests EXCEPT ![u] = @ \ {r}]
    /\ \E at \in {source.at, 0} :
        /\ IF at = source.at THEN UNCHANGED left ELSE Spend("fault")
        /\ IF Ready(r, at)
             THEN /\ mempool' = [mempool EXCEPT ![u] = @ \cup {Route(r, at)}]
                  /\ panel' = [panel EXCEPT ![u].execution = "sent"]
                  /\ UNCHANGED phase
             ELSE /\ panel' = [panel EXCEPT ![u] = Done(@, "noop")]
                  /\ phase' = Moved
                  /\ UNCHANGED mempool
    /\ UNCHANGED <<now, chain, traded>>

\* The request or the wallet fails, or the receipt is not waited for any
\* longer, when the swap may still be mined.
FailExecute(u) ==
    /\ panel[u].execution # "idle"
    /\ Spend("fault")
    /\ requests' = [requests EXCEPT ![u] = {r \in @ : r.for # "execute"}]
    /\ \E lost \in BOOLEAN : mempool' = [mempool EXCEPT ![u] =
            {[s EXCEPT !.awaited = FALSE] : s \in {t \in @ : ~(t.awaited /\ lost)}}]
    /\ panel' = [panel EXCEPT ![u].execution = "idle"]
    /\ UNCHANGED <<now, phase, chain, traded>>

\* A swap is mined and goes through or reverts; the panel tells neither from
\* the other, and when it still waits shows the execution.
Mine(u, s) ==
    /\ \/ SwapExact(u, s)
       \/ UNCHANGED <<source, vault, traded>>
    /\ mempool' = [mempool EXCEPT ![u] = @ \ {s}]
    /\ IF s.awaited
         THEN panel' = [panel EXCEPT ![u] = Done(@, "executed")] /\ phase' = Moved
         ELSE UNCHANGED <<panel, phase>>
    /\ UNCHANGED <<now, state, allowance, requests, left>>

Serve(u) == \E r \in requests[u] :
                Define(u, r) \/ AnswerPlan(u, r) \/ AnswerExecute(u, r)
Sent(u)  == \/ \E s \in mempool[u] : Mine(u, s)
            \/ \E a \in panel[u].granting : Approved(u, a)
            \/ Refreshed(u)

Next ==
    \/ Pass \/ Advance \/ Update
    \/ \E u \in Users :
        \/ GiveToVault(u) \/ SwapCallback(u)
        \/ Browse(u) \/ (\E i \in Intents : Fill(u, i))
        \/ PressPlan(u) \/ (\E r \in requests[u] : FailPlan(u, r))
        \/ (\E a \in panel[u].plan.missing : PressApprove(u, a))
        \/ PressRefresh(u) \/ PressExecute(u) \/ Refused(u) \/ FailExecute(u)
        \/ Serve(u) \/ Sent(u)

Spec == Init /\ [][Next]_vars

\* Servers answer and the chain mines what it was sent.
FairSpec == Spec /\ \A u \in Users : WF_vars(Serve(u)) /\ WF_vars(Sent(u))

-----------------------------------------------------------------------------
(* Properties                                                                *)

\* A vault's trade was judged by the rules no longer than a route's deadline
\* before it was mined, with the phase live and a price that was fresh then, and
\* the contract measured it by a snapshot younger than the window: whatever was
\* on the screen, changed in the form, timed out or refreshed meanwhile (the
\* plan of executePortfolioRebalance, the deadline of planTradeRoute, swapExact).
TradesWereJudged ==
    \A u \in Users : \A t \in traded[u] :
        /\ t.judgedAt >= RegistrationEnds
        /\ t.at <= t.judgedAt + Deadline
        /\ t.judgedAt <= t.pricedAt + Window
        /\ t.at < t.snapshotAt + Window /\ t.snapshotAt > 0

\* The step was a transfer straight to a vault, a direct call of its callback.
Given      == left'["gift"] # left["gift"]
CalledBack == left'["callback"] # left["callback"]

\* From the end of the live phase on, frozen or not, no swap changes a vault any
\* more, also none that was sent before: what is scored is what the last swap of
\* the live phase left, and what was given to the vault or called back from it
\* outside of swaps (swapExact, uniswapV3SwapCallback).
FinalAtTheEnd ==
    [][now >= LiveEnds => UNCHANGED vault \/ Given \/ CalledBack]_vars

\* At the price it is judged by, a trade costs a vault no more than the tolerance
\* of what is traded, in either direction, and but for a direct call of the
\* callback nothing else costs it anything (swapExact, requireWithinTolerance).
ValueAt(v, rate) == v.base * rate + v.quote
ValueKept ==
    [][~CalledBack => \A u \in Users : vault'[u] # vault[u] =>
        LET before == ValueAt(vault[u], source'.rate)
            after  == ValueAt(vault'[u], source'.rate)
        IN  after * BasisPoints >= before * (BasisPoints - ToleranceBps)]_vars

\* Trading takes no vault's value away: neither a trade, nor one after the end.
VaultIsSafe == FinalAtTheEnd /\ ValueKept

\* The execute button and the refresh button come back, whatever fails
\* (executeMutation, priceRefreshMutation).
PanelAnswers ==
    \A u \in Users : /\ panel[u].execution # "idle" ~> panel[u].execution = "idle"
                     /\ panel[u].refresh # "idle" ~> panel[u].refresh = "idle"

=============================================================================
