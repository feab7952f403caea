---------------------------- MODULE RebalanceProofs ----------------------------
(***************************************************************************)
(* Theorems about trading, for any number of participants, any intents,     *)
(* prices and payments of the pool, any window, deadline and tolerance, and  *)
(* however many plans of a panel overlap.                                    *)
(*                                                                          *)
(* That a trade was judged is not inductive: what is mined was signed steps  *)
(* before and knows nothing of the panel or the row any more.  The swap and  *)
(* the request it came from carry what was known when it was judged, and     *)
(* neither time nor the phase goes back.                                     *)
(***************************************************************************)
EXTENDS Rebalance, FiniteSetTheorems, TLAPS

-----------------------------------------------------------------------------
(* The inductive invariant                                                   *)

Holdings == [base : Nat, quote : Nat]
Trade    == [at : Nat, judgedAt : Nat, pricedAt : Nat, snapshotAt : Nat]
Plan     == [shown : BOOLEAN, ready : BOOLEAN, stale : BOOLEAN, missing : SUBSET Approvals]
Panel    == [seen : {"registering", "live", "over"}, intent : Intents, plan : Plan,
             granted : SUBSET Approvals, granting : SUBSET Approvals,
             execution : {"idle", "asked", "sent"}, result : {"none", "noop", "executed"},
             refresh : {"idle", "sent", "planning"}]

\* The row and the contract are live only when the registration is over.
Common ==
    /\ now \in 0..MaxTime
    /\ phase \in {"registering", "live", "over"}
    /\ phase = "live" => now >= RegistrationEnds
    /\ state \in {"registering", "live", "frozen"}
    /\ state = "live" => now > RegistrationEnds
    /\ source \in [rate : Rates, at : 0..now]
    /\ left \in [Spending -> Nat]

\* One plan is the newest, one execution is under way, one swap is waited for.
OnePlan(rs)      == \A r, s \in rs : (r.for = "plan" /\ r.newest /\ s.for = "plan" /\ s.newest) => r = s
OneExecution(rs) == \A r, s \in rs : (r.for = "execute" /\ s.for = "execute") => r = s
OneAwaited(ms)   == \A s, t \in ms : (s.awaited /\ t.awaited) => s = t

JudgedLive(rs) == \A r \in rs : r.live => now >= RegistrationEnds

\* What a swap keeps of the moment it was judged.
SwapJudged(s) ==
    /\ s.judgedAt >= RegistrationEnds
    /\ s.deadline <= s.judgedAt + Deadline
    /\ s.judgedAt <= s.pricedAt + Window

PanelSound(p, rs, ms) ==
    /\ rs \subseteq Request /\ ms \subseteq Swap
    /\ OnePlan(rs) /\ OneExecution(rs) /\ OneAwaited(ms)
    /\ p.execution = "asked" <=> \E r \in rs : r.for = "execute"
    /\ p.execution = "sent" <=> \E s \in ms : s.awaited
    /\ JudgedLive(rs)
    /\ \A s \in ms : SwapJudged(s)

PanelsSound ==
    /\ panel \in [Users -> Panel]
    /\ requests \in [Users -> SUBSET Request]
    /\ mempool \in [Users -> SUBSET Swap]
    /\ \A u \in Users : PanelSound(panel[u], requests[u], mempool[u])

VaultsSound ==
    /\ vault \in [Users -> Holdings]
    /\ allowance \in [Users -> [Assets -> Nat]]
    /\ traded \in [Users -> SUBSET Trade]
    /\ TradesWereJudged

Sound == Common /\ PanelsSound /\ VaultsSound

LEMMA ConstantsAre ==
    /\ MaxTradeAmount \in Nat /\ Window \in Nat \ {0} /\ Deadline \in Nat
    /\ ToleranceBps \in Nat /\ RegistrationEnds \in Nat /\ LiveEnds \in Nat
    /\ MaxTime \in Nat /\ RegistrationEnds < LiveEnds
BY RebalanceAssumption

LEMMA CommonTypes ==
    ASSUME Common
    PROVE  /\ now \in Nat /\ source.at \in Nat /\ source.at <= now /\ source.rate \in Nat \ {0}
           /\ source.rate \in Rates
<1>1. now \in Nat
    BY ConstantsAre DEF Common
<1>2. source.rate \in Rates /\ source.at \in 0..now
    BY DEF Common
<1>3. source.rate \in Nat \ {0}
    BY <1>2, RebalanceAssumption
<1> QED
    BY <1>1, <1>2, <1>3

-----------------------------------------------------------------------------
(* What a step at one panel has to show                                      *)

LEMMA PanelMoves ==
    ASSUME PanelsSound, NEW u \in Users, NEW p \in Panel, NEW rs, NEW ms, now' = now,
           panel' = [panel EXCEPT ![u] = p], requests' = [requests EXCEPT ![u] = rs],
           mempool' = [mempool EXCEPT ![u] = ms], PanelSound(p, rs, ms)
    PROVE  PanelsSound'
<1>1. /\ panel' \in [Users -> Panel]
      /\ requests' \in [Users -> SUBSET Request] /\ mempool' \in [Users -> SUBSET Swap]
    BY DEF PanelsSound, PanelSound
<1>2. PanelSound(p, rs, ms)'
    BY DEF PanelSound, JudgedLive
<1>3. ASSUME NEW w \in Users PROVE PanelSound(panel[w], requests[w], mempool[w])'
  <2>1. CASE w = u
    <3>1. panel'[w] = p /\ requests'[w] = rs /\ mempool'[w] = ms
      BY <2>1 DEF PanelsSound
    <3> QED
      BY <1>2, <3>1 DEF PanelSound, JudgedLive
  <2>2. CASE w # u
    <3>1. panel'[w] = panel[w] /\ requests'[w] = requests[w] /\ mempool'[w] = mempool[w]
      BY <2>2 DEF PanelsSound
    <3>2. PanelSound(panel[w], requests[w], mempool[w])
      BY DEF PanelsSound
    <3> QED
      BY <3>1, <3>2 DEF PanelSound, JudgedLive
  <2> QED
    BY <2>1, <2>2
<1> QED
    BY <1>1, <1>3 DEF PanelsSound

\* Only its form, its answers and its buttons move.
LEMMA PanelOnly ==
    ASSUME PanelsSound, NEW u \in Users, NEW p \in Panel, now' = now,
           panel' = [panel EXCEPT ![u] = p], UNCHANGED <<requests, mempool>>,
           p.execution = panel[u].execution
    PROVE  PanelsSound'
<1>1. requests' = [requests EXCEPT ![u] = requests[u]] /\ mempool' = [mempool EXCEPT ![u] = mempool[u]]
    BY DEF PanelsSound
<1>2. PanelSound(panel[u], requests[u], mempool[u])
    BY DEF PanelsSound
<1>3. PanelSound(p, requests[u], mempool[u])
    BY <1>2 DEF PanelSound
<1> QED
    BY <1>1, <1>3, PanelMoves

LEMMA PanelsRest ==
    ASSUME PanelsSound, now \in Nat, now' \in Nat, now <= now',
           UNCHANGED <<panel, requests, mempool>>
    PROVE  PanelsSound'
<1>1. ASSUME NEW u \in Users PROVE PanelSound(panel[u], requests[u], mempool[u])'
  <2>1. PanelSound(panel[u], requests[u], mempool[u])
    BY DEF PanelsSound
  <2>2. JudgedLive(requests[u])'
    BY <2>1, ConstantsAre DEF PanelSound, JudgedLive
  <2> QED
    BY <2>1, <2>2 DEF PanelSound
<1> QED
    BY <1>1 DEF PanelsSound

LEMMA VaultsRest ==
    ASSUME VaultsSound, UNCHANGED <<vault, allowance, traded>>
    PROVE  VaultsSound'
BY DEF VaultsSound, TradesWereJudged

LEMMA PanelOf ==
    ASSUME PanelsSound, NEW u \in Users
    PROVE  /\ panel[u] \in Panel /\ panel[u].intent \in Intents /\ panel[u].plan \in Plan
           /\ PanelSound(panel[u], requests[u], mempool[u])
BY DEF PanelsSound, Panel

\* A load of the contest moves the row by one step of time.
LEMMA RowMoves ==
    ASSUME Common, UNCHANGED <<now, state, source>>, left' \in [Spending -> Nat],
           phase' = phase \/ phase' = Moved
    PROVE  Common' /\ Moved \in {"registering", "live", "over"}
<1>1. Moved \in {"registering", "live", "over"} /\ (Moved = "live" => now >= RegistrationEnds)
    BY DEF Moved, Common
<1> QED
    BY <1>1 DEF Common

LEMMA SpendKeeps ==
    ASSUME left \in [Spending -> Nat], NEW what \in Spending, Spend(what)
    PROVE  left' \in [Spending -> Nat]
BY DEF Spend

LEMMA FewerRequests ==
    ASSUME NEW rs, NEW fewer \in SUBSET rs, rs \subseteq Request,
           OnePlan(rs), OneExecution(rs), JudgedLive(rs)
    PROVE  /\ fewer \subseteq Request
           /\ OnePlan(fewer) /\ OneExecution(fewer) /\ JudgedLive(fewer)
BY DEF OnePlan, OneExecution, JudgedLive

-----------------------------------------------------------------------------
(* A request more                                                            *)

\* The other requests of its kind are not the newest any more.
Aged(r, kind) == [r EXCEPT !.newest = r.newest /\ r.for # kind]

LEMMA AgedIs ==
    ASSUME NEW r \in Request, NEW kind
    PROVE  /\ Aged(r, kind) \in Request /\ Aged(r, kind).for = r.for
           /\ Aged(r, kind).live = r.live
           /\ Aged(r, kind).newest <=> (r.newest /\ r.for # kind)
<1>1. (r.newest /\ r.for # kind) \in BOOLEAN
    OBVIOUS
<1>2. PICK b \in BOOLEAN : b = (r.newest /\ r.for # kind)
    BY <1>1
<1>3. Aged(r, kind) = [r EXCEPT !.newest = b]
    BY <1>2 DEF Aged
<1>4. /\ [r EXCEPT !.newest = b] \in Request /\ [r EXCEPT !.newest = b].for = r.for
      /\ [r EXCEPT !.newest = b].live = r.live
      /\ [r EXCEPT !.newest = b].newest = b
    BY DEF Request
<1> QED
    BY <1>2, <1>3, <1>4

LEMMA AskSound ==
    ASSUME NEW u \in Users, panel[u].intent \in Intents, NEW kind \in {"plan", "execute"},
           NEW refresh \in BOOLEAN, NEW approval \in SUBSET Approvals,
           requests[u] \subseteq Request, OnePlan(requests[u]), OneExecution(requests[u]),
           JudgedLive(requests[u]),
           kind = "execute" => ~ \E r \in requests[u] : r.for = "execute"
    PROVE  /\ Ask(u, kind, refresh, approval) \subseteq Request
           /\ OnePlan(Ask(u, kind, refresh, approval))
           /\ OneExecution(Ask(u, kind, refresh, approval))
           /\ JudgedLive(Ask(u, kind, refresh, approval))
           /\ (\E r \in Ask(u, kind, refresh, approval) : r.for = "execute")
                <=> (kind = "execute" \/ \E r \in requests[u] : r.for = "execute")
<1> DEFINE new == [for |-> kind, intent |-> panel[u].intent, step |-> "asked", newest |-> TRUE,
                   refresh |-> refresh, approval |-> approval, live |-> FALSE, allowed |-> 0]
<1>1. PICK rs : rs = Ask(u, kind, refresh, approval)
    OBVIOUS
<1>2. PICK n \in Request : n = new
    BY DEF Request
<1>3. n.for = kind /\ ~n.live /\ n.newest
    BY <1>2
<1>4. \A r : r \in rs <=> (r = n \/ \E q \in requests[u] : r = Aged(q, kind))
    BY <1>1, <1>2 DEF Ask, Aged
<1>5. \A q \in requests[u] :
        /\ Aged(q, kind) \in Request /\ Aged(q, kind).for = q.for
        /\ Aged(q, kind).live = q.live
        /\ Aged(q, kind).newest <=> (q.newest /\ q.for # kind)
    BY AgedIs
<1>6. rs \subseteq Request
    BY <1>4, <1>5
<1>7. OnePlan(rs)
  <2> SUFFICES ASSUME NEW r \in rs, NEW s \in rs, r.for = "plan", r.newest, s.for = "plan", s.newest
               PROVE  r = s
    BY DEF OnePlan
  <2>1. ASSUME NEW x \in rs, x.for = "plan", x.newest
        PROVE  (kind = "plan" => x = n)
               /\ (kind = "execute" =>
                     \E q \in requests[u] : x = Aged(q, kind) /\ q.for = "plan" /\ q.newest)
    <3>1. CASE x = n
      BY <1>3, <2>1, <3>1
    <3>2. ASSUME NEW q \in requests[u], x = Aged(q, kind)
          PROVE  kind # "plan" /\ q.for = "plan" /\ q.newest
      BY <1>5, <2>1, <3>2
    <3> QED
      BY <1>4, <2>1, <3>1, <3>2
  <2>2. CASE kind = "plan"
    BY <2>1, <2>2
  <2>3. CASE kind = "execute"
    <3>1. PICK q \in requests[u] : r = Aged(q, kind) /\ q.for = "plan" /\ q.newest
      BY <2>1, <2>3
    <3>2. PICK k \in requests[u] : s = Aged(k, kind) /\ k.for = "plan" /\ k.newest
      BY <2>1, <2>3
    <3>3. q = k
      BY <3>1, <3>2 DEF OnePlan
    <3> QED
      BY <3>1, <3>2, <3>3
  <2> QED
    BY <2>2, <2>3
<1>8. OneExecution(rs)
  <2> SUFFICES ASSUME NEW r \in rs, NEW s \in rs, r.for = "execute", s.for = "execute"
               PROVE  r = s
    BY DEF OneExecution
  <2>1. ASSUME NEW x \in rs, x.for = "execute"
        PROVE  (kind = "execute" => x = n)
               /\ (kind = "plan" => \E q \in requests[u] : x = Aged(q, kind) /\ q.for = "execute")
    <3>1. CASE x = n
      BY <1>3, <2>1, <3>1
    <3>2. ASSUME NEW q \in requests[u], x = Aged(q, kind)
          PROVE  kind # "execute" /\ q.for = "execute"
      BY <1>5, <2>1, <3>2
    <3> QED
      BY <1>4, <2>1, <3>1, <3>2
  <2>2. CASE kind = "execute"
    BY <2>1, <2>2
  <2>3. CASE kind = "plan"
    <3>1. PICK q \in requests[u] : r = Aged(q, kind) /\ q.for = "execute"
      BY <2>1, <2>3
    <3>2. PICK k \in requests[u] : s = Aged(k, kind) /\ k.for = "execute"
      BY <2>1, <2>3
    <3>3. q = k
      BY <3>1, <3>2 DEF OneExecution
    <3> QED
      BY <3>1, <3>2, <3>3
  <2> QED
    BY <2>2, <2>3
<1>9. JudgedLive(rs)
  <2>1. ASSUME NEW r \in rs, r.live PROVE now >= RegistrationEnds
    <3>1. PICK q \in requests[u] : r = Aged(q, kind)
      BY <1>3, <1>4, <2>1
    <3>2. q.live
      BY <1>5, <2>1, <3>1
    <3> QED
      BY <3>2 DEF JudgedLive
  <2> QED
    BY <2>1 DEF JudgedLive
<1>10. (\E r \in rs : r.for = "execute")
         <=> (kind = "execute" \/ \E r \in requests[u] : r.for = "execute")
  <2>1. ASSUME NEW r \in rs, r.for = "execute"
        PROVE  kind = "execute" \/ \E q \in requests[u] : q.for = "execute"
    BY <1>3, <1>4, <1>5, <2>1
  <2>2. CASE kind = "execute"
    BY <1>3, <1>4, <2>2
  <2>3. ASSUME NEW q \in requests[u], q.for = "execute" PROVE \E r \in rs : r.for = "execute"
    <3>1. Aged(q, kind) \in rs
      BY <1>4
    <3> QED
      BY <1>5, <2>3, <3>1
  <2> QED
    BY <2>1, <2>2, <2>3
<1> QED
    BY <1>1, <1>6, <1>7, <1>8, <1>9, <1>10

\* Asking for a plan leaves an execution as it is.
LEMMA AskForPlan ==
    ASSUME PanelsSound, NEW u \in Users, NEW p \in Panel, now' = now,
           NEW refresh \in BOOLEAN, NEW approval \in SUBSET Approvals,
           panel' = [panel EXCEPT ![u] = p], UNCHANGED mempool,
           requests' = [requests EXCEPT ![u] = Ask(u, "plan", refresh, approval)],
           p.execution = panel[u].execution
    PROVE  PanelsSound'
<1>1. PanelSound(panel[u], requests[u], mempool[u]) /\ panel[u].intent \in Intents
    BY PanelOf
<1>2. PICK rs : rs = Ask(u, "plan", refresh, approval)
    OBVIOUS
<1>3. /\ rs \subseteq Request /\ OnePlan(rs) /\ OneExecution(rs) /\ JudgedLive(rs)
      /\ (\E r \in rs : r.for = "execute") <=> \E r \in requests[u] : r.for = "execute"
    BY <1>1, <1>2, AskSound DEF PanelSound
<1>4. PanelSound(p, rs, mempool[u])
    BY <1>1, <1>3 DEF PanelSound
<1>5. mempool' = [mempool EXCEPT ![u] = mempool[u]]
    BY DEF PanelsSound
<1> QED
    BY <1>2, <1>4, <1>5, PanelMoves

-----------------------------------------------------------------------------
(* The steps of the chain                                                    *)

LEMMA ChainStep ==
    ASSUME Sound, Pass \/ Advance \/ Update
    PROVE  Sound'
<1>0. Common /\ PanelsSound /\ VaultsSound /\ now \in Nat /\ source.at \in 0..now /\ source.rate \in Rates
    BY CommonTypes DEF Sound, Common
<1>1. VaultsSound'
    BY <1>0, VaultsRest DEF Pass, Advance, Update, chain
<1>2. CASE Pass
  <2>1. now' \in 0..MaxTime /\ now' = now + 1 /\ now <= now'
    BY <1>0, <1>2, ConstantsAre DEF Pass, Common
  <2>2. Common'
    BY <1>0, <1>2, <2>1, ConstantsAre DEF Pass, Common, chain
  <2>3. PanelsSound'
    BY <1>0, <1>2, <2>1, PanelsRest DEF Pass
  <2> QED
    BY <1>1, <2>2, <2>3 DEF Sound
<1>3. CASE Advance
  <2>1. Common'
    BY <1>0, <1>3 DEF Advance, Common
  <2>2. PanelsSound'
    BY <1>0, <1>3, PanelsRest DEF Advance
  <2> QED
    BY <1>1, <2>1, <2>2 DEF Sound
<1>4. CASE Update
  <2>1. PICK r \in Rates : source' = [rate |-> r, at |-> now]
    BY <1>4 DEF Update
  <2>2. source' \in [rate : Rates, at : 0..now]
    BY <1>0, <2>1
  <2>3. left' \in [Spending -> Nat]
    BY <1>0, <1>4, SpendKeeps DEF Update, Common, Spending
  <2>4. Common'
    BY <1>0, <1>4, <2>2, <2>3 DEF Update, Common
  <2>5. PanelsSound'
    BY <1>0, <1>4, PanelsRest DEF Update
  <2> QED
    BY <1>1, <2>4, <2>5 DEF Sound
<1> QED
    BY <1>2, <1>3, <1>4

\* Tokens that move outside of swaps: a vault holds no less than nothing.
LEMMA OutsideStep ==
    ASSUME Sound, NEW u \in Users, GiveToVault(u) \/ SwapCallback(u)
    PROVE  Sound'
<1>0. /\ Common /\ PanelsSound /\ VaultsSound /\ now \in Nat
      /\ vault \in [Users -> Holdings]
    BY CommonTypes DEF Sound, VaultsSound
<1>1. PICK v \in Holdings : v = vault[u]
    BY <1>0
<1>2. v.base \in Nat /\ v.quote \in Nat
    BY DEF Holdings
<1>3. \E w \in Holdings : vault' = [vault EXCEPT ![u] = w]
  <2>1. CASE GiveToVault(u)
    <3>1. /\ [v EXCEPT !.base = @ + 1] \in Holdings
          /\ [v EXCEPT !.quote = @ + 1] \in Holdings
      BY <1>2 DEF Holdings
    <3>2. \/ vault' = [vault EXCEPT ![u] = [v EXCEPT !.base = @ + 1]]
          \/ vault' = [vault EXCEPT ![u] = [v EXCEPT !.quote = @ + 1]]
      BY <1>0, <1>1, <2>1 DEF GiveToVault
    <3> QED
      BY <3>1, <3>2
  <2>2. CASE SwapCallback(u)
    <3>1. PICK b \in 0..v.base, q \in 0..v.quote :
            vault' = [vault EXCEPT ![u] = [base |-> v.base - b, quote |-> v.quote - q]]
      BY <1>0, <1>1, <2>2 DEF SwapCallback
    <3>2. [base |-> v.base - b, quote |-> v.quote - q] \in Holdings
      BY <1>2 DEF Holdings
    <3> QED
      BY <3>1, <3>2
  <2> QED
    BY <2>1, <2>2
<1>4. /\ UNCHANGED <<now, phase, state, source, allowance, panel, requests, mempool, traded>>
      /\ left' \in [Spending -> Nat]
    BY <1>0, SpendKeeps DEF GiveToVault, SwapCallback, Common, Spending
<1>5. vault' \in [Users -> Holdings]
    BY <1>0, <1>3
<1>6. VaultsSound'
    BY <1>0, <1>4, <1>5 DEF VaultsSound, TradesWereJudged
<1>7. Common'
    BY <1>0, <1>4 DEF Common
<1>8. PanelsSound'
    BY <1>0, <1>4, PanelsRest
<1> QED
    BY <1>6, <1>7, <1>8 DEF Sound

\* What a swap does when it goes through.
LEMMA SwapSound ==
    ASSUME Common, VaultsSound, NEW u \in Users, NEW s \in Swap, SwapJudged(s), SwapExact(u, s),
           now' = now, UNCHANGED allowance
    PROVE  VaultsSound' /\ source' \in [rate : Rates, at : 0..now]
<1>0. /\ now \in Nat /\ source.at \in 0..now /\ source.at \in Nat /\ source.rate \in Rates
      /\ source \in [rate : Rates, at : 0..now]
      /\ s.judgedAt \in Nat /\ s.pricedAt \in Nat /\ s.deadline \in Nat /\ s.intent \in Intents
    BY CommonTypes DEF Common, Swap
<1>1. s.intent.amount \in Nat
    BY <1>0, RebalanceAssumption
<1>2. /\ source' \in [rate : Rates, at : 0..now] /\ source'.at \in Nat
      /\ now < source'.at + Window /\ source'.at > 0
  <2>1. CASE Outdated
    <3>1. PICK r \in Rates : source' = [rate |-> r, at |-> now]
      BY <2>1 DEF SwapExact
    <3>2. now > 0
      BY <1>0, ConstantsAre DEF SwapExact, MayTrade, Common
    <3> QED
      BY <1>0, <3>1, <3>2, ConstantsAre
  <2>2. CASE ~Outdated
    <3>1. source' = source
      BY <2>2 DEF SwapExact
    <3> QED
      BY <1>0, <2>2, <3>1, ConstantsAre DEF Outdated
  <2> QED
    BY <2>1, <2>2
<1> DEFINE t == [at |-> now, judgedAt |-> s.judgedAt, pricedAt |-> s.pricedAt,
                 snapshotAt |-> source'.at]
<1>3. t \in Trade
    BY <1>0, <1>2 DEF Trade
<1>4. traded' = [traded EXCEPT ![u] = {t}]
    BY DEF SwapExact
<1>5. /\ t.judgedAt >= RegistrationEnds
      /\ t.at <= t.judgedAt + Deadline
      /\ t.judgedAt <= t.pricedAt + Window
      /\ t.at < t.snapshotAt + Window /\ t.snapshotAt > 0
    BY <1>0, <1>2, ConstantsAre DEF SwapExact, MayTrade, SwapJudged
<1> HIDE DEF t
<1>6. TradesWereJudged'
  <2>1. traded \in [Users -> SUBSET Trade] /\ TradesWereJudged
    BY DEF VaultsSound
  <2>2. \A w \in Users : traded'[w] = IF w = u THEN {t} ELSE traded[w]
    BY <1>4, <2>1
  <2>3. ASSUME NEW w \in Users, NEW x \in traded'[w]
        PROVE  /\ x.judgedAt >= RegistrationEnds
               /\ x.at <= x.judgedAt + Deadline
               /\ x.judgedAt <= x.pricedAt + Window
               /\ x.at < x.snapshotAt + Window /\ x.snapshotAt > 0
    <3>1. CASE w = u
      BY <1>5, <2>2, <2>3, <3>1
    <3>2. CASE w # u
      BY <2>1, <2>2, <2>3, <3>2 DEF TradesWereJudged
    <3> QED
      BY <3>1, <3>2
  <2> QED
    BY <2>3 DEF TradesWereJudged
<1>7. traded' \in [Users -> SUBSET Trade]
    BY <1>3, <1>4 DEF VaultsSound
<1>8. vault' \in [Users -> Holdings]
  <2>1. PICK out \in Outs : vault' = [vault EXCEPT ![u] = Exchanged(@, s, out)]
    BY DEF SwapExact
  <2>2. out \in Nat
    BY RebalanceAssumption
  <2>3. PICK v \in Holdings : v = vault[u]
    BY DEF VaultsSound
  <2>4. v.base \in Nat /\ v.quote \in Nat
    BY DEF Holdings
  <2>5. s.intent.amount <= IF SellsBase(s) THEN v.base ELSE v.quote
    BY <2>3 DEF SwapExact
  <2>6. Exchanged(v, s, out) \in Holdings
    BY <1>1, <2>2, <2>4, <2>5 DEF Exchanged, Holdings
  <2>7. vault' = [vault EXCEPT ![u] = Exchanged(v, s, out)]
    BY <2>1, <2>3
  <2> QED
    BY <2>6, <2>7 DEF VaultsSound
<1> QED
    BY <1>2, <1>6, <1>7, <1>8 DEF VaultsSound

-----------------------------------------------------------------------------
(* The steps of a panel                                                      *)

\* Steps that change neither the chain nor the vaults nor the time.
LEMMA Aside ==
    ASSUME Sound, UNCHANGED <<now, chain, traded>>, left' \in [Spending -> Nat],
           phase' = phase \/ phase' = Moved, PanelsSound'
    PROVE  Sound'
<1>1. Common'
    BY RowMoves DEF Sound, chain
<1>2. VaultsSound'
    BY VaultsRest DEF Sound, chain
<1> QED
    BY <1>1, <1>2 DEF Sound

LEMMA LeftTyped ==
    ASSUME Sound
    PROVE  /\ left \in [Spending -> Nat]
           /\ \A what \in Spending : Spend(what) => left' \in [Spending -> Nat]
BY SpendKeeps DEF Sound, Common

LEMMA FormStep ==
    ASSUME Sound, NEW u \in Users,
           Browse(u) \/ (\E i \in Intents : Fill(u, i)) \/ PressPlan(u) \/ PressRefresh(u)
    PROVE  Sound'
<1>0. PICK p \in Panel : p = panel[u] /\ PanelsSound
    BY PanelOf DEF Sound
<1>1. CASE Browse(u)
  <2>1. Moved \in {"registering", "live", "over"}
    BY <1>1, LeftTyped, RowMoves DEF Browse, Sound, Spending, chain
  <2> DEFINE q == [p EXCEPT !.seen = Moved]
  <2>2. q \in Panel /\ q.execution = p.execution /\ panel' = [panel EXCEPT ![u] = q]
    BY <1>0, <1>1, <2>1 DEF Browse, Panel
  <2> HIDE DEF q
  <2>3. PanelsSound'
    BY <1>0, <1>1, <2>2, PanelOnly DEF Browse
  <2> QED
    BY <1>1, <2>3, Aside, LeftTyped DEF Browse, Spending
<1>2. ASSUME NEW i \in Intents, Fill(u, i) PROVE Sound'
  <2> DEFINE q == [p EXCEPT !.intent = i]
  <2>1. q \in Panel /\ q.execution = p.execution /\ panel' = [panel EXCEPT ![u] = q]
    BY <1>0, <1>2 DEF Fill, Panel
  <2> HIDE DEF q
  <2>2. PanelsSound'
    BY <1>0, <1>2, <2>1, PanelOnly DEF Fill
  <2> QED
    BY <1>2, <2>2, Aside, LeftTyped DEF Fill, Spending
<1>3. CASE PressPlan(u)
  <2>1. panel' = [panel EXCEPT ![u] = p]
    BY <1>0, <1>3 DEF PressPlan, PanelsSound
  <2>2. PICK none \in SUBSET Approvals : none = {}
    OBVIOUS
  <2>3. requests' = [requests EXCEPT ![u] = Ask(u, "plan", FALSE, none)]
    BY <1>3, <2>2 DEF PressPlan
  <2>4. PanelsSound'
    BY <1>0, <1>3, <2>1, <2>3, AskForPlan DEF PressPlan
  <2> QED
    BY <1>3, <2>4, Aside, LeftTyped DEF PressPlan, Spending
<1>4. CASE PressRefresh(u)
  <2> DEFINE q == [p EXCEPT !.refresh = "sent"]
  <2>1. q \in Panel /\ q.execution = p.execution /\ panel' = [panel EXCEPT ![u] = q]
    BY <1>0, <1>4 DEF PressRefresh, Panel
  <2> HIDE DEF q
  <2>2. PanelsSound'
    BY <1>0, <1>4, <2>1, PanelOnly DEF PressRefresh
  <2> QED
    BY <1>4, <2>2, Aside, LeftTyped DEF PressRefresh, Spending
<1> QED
    BY <1>1, <1>2, <1>3, <1>4

LEMMA ApprovalStep ==
    ASSUME Sound, NEW u \in Users,
           (\E a \in panel[u].plan.missing : PressApprove(u, a)) \/ Refused(u)
    PROVE  Sound'
<1>0. PICK p \in Panel : p = panel[u] /\ PanelsSound
    BY PanelOf DEF Sound
<1>1. ASSUME NEW a \in panel[u].plan.missing, PressApprove(u, a) PROVE Sound'
  <2> DEFINE q == [p EXCEPT !.granting = @ \cup {a}]
  <2>1. a \in Approvals
    BY <1>0, <1>1 DEF Panel, Plan
  <2>2. q \in Panel /\ q.execution = p.execution /\ panel' = [panel EXCEPT ![u] = q]
    BY <1>0, <1>1, <2>1 DEF PressApprove, Panel
  <2> HIDE DEF q
  <2>3. PanelsSound'
    BY <1>0, <1>1, <2>2, PanelOnly DEF PressApprove
  <2> QED
    BY <1>1, <2>3, Aside, LeftTyped DEF PressApprove, Spending
<1>2. CASE Refused(u)
  <2>1. ASSUME NEW q \in Panel, q.execution = p.execution, panel' = [panel EXCEPT ![u] = q]
        PROVE  Sound'
    <3>1. PanelsSound'
      BY <1>0, <1>2, <2>1, PanelOnly DEF Refused
    <3> QED
      BY <1>2, <3>1, Aside, LeftTyped DEF Refused, Spending
  <2>2. ASSUME NEW a \in panel[u].granting, panel' = [panel EXCEPT ![u].granting = @ \ {a}]
        PROVE  Sound'
    <3> DEFINE q == [p EXCEPT !.granting = @ \ {a}]
    <3>1. q \in Panel /\ q.execution = p.execution /\ panel' = [panel EXCEPT ![u] = q]
      BY <1>0, <2>2 DEF Panel
    <3> HIDE DEF q
    <3> QED
      BY <2>1, <3>1
  <2>3. CASE panel' = [panel EXCEPT ![u].refresh = "idle"]
    <3> DEFINE q == [p EXCEPT !.refresh = "idle"]
    <3>1. q \in Panel /\ q.execution = p.execution /\ panel' = [panel EXCEPT ![u] = q]
      BY <1>0, <2>3 DEF Panel
    <3> HIDE DEF q
    <3> QED
      BY <2>1, <3>1
  <2> QED
    BY <1>2, <2>2, <2>3 DEF Refused
<1> QED
    BY <1>1, <1>2

\* The allowance and the snapshot change, and a plan is asked for.
LEMMA ConfirmedStep ==
    ASSUME Sound, NEW u \in Users,
           (\E a \in panel[u].granting : Approved(u, a)) \/ Refreshed(u)
    PROVE  Sound'
<1>0. PICK p \in Panel : p = panel[u] /\ PanelsSound /\ Common /\ VaultsSound
    BY PanelOf DEF Sound
<1>1. ASSUME NEW a \in panel[u].granting, Approved(u, a) PROVE Sound'
  <2>1. a \in Approvals /\ {a} \in SUBSET Approvals
    BY <1>0 DEF Panel
  <2> DEFINE q == [p EXCEPT !.granting = @ \ {a}, !.granted = @ \cup {a}]
  <2>2. q \in Panel /\ q.execution = p.execution
    BY <2>1 DEF Panel
  <2>3. panel' = [panel EXCEPT ![u] = q]
    BY <1>0, <1>1 DEF Approved, PanelsSound, Panel
  <2> HIDE DEF q
  <2>4. PanelsSound'
    BY <1>0, <1>1, <2>1, <2>2, <2>3, AskForPlan DEF Approved
  <2>5. allowance' \in [Users -> [Assets -> Nat]]
    BY <1>0, <1>1, <2>1 DEF Approved, VaultsSound, Approvals
  <2>6. VaultsSound'
    BY <1>0, <1>1, <2>5 DEF Approved, VaultsSound, TradesWereJudged
  <2>7. Common'
    BY <1>0, <1>1 DEF Approved, Common
  <2> QED
    BY <2>4, <2>6, <2>7 DEF Sound
<1>2. CASE Refreshed(u)
  <2> DEFINE q == [p EXCEPT !.refresh = "planning"]
  <2>1. q \in Panel /\ q.execution = p.execution /\ panel' = [panel EXCEPT ![u] = q]
    BY <1>0, <1>2 DEF Refreshed, Panel
  <2> HIDE DEF q
  <2>2. PanelsSound'
    <3>1. PICK none \in SUBSET Approvals : none = {}
      OBVIOUS
    <3>2. requests' = [requests EXCEPT ![u] = Ask(u, "plan", TRUE, none)]
      BY <1>2, <3>1 DEF Refreshed
    <3> QED
      BY <1>0, <1>2, <2>1, <3>2, AskForPlan DEF Refreshed
  <2>3. PICK r \in Rates : source' = [rate |-> r, at |-> now]
    BY <1>2 DEF Refreshed
  <2>4. source' \in [rate : Rates, at : 0..now]
    BY <1>0, <2>3, CommonTypes
  <2>5. Common'
    BY <1>0, <1>2, <2>4 DEF Refreshed, Common
  <2>6. VaultsSound'
    BY <1>0, <1>2, VaultsRest DEF Refreshed
  <2> QED
    BY <2>2, <2>5, <2>6 DEF Sound
<1> QED
    BY <1>1, <1>2

LEMMA PressExecuteStep ==
    ASSUME Sound, NEW u \in Users, PressExecute(u)
    PROVE  Sound'
<1>0. PICK p \in Panel : /\ p = panel[u] /\ PanelsSound /\ p.intent \in Intents
                         /\ PanelSound(p, requests[u], mempool[u])
    BY PanelOf DEF Sound
<1> DEFINE q == [p EXCEPT !.execution = "asked"]
<1>1. q \in Panel /\ q.execution = "asked" /\ panel' = [panel EXCEPT ![u] = q]
    BY <1>0 DEF PressExecute, Panel
<1> HIDE DEF q
<1>2. PICK rs : rs = Ask(u, "execute", FALSE, {})
    OBVIOUS
<1>3. p.execution = "idle"
    BY <1>0 DEF PressExecute
<1>4. /\ rs \subseteq Request /\ OnePlan(rs) /\ OneExecution(rs) /\ JudgedLive(rs)
      /\ \E r \in rs : r.for = "execute"
    BY <1>0, <1>2, <1>3, AskSound DEF PanelSound
<1>5. PanelSound(q, rs, mempool[u])
    BY <1>0, <1>1, <1>3, <1>4 DEF PanelSound
<1>6. PanelsSound'
  <2>1. mempool' = [mempool EXCEPT ![u] = mempool[u]] /\ requests' = [requests EXCEPT ![u] = rs]
    BY <1>0, <1>2 DEF PressExecute, PanelsSound
  <2> QED
    BY <1>0, <1>1, <1>5, <2>1, PanelMoves DEF PressExecute
<1> QED
    BY <1>6, Aside, LeftTyped DEF PressExecute, Spending

-----------------------------------------------------------------------------
(* The server's answers, and the swaps                                       *)

\* Any definition of the request keeps it a request of its kind.
LEMMA DefineStep ==
    ASSUME Sound, NEW u \in Users, NEW r \in requests[u], Define(u, r)
    PROVE  Sound'
<1>0. PICK p \in Panel : /\ p = panel[u] /\ PanelsSound
                         /\ PanelSound(p, requests[u], mempool[u]) /\ requests[u] \subseteq Request
    BY PanelOf DEF Sound, PanelSound
<1>1. PICK allowed \in {Known(u, r.intent.sell), 0} :
        /\ UNCHANGED left \/ Spend("fault")
        /\ requests' = [requests EXCEPT ![u] = (@ \ {r}) \cup
                {[r EXCEPT !.step = "defined", !.live = phase = "live", !.allowed = allowed]}]
    BY DEF Define
<1>2. r \in Request /\ r.intent \in Intents
    BY <1>0 DEF Request
<1>3. allowed \in Nat
  <2>1. allowance[u] \in [Assets -> Nat] /\ Whitelist \subseteq Assets
    BY DEF Sound, VaultsSound, Whitelist, Assets
  <2> QED
    BY <2>1 DEF Known
<1>4. PICK live \in BOOLEAN : live = (phase = "live")
    OBVIOUS
<1> DEFINE n == [r EXCEPT !.step = "defined", !.live = live, !.allowed = allowed]
<1>5. n \in Request /\ n.for = r.for /\ n.newest = r.newest /\ n.live = live
    BY <1>2, <1>3, <1>4 DEF Request
<1>6. PICK rs : rs = (requests[u] \ {r}) \cup {n}
    OBVIOUS
<1>7. requests' = [requests EXCEPT ![u] = rs]
    BY <1>1, <1>4, <1>6
<1> HIDE DEF n
<1>8. \A x : x \in rs <=> (x = n \/ (x \in requests[u] /\ x # r))
    BY <1>6
<1>9. rs \subseteq Request
    BY <1>0, <1>5, <1>8
<1>10. OnePlan(rs)
    BY <1>0, <1>5, <1>8 DEF PanelSound, OnePlan
<1>11. OneExecution(rs)
    BY <1>0, <1>5, <1>8 DEF PanelSound, OneExecution
<1>12. JudgedLive(rs)
    BY <1>0, <1>4, <1>5, <1>8 DEF PanelSound, JudgedLive, Sound, Common
<1>13. (\E x \in rs : x.for = "execute") <=> \E x \in requests[u] : x.for = "execute"
    BY <1>5, <1>8
<1>14. PanelSound(p, rs, mempool[u])
    BY <1>0, <1>9, <1>10, <1>11, <1>12, <1>13 DEF PanelSound
<1>15. PanelsSound'
  <2>1. /\ panel' = [panel EXCEPT ![u] = p] /\ mempool' = [mempool EXCEPT ![u] = mempool[u]]
        /\ now' = now
    BY <1>0 DEF Define, PanelsSound
  <2> QED
    BY <1>0, <1>7, <1>14, <2>1, PanelMoves
<1> QED
    BY <1>1, <1>15, Aside, LeftTyped DEF Define, Spending

\* A plan's request ends, with or without an answer.
LEMMA PlanEnds ==
    ASSUME PanelsSound, NEW u \in Users, NEW r \in requests[u], r.for = "plan",
           NEW q \in Panel, q.execution = panel[u].execution, now' = now, UNCHANGED mempool,
           panel' = [panel EXCEPT ![u] = q], requests' = [requests EXCEPT ![u] = @ \ {r}]
    PROVE  PanelsSound'
<1>0. PanelSound(panel[u], requests[u], mempool[u])
    BY PanelOf
<1>1. PICK rs \in SUBSET requests[u] : rs = requests[u] \ {r}
    OBVIOUS
<1>2. rs \subseteq Request /\ OnePlan(rs) /\ OneExecution(rs) /\ JudgedLive(rs)
    BY <1>0, FewerRequests DEF PanelSound
<1>3. (\E x \in rs : x.for = "execute") <=> \E x \in requests[u] : x.for = "execute"
    BY <1>1
<1>4. PanelSound(q, rs, mempool[u])
    BY <1>0, <1>2, <1>3 DEF PanelSound
<1>5. mempool' = [mempool EXCEPT ![u] = mempool[u]] /\ requests' = [requests EXCEPT ![u] = rs]
    BY <1>1 DEF PanelsSound
<1> QED
    BY <1>4, <1>5, PanelMoves

LEMMA MissingTyped ==
    ASSUME NEW r \in Request
    PROVE  Missing(r) \in SUBSET Approvals
<1>1. r.intent \in Intents /\ r.intent.sell \in Assets /\ r.intent.amount \in Nat
    BY RebalanceAssumption DEF Request
<1> QED
    BY <1>1 DEF Missing, Approvals

LEMMA PlanStep ==
    ASSUME Sound, NEW u \in Users, NEW r \in requests[u], AnswerPlan(u, r) \/ FailPlan(u, r)
    PROVE  Sound'
<1>0. PICK p \in Panel : /\ p = panel[u] /\ PanelsSound /\ requests[u] \subseteq Request
    BY PanelOf DEF Sound, PanelSound
<1>1. PICK e \in Panel : e = Ended(p, r) /\ e.execution = p.execution
  <2>1. Ended(p, r) \in Panel /\ Ended(p, r).execution = p.execution
    BY DEF Ended, Panel
  <2> QED
    BY <2>1
<1>2. CASE AnswerPlan(u, r)
  <2>1. PICK at \in {source.at, 0} :
          panel' = [panel EXCEPT ![u] = [Ended(panel[u], r) EXCEPT
                !.plan = [shown |-> TRUE, ready |-> Ready(r, at), stale |-> ~Fresh(at),
                          missing |-> Missing(r)],
                !.granted = @ \cap Missing(r), !.result = "none"]]
    BY <1>2 DEF AnswerPlan
  <2>2. PICK m \in SUBSET Approvals : m = Missing(r)
    BY <1>0, MissingTyped
  <2>3. PICK ready \in BOOLEAN : ready = Ready(r, at)
    BY DEF Ready
  <2>4. PICK stale \in BOOLEAN : stale = ~Fresh(at)
    BY DEF Fresh
  <2> DEFINE plan == [shown |-> TRUE, ready |-> ready, stale |-> stale, missing |-> m]
             q == [e EXCEPT !.plan = plan, !.granted = @ \cap m, !.result = "none"]
  <2>5. plan \in Plan
    BY DEF Plan
  <2>6. q \in Panel /\ q.execution = e.execution
    <3> HIDE DEF plan
    <3> QED
      BY <2>5 DEF Panel
  <2>7. panel' = [panel EXCEPT ![u] = q]
    <3>1. q = [Ended(panel[u], r) EXCEPT
                !.plan = [shown |-> TRUE, ready |-> Ready(r, at), stale |-> ~Fresh(at),
                          missing |-> Missing(r)],
                !.granted = @ \cap Missing(r), !.result = "none"]
      BY <1>0, <1>1, <2>2, <2>3, <2>4, Zenon
    <3> HIDE DEF q
    <3> QED
      BY <2>1, <3>1, Zenon
  <2> HIDE DEF q, plan
  <2>8. PanelsSound'
    BY <1>0, <1>1, <1>2, <2>6, <2>7, PlanEnds DEF AnswerPlan
  <2>9. UNCHANGED left \/ Spend("fault")
    BY <1>2 DEF AnswerPlan
  <2> QED
    BY <1>2, <2>8, <2>9, Aside, LeftTyped DEF AnswerPlan, Spending
<1>3. CASE FailPlan(u, r)
  <2> DEFINE q == [e EXCEPT !.granted = @ \ r.approval]
  <2>1. q \in Panel /\ q.execution = e.execution
    BY DEF Panel
  <2>2. panel' = [panel EXCEPT ![u] = q]
    <3>1. q = [Ended(panel[u], r) EXCEPT !.granted = @ \ r.approval]
      BY <1>0, <1>1, Zenon
    <3> HIDE DEF q
    <3> QED
      BY <1>3, <3>1, Zenon DEF FailPlan
  <2> HIDE DEF q
  <2>3. PanelsSound'
    BY <1>0, <1>1, <1>3, <2>1, <2>2, PlanEnds DEF FailPlan
  <2> QED
    BY <1>3, <2>3, Aside, LeftTyped DEF FailPlan, Spending
<1> QED
    BY <1>2, <1>3

\* The swap that is signed was judged just now.
LEMMA RouteJudged ==
    ASSUME Common, NEW r \in Request, NEW at \in {source.at, 0}, Ready(r, at),
           r.live => now >= RegistrationEnds
    PROVE  Route(r, at) \in Swap /\ SwapJudged(Route(r, at)) /\ Route(r, at).awaited
<1>1. now \in Nat /\ PriceTime(at) \in Nat /\ r.intent \in Intents
    BY CommonTypes DEF PriceTime, Request
<1>2. now <= PriceTime(at) + Window /\ now >= RegistrationEnds
    BY DEF Ready, Fresh
<1>3. Route(r, at) = [intent |-> r.intent, deadline |-> now + Deadline, judgedAt |-> now,
                      pricedAt |-> PriceTime(at), awaited |-> TRUE]
    BY DEF Route
<1> QED
    BY <1>1, <1>2, <1>3, ConstantsAre DEF Swap, SwapJudged

LEMMA AnswerExecuteStep ==
    ASSUME Sound, NEW u \in Users, NEW r \in requests[u], AnswerExecute(u, r)
    PROVE  Sound'
<1>0. PICK p \in Panel : /\ p = panel[u] /\ PanelsSound /\ requests[u] \subseteq Request
                         /\ PanelSound(p, requests[u], mempool[u])
    BY PanelOf DEF Sound, PanelSound
<1>1. PICK rs \in SUBSET requests[u] : rs = requests[u] \ {r}
    OBVIOUS
<1>2. /\ rs \subseteq Request /\ OnePlan(rs) /\ OneExecution(rs) /\ JudgedLive(rs)
      /\ requests' = [requests EXCEPT ![u] = rs]
    BY <1>0, <1>1, FewerRequests DEF PanelSound, AnswerExecute
<1>3. r.for = "execute" /\ ~ \E x \in rs : x.for = "execute"
    BY <1>0, <1>1 DEF AnswerExecute, PanelSound, OneExecution
<1>4. p.execution = "asked" /\ ~ \E s \in mempool[u] : s.awaited
    BY <1>0, <1>3 DEF PanelSound
<1>5. PICK at \in {source.at, 0} :
        /\ UNCHANGED left \/ Spend("fault")
        /\ IF Ready(r, at)
             THEN /\ mempool' = [mempool EXCEPT ![u] = @ \cup {Route(r, at)}]
                  /\ panel' = [panel EXCEPT ![u].execution = "sent"]
                  /\ UNCHANGED phase
             ELSE /\ panel' = [panel EXCEPT ![u] = Done(@, "noop")]
                  /\ phase' = Moved
                  /\ UNCHANGED mempool
    BY DEF AnswerExecute
<1>6. PanelsSound'
  <2>1. CASE Ready(r, at)
    <3> DEFINE q == [p EXCEPT !.execution = "sent"]
    <3>1. q \in Panel /\ q.execution = "sent" /\ panel' = [panel EXCEPT ![u] = q]
      BY <1>0, <1>5, <2>1 DEF Panel
    <3> HIDE DEF q
    <3>2. r \in Request /\ (r.live => now >= RegistrationEnds)
      BY <1>0 DEF PanelSound, JudgedLive
    <3>3. PICK s \in Swap : s = Route(r, at) /\ SwapJudged(s) /\ s.awaited
      BY <2>1, <3>2, RouteJudged DEF Sound
    <3>4. PICK ms : ms = mempool[u] \cup {s}
      OBVIOUS
    <3>5. ms \subseteq Swap /\ OneAwaited(ms) /\ (\A x \in ms : SwapJudged(x))
          /\ \E x \in ms : x.awaited
      BY <1>0, <1>4, <3>3, <3>4 DEF PanelSound, OneAwaited
    <3>6. PanelSound(q, rs, ms)
      BY <1>2, <1>3, <3>1, <3>5 DEF PanelSound
    <3>7. mempool' = [mempool EXCEPT ![u] = ms]
      BY <1>5, <2>1, <3>3, <3>4
    <3> QED
      BY <1>0, <1>2, <3>1, <3>6, <3>7, PanelMoves DEF AnswerExecute
  <2>2. CASE ~Ready(r, at)
    <3>1. Moved \in {"registering", "live", "over"}
      BY <1>5, <2>2, LeftTyped, RowMoves DEF AnswerExecute, Sound, Spending, chain
    <3> DEFINE q == [p EXCEPT !.execution = "idle", !.result = "noop", !.seen = Moved]
    <3>2. q \in Panel /\ q.execution = "idle" /\ panel' = [panel EXCEPT ![u] = q]
      BY <1>0, <1>5, <2>2, <3>1 DEF Panel, Done
    <3> HIDE DEF q
    <3>3. PanelSound(q, rs, mempool[u])
      BY <1>0, <1>2, <1>3, <1>4, <3>2 DEF PanelSound
    <3>4. mempool' = [mempool EXCEPT ![u] = mempool[u]]
      BY <1>5, <2>2, <1>0 DEF PanelsSound
    <3> QED
      BY <1>0, <1>2, <3>2, <3>3, <3>4, PanelMoves DEF AnswerExecute
  <2> QED
    BY <2>1, <2>2
<1>7. phase' = phase \/ phase' = Moved
    BY <1>5
<1> QED
    BY <1>5, <1>6, <1>7, Aside, LeftTyped DEF AnswerExecute, Spending

LEMMA FailExecuteStep ==
    ASSUME Sound, NEW u \in Users, FailExecute(u)
    PROVE  Sound'
<1>0. PICK p \in Panel : /\ p = panel[u] /\ PanelsSound /\ requests[u] \subseteq Request
                         /\ PanelSound(p, requests[u], mempool[u])
    BY PanelOf DEF Sound, PanelSound
<1>1. PICK rs \in SUBSET requests[u] : rs = {r \in requests[u] : r.for # "execute"}
    OBVIOUS
<1>2. /\ rs \subseteq Request /\ OnePlan(rs) /\ OneExecution(rs) /\ JudgedLive(rs)
      /\ ~ \E x \in rs : x.for = "execute"
      /\ requests' = [requests EXCEPT ![u] = rs]
    BY <1>0, <1>1, FewerRequests DEF PanelSound, FailExecute
<1>3. PICK lost \in BOOLEAN : mempool' = [mempool EXCEPT ![u] =
            {[s EXCEPT !.awaited = FALSE] : s \in {t \in @ : ~(t.awaited /\ lost)}}]
    BY DEF FailExecute
<1>4. PICK ms : ms = {[s EXCEPT !.awaited = FALSE] : s \in {t \in mempool[u] : ~(t.awaited /\ lost)}}
    OBVIOUS
<1>5. ASSUME NEW s \in ms PROVE s \in Swap /\ ~s.awaited /\ SwapJudged(s)
  <2>1. PICK t \in mempool[u] : s = [t EXCEPT !.awaited = FALSE]
    BY <1>4
  <2>2. t \in Swap /\ SwapJudged(t)
    BY <1>0 DEF PanelSound
  <2> QED
    BY <2>1, <2>2 DEF Swap, SwapJudged
<1> DEFINE q == [p EXCEPT !.execution = "idle"]
<1>6. q \in Panel /\ q.execution = "idle" /\ panel' = [panel EXCEPT ![u] = q]
    BY <1>0 DEF FailExecute, Panel
<1> HIDE DEF q
<1>7. PanelSound(q, rs, ms)
    BY <1>2, <1>5, <1>6 DEF PanelSound, OneAwaited
<1>8. PanelsSound'
  <2>1. mempool' = [mempool EXCEPT ![u] = ms] /\ now' = now
    BY <1>0, <1>3, <1>4 DEF FailExecute, PanelsSound
  <2> QED
    BY <1>0, <1>2, <1>6, <1>7, <2>1, PanelMoves
<1> QED
    BY <1>8, Aside, LeftTyped DEF FailExecute, Spending

LEMMA MineStep ==
    ASSUME Sound, NEW u \in Users, NEW s \in mempool[u], Mine(u, s)
    PROVE  Sound'
<1>0. PICK p \in Panel : /\ p = panel[u] /\ PanelsSound /\ Common /\ VaultsSound
                         /\ PanelSound(p, requests[u], mempool[u])
    BY PanelOf DEF Sound
<1>1. s \in Swap /\ SwapJudged(s)
    BY <1>0 DEF PanelSound
<1>2. VaultsSound' /\ source' \in [rate : Rates, at : 0..now]
  <2>1. CASE SwapExact(u, s)
    BY <1>0, <1>1, <2>1, SwapSound DEF Mine
  <2>2. CASE UNCHANGED <<source, vault, traded>>
    BY <1>0, <2>2, VaultsRest DEF Mine, Common
  <2> QED
    BY <2>1, <2>2 DEF Mine
<1>3. Common' /\ Moved \in {"registering", "live", "over"}
  <2>1. Moved \in {"registering", "live", "over"} /\ (Moved = "live" => now >= RegistrationEnds)
    BY <1>0 DEF Moved, Common
  <2>2. phase' = phase \/ phase' = Moved
    BY DEF Mine
  <2> QED
    BY <1>0, <1>2, <2>1, <2>2 DEF Mine, Common
<1>4. PICK ms \in SUBSET mempool[u] : ms = mempool[u] \ {s}
    OBVIOUS
<1>5. ms \subseteq Swap /\ OneAwaited(ms) /\ (\A x \in ms : SwapJudged(x))
    BY <1>0, <1>4 DEF PanelSound, OneAwaited
<1>6. mempool' = [mempool EXCEPT ![u] = ms] /\ requests' = [requests EXCEPT ![u] = requests[u]]
    BY <1>0, <1>4 DEF Mine, PanelsSound
<1>7. PanelsSound'
  <2>1. CASE s.awaited
    <3> DEFINE q == [p EXCEPT !.execution = "idle", !.result = "executed", !.seen = Moved]
    <3>0. panel' = [panel EXCEPT ![u] = Done(@, "executed")]
      BY <2>1 DEF Mine
    <3>1. q \in Panel /\ q.execution = "idle" /\ panel' = [panel EXCEPT ![u] = q]
      BY <1>0, <1>3, <3>0 DEF Panel, Done
    <3> HIDE DEF q
    <3>2. ~(\E x \in ms : x.awaited) /\ p.execution = "sent"
      BY <1>0, <1>4, <2>1 DEF PanelSound, OneAwaited
    <3>3. PanelSound(q, requests[u], ms)
      BY <1>0, <1>5, <3>1, <3>2 DEF PanelSound
    <3> QED
      BY <1>0, <1>6, <3>1, <3>3, PanelMoves DEF Mine
  <2>2. CASE ~s.awaited
    <3>1. panel' = [panel EXCEPT ![u] = p]
      BY <1>0, <2>2 DEF Mine, PanelsSound
    <3>2. (\E x \in ms : x.awaited) <=> \E x \in mempool[u] : x.awaited
      BY <1>4, <2>2
    <3>3. PanelSound(p, requests[u], ms)
      BY <1>0, <1>5, <3>2 DEF PanelSound
    <3> QED
      BY <1>0, <1>6, <3>1, <3>3, PanelMoves DEF Mine
  <2> QED
    BY <2>1, <2>2
<1> QED
    BY <1>2, <1>3, <1>7 DEF Sound

-----------------------------------------------------------------------------
(* The theorems                                                              *)

LEMMA SoundStep ==
    ASSUME Sound, [Next]_vars
    PROVE  Sound'
<1>1. CASE UNCHANGED vars
  <2>1. PanelsSound'
    BY <1>1, CommonTypes, PanelsRest DEF Sound, vars
  <2>2. VaultsSound'
    BY <1>1, VaultsRest DEF Sound, vars, chain
  <2>3. Common'
    BY <1>1 DEF Sound, vars, chain, Common
  <2> QED
    BY <2>1, <2>2, <2>3 DEF Sound
<1>2. CASE Pass \/ Advance \/ Update
    BY <1>2, ChainStep
<1>3. ASSUME NEW u \in Users,
             \/ Browse(u) \/ (\E i \in Intents : Fill(u, i))
             \/ PressPlan(u) \/ (\E r \in requests[u] : FailPlan(u, r))
             \/ (\E a \in panel[u].plan.missing : PressApprove(u, a))
             \/ PressRefresh(u) \/ PressExecute(u) \/ Refused(u) \/ FailExecute(u)
      PROVE  Sound'
    BY <1>3, FormStep, PlanStep, ApprovalStep, PressExecuteStep, FailExecuteStep
<1>4. ASSUME NEW u \in Users, Serve(u) PROVE Sound'
    BY <1>4, DefineStep, PlanStep, AnswerExecuteStep DEF Serve
<1>5. ASSUME NEW u \in Users, Sent(u) PROVE Sound'
    BY <1>5, MineStep, ConfirmedStep DEF Sent
<1>6. ASSUME NEW u \in Users, GiveToVault(u) \/ SwapCallback(u) PROVE Sound'
    BY <1>6, OutsideStep
<1> QED
    BY <1>1, <1>2, <1>3, <1>4, <1>5, <1>6 DEF Next

LEMMA SoundInit == Init => Sound
<1> SUFFICES ASSUME Init PROVE Sound
    OBVIOUS
<1>1. Common
  <2>1. PICK r \in Rates : source = [rate |-> r, at |-> 0]
    BY DEF Init
  <2> QED
    BY <2>1, RebalanceAssumption DEF Init, Common
<1>2. VaultsSound
    BY RebalanceAssumption DEF Init, VaultsSound, Holdings, TradesWereJudged
<1>3. PanelsSound
  <2>1. NoPlan \in Plan
    BY DEF NoPlan, Plan
  <2>2. panel \in [Users -> Panel] /\ \A u \in Users : panel[u].execution = "idle"
    BY <2>1 DEF Init, Panel
  <2>3. \A u \in Users : requests[u] = {} /\ mempool[u] = {}
    BY DEF Init
  <2>4. \A u \in Users : PanelSound(panel[u], requests[u], mempool[u])
    BY <2>2, <2>3 DEF PanelSound, OnePlan, OneExecution, OneAwaited, JudgedLive
  <2> QED
    BY <2>2, <2>4 DEF PanelsSound, Init
<1> QED
    BY <1>1, <1>2, <1>3 DEF Sound

\* For any number of participants, intents, prices and overlapping plans: every
\* swap that went through was judged by the rules at a time in the live phase no
\* longer than the route's deadline before it was mined, with a price fresh at
\* that time, and the contract measured it by a snapshot younger than the window
\* (executePortfolioRebalance, planTradeRoute, swapExact).  The source's window
\* is not empty: configure refuses one under ten minutes.
THEOREM EveryTradeWasJudged == Spec => []TradesWereJudged
<1>1. Sound => TradesWereJudged
    BY DEF Sound, VaultsSound
<1> QED
    BY <1>1, SoundInit, SoundStep, PTL DEF Spec

\* Every variable of trading keeps its type; of a panel's requests one plan at
\* most is the newest, and its button waits exactly for what is under way.
THEOREM RebalanceTyped == Spec => []TypeOK
<1>1. Sound => TypeOK
  <2> SUFFICES ASSUME Sound PROVE TypeOK
    OBVIOUS
  <2>1. Common /\ PanelsSound /\ VaultsSound
    BY DEF Sound
  <2>2. ASSUME NEW u \in Users
        PROVE  /\ vault[u] \in [base : Nat, quote : Nat]
               /\ \A a \in Assets : allowance[u][a] \in Nat
               /\ panel[u].intent \in Intents
               /\ panel[u].plan.missing \subseteq Approvals
               /\ panel[u].granted \cup panel[u].granting \subseteq Approvals
               /\ panel[u].execution \in {"idle", "asked", "sent"}
               /\ panel[u].refresh \in {"idle", "sent", "planning"}
    BY <2>1 DEF PanelsSound, Panel, Plan, VaultsSound, Holdings
  <2>3. ASSUME NEW u \in Users
        PROVE  Cardinality({r \in requests[u] : r.for = "plan" /\ r.newest}) <= 1
    <3>1. PICK S : S = {r \in requests[u] : r.for = "plan" /\ r.newest}
      OBVIOUS
    <3>2. \A r, s \in S : r = s
      BY <2>1, <3>1 DEF PanelsSound, PanelSound, OnePlan
    <3>3. S = {} \/ \E r : S = {r}
      BY <3>2
    <3>4. Cardinality(S) \in {0, 1}
      <4>1. ASSUME NEW r, S = {r} PROVE Cardinality(S) = 1
        BY <4>1, FS_Singleton
      <4> QED
        BY <3>3, <4>1, FS_EmptySet
    <3> QED
      BY <3>1, <3>4
  <2>4. ASSUME NEW u \in Users
        PROVE  /\ \A r \in requests[u] : r \in Request
               /\ \A s \in mempool[u] : s \in Swap
               /\ panel[u].execution = "asked" <=> \E r \in requests[u] : r.for = "execute"
               /\ panel[u].execution = "sent" <=> \E s \in mempool[u] : s.awaited
    BY <2>1 DEF PanelsSound, PanelSound
  <2>5. source.rate \in Rates /\ source.at \in 0..now
    BY <2>1 DEF Common
  <2> QED
    BY <2>1, <2>2, <2>3, <2>4, <2>5 DEF TypeOK, Common
<1> QED
    BY <1>1, SoundInit, SoundStep, PTL DEF Spec

-----------------------------------------------------------------------------
(* What a vault keeps                                                        *)

LEMMA ProductOrder ==
    ASSUME NEW a \in Nat, NEW b \in Nat, NEW r \in Nat, a <= b
    PROVE  a * r \in Nat /\ b * r \in Nat /\ a * r <= b * r
<1>1. PICK d \in Nat : b = a + d
  <2>1. b - a \in Nat /\ b = a + (b - a)
    OBVIOUS
  <2> QED
    BY <2>1
<1>2. b * r = a * r + d * r /\ d * r \in Nat /\ a * r \in Nat
    BY <1>1
<1> QED
    BY <1>2

\* What is lost is within the tolerance of a part of what there was.
LEMMA WithinWhole ==
    ASSUME NEW whole \in Nat, NEW part \in Nat, part <= whole, NEW after \in Int,
           NEW gap \in Nat, after >= whole - gap, gap * BasisPoints <= ToleranceBps * part
    PROVE  after * BasisPoints >= whole * (BasisPoints - ToleranceBps)
<1>1. ToleranceBps * part \in Nat /\ ToleranceBps * whole \in Nat
      /\ ToleranceBps * part <= ToleranceBps * whole
  <2>1. part * ToleranceBps <= whole * ToleranceBps
    BY ConstantsAre, ProductOrder
  <2> QED
    BY <2>1, ConstantsAre
<1>2. PICK x \in Nat : x = ToleranceBps * whole /\ gap * 10000 <= x
    BY <1>1 DEF BasisPoints
<1>3. after * 10000 >= whole * 10000 - x
    BY <1>2
<1>4. whole * (10000 - ToleranceBps) = whole * 10000 - x
    BY <1>2, ConstantsAre
<1> QED
    BY <1>3, <1>4 DEF BasisPoints

LEMMA ValueStays ==
    ASSUME Common, VaultsSound, NEW u \in Users, NEW s \in Swap, SwapExact(u, s),
           NEW w \in Users, vault'[w] # vault[w]
    PROVE  ValueAt(vault'[w], source'.rate) * BasisPoints
             >= ValueAt(vault[w], source'.rate) * (BasisPoints - ToleranceBps)
<1>1. PICK rate \in Nat : rate = source'.rate
  <2>1. source'.rate \in Rates
    BY CommonTypes DEF SwapExact
  <2> QED
    BY <2>1, RebalanceAssumption
<1>2. PICK out \in Nat : Accepts(s, out, rate) /\ vault' = [vault EXCEPT ![u] = Exchanged(@, s, out)]
    BY <1>1, RebalanceAssumption DEF SwapExact
<1>3. PICK v \in Holdings : v = vault[u]
    BY DEF VaultsSound
<1>4. w = u /\ vault'[w] = Exchanged(v, s, out)
    BY <1>2, <1>3 DEF VaultsSound
<1>5. PICK amount \in Nat : amount = s.intent.amount
    BY RebalanceAssumption DEF Swap
<1>6. PICK b \in Nat, q \in Nat : b = v.base /\ q = v.quote
    BY DEF Holdings
<1>7. amount <= IF SellsBase(s) THEN b ELSE q
    BY <1>3, <1>5, <1>6 DEF SwapExact
<1>8. PICK worth \in Nat : worth = b * rate
    OBVIOUS
<1>9. ValueAt(vault[w], rate) = worth + q
    BY <1>3, <1>4, <1>6, <1>8 DEF ValueAt
<1>10. CASE SellsBase(s)
  <2>1. PICK part \in Nat : part = amount * rate /\ part <= worth
    BY <1>7, <1>8, <1>10, ProductOrder
  <2>2. ValueAt(vault'[w], rate) = worth - part + q + out
    <3>1. vault'[w] = [base |-> b - amount, quote |-> q + out]
      BY <1>4, <1>5, <1>6, <1>10 DEF Exchanged
    <3>2. (b - amount) * rate = worth - part
      BY <1>8, <2>1
    <3> QED
      BY <2>1, <3>1, <3>2 DEF ValueAt
  <2>3. Near(amount, out, rate)
    BY <1>2, <1>5, <1>10 DEF Accepts
  <2>4. PICK gap \in Nat : /\ gap = IF out > part THEN out - part ELSE part - out
                           /\ gap * BasisPoints <= ToleranceBps * amount * rate
    <3>1. (IF out > part THEN out - part ELSE part - out) \in Nat
      OBVIOUS
    <3> QED
      BY <2>1, <2>3, <3>1 DEF Near
  <2>5. gap * BasisPoints <= ToleranceBps * part
    BY <2>1, <2>4, ConstantsAre
  <2>6. worth - part + q + out >= (worth + q) - gap
    BY <2>4
  <2>7. (worth - part + q + out) * BasisPoints >= (worth + q) * (BasisPoints - ToleranceBps)
    BY <2>1, <2>5, <2>6, WithinWhole
  <2> QED
    BY <1>1, <1>9, <2>2, <2>7
<1>11. CASE ~SellsBase(s)
  <2>1. PICK part \in Nat : part = out * rate
    OBVIOUS
  <2>2. ValueAt(vault'[w], rate) = worth + part + q - amount
    <3>1. vault'[w] = [base |-> b + out, quote |-> q - amount]
      BY <1>4, <1>5, <1>6, <1>11 DEF Exchanged
    <3>2. (b + out) * rate = worth + part
      BY <1>8, <2>1
    <3> QED
      BY <1>7, <1>11, <3>1, <3>2 DEF ValueAt
  <2>3. Near(out, amount, rate)
    BY <1>2, <1>5, <1>11 DEF Accepts
  <2>4. CASE amount <= part
    <3>1. worth + part + q - amount >= (worth + q) - 0 /\ 0 * BasisPoints <= ToleranceBps * 0
      BY <2>4, ConstantsAre DEF BasisPoints
    <3>2. (worth + part + q - amount) * BasisPoints >= (worth + q) * (BasisPoints - ToleranceBps)
      BY <3>1, WithinWhole
    <3> QED
      BY <1>1, <1>9, <2>2, <3>2
  <2>5. CASE amount > part
    <3>1. PICK gap \in Nat : gap = amount - part /\ gap * BasisPoints <= ToleranceBps * out * rate
      <4>1. amount - part \in Nat
        BY <2>5
      <4> QED
        BY <2>1, <2>3, <2>5, <4>1 DEF Near
    <3>2. gap * BasisPoints <= ToleranceBps * part
      BY <2>1, <3>1, ConstantsAre
    <3>3. worth + part + q - amount >= (worth + q) - gap /\ part <= worth + q
      BY <1>7, <1>11, <2>5, <3>1
    <3>4. (worth + part + q - amount) * BasisPoints >= (worth + q) * (BasisPoints - ToleranceBps)
      BY <3>2, <3>3, WithinWhole
    <3> QED
      BY <1>1, <1>9, <2>2, <3>4
  <2> QED
    BY <2>4, <2>5
<1> QED
    BY <1>10, <1>11

\* A gift is worth something to its vault.
LEMMA GiftsCostNothing ==
    ASSUME Common, VaultsSound, NEW u \in Users, GiveToVault(u), NEW w \in Users
    PROVE  ValueAt(vault'[w], source'.rate) * BasisPoints
             >= ValueAt(vault[w], source'.rate) * (BasisPoints - ToleranceBps)
<1>1. PICK rate \in Nat : rate = source'.rate
  <2>1. source'.rate \in Rates
    BY CommonTypes DEF GiveToVault
  <2> QED
    BY <2>1, RebalanceAssumption
<1>2. vault \in [Users -> Holdings]
    BY DEF VaultsSound
<1>3. PICK b \in Nat, q \in Nat : b = vault[w].base /\ q = vault[w].quote
    BY <1>2 DEF Holdings
<1>4. PICK more \in Nat, extra \in Nat :
        vault'[w].base = b + more /\ vault'[w].quote = q + extra
  <2>1. /\ vault'[w].base \in {b, b + 1}
        /\ vault'[w].quote \in {q, q + 1}
    BY <1>2, <1>3 DEF GiveToVault, Holdings
  <2>2. /\ \E m \in Nat : vault'[w].base = b + m
        /\ \E e \in Nat : vault'[w].quote = q + e
    <3>1. b + 0 = b /\ q + 0 = q
      OBVIOUS
    <3> QED
      BY <2>1, <3>1
  <2> QED
    BY <2>2
<1>5. PICK whole \in Nat : whole = b * rate + q
    OBVIOUS
<1>6. PICK gain \in Nat : gain = more * rate + extra
    OBVIOUS
<1>7. (b + more) * rate + (q + extra) = whole + gain
    BY <1>5, <1>6
<1>8. whole + gain >= whole - 0 /\ 0 * BasisPoints <= ToleranceBps * 0
    BY ConstantsAre DEF BasisPoints
<1>9. (whole + gain) * BasisPoints >= whole * (BasisPoints - ToleranceBps)
    BY <1>8, WithinWhole
<1> QED
    BY <1>1, <1>3, <1>4, <1>5, <1>7, <1>9 DEF ValueAt

LEMMA BudgetMoves ==
    ASSUME left \in [Spending -> Nat], NEW what \in Spending, Spend(what)
    PROVE  left'[what] # left[what]
BY DEF Spend

\* Only a swap that goes through changes a vault, a gift or a direct callback.
LEMMA VaultsMove ==
    ASSUME [Next]_vars
    PROVE  \/ UNCHANGED vault
           \/ \E u \in Users : \E s \in mempool[u] : SwapExact(u, s)
           \/ \E u \in Users : GiveToVault(u) \/ SwapCallback(u)
<1>1. CASE UNCHANGED vars \/ Pass \/ Advance \/ Update
    BY <1>1 DEF vars, chain, Pass, Advance, Update
<1>2. ASSUME NEW u \in Users,
             \/ Browse(u) \/ (\E i \in Intents : Fill(u, i))
             \/ PressPlan(u) \/ (\E r \in requests[u] : FailPlan(u, r))
             \/ (\E a \in panel[u].plan.missing : PressApprove(u, a))
             \/ PressRefresh(u) \/ PressExecute(u) \/ Refused(u) \/ FailExecute(u)
      PROVE  UNCHANGED vault
    BY <1>2 DEF Browse, Fill, PressPlan, FailPlan, PressApprove, PressRefresh, PressExecute,
                Refused, FailExecute, chain
<1>3. ASSUME NEW u \in Users, Serve(u) PROVE UNCHANGED vault
    BY <1>3 DEF Serve, Define, AnswerPlan, AnswerExecute, chain
<1>4. ASSUME NEW u \in Users, Sent(u)
      PROVE  UNCHANGED vault \/ \E s \in mempool[u] : SwapExact(u, s)
    BY <1>4 DEF Sent, Mine, Approved, Refreshed
<1> QED
    BY <1>1, <1>2, <1>3, <1>4 DEF Next

\* For every tolerance, price and payment of the pool: at the price a trade is
\* judged by it costs a vault no more than the tolerance of what the vault is
\* worth, in either direction, and from the end of the live phase on no vault
\* is changed by a swap, whatever was sent before.  What else changes a vault is a
\* gift, which costs it nothing, or a direct call of its callback (swapExact,
\* requireWithinTolerance, uniswapV3SwapCallback).
THEOREM VaultsStaySafe == Spec => VaultIsSafe
<1> DEFINE Final == now >= LiveEnds => UNCHANGED vault \/ Given \/ CalledBack
           Worth == ~CalledBack => \A u \in Users : vault'[u] # vault[u] =>
                        LET before == ValueAt(vault[u], source'.rate)
                            after  == ValueAt(vault'[u], source'.rate)
                        IN  after * BasisPoints >= before * (BasisPoints - ToleranceBps)
<1>1. Sound /\ [Next]_vars => [Final]_vars
  <2> SUFFICES ASSUME Sound, [Next]_vars, now >= LiveEnds
               PROVE  UNCHANGED vault \/ Given \/ CalledBack
    OBVIOUS
  <2>1. ASSUME NEW u \in Users, NEW s \in mempool[u], SwapExact(u, s) PROVE FALSE
    <3>1. now < LiveEnds
      BY <2>1 DEF SwapExact, MayTrade
    <3> QED
      BY <3>1, CommonTypes, ConstantsAre DEF Sound
  <2>2. ASSUME NEW u \in Users, GiveToVault(u) PROVE Given
    BY <2>2, BudgetMoves DEF GiveToVault, Given, Sound, Common, Spending
  <2>3. ASSUME NEW u \in Users, SwapCallback(u) PROVE CalledBack
    BY <2>3, BudgetMoves DEF SwapCallback, CalledBack, Sound, Common, Spending
  <2> QED
    BY <2>1, <2>2, <2>3, VaultsMove
<1>2. Sound /\ [Next]_vars => [Worth]_vars
  <2> SUFFICES ASSUME Sound, [Next]_vars, ~CalledBack, NEW w \in Users, vault'[w] # vault[w]
               PROVE  ValueAt(vault'[w], source'.rate) * BasisPoints
                        >= ValueAt(vault[w], source'.rate) * (BasisPoints - ToleranceBps)
    BY Zenon
  <2> DEFINE Kept == ValueAt(vault'[w], source'.rate) * BasisPoints
                       >= ValueAt(vault[w], source'.rate) * (BasisPoints - ToleranceBps)
  <2>1. ASSUME NEW u \in Users, NEW s \in mempool[u], SwapExact(u, s) PROVE Kept
    <3>1. s \in Swap
      BY DEF Sound, PanelsSound
    <3> QED
      BY <2>1, <3>1, ValueStays DEF Sound
  <2>2. ASSUME NEW u \in Users, GiveToVault(u) PROVE Kept
    BY <2>2, GiftsCostNothing DEF Sound
  <2>3. ASSUME NEW u \in Users, SwapCallback(u) PROVE FALSE
    BY <2>3, BudgetMoves DEF SwapCallback, CalledBack, Sound, Common, Spending
  <2> QED
    BY <2>1, <2>2, <2>3, VaultsMove
<1> HIDE DEF Final, Worth
<1>3. Spec => [][Final]_vars
    BY <1>1, SoundInit, SoundStep, PTL DEF Spec
<1>4. Spec => [][Worth]_vars
    BY <1>2, SoundInit, SoundStep, PTL DEF Spec
<1> QED
    BY <1>3, <1>4 DEF VaultIsSafe, FinalAtTheEnd, ValueKept, Final, Worth
================================================================================
