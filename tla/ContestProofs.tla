--------------------------- MODULE ContestProofs ---------------------------
(***************************************************************************)
(* Theorems about Contest for every number of participants, every set of   *)
(* configurations, prices and bounds.                                      *)
(*                                                                         *)
(* The properties are not inductive as they stand.  A prize share is a     *)
(* natural number only because initialize bounded topK; the pool can be    *)
(* charged only because the tokens are there; a sealed contest has scored  *)
(* everybody because the two counters are cardinalities; and what a claim  *)
(* paid stays what the rank is worth because nothing is claimed, funded or *)
(* ranked on both sides of seal.  Inv below says all of this.  That nobody *)
(* is locked in takes the whole history of the pool: what is left of it is *)
(* what was funded less the shares of those who claimed (ClaimInv).        *)
(*                                                                         *)
(* The tasks service beside the contract (Lifecycle) is at the end: each   *)
(* of its steps is one of the contract's or none, so that all of this      *)
(* holds with it, and no tick of it gets beyond settling.                  *)
(***************************************************************************)
EXTENDS Lifecycle, FiniteSetTheorems, TLAPS

\* initialize has checked the configuration in use.
Configured == state # "Uninitialized" => ValidConfig(config)

\* Before initialize nobody is registered and no money is accounted for.
Blank ==
    state = "Uninitialized" =>
        registered = {} /\ prizePool = 0 /\ totalPrizePool = 0

\* The two counters seal compares count the sets they stand for.
CountsAgree ==
    /\ participantCount = Cardinality(registered)
    /\ settledCount = Cardinality(settled)

\* Prizes and vaults are emptied in a sealed contest only.
PaidWhenSealed ==
    /\ claimed # {} => state = "Sealed"
    /\ \A p \in Participants : vaults[p].withdrawn => state = "Sealed"

Inv ==
    /\ TypeOK
    /\ Solvency
    /\ Configured
    /\ Blank
    /\ CountsAgree
    /\ SealedMeansScored
    /\ PaidWhenSealed
    /\ NoForfeitedPrize
----------------------------------------------------------------------------
\* A non-empty set of indices has a largest one: the rank a board gives to a
\* vault that is on it exists.
LEMMA LargestIndex ==
    ASSUME NEW n \in Nat, NEW T \in SUBSET (1..n), T # {}
    PROVE  \E i \in T : \A j \in T : j <= i
<1> DEFINE below == {n - i : i \in T}
<1>1. below \subseteq Nat
    OBVIOUS
<1>2. below # {}
  <2>1. PICK i \in T : TRUE
    OBVIOUS
  <2>2. n - i \in below
    OBVIOUS
  <2> QED
    BY <2>2
<1>3. \E d \in below : \A e \in below : ~(e < d)
  <2> DEFINE less == {ss \in Nat \X Nat : ss[1] < ss[2]}
  <2>1. IsWellFoundedOn(less, Nat)
    BY NatLessThanWellFounded DEF OpToRel
  <2> HIDE DEF less, below
  <2>2. PICK d \in below : \A e \in below : <<e, d>> \notin less
    BY <1>1, <1>2, <2>1, WFMin
  <2>3. \A e \in below : ~(e < d)
    BY <1>1, <2>2 DEF less
  <2> QED
    BY <2>3
<1>4. PICK d \in below : \A e \in below : ~(e < d)
    BY <1>3
<1>5. PICK i \in T : d = n - i
    OBVIOUS
<1>6. \A j \in T : j <= i
    BY <1>4, <1>5
<1> QED
    BY <1>6

\* The rank updateLeaders writes to a vault of the board is its place there.
LEMMA RankIsPlace ==
    ASSUME NEW n \in Nat, NEW b \in [1..n -> Participants],
           NEW p \in Range(b)
    PROVE  RankOnBoard(b, p) \in 1..n /\ b[RankOnBoard(b, p)] = p
<1> DEFINE T == {i \in DOMAIN b : b[i] = p}
<1>1. T # {} /\ T \in SUBSET (1..n)
    BY DEF Range
<1>2. \E i \in T : \A j \in T : j <= i
    BY <1>1, LargestIndex
<1>3. \E i \in DOMAIN b : b[i] = p /\ \A j \in DOMAIN b : b[j] = p => j <= i
    BY <1>2
<1> QED
    BY <1>3 DEF RankOnBoard

\* A vault that rereads its balances is still a vault, and keeps its rank.
LEMMA HoldingType ==
    ASSUME NEW v \in VaultType, NEW b \in Nat, NEW q \in Nat
    PROVE  /\ Holding(v, b, q) \in VaultType
           /\ Holding(v, b, q).base = b
           /\ Holding(v, b, q).quote = q
           /\ Holding(v, b, q).baseBalance = b
           /\ Holding(v, b, q).quoteBalance = q
           /\ Holding(v, b, q).rank = v.rank
           /\ Holding(v, b, q).withdrawn = v.withdrawn
BY DEF Holding, VaultType

\* A vault that paid a direct call of its callback keeps its records.
LEMMA DrawnType ==
    ASSUME NEW v \in VaultType, NEW b \in 0..v.base, NEW q \in 0..v.quote
    PROVE  /\ Drawn(v, b, q) \in VaultType
           /\ Drawn(v, b, q).baseBalance = v.baseBalance
           /\ Drawn(v, b, q).quoteBalance = v.quoteBalance
           /\ Drawn(v, b, q).rank = v.rank
           /\ Drawn(v, b, q).withdrawn = v.withdrawn
<1>1. v.base - b \in Nat /\ v.quote - q \in Nat
    BY DEF VaultType
<1> QED
    BY <1>1 DEF Drawn, VaultType

LEMMA CreditedType ==
    ASSUME NEW w \in WalletType, NEW b \in Int, NEW q \in Nat, w.base + b >= 0
    PROVE  /\ Credited(w, b, q) \in WalletType
           /\ Credited(w, b, q).base = w.base + b
           /\ Credited(w, b, q).quote = w.quote + q
BY DEF Credited, WalletType

\* What a claim takes from the pool is an amount of tokens.
LEMMA ShareType ==
    ASSUME TypeOK, Configured, NEW p \in Participants, IsWinner(p),
           state = "Sealed"
    PROVE  PrizeShare(p) \in Nat
<1>1. vaults[p].rank \in Slots
  <2>1. config.topK \in 1..32
    BY DEF Configured, ValidConfig
  <2>2. vaults[p].rank \in Nat
    BY DEF TypeOK, VaultType
  <2> QED
    BY <2>1, <2>2 DEF IsWinner, Slots
<1>2. config.payout[vaults[p].rank] \in Nat
    BY <1>1 DEF TypeOK, ConfigType
<1>3. totalPrizePool * config.payout[vaults[p].rank] \in Nat
    BY <1>2 DEF TypeOK
<1> QED
    BY <1>3 DEF PrizeShare, BasisPoints

\* What a direct call of p's callback leaves alone: every record of a vault,
\* and every other vault.
LEMMA CallbackKeeps ==
    ASSUME TypeOK, NEW p \in Participants, SwapCallback(p)
    PROVE  /\ vaults' \in [Participants -> VaultType]
           /\ wallets' \in [Participants -> WalletType]
           /\ \A q \in Participants :
                /\ vaults'[q].rank = vaults[q].rank
                /\ vaults'[q].withdrawn = vaults[q].withdrawn
                /\ q # p => vaults'[q] = vaults[q]
<1>0. /\ vaults \in [Participants -> VaultType]
      /\ wallets \in [Participants -> WalletType]
    BY DEF TypeOK
<1>1. PICK b \in 0..vaults[p].base, a \in 0..vaults[p].quote :
        /\ vaults' = [vaults EXCEPT ![p] = Drawn(@, b, a)]
        /\ wallets' \in {wallets, [wallets EXCEPT ![p] = Credited(@, b, a)]}
    BY DEF SwapCallback
<1>2. PICK v \in VaultType : v = vaults[p]
    BY <1>0
<1>3. PICK w : w = Drawn(v, b, a)
    OBVIOUS
<1>4. w \in VaultType /\ w.rank = v.rank /\ w.withdrawn = v.withdrawn
    BY <1>1, <1>2, <1>3, DrawnType
<1>5. vaults' = [vaults EXCEPT ![p] = w]
    BY <1>0, <1>1, <1>2, <1>3
<1>6. b \in Nat /\ a \in Nat
    BY <1>0 DEF VaultType
<1>7. Credited(wallets[p], b, a) \in WalletType
    BY <1>0, <1>6 DEF Credited, WalletType
<1> QED
    BY <1>0, <1>1, <1>2, <1>4, <1>5, <1>7

LEMMA InitInv == Init => Inv
<1> SUFFICES ASSUME Init PROVE Inv
    OBVIOUS
<1>1. TypeOK
  <2>1. NoConfig \in ConfigType
    BY DEF NoConfig, ConfigType, Slots
  <2>2. EmptyVault \in VaultType
    BY DEF EmptyVault, VaultType
  <2> QED
    BY <2>1, <2>2, BoundsAssumption DEF Init, TypeOK, Phases, WalletType
<1>2. CountsAgree
    BY FS_EmptySet DEF Init, CountsAgree
<1>3. Solvency /\ Configured /\ Blank
    BY DEF Init, Solvency, Configured, Blank
<1>4. SealedMeansScored /\ PaidWhenSealed /\ NoForfeitedPrize
    BY DEF Init, SealedMeansScored, PaidWhenSealed, NoForfeitedPrize,
           EmptyVault
<1> QED
    BY <1>1, <1>2, <1>3, <1>4 DEF Inv

LEMMA TypeStep == Inv /\ [Next]_vars => TypeOK'
<1> SUFFICES ASSUME Inv, [Next]_vars PROVE TypeOK'
    OBVIOUS
<1> USE DEF Inv
<1>1. CASE Tick
    BY <1>1 DEF Tick, TypeOK, tokens, scoring, board, bookkeeping, calls
<1>2. CASE GiveToContest
    BY <1>2 DEF GiveToContest, TypeOK, scoring, board, bookkeeping, calls
<1>3. ASSUME NEW c \in Configs, Initialize(c) PROVE TypeOK'
  <2>1. c \in ConfigType /\ c.initialPrize \in Nat
    BY ConfigsAssumption DEF ConfigType
  <2> QED
    BY <1>3, <2>1 DEF Initialize, TypeOK, Phases, scoring, board, calls
<1>4. CASE SyncState
    BY <1>4 DEF SyncState, Synced, TypeOK, Phases, tokens, scoring, board,
                bookkeeping, calls
<1>5. CASE Freeze
    BY <1>5 DEF Freeze, TypeOK, Phases, tokens, scoring, board, bookkeeping, calls
<1>6. CASE Seal
    BY <1>6 DEF Seal, TypeOK, Phases, tokens, scoring, board, bookkeeping, calls
<1>7. ASSUME NEW b \in AcceptableBoards, UpdateLeaders(b) PROVE TypeOK'
  <2>1. PICK n \in 1..(IF config.topK < MaxBoardUpdates THEN config.topK
                       ELSE MaxBoardUpdates) : b \in [1..n -> settled]
    BY <1>7 DEF AcceptableBoards
  <2>2. n \in Nat /\ b \in [1..n -> Participants] /\ b \in Seq(Participants)
    <3>1. config.topK \in Nat /\ settled \subseteq Participants
      BY DEF TypeOK, ConfigType
    <3>2. n \in Nat
      BY <3>1 DEF MaxBoardUpdates
    <3>3. b \in [1..n -> Participants]
      BY <2>1, <3>1
    <3> QED
      BY <3>2, <3>3
  <2>3. \A p \in Range(b) : RankOnBoard(b, p) \in Nat
    BY <2>2, RankIsPlace
  <2>4. vaults' \in [Participants -> VaultType]
    BY <1>7, <2>3 DEF UpdateLeaders, TypeOK, VaultType
  <2> QED
    BY <1>7, <2>2, <2>4 DEF UpdateLeaders, TypeOK, scoring, bookkeeping, calls
<1>8. ASSUME NEW p \in Participants, GiveToVault(p) PROVE TypeOK'
  <2>1. /\ [vaults[p] EXCEPT !.base = @ + 1] \in VaultType
        /\ [vaults[p] EXCEPT !.quote = @ + 1] \in VaultType
    <3>1. vaults[p] \in VaultType
      BY DEF TypeOK
    <3> QED
      BY <3>1 DEF VaultType
  <2>2. vaults' \in [Participants -> VaultType]
    BY <1>8, <2>1 DEF GiveToVault, TypeOK
  <2> QED
    BY <1>8, <2>2 DEF GiveToVault, TypeOK, scoring, board, bookkeeping, calls
<1>9. ASSUME NEW p \in Participants, Register(p) PROVE TypeOK'
  <2>1. config.entryAmount \in Nat /\ config.entryFee \in Nat
    BY DEF TypeOK, ConfigType
  <2> DEFINE required == config.entryAmount + config.entryFee
  <2>2. Credited(wallets[p], -required, 0) \in WalletType
    <3>1. wallets[p] \in WalletType /\ wallets[p].base >= required
      BY <1>9 DEF Register, TypeOK
    <3>2. -required \in Int /\ wallets[p].base + (-required) >= 0
      BY <2>1, <3>1 DEF WalletType
    <3> QED
      BY <3>1, <3>2, CreditedType
  <2>3. vaults' \in [Participants -> VaultType]
    <3>1. vaults[p] \in VaultType
      BY DEF TypeOK
    <3>2. vaults[p].base + config.entryAmount \in Nat /\ vaults[p].quote \in Nat
      BY <2>1, <3>1 DEF VaultType
    <3>3. Holding(vaults[p], vaults[p].base + config.entryAmount,
                  vaults[p].quote) \in VaultType
      BY <3>1, <3>2, HoldingType
    <3> QED
      BY <1>9, <3>3 DEF Register, TypeOK
  <2>4. wallets' \in [Participants -> WalletType]
    BY <1>9, <2>2 DEF Register, TypeOK
  <2>5. /\ registered' = registered \cup {p}
        /\ participantCount' = participantCount + 1
        /\ held' = held + config.entryFee
        /\ prizePool' = prizePool + config.entryFee
        /\ totalPrizePool' = totalPrizePool + config.entryFee
        /\ UNCHANGED <<now, state, config, scoring, board, claimed, gifts, calls>>
    BY <1>9 DEF Register
  <2>6. /\ participantCount \in Nat /\ held \in Nat
        /\ prizePool \in Nat /\ totalPrizePool \in Nat
        /\ registered \subseteq Participants
    BY DEF TypeOK
  <2>7. /\ participantCount' \in Nat /\ held' \in Nat
        /\ prizePool' \in Nat /\ totalPrizePool' \in Nat
        /\ registered' \subseteq Participants
    BY <2>1, <2>5, <2>6
  <2> QED
    BY <2>3, <2>4, <2>5, <2>7 DEF TypeOK, scoring, board, calls
<1>10. ASSUME NEW p \in Participants, Trade(p) PROVE TypeOK'
  <2>1. vaults[p] \in VaultType
    BY DEF TypeOK
  <2>2. ASSUME NEW spent \in 1..vaults[p].base, NEW got \in Nat,
               SwapBaseForQuote(p, spent, got)
        PROVE  TypeOK'
    <3>1. vaults[p].base - spent \in Nat /\ vaults[p].quote + got \in Nat
      BY <2>1 DEF VaultType
    <3>2. Holding(vaults[p], vaults[p].base - spent, vaults[p].quote + got)
            \in VaultType
      BY <2>1, <3>1, HoldingType
    <3> QED
      BY <2>2, <3>2 DEF SwapBaseForQuote, TypeOK, scoring, board, bookkeeping, calls
  <2>3. ASSUME NEW spent \in 1..vaults[p].quote, NEW got \in Nat,
               SwapQuoteForBase(p, spent, got)
        PROVE  TypeOK'
    <3>1. vaults[p].base + got \in Nat /\ vaults[p].quote - spent \in Nat
      BY <2>1 DEF VaultType
    <3>2. Holding(vaults[p], vaults[p].base + got, vaults[p].quote - spent)
            \in VaultType
      BY <2>1, <3>1, HoldingType
    <3> QED
      BY <2>3, <3>2 DEF SwapQuoteForBase, TypeOK, scoring, board, bookkeeping, calls
  <2> QED
    BY <1>10, <2>2, <2>3 DEF Trade
<1>11. ASSUME NEW p \in Participants, Settle(p) PROVE TypeOK'
  <2>1. vaults[p] \in VaultType
    BY DEF TypeOK
  <2>2. \A price \in Prices : Nav(vaults[p], price) \in Nat
    BY <2>1, PricesAssumption DEF Nav, VaultType
  <2>3. navs' \in [Participants -> Nat]
    BY <1>11, <2>2 DEF Settle, TypeOK
  <2>4. vaults' \in [Participants -> VaultType]
    <3> DEFINE v == Holding(vaults[p], vaults[p].base, vaults[p].quote)
    <3>1. v \in VaultType
      BY <2>1, HoldingType DEF VaultType
    <3>2. [v EXCEPT !.rank = 0] \in VaultType
      BY <3>1 DEF VaultType
    <3> QED
      BY <1>11, <3>2 DEF Settle, Scored, TypeOK
  <2> QED
    BY <1>11, <2>3, <2>4 DEF Settle, TypeOK, Unscored, board, bookkeeping, calls
<1>12. ASSUME NEW p \in Participants, Claim(p) PROVE TypeOK'
  <2>1. PrizeShare(p) \in Nat
    BY <1>12, ShareType DEF Claim, ClaimEligible
  <2>2. Credited(wallets[p], PrizeShare(p), 0) \in WalletType
    BY <2>1, CreditedType DEF TypeOK, WalletType
  <2>3. prizePool' \in Nat /\ held' \in Nat
    BY <1>12, <2>1 DEF Claim, Covered, PoolAfter, TypeOK, Solvency
  <2> QED
    BY <1>12, <2>2, <2>3 DEF Claim, TypeOK, scoring, board, calls
<1>13. ASSUME NEW p \in Participants, Exit(p) PROVE TypeOK'
  <2>1. vaults[p] \in VaultType
    BY DEF TypeOK
  <2>2. Credited(wallets[p], vaults[p].baseBalance, vaults[p].quoteBalance)
          \in WalletType
    BY <2>1, CreditedType DEF TypeOK, WalletType, VaultType
  <2>3. vaults' \in [Participants -> VaultType]
    <3> DEFINE left == vaults[p].base - vaults[p].baseBalance
               leftQuote == vaults[p].quote - vaults[p].quoteBalance
               v == Holding(vaults[p], left, leftQuote)
    <3>1. left \in Nat /\ leftQuote \in Nat
      BY <1>13, <2>1 DEF Exit, VaultType
    <3>2. v \in VaultType
      BY <2>1, <3>1, HoldingType
    <3>3. [v EXCEPT !.withdrawn = (left = 0 /\ leftQuote = 0)] \in VaultType
      BY <3>2 DEF VaultType
    <3> QED
      BY <1>13, <3>3 DEF Exit, TypeOK
  <2> QED
    BY <1>13, <2>2, <2>3 DEF Exit, TypeOK, scoring, board, bookkeeping, calls
<1>14. CASE UNCHANGED vars
    BY <1>14 DEF vars, TypeOK, tokens, scoring, board, bookkeeping, calls
<1>15. ASSUME NEW p \in Participants, SwapCallback(p) PROVE TypeOK'
  <2>1. /\ vaults' \in [Participants -> VaultType]
        /\ wallets' \in [Participants -> WalletType]
    BY <1>15, CallbackKeeps
  <2> QED
    BY <1>15, <2>1 DEF SwapCallback, TypeOK, scoring, board, bookkeeping
<1> QED
    BY <1>1, <1>2, <1>3, <1>4, <1>5, <1>6, <1>7, <1>8, <1>9, <1>10, <1>11,
       <1>12, <1>13, <1>14, <1>15 DEF Next

\* Only scoring and a leaderboard touch a rank, and a leaderboard ranks
\* scored vaults only; only exit marks a vault withdrawn.
LEMMA RankAndWithdrawal ==
    ASSUME Inv, [Next]_vars, NEW q \in Participants
    PROVE  /\ \/ vaults'[q].rank = vaults[q].rank
              \/ state = "Frozen" /\ vaults'[q].rank = 0
              \/ state = "Frozen" /\ q \in settled
           /\ vaults'[q].withdrawn => vaults[q].withdrawn \/ Exit(q)
<1> DEFINE Goal == /\ \/ vaults'[q].rank = vaults[q].rank
                      \/ state = "Frozen" /\ vaults'[q].rank = 0
                      \/ state = "Frozen" /\ q \in settled
                   /\ vaults'[q].withdrawn => vaults[q].withdrawn \/ Exit(q)
<1>0. vaults \in [Participants -> VaultType]
    BY DEF Inv, TypeOK
<1>1. CASE UNCHANGED vaults
    BY <1>1
<1>2. ASSUME NEW b \in AcceptableBoards, UpdateLeaders(b) PROVE Goal
  <2>1. Range(b) \subseteq settled
    BY <1>2 DEF AcceptableBoards, Range
  <2>2. CASE q \in Range(b)
    BY <1>0, <1>2, <2>1, <2>2 DEF UpdateLeaders, VaultType
  <2>3. CASE q \notin Range(b)
    BY <1>2, <2>3 DEF UpdateLeaders
  <2> QED
    BY <2>2, <2>3
<1>3. ASSUME NEW p \in Participants, GiveToVault(p) PROVE Goal
    BY <1>0, <1>3 DEF GiveToVault, VaultType
<1>4. ASSUME NEW p \in Participants, Register(p) PROVE Goal
    BY <1>0, <1>4 DEF Register, Holding, VaultType
<1>5. ASSUME NEW p \in Participants, Trade(p) PROVE Goal
  <2>1. \E b, a : vaults' = [vaults EXCEPT ![p] = Holding(@, b, a)]
    BY <1>5 DEF Trade, SwapBaseForQuote, SwapQuoteForBase
  <2> QED
    BY <1>0, <2>1 DEF Holding, VaultType
<1>6. ASSUME NEW p \in Participants, Settle(p) PROVE Goal
    BY <1>0, <1>6 DEF Settle, Scored, Holding, VaultType
<1>7. ASSUME NEW p \in Participants, Exit(p) PROVE Goal
    BY <1>0, <1>7 DEF Exit, Holding, VaultType
<1>8. ASSUME NEW p \in Participants, Claim(p) PROVE Goal
    BY <1>8 DEF Claim
<1>9. CASE Tick \/ GiveToContest \/ (\E c \in Configs : Initialize(c))
            \/ SyncState \/ Freeze \/ Seal \/ UNCHANGED vars
    BY <1>9 DEF Tick, GiveToContest, Initialize, SyncState, Freeze, Seal, vars,
                tokens
<1>10. ASSUME NEW p \in Participants, SwapCallback(p) PROVE Goal
    BY <1>10, CallbackKeeps DEF Inv
<1> QED
    BY <1>2, <1>3, <1>4, <1>5, <1>6, <1>7, <1>8, <1>9, <1>10 DEF Next

\* The pool never outgrows the tokens behind it: what is added to it or
\* taken from it is added to or taken from the tokens by the same step.
LEMMA MoneyStep == Inv /\ [Next]_vars => Solvency'
<1> SUFFICES ASSUME Inv, [Next]_vars PROVE Solvency'
    OBVIOUS
<1>0. prizePool \in Nat /\ held \in Nat /\ prizePool <= held /\ config \in ConfigType
    BY DEF Inv, TypeOK, Solvency
<1>1. CASE GiveToContest
    BY <1>0, <1>1 DEF GiveToContest, Solvency, bookkeeping
<1>2. ASSUME NEW c \in Configs, Initialize(c) PROVE Solvency'
  <2>1. c.initialPrize \in Nat
    BY ConfigsAssumption DEF ConfigType
  <2> QED
    BY <1>0, <1>2, <2>1 DEF Initialize, Solvency
<1>3. ASSUME NEW p \in Participants, Register(p) PROVE Solvency'
  <2>1. config.entryFee \in Nat
    BY <1>0 DEF ConfigType
  <2>2. held' = held + config.entryFee /\ prizePool' = prizePool + config.entryFee
    BY <1>3 DEF Register
  <2> QED
    BY <1>0, <2>1, <2>2 DEF Solvency
<1>4. ASSUME NEW p \in Participants, Claim(p) PROVE Solvency'
  <2>1. PrizeShare(p) \in Nat
    BY <1>4, ShareType DEF Claim, ClaimEligible, Inv
  <2>2. held' = held - PrizeShare(p) /\ prizePool' = prizePool - PrizeShare(p)
    BY <1>4 DEF Claim, PoolAfter
  <2> QED
    BY <1>0, <2>1, <2>2 DEF Solvency
<1>5. CASE UNCHANGED <<prizePool, held>>
    BY <1>0, <1>5 DEF Solvency
<1>6. CASE Tick \/ SyncState \/ Freeze \/ Seal \/ UNCHANGED vars
           \/ \E b \in AcceptableBoards : UpdateLeaders(b)
    BY <1>5, <1>6 DEF Tick, SyncState, Freeze, Seal, UpdateLeaders, vars, tokens,
                      bookkeeping
<1>7. ASSUME NEW p \in Participants,
             GiveToVault(p) \/ SwapCallback(p) \/ Trade(p) \/ Settle(p) \/ Exit(p)
      PROVE  Solvency'
    BY <1>5, <1>7 DEF GiveToVault, SwapCallback, Trade, SwapBaseForQuote, SwapQuoteForBase,
                      Settle, Exit, bookkeeping
<1> QED
    BY <1>1, <1>2, <1>3, <1>4, <1>6, <1>7 DEF Next

LEMMA SetupStep == Inv /\ [Next]_vars => Configured' /\ Blank'
<1> SUFFICES ASSUME Inv, [Next]_vars PROVE Configured' /\ Blank'
    OBVIOUS
<1> USE DEF Inv
<1>1. ASSUME NEW c \in Configs, Initialize(c) PROVE Configured' /\ Blank'
    BY <1>1 DEF Initialize, Configured, Blank, ValidConfig
<1>2. CASE SyncState \/ Freeze \/ Seal
    BY <1>2 DEF SyncState, Synced, Freeze, Seal, Configured, Blank, ValidConfig,
                bookkeeping
<1>3. ASSUME NEW p \in Participants, Register(p) PROVE Configured' /\ Blank'
  <2>1. state = "Registering" /\ UNCHANGED <<state, config>>
    BY <1>3 DEF Register, Synced
  <2>2. Configured
    OBVIOUS
  <2> QED
    BY ONLY <2>1, <2>2 DEF Configured, Blank, ValidConfig
<1>4. ASSUME NEW p \in Participants, Claim(p) PROVE Configured' /\ Blank'
  <2>1. state = "Sealed" /\ UNCHANGED <<state, config>>
    BY <1>4 DEF Claim, ClaimEligible
  <2>2. Configured
    OBVIOUS
  <2> QED
    BY ONLY <2>1, <2>2 DEF Configured, Blank, ValidConfig
<1>5. CASE UNCHANGED <<state, config, bookkeeping>>
    BY <1>5 DEF Configured, Blank, ValidConfig, bookkeeping
<1>6. CASE Tick \/ GiveToContest \/ UNCHANGED vars
           \/ \E b \in AcceptableBoards : UpdateLeaders(b)
    BY <1>5, <1>6 DEF Tick, GiveToContest, UpdateLeaders, vars
<1>7. ASSUME NEW p \in Participants,
             GiveToVault(p) \/ SwapCallback(p) \/ Trade(p) \/ Settle(p) \/ Exit(p)
      PROVE  Configured' /\ Blank'
    BY <1>5, <1>7 DEF GiveToVault, SwapCallback, Trade, SwapBaseForQuote, SwapQuoteForBase,
                      Settle, Exit
<1> QED
    BY <1>1, <1>2, <1>3, <1>4, <1>6, <1>7 DEF Next

LEMMA CountsStep == Inv /\ [Next]_vars => CountsAgree'
<1> SUFFICES ASSUME Inv, [Next]_vars PROVE CountsAgree'
    OBVIOUS
<1>0. /\ registered \subseteq Participants /\ settled \subseteq Participants
      /\ participantCount = Cardinality(registered)
      /\ settledCount = Cardinality(settled)
      /\ IsFiniteSet(registered) /\ IsFiniteSet(settled)
    BY FS_Subset, ParticipantsAssumption DEF Inv, TypeOK, CountsAgree
<1>1. ASSUME NEW p \in Participants, Register(p) PROVE CountsAgree'
  <2>1. Cardinality(registered \cup {p}) = Cardinality(registered) + 1
    BY <1>0, <1>1, FS_AddElement DEF Register
  <2> QED
    BY <1>0, <1>1, <2>1 DEF Register, CountsAgree, scoring
<1>2. ASSUME NEW p \in Participants, Settle(p) PROVE CountsAgree'
  <2>1. Cardinality(settled \cup {p}) = Cardinality(settled) + 1
    BY <1>0, <1>2, FS_AddElement DEF Settle, Unscored
  <2> QED
    BY <1>0, <1>2, <2>1 DEF Settle, CountsAgree, bookkeeping
<1>3. CASE UNCHANGED <<registered, participantCount, settled, settledCount>>
    BY <1>0, <1>3 DEF CountsAgree
<1>4. CASE Tick \/ GiveToContest \/ SyncState \/ Freeze \/ Seal \/ UNCHANGED vars
           \/ (\E c \in Configs : Initialize(c))
           \/ (\E b \in AcceptableBoards : UpdateLeaders(b))
    BY <1>3, <1>4 DEF Tick, GiveToContest, SyncState, Freeze, Seal, vars,
                      Initialize, UpdateLeaders, bookkeeping, scoring
<1>5. ASSUME NEW p \in Participants,
             GiveToVault(p) \/ SwapCallback(p) \/ Trade(p) \/ Claim(p) \/ Exit(p)
      PROVE  CountsAgree'
    BY <1>3, <1>5 DEF GiveToVault, SwapCallback, Trade, SwapBaseForQuote, SwapQuoteForBase,
                      Claim, Exit, bookkeeping, scoring
<1> QED
    BY <1>1, <1>2, <1>4, <1>5 DEF Next

\* Equal counters are equal sets, because only the registered are scored.
LEMMA ScoredStep == Inv /\ [Next]_vars => SealedMeansScored'
<1> SUFFICES ASSUME Inv, [Next]_vars PROVE SealedMeansScored'
    OBVIOUS
<1>0. settled \subseteq registered /\ (state = "Sealed" => settled = registered)
    BY DEF Inv, SealedMeansScored
<1> DEFINE Goal == /\ settled' \subseteq registered' /\ settled \subseteq settled'
                   /\ state' = "Sealed" => settled' = registered'
<1>1. Goal
  <2>1. ASSUME NEW p \in Participants, Register(p) PROVE Goal
    BY <1>0, <2>1 DEF Register, Synced, scoring
  <2>2. ASSUME NEW p \in Participants, Settle(p) PROVE Goal
    BY <1>0, <2>2 DEF Settle, Unscored, bookkeeping
  <2>3. CASE Seal
    <3>1. Cardinality(settled) = Cardinality(registered)
      BY <2>3 DEF Seal, Inv, CountsAgree
    <3>2. IsFiniteSet(registered)
      BY FS_Subset, ParticipantsAssumption DEF Inv, TypeOK
    <3>3. settled = registered
      BY <1>0, <3>1, <3>2, FS_Subset
    <3> QED
      BY <2>3, <3>3 DEF Seal, bookkeeping, scoring
  <2>4. CASE Tick \/ GiveToContest \/ SyncState \/ Freeze \/ UNCHANGED vars
             \/ (\E c \in Configs : Initialize(c))
             \/ (\E b \in AcceptableBoards : UpdateLeaders(b))
    BY <1>0, <2>4 DEF Tick, GiveToContest, SyncState, Synced, Freeze, vars,
                      Initialize, UpdateLeaders, bookkeeping, scoring
  <2>5. ASSUME NEW p \in Participants,
               GiveToVault(p) \/ SwapCallback(p) \/ Trade(p) \/ Claim(p) \/ Exit(p)
        PROVE  Goal
    BY <1>0, <2>5 DEF GiveToVault, SwapCallback, Trade, SwapBaseForQuote, SwapQuoteForBase,
                      Claim, Exit, bookkeeping, scoring
  <2> QED
    BY <2>1, <2>2, <2>3, <2>4, <2>5 DEF Next
<1>2. ASSUME NEW q \in Participants, vaults'[q].rank # 0 PROVE q \in settled'
    BY <1>1, <1>2, RankAndWithdrawal DEF Inv, SealedMeansScored
<1> QED
    BY <1>1, <1>2 DEF SealedMeansScored

\* Nothing is claimed or withdrawn before seal, and seal is never undone.
LEMMA PaidStep == Inv /\ [Next]_vars => PaidWhenSealed'
<1> SUFFICES ASSUME Inv, [Next]_vars PROVE PaidWhenSealed'
    OBVIOUS
<1>1. state = "Sealed" => state' = "Sealed"
    BY DEF Next, Tick, GiveToContest, SyncState, Synced, Freeze, Seal, vars,
           Initialize, UpdateLeaders, GiveToVault, SwapCallback, Register, Trade,
           SwapBaseForQuote, SwapQuoteForBase, Settle, Claim, Exit
<1>2. claimed' # {} => state = "Sealed"
    BY DEF Inv, PaidWhenSealed, Next, Tick, GiveToContest, SyncState, Freeze,
           Seal, vars, Initialize, UpdateLeaders, GiveToVault, SwapCallback, Register, Trade,
           SwapBaseForQuote, SwapQuoteForBase, Settle, Claim, ClaimEligible, Exit
<1>3. ASSUME NEW q \in Participants, vaults'[q].withdrawn PROVE state = "Sealed"
    BY <1>3, RankAndWithdrawal DEF Inv, PaidWhenSealed, Exit, ExitAllowed
<1> QED
    BY <1>1, <1>2, <1>3 DEF PaidWhenSealed

\* What seal fixes: only tokens move and only claims are added afterwards.
LEMMA AfterSeal ==
    ASSUME Inv, [Next]_vars, state = "Sealed"
    PROVE  /\ UNCHANGED <<state, config, registered, settled, navs, leaders,
                          totalPrizePool>>
           /\ claimed \subseteq claimed'
           /\ \A q \in Participants : vaults'[q].rank = vaults[q].rank
<1>1. UNCHANGED <<state, config, registered, settled, navs, leaders,
                  totalPrizePool>> /\ claimed \subseteq claimed'
    BY DEF Next, Tick, GiveToContest, SyncState, Synced, Freeze, Seal, vars,
           Initialize, UpdateLeaders, GiveToVault, SwapCallback, Register, Trade, TradingOpen,
           SwapBaseForQuote, SwapQuoteForBase, Settle, Claim, Exit,
           bookkeeping, scoring, board
<1>2. ASSUME NEW q \in Participants PROVE vaults'[q].rank = vaults[q].rank
    BY RankAndWithdrawal
<1> QED
    BY <1>1, <1>2

LEMMA ForfeitStep == Inv /\ [Next]_vars => NoForfeitedPrize'
<1> SUFFICES ASSUME Inv, [Next]_vars, NEW p \in registered',
                    state' = "Sealed", vaults'[p].withdrawn, IsWinner(p)'
             PROVE  p \in claimed'
    BY DEF NoForfeitedPrize
<1>1. p \in Participants
    BY TypeStep DEF TypeOK
<1>2. CASE state = "Sealed"
  <2>1. IsWinner(p) /\ p \in registered
    BY <1>1, <1>2, AfterSeal DEF IsWinner
  <2>2. CASE vaults[p].withdrawn
    BY <1>2, <2>1, <2>2, AfterSeal DEF Inv, NoForfeitedPrize
  <2>3. CASE Exit(p)
    BY <2>1, <2>3, <1>2, AfterSeal DEF Exit, ExitAllowed
  <2> QED
    BY <1>1, <2>2, <2>3, RankAndWithdrawal
<1>3. CASE state # "Sealed"
  <2>1. vaults[p].withdrawn \/ Exit(p)
    BY <1>1, RankAndWithdrawal
  <2> QED
    BY <1>1, <1>3, <2>1 DEF Inv, PaidWhenSealed, Exit, ExitAllowed
<1> QED
    BY <1>2, <1>3

LEMMA InvStep == Inv /\ [Next]_vars => Inv'
BY TypeStep, MoneyStep, SetupStep, CountsStep, ScoredStep, PaidStep, ForfeitStep
   DEF Inv

LEMMA InvHolds == Spec => []Inv
BY InitInv, InvStep, PTL DEF Spec
----------------------------------------------------------------------------
(* The theorems.                                                           *)

\* Every variable keeps its type, whatever the accounts call and in whatever
\* order: in particular no balance and no pool ever goes below zero.
THEOREM TypeCorrect == Spec => []TypeOK
<1>1. Inv => TypeOK
    BY DEF Inv
<1> QED
    BY <1>1, InvHolds, PTL

\* The contest contract always holds the tokens its prize pool promises.
THEOREM AlwaysSolvent == Spec => []Solvency
<1>1. Inv => Solvency
    BY DEF Inv
<1> QED
    BY <1>1, InvHolds, PTL

\* seal, which compares two counters, lets a contest through only when every
\* registered participant has a score, and only scored vaults are ranked.
THEOREM SealIsComplete == Spec => []SealedMeansScored
<1>1. Inv => SealedMeansScored
    BY DEF Inv
<1> QED
    BY <1>1, InvHolds, PTL

\* No winner can withdraw the whole vault and lose the prize.
THEOREM PrizesAreNotForfeited == Spec => []NoForfeitedPrize
<1>1. Inv => NoForfeitedPrize
    BY DEF Inv
<1> QED
    BY <1>1, InvHolds, PTL

\* Scores are written once, and a sealed contest's results stand.
THEOREM ResultsAreFinal == Spec => ResultsFinal
<1>1. ASSUME Inv, [Next]_vars, NEW p \in settled
      PROVE  p \in settled' /\ navs'[p] = navs[p]
  <2>0. navs \in [Participants -> Nat]
    BY <1>1 DEF Inv, TypeOK
  <2>1. ASSUME NEW q \in Participants, Settle(q)
        PROVE  p \in settled' /\ navs'[p] = navs[p]
    BY <2>0, <2>1 DEF Settle, Unscored
  <2>2. CASE UNCHANGED scoring
    BY <2>2 DEF scoring
  <2>3. CASE Tick \/ GiveToContest \/ SyncState \/ Freeze \/ Seal
             \/ UNCHANGED vars \/ (\E c \in Configs : Initialize(c))
             \/ (\E b \in AcceptableBoards : UpdateLeaders(b))
    BY <2>2, <2>3 DEF Tick, GiveToContest, SyncState, Freeze, Seal, vars,
                      Initialize, UpdateLeaders
  <2>4. ASSUME NEW q \in Participants,
               GiveToVault(q) \/ SwapCallback(q) \/ Register(q) \/ Trade(q) \/ Claim(q) \/ Exit(q)
        PROVE  UNCHANGED scoring
    BY <2>4 DEF GiveToVault, SwapCallback, Register, Trade, SwapBaseForQuote,
                SwapQuoteForBase, Claim, Exit
  <2> QED
    BY <1>1, <2>1, <2>2, <2>3, <2>4 DEF Next
<1>2. Inv /\ [Next]_vars =>
        [/\ settled \subseteq settled'
         /\ \A p \in settled : navs'[p] = navs[p]
         /\ state = "Sealed" =>
              /\ leaders' = leaders
              /\ \A p \in Participants : vaults'[p].rank = vaults[p].rank]_vars
    BY <1>1, AfterSeal
<1> QED
    BY <1>2, InvHolds, PTL DEF Spec, ResultsFinal

\* From liveEnds on a vault's tokens leave it only for its owner's wallet, or by
\* a direct call of the vault's own swap callback, which touches no other vault.
THEOREM AssetsGoToOwner == Spec => AssetsOnlyToOwner
<1> USE DEF Kept, Returned
<1>1. ASSUME Inv, [Next]_vars, state # "Uninitialized", now >= config.liveEnds,
             NEW q \in Participants
      PROVE  Kept(q) \/ Returned(q) \/ CalledBack(q)
  <2>0. /\ vaults \in [Participants -> VaultType]
        /\ wallets \in [Participants -> WalletType]
        /\ now \in Nat /\ config.liveEnds \in Nat
    BY <1>1 DEF Inv, TypeOK, ConfigType
  <2>1. /\ vaults[q].base \in Nat /\ vaults[q].quote \in Nat
        /\ vaults[q].baseBalance \in Nat /\ vaults[q].quoteBalance \in Nat
        /\ wallets[q].base \in Nat /\ wallets[q].quote \in Nat
    BY <2>0 DEF VaultType, WalletType
  <2>2. CASE UNCHANGED vaults
    BY <2>1, <2>2
  <2>3. ASSUME NEW b \in AcceptableBoards, UpdateLeaders(b) PROVE Kept(q)
    <3>1. vaults'[q].base = vaults[q].base /\ vaults'[q].quote = vaults[q].quote
      BY <2>0, <2>3 DEF UpdateLeaders, VaultType
    <3> QED
      BY <2>1, <3>1
  <2>4. ASSUME NEW p \in Participants, GiveToVault(p) PROVE Kept(q)
    BY <2>0, <2>1, <2>4 DEF GiveToVault, VaultType
  <2>5. ASSUME NEW p \in Participants, Register(p) PROVE Kept(q)
    <3>1. config.entryAmount \in Nat
      BY <1>1 DEF Inv, TypeOK, ConfigType
    <3>2. vaults' = [vaults EXCEPT ![p] =
                        Holding(@, @.base + config.entryAmount, @.quote)]
      BY <2>0, <2>5 DEF Register
    <3>3. CASE p # q
      BY <2>0, <2>1, <3>2, <3>3
    <3>4. CASE p = q
      <4>1. /\ vaults'[q].base = vaults[q].base + config.entryAmount
            /\ vaults'[q].quote = vaults[q].quote
        BY <2>0, <3>2, <3>4 DEF Holding, VaultType
      <4> QED
        BY <2>1, <3>1, <4>1
    <3> QED
      BY <3>3, <3>4
  <2>6. ASSUME NEW p \in Participants, Trade(p) PROVE FALSE
    BY <1>1, <2>0, <2>6 DEF Trade, SwapBaseForQuote, SwapQuoteForBase,
                            TradingOpen
  <2>7. ASSUME NEW p \in Participants, Settle(p) PROVE Kept(q)
    <3>1. vaults'[q].base = vaults[q].base /\ vaults'[q].quote = vaults[q].quote
      BY <2>0, <2>7 DEF Settle, Scored, Holding, VaultType
    <3> QED
      BY <2>1, <3>1
  <2>8. ASSUME NEW p \in Participants, Exit(p) PROVE Kept(q) \/ Returned(q)
    <3>1. CASE p # q
      BY <2>0, <2>1, <2>8, <3>1 DEF Exit
    <3>2. CASE p = q
      <4>1. /\ vaults'[q].base = vaults[q].base - vaults[q].baseBalance
            /\ vaults'[q].quote = vaults[q].quote - vaults[q].quoteBalance
        BY <2>0, <2>8, <3>2 DEF Exit, Holding, VaultType
      <4>2. /\ wallets'[q].base = wallets[q].base + vaults[q].baseBalance
            /\ wallets'[q].quote = wallets[q].quote + vaults[q].quoteBalance
        BY <2>0, <2>8, <3>2 DEF Exit, Credited, WalletType
      <4>3. state = "Sealed" /\ q \in settled
        BY <2>8, <3>2 DEF Exit, ExitAllowed
      <4> QED
        BY <2>1, <4>1, <4>2, <4>3
    <3> QED
      BY <3>1, <3>2
  <2>9. CASE Tick \/ GiveToContest \/ SyncState \/ Freeze \/ Seal
             \/ UNCHANGED vars \/ (\E c \in Configs : Initialize(c))
             \/ (\E p \in Participants : Claim(p))
    BY <2>2, <2>9 DEF Tick, GiveToContest, SyncState, Freeze, Seal, vars,
                      Initialize, Claim, tokens
  <2>10. ASSUME NEW p \in Participants, SwapCallback(p)
         PROVE  Kept(q) \/ CalledBack(q)
    <3>1. CASE p # q
      <4>1. vaults'[q] = vaults[q]
        BY <1>1, <2>10, <3>1, CallbackKeeps DEF Inv
      <4> QED
        BY <2>1, <4>1
    <3>2. CASE p = q
      <4>1. \A r \in Participants \ {q} : vaults'[r] = vaults[r]
        BY <1>1, <2>10, <3>2, CallbackKeeps DEF Inv
      <4>2. callbacks' > callbacks /\ q \in unrecorded'
        BY <1>1, <2>10, <3>2 DEF SwapCallback, Inv, TypeOK
      <4> QED
        BY <4>1, <4>2 DEF CalledBack
    <3> QED
      BY <3>1, <3>2
  <2> QED
    BY <1>1, <2>3, <2>4, <2>5, <2>6, <2>7, <2>8, <2>9, <2>10 DEF Next
<1>2. Inv /\ [Next]_vars => [OnlyToOwner]_vars
    BY <1>1 DEF OnlyToOwner
<1> QED
    BY <1>2, InvHolds, PTL DEF Spec, AssetsOnlyToOwner

\* What a claim paid is what its rank is worth from then on.
LEMMA ShareStands ==
    ASSUME Inv, [Next]_vars, state = "Sealed", NEW q \in Participants
    PROVE  PrizeShare(q)' = PrizeShare(q)
BY AfterSeal DEF PrizeShare

\* The contest's handling of prize money implements PrizeEscrow: whatever
\* leaderboards are written, every participant is paid at most once, a
\* payment stands and never exceeds what is left of the pool.
THEOREM ContestIsEscrow == Spec => EscrowSpec
<1> DEFINE paid == [p \in claimed |-> PrizeShare(p)]
<1>1. Init => Escrow!Init
    BY DEF Init, Escrow!Init
<1>2. ASSUME Inv, [Next]_vars PROVE [Escrow!Next]_(Escrow!vars)
  <2>0. /\ prizePool \in Nat /\ totalPrizePool \in Nat
        /\ config \in ConfigType
        /\ claimed \subseteq Participants
    BY <1>2 DEF Inv, TypeOK
  <2>1. CASE state # "Sealed" /\ claimed' = {}
    <3>1. claimed = {}
      BY <1>2, <2>1 DEF Inv, PaidWhenSealed
    <3>2. paid = [p \in {} |-> 0] /\ paid' = [p \in {} |-> 0]
      BY <2>1, <3>1
    <3>3. ASSUME NEW amount \in Nat, totalPrizePool' = totalPrizePool + amount,
                 prizePool' = prizePool + amount
          PROVE  Escrow!Next
      <4>1. totalPrizePool' - totalPrizePool = amount
        BY <2>0, <3>3
      <4> QED
        BY <2>0, <3>1, <3>2, <3>3, <4>1 DEF Escrow!Next, Escrow!Fund
    <3>4. ASSUME NEW c \in Configs, Initialize(c) PROVE Escrow!Next
      <4>1. c.initialPrize \in Nat
        BY ConfigsAssumption DEF ConfigType
      <4>2. prizePool = 0 /\ totalPrizePool = 0
        BY <1>2, <3>4 DEF Inv, Blank, Initialize
      <4> QED
        BY <3>3, <3>4, <4>1, <4>2 DEF Initialize
    <3>5. ASSUME NEW p \in Participants, Register(p) PROVE Escrow!Next
      <4>1. config.entryFee \in Nat
        BY <2>0 DEF ConfigType
      <4> QED
        BY <3>3, <3>5, <4>1 DEF Register
    <3>6. CASE UNCHANGED <<prizePool, totalPrizePool>>
      BY <3>2, <3>6 DEF Escrow!vars
    <3>7. CASE Tick \/ GiveToContest \/ SyncState \/ Freeze \/ Seal
               \/ UNCHANGED vars \/ \E b \in AcceptableBoards : UpdateLeaders(b)
      BY <3>6, <3>7 DEF Tick, GiveToContest, SyncState, Freeze, Seal, vars,
                        UpdateLeaders, bookkeeping
    <3>8. ASSUME NEW p \in Participants,
                 GiveToVault(p) \/ SwapCallback(p) \/ Trade(p) \/ Settle(p) \/ Exit(p)
          PROVE  UNCHANGED <<prizePool, totalPrizePool>>
      BY <3>8 DEF GiveToVault, SwapCallback, Trade, SwapBaseForQuote, SwapQuoteForBase,
                  Settle, Exit, bookkeeping
    <3>9. ~\E p \in Participants : Claim(p)
      BY <2>1 DEF Claim, ClaimEligible
    <3> QED
      BY <1>2, <3>4, <3>5, <3>6, <3>7, <3>8, <3>9 DEF Next
  <2>2. CASE state = "Sealed"
    <3>1. ASSUME NEW p \in Participants, Claim(p) PROVE Escrow!Next
      <4>1. PrizeShare(p) \in Nat
        BY <1>2, <2>2, <3>1, ShareType DEF Claim, ClaimEligible, Inv
      <4>2. prizePool - prizePool' = PrizeShare(p) /\ PrizeShare(p) <= prizePool
        BY <2>0, <3>1, <4>1 DEF Claim, Covered, PoolAfter
      <4>3. paid' = [q \in DOMAIN paid \cup {p} |->
                        IF q = p THEN PrizeShare(p) ELSE paid[q]]
        <5>1. claimed' = claimed \cup {p} /\ p \notin claimed
          BY <3>1 DEF Claim, ClaimEligible
        <5>2. \A q \in claimed' : PrizeShare(q)' = PrizeShare(q)
          BY <1>2, <2>0, <2>2, <5>1, ShareStands
        <5> QED
          BY <5>1, <5>2
      <4>4. p \notin DOMAIN paid /\ totalPrizePool' = totalPrizePool
        BY <3>1 DEF Claim, ClaimEligible
      <4>5. prizePool' = prizePool - PrizeShare(p)
        BY <3>1 DEF Claim, PoolAfter
      <4> HIDE DEF paid
      <4>6. Escrow!Pay(p, PrizeShare(p))
        BY <4>2, <4>3, <4>4, <4>5 DEF Escrow!Pay, paid
      <4> QED
        BY <4>1, <4>2, <4>6 DEF Escrow!Next
    <3>2. CASE UNCHANGED <<prizePool, claimed>>
      <4>1. totalPrizePool' = totalPrizePool
        BY <1>2, <2>2, AfterSeal
      <4>2. paid' = paid
        BY <1>2, <2>0, <2>2, <3>2, ShareStands
      <4> QED
        BY <3>2, <4>1, <4>2 DEF Escrow!vars
    <3>3. CASE Tick \/ GiveToContest \/ SyncState \/ Freeze \/ Seal
               \/ UNCHANGED vars \/ \E b \in AcceptableBoards : UpdateLeaders(b)
      BY <3>2, <3>3 DEF Tick, GiveToContest, SyncState, Freeze, Seal, vars,
                        UpdateLeaders, bookkeeping
    <3>4. ASSUME NEW p \in Participants,
                 GiveToVault(p) \/ SwapCallback(p) \/ Trade(p) \/ Settle(p) \/ Exit(p)
          PROVE  UNCHANGED <<prizePool, claimed>>
      BY <3>4 DEF GiveToVault, SwapCallback, Trade, SwapBaseForQuote, SwapQuoteForBase,
                  Settle, Exit, bookkeeping
    <3>5. ASSUME NEW p \in Participants PROVE ~Register(p)
      BY <2>2 DEF Register, Synced
    <3>6. ASSUME NEW c \in Configs PROVE ~Initialize(c)
      BY <2>2 DEF Initialize
    <3> QED
      BY <1>2, <3>1, <3>2, <3>3, <3>4, <3>5, <3>6 DEF Next
  <2>3. state # "Sealed" => claimed' = {}
    <3>1. ASSUME NEW p \in Participants, Claim(p) PROVE state = "Sealed"
      BY <3>1 DEF Claim, ClaimEligible
    <3>2. claimed' = claimed \/ \E p \in Participants : Claim(p)
      BY <1>2 DEF Next, Tick, GiveToContest, SyncState, Freeze, Seal, vars,
                  Initialize, UpdateLeaders, GiveToVault, SwapCallback, Register, Trade,
                  SwapBaseForQuote, SwapQuoteForBase, Settle, Exit
    <3> QED
      BY <1>2, <3>1, <3>2 DEF Inv, PaidWhenSealed
  <2> QED
    BY <2>1, <2>2, <2>3
<1> QED
    BY <1>1, <1>2, InvHolds, PTL DEF Spec, EscrowSpec, Escrow!Spec
----------------------------------------------------------------------------
\* BoardConsistent speaks of scores and ranks of the vaults on the board; they
\* can only stand because settle, which writes both, refuses a scored vault,
\* and only scored vaults get onto the board.
BoardScored == \A i \in 1..Len(leaders) : leaders[i] \in settled

BoardInv == Inv /\ BoardScored /\ BoardConsistent

\* A scored vault keeps its score, and its rank unless a board is written.
LEMMA ScoredKept ==
    ASSUME Inv, [Next]_vars, NEW q \in settled
    PROVE  /\ q \in settled' /\ navs'[q] = navs[q]
           /\ \/ leaders' = leaders /\ vaults'[q].rank = vaults[q].rank
              \/ \E b \in AcceptableBoards : UpdateLeaders(b)
<1> DEFINE Goal == /\ q \in settled' /\ navs'[q] = navs[q]
                   /\ leaders' = leaders /\ vaults'[q].rank = vaults[q].rank
<1>0. /\ vaults \in [Participants -> VaultType] /\ navs \in [Participants -> Nat]
      /\ q \in Participants
    BY DEF Inv, TypeOK
<1>1. CASE UNCHANGED <<scoring, board, vaults>>
    BY <1>1 DEF scoring, board
<1>2. CASE Tick \/ GiveToContest \/ SyncState \/ Freeze \/ Seal \/ UNCHANGED vars
           \/ (\E c \in Configs : Initialize(c)) \/ (\E p \in Participants : Claim(p))
    BY <1>1, <1>2 DEF Tick, GiveToContest, SyncState, Freeze, Seal, vars, Initialize,
                      Claim, tokens
<1>3. ASSUME NEW b \in AcceptableBoards, UpdateLeaders(b)
      PROVE  q \in settled' /\ navs'[q] = navs[q]
    BY <1>3 DEF UpdateLeaders, scoring
<1>4. ASSUME NEW p \in Participants, GiveToVault(p) PROVE Goal
    BY <1>0, <1>4 DEF GiveToVault, VaultType, scoring, board
<1>5. ASSUME NEW p \in Participants, Register(p) PROVE Goal
    BY <1>0, <1>5 DEF Register, Holding, VaultType, scoring, board
<1>6. ASSUME NEW p \in Participants, Trade(p) PROVE Goal
  <2>1. /\ UNCHANGED <<scoring, board>>
        /\ \E b, a : vaults' = [vaults EXCEPT ![p] = Holding(@, b, a)]
    BY <1>6 DEF Trade, SwapBaseForQuote, SwapQuoteForBase
  <2> QED
    BY <1>0, <2>1 DEF Holding, VaultType, scoring, board
<1>7. ASSUME NEW p \in Participants, Settle(p) PROVE Goal
  <2>1. p # q
    BY <1>7 DEF Settle, Unscored
  <2> QED
    BY <1>0, <1>7, <2>1 DEF Settle, board
<1>8. ASSUME NEW p \in Participants, Exit(p) PROVE Goal
    BY <1>0, <1>8 DEF Exit, Holding, VaultType, scoring, board
<1>9. ASSUME NEW p \in Participants, SwapCallback(p) PROVE Goal
  <2>1. vaults'[q].rank = vaults[q].rank
    BY <1>0, <1>9, CallbackKeeps DEF Inv
  <2> QED
    BY <1>9, <2>1 DEF SwapCallback, scoring, board
<1> QED
    BY <1>2, <1>3, <1>4, <1>5, <1>6, <1>7, <1>8, <1>9 DEF Next

LEMMA BoardStep == BoardInv /\ [Next]_vars => (BoardScored /\ BoardConsistent)'
<1> SUFFICES ASSUME BoardInv, [Next]_vars PROVE (BoardScored /\ BoardConsistent)'
    OBVIOUS
<1>0. Inv /\ leaders \in Seq(Participants)
    BY DEF BoardInv, Inv, TypeOK
<1>1. ASSUME NEW b \in AcceptableBoards, UpdateLeaders(b)
      PROVE  (BoardScored /\ BoardConsistent)'
  <2>1. PICK n \in 1..(IF config.topK < MaxBoardUpdates THEN config.topK
                       ELSE MaxBoardUpdates) :
            /\ b \in [1..n -> settled]
            /\ \A i \in 1..(n - 1) : navs[b[i]] >= navs[b[i + 1]]
    BY <1>1 DEF AcceptableBoards
  <2>2. n \in Nat /\ Len(b) = n /\ leaders' = b /\ UNCHANGED scoring
    BY <1>0, <1>1, <2>1, SMTT(30) DEF UpdateLeaders, Inv, TypeOK, ConfigType, MaxBoardUpdates
  <2>3. ASSUME NEW i \in 1..n PROVE vaults'[b[i]].rank = RankOnBoard(b, b[i])
    <3>1. b[i] \in Range(b) /\ b[i] \in Participants
      BY <1>0, <2>1 DEF Range, Inv, TypeOK
    <3> QED
      BY <1>0, <1>1, <3>1 DEF UpdateLeaders, Inv, TypeOK, VaultType
  <2> QED
    BY <2>1, <2>2, <2>3 DEF BoardScored, BoardConsistent, scoring
<1>2. CASE ~\E b \in AcceptableBoards : UpdateLeaders(b)
  <2>1. CASE leaders = <<>>
    <3>1. leaders' = leaders
      BY <1>2 DEF Next, Tick, GiveToContest, SyncState, Freeze, Seal, vars, Initialize,
             GiveToVault, SwapCallback, Register, Trade, SwapBaseForQuote, SwapQuoteForBase, Settle,
             Claim, Exit, board
    <3> QED
      BY <2>1, <3>1 DEF BoardScored, BoardConsistent
  <2>2. CASE leaders # <<>>
    <3>1. Len(leaders) \in Nat \ {0} /\ \A i \in 1..Len(leaders) : leaders[i] \in settled
      BY <1>0, <2>2 DEF BoardInv, BoardScored
    <3>2. \A q \in settled : /\ q \in settled' /\ navs'[q] = navs[q]
                             /\ leaders' = leaders /\ vaults'[q].rank = vaults[q].rank
      BY <1>0, <1>2, ScoredKept
    <3>3. leaders' = leaders
      BY <3>1, <3>2
    <3>4. \A i \in 1..Len(leaders) : /\ leaders[i] \in settled'
                                     /\ navs'[leaders[i]] = navs[leaders[i]]
                                     /\ vaults'[leaders[i]].rank = vaults[leaders[i]].rank
      BY <3>1, <3>2
    <3>5. \A i \in 1..(Len(leaders) - 1) : i \in 1..Len(leaders) /\ i + 1 \in 1..Len(leaders)
      BY <3>1
    <3> QED
      BY <3>3, <3>4, <3>5 DEF BoardInv, BoardScored, BoardConsistent
  <2> QED
    BY <2>1, <2>2
<1> QED
    BY <1>1, <1>2

\* The leaderboard the contest stores stays in the order of the recorded scores and
\* agrees with the ranks in the vaults, whatever is called after updateLeaders.
THEOREM BoardStands == Spec => []BoardConsistent
<1>1. Init => BoardInv
  <2>1. Init => BoardScored /\ BoardConsistent
    BY DEF Init, BoardScored, BoardConsistent
  <2> QED
    BY <2>1, InitInv DEF BoardInv
<1>2. BoardInv /\ [Next]_vars => BoardInv'
    BY BoardStep, InvStep DEF BoardInv
<1>3. BoardInv => BoardConsistent
    BY DEF BoardInv
<1> QED
    BY <1>1, <1>2, <1>3, PTL DEF Spec
----------------------------------------------------------------------------
(* Sums of the values of a function over a finite set, the way the          *)
(* community modules' SumFunctionOnSet computes them.                       *)

\* Induction, with the set of the numbers that have a property for it.
LEMMA LeastOf ==
    ASSUME NEW T, T \subseteq Nat, T # {}
    PROVE  \E x \in T : \A y \in T : x <= y
<1> DEFINE R == OpToRel(<, Nat)
<1>1. \A x, y \in Nat : <<x, y>> \in R <=> x < y
    BY DEF OpToRel
<1>2. IsWellFoundedOn(R, Nat)
    BY NatLessThanWellFounded
<1> HIDE DEF R
<1>3. PICK x \in T : \A y \in T : ~ (<<y, x>> \in R)
    BY <1>2, WFMin
<1>4. \A y \in T : ~(y < x) /\ y \in Nat /\ x \in Nat
    BY <1>1, <1>3
<1> QED
    BY <1>4

LEMMA Induction ==
    ASSUME NEW S, 0 \in S, \A n \in Nat : n \in S => n + 1 \in S
    PROVE  Nat \subseteq S
<1> DEFINE T == Nat \ S
<1> SUFFICES ASSUME T # {} PROVE FALSE
    OBVIOUS
<1>1. PICK x \in T : \A y \in T : x <= y
    BY LeastOf
<1>2. x # 0 /\ x \in Nat
    OBVIOUS
<1>3. x - 1 \in Nat /\ x - 1 \notin T
    BY <1>1, <1>2
<1> QED
    BY <1>2, <1>3

Chosen(T) == CHOOSE x \in T : TRUE

\* The recursion of SumFunctionOnSet, on the subsets D.
AddsUp(f, D, sum) ==
    sum = [T \in D |-> IF T = {} THEN 0 ELSE f[Chosen(T)] + sum[T \ {Chosen(T)}]]

SumsOf(f, S, sum) == AddsUp(f, SUBSET S, sum)

LEMMA SumIsFold ==
    ASSUME NEW f, NEW S
    PROVE  SumFunctionOnSet(f, S) = (CHOOSE sum : SumsOf(f, S, sum))[S]
BY DEF SumFunctionOnSet, FoldFunctionOnSet, MapThenFoldSet, SumsOf, AddsUp, Chosen

\* The subsets of at most n elements.
UpTo(S, n) == {T \in SUBSET S : Cardinality(T) <= n}

LEMMA LessOne ==
    ASSUME NEW T, IsFiniteSet(T), T # {}
    PROVE  /\ Chosen(T) \in T
           /\ IsFiniteSet(T \ {Chosen(T)})
           /\ Cardinality(T) \in Nat \ {0}
           /\ Cardinality(T \ {Chosen(T)}) = Cardinality(T) - 1
<1>1. Chosen(T) \in T
    BY DEF Chosen
<1> QED
    BY <1>1, FS_RemoveElement, FS_EmptySet, FS_CardinalityType

LEMMA OneFewer ==
    ASSUME NEW T, IsFiniteSet(T), NEW n \in Nat, Cardinality(T) = n + 1
    PROVE  /\ T # {}
           /\ \A x \in T : IsFiniteSet(T \ {x}) /\ Cardinality(T \ {x}) = n
<1>1. Cardinality({}) # n + 1
    BY FS_EmptySet
<1>2. T # {}
    BY <1>1
<1>3. \A x \in T : IsFiniteSet(T \ {x}) /\ Cardinality(T \ {x}) = (n + 1) - 1
    BY FS_RemoveElement
<1> QED
    BY <1>2, <1>3

LEMMA NoneLeft ==
    ASSUME NEW T, IsFiniteSet(T), Cardinality(T) = 0
    PROVE  T = {}
BY FS_EmptySet

\* The recursion has a solution on the subsets of a finite set.
LEMMA AddsUpExists ==
    ASSUME NEW f, NEW S, IsFiniteSet(S)
    PROVE  \E sum : SumsOf(f, S, sum)
<1> DEFINE N == {n \in Nat : \E sum : AddsUp(f, UpTo(S, n), sum)}
<1>0. \A T \in SUBSET S : IsFiniteSet(T) /\ Cardinality(T) \in Nat
    BY FS_Subset, FS_CardinalityType
<1>1. 0 \in N
  <2> DEFINE g == [T \in UpTo(S, 0) |-> 0]
  <2>1. \A T \in UpTo(S, 0) : T = {}
    <3> TAKE T \in UpTo(S, 0)
    <3>1. T \in SUBSET S /\ Cardinality(T) <= 0
      BY DEF UpTo
    <3>2. IsFiniteSet(T) /\ Cardinality(T) = 0
      BY <1>0, <3>1
    <3> QED
      BY <3>2, FS_EmptySet
  <2>2. g = [T \in UpTo(S, 0) |->
                IF T = {} THEN 0 ELSE f[Chosen(T)] + g[T \ {Chosen(T)}]]
    BY <2>1
  <2> QED
    BY <2>2 DEF AddsUp
<1>2. ASSUME NEW n \in Nat, n \in N PROVE n + 1 \in N
  <2>1. PICK g : AddsUp(f, UpTo(S, n), g)
    BY <1>2
  <2> DEFINE h == [T \in UpTo(S, n + 1) |->
                IF T = {} THEN 0 ELSE f[Chosen(T)] + g[T \ {Chosen(T)}]]
  <2>2. ASSUME NEW T \in UpTo(S, n) PROVE T \in UpTo(S, n + 1) /\ h[T] = g[T]
    <3>1. T \in UpTo(S, n + 1)
      BY <1>0 DEF UpTo
    <3> QED
      BY <2>1, <3>1 DEF AddsUp
  <2>3. ASSUME NEW T \in UpTo(S, n + 1), T # {} PROVE T \ {Chosen(T)} \in UpTo(S, n)
    <3>1. IsFiniteSet(T) /\ T \in SUBSET S /\ Cardinality(T) <= n + 1
      BY <1>0 DEF UpTo
    <3>2. Cardinality(T \ {Chosen(T)}) = Cardinality(T) - 1 /\ Cardinality(T) \in Nat
      BY <2>3, <3>1, LessOne
    <3> QED
      BY <3>1, <3>2 DEF UpTo
  <2>4. \A T \in UpTo(S, n + 1) : T # {} => h[T \ {Chosen(T)}] = g[T \ {Chosen(T)}]
    BY <2>2, <2>3
  <2>5. h = [T \in UpTo(S, n + 1) |->
                IF T = {} THEN 0 ELSE f[Chosen(T)] + h[T \ {Chosen(T)}]]
    <3> DEFINE k == [T \in UpTo(S, n + 1) |->
                IF T = {} THEN 0 ELSE f[Chosen(T)] + h[T \ {Chosen(T)}]]
    <3>1. \A T \in UpTo(S, n + 1) : h[T] = k[T]
      BY <2>4
    <3> QED
      BY <3>1
  <2> HIDE DEF h
  <2> QED
    BY <2>5 DEF AddsUp
<1> HIDE DEF N
<1>3. Cardinality(S) \in N
    BY <1>0, <1>1, <1>2, Induction
<1>4. UpTo(S, Cardinality(S)) = SUBSET S
  <2>1. \A T \in SUBSET S : Cardinality(T) <= Cardinality(S)
    BY FS_Subset
  <2> QED
    BY <2>1 DEF UpTo
<1> QED
    BY <1>3, <1>4 DEF N, SumsOf

\* Two such recursions agree wherever both are defined.
LEMMA AddsUpUnique ==
    ASSUME NEW f, NEW S, IsFiniteSet(S), NEW R, R \subseteq S,
           NEW g, SumsOf(f, S, g), NEW h, SumsOf(f, R, h)
    PROVE  g[R] = h[R]
<1> DEFINE N == {n \in Nat : \A T \in SUBSET R : Cardinality(T) = n => g[T] = h[T]}
<1>0. \A T \in SUBSET R : T \in SUBSET S /\ IsFiniteSet(T) /\ Cardinality(T) \in Nat
    BY FS_Subset, FS_CardinalityType
<1>1. 0 \in N
  <2>1. \A T \in SUBSET R : Cardinality(T) = 0 => T = {}
    BY <1>0, NoneLeft
  <2>2. g[{}] = 0 /\ h[{}] = 0
    BY DEF SumsOf, AddsUp
  <2> QED
    BY <2>1, <2>2
<1>2. ASSUME NEW n \in Nat, n \in N PROVE n + 1 \in N
  <2>1. ASSUME NEW T \in SUBSET R, Cardinality(T) = n + 1 PROVE g[T] = h[T]
    <3>0. Cardinality({}) # n + 1
      BY FS_EmptySet
    <3>1. T # {}
      BY <2>1, <3>0
    <3>2. Cardinality(T \ {Chosen(T)}) = n
      BY <1>0, <2>1, <3>1, LessOne
    <3>3. g[T \ {Chosen(T)}] = h[T \ {Chosen(T)}]
      BY <1>2, <3>2
    <3>4. g[T] = f[Chosen(T)] + g[T \ {Chosen(T)}] /\ h[T] = f[Chosen(T)] + h[T \ {Chosen(T)}]
      BY <1>0, <3>1 DEF SumsOf, AddsUp
    <3> QED
      BY <3>3, <3>4
  <2> QED
    BY <2>1
<1> HIDE DEF N
<1>3. Nat \subseteq N
    BY <1>1, <1>2, Induction
<1>4. R \in SUBSET R /\ Cardinality(R) \in N
    BY <1>0, <1>3
<1> QED
    BY <1>4 DEF N

LEMMA SumEmpty ==
    ASSUME NEW f
    PROVE  SumFunctionOnSet(f, {}) = 0
<1>1. PICK g : SumsOf(f, {}, g)
    BY AddsUpExists, FS_EmptySet
<1> DEFINE s == CHOOSE sum : SumsOf(f, {}, sum)
<1>2. SumsOf(f, {}, s)
    BY <1>1
<1>3. s[{}] = 0
    BY <1>2 DEF SumsOf, AddsUp
<1> QED
    BY <1>3, SumIsFold

LEMMA SumOfNone ==
    ASSUME NEW f, NEW S, \A x : x \notin S
    PROVE  SumFunctionOnSet(f, S) = 0
<1>1. S = {}
    OBVIOUS
<1> QED
    BY <1>1, SumEmpty

\* Sums over the same elements are the same.
LEMMA SumSame ==
    ASSUME NEW f, NEW S, NEW R, \A x : x \in S <=> x \in R
    PROVE  SumFunctionOnSet(f, S) = SumFunctionOnSet(f, R)
<1>1. S = R
    OBVIOUS
<1> QED
    BY <1>1

LEMMA SumChosen ==
    ASSUME NEW f, NEW S, IsFiniteSet(S), S # {}
    PROVE  SumFunctionOnSet(f, S) = f[Chosen(S)] + SumFunctionOnSet(f, S \ {Chosen(S)})
<1>1. PICK R : R = S \ {Chosen(S)}
    OBVIOUS
<1>2. IsFiniteSet(R) /\ R \subseteq S
    BY <1>1, FS_Subset
<1>3. PICK s : SumsOf(f, S, s) /\ SumFunctionOnSet(f, S) = s[S]
    BY AddsUpExists, SumIsFold
<1>4. PICK r : SumsOf(f, R, r) /\ SumFunctionOnSet(f, R) = r[R]
    BY <1>2, AddsUpExists, SumIsFold
<1>5. s[S] = f[Chosen(S)] + s[R]
    BY <1>1, <1>3 DEF SumsOf, AddsUp
<1>6. s[R] = r[R]
    BY <1>2, <1>3, <1>4, AddsUpUnique
<1> QED
    BY <1>1, <1>3, <1>4, <1>5, <1>6

LEMMA SumNat ==
    ASSUME NEW f, NEW S, IsFiniteSet(S), \A x \in S : f[x] \in Nat
    PROVE  SumFunctionOnSet(f, S) \in Nat
<1> DEFINE N == {n \in Nat : \A T \in SUBSET S : Cardinality(T) = n =>
                                SumFunctionOnSet(f, T) \in Nat}
<1>0. \A T \in SUBSET S : IsFiniteSet(T) /\ Cardinality(T) \in Nat
    BY FS_Subset, FS_CardinalityType
<1>1. 0 \in N
  <2>1. \A T \in SUBSET S : Cardinality(T) = 0 => T = {}
    BY <1>0, NoneLeft
  <2> QED
    BY <2>1, SumEmpty
<1>2. ASSUME NEW n \in Nat, n \in N PROVE n + 1 \in N
  <2>1. ASSUME NEW T \in SUBSET S, Cardinality(T) = n + 1
        PROVE  SumFunctionOnSet(f, T) \in Nat
    <3>1. Chosen(T) \in T
      BY <1>0, <2>1, OneFewer DEF Chosen
    <3>2. T # {} /\ IsFiniteSet(T)
      BY <1>0, <3>1
    <3>3. Cardinality(T \ {Chosen(T)}) = n
      BY <2>1, <3>1, <3>2, OneFewer
    <3>4. SumFunctionOnSet(f, T \ {Chosen(T)}) \in Nat
      BY <1>2, <3>3
    <3> QED
      BY <3>2, <3>3, <3>4, SumChosen
  <2> QED
    BY <2>1
<1> HIDE DEF N
<1>3. Nat \subseteq N
    BY <1>1, <1>2, Induction
<1> QED
    BY <1>0, <1>3 DEF N

\* Any element may be taken out first.
LEMMA SumWithout ==
    ASSUME NEW f, NEW S, IsFiniteSet(S), \A x \in S : f[x] \in Nat
    PROVE  \A x \in S : /\ SumFunctionOnSet(f, S) = f[x] + SumFunctionOnSet(f, S \ {x})
                        /\ SumFunctionOnSet(f, S \ {x}) \in Nat
<1> DEFINE N == {n \in Nat : \A T \in SUBSET S : Cardinality(T) = n =>
                    /\ SumFunctionOnSet(f, T) \in Nat
                    /\ \A x \in T : SumFunctionOnSet(f, T) = f[x] + SumFunctionOnSet(f, T \ {x})}
<1>0. \A T \in SUBSET S : IsFiniteSet(T) /\ Cardinality(T) \in Nat
    BY FS_Subset, FS_CardinalityType
<1>1. 0 \in N
  <2>1. \A T \in SUBSET S : Cardinality(T) = 0 => T = {}
    BY <1>0, NoneLeft
  <2> QED
    <3>1. \A T \in SUBSET S : Cardinality(T) = 0 => SumFunctionOnSet(f, T) = 0 /\ ~\E x \in T : TRUE
      BY <2>1, SumEmpty
    <3> QED
      BY <3>1
<1>2. ASSUME NEW n \in Nat, n \in N PROVE n + 1 \in N
  <2>1. ASSUME NEW T \in SUBSET S, Cardinality(T) = n + 1
        PROVE  /\ SumFunctionOnSet(f, T) \in Nat
               /\ \A x \in T : SumFunctionOnSet(f, T) = f[x] + SumFunctionOnSet(f, T \ {x})
    <3>2. T # {} /\ IsFiniteSet(T)
      BY <1>0, <2>1, OneFewer
    <3>3. PICK c : c = Chosen(T)
      OBVIOUS
    <3>4. \A x \in T : IsFiniteSet(T \ {x}) /\ Cardinality(T \ {x}) = n /\ T \ {x} \in SUBSET S
      BY <2>1, <3>2, OneFewer
    <3>5. c \in T
      BY <3>2, <3>3, LessOne
    <3>6. SumFunctionOnSet(f, T) = f[c] + SumFunctionOnSet(f, T \ {c})
      BY <3>2, <3>3, SumChosen
    <3>7. \A x \in T : /\ SumFunctionOnSet(f, T \ {x}) \in Nat
                       /\ \A y \in T \ {x} : SumFunctionOnSet(f, T \ {x})
                                              = f[y] + SumFunctionOnSet(f, (T \ {x}) \ {y})
      BY <1>2, <3>4
    <3>8. ASSUME NEW x \in T, x # c
          PROVE  SumFunctionOnSet(f, T) = f[x] + SumFunctionOnSet(f, T \ {x})
      <4>1. (T \ {x}) \ {c} = (T \ {c}) \ {x}
        OBVIOUS
      <4>2. PICK rest : rest = SumFunctionOnSet(f, (T \ {c}) \ {x})
        OBVIOUS
      <4>3. SumFunctionOnSet(f, T \ {c}) = f[x] + rest
        BY <3>5, <3>7, <3>8, <4>2
      <4>4. SumFunctionOnSet(f, T \ {x}) = f[c] + rest
        BY <3>5, <3>7, <3>8, <4>1, <4>2
      <4>5. f[x] \in Nat /\ f[c] \in Nat
        BY <3>5
      <4>6. rest \in Nat
        <5>1. Cardinality({c}) = 1 /\ Cardinality(T) \in Nat
          BY <1>0, FS_Singleton
        <5>2. x \in T \ {c}
          BY <3>8
        <5>3. IsFiniteSet((T \ {c}) \ {x})
          BY <3>4, <3>5, FS_Subset
        <5>4. SumFunctionOnSet(f, T \ {c}) \in Nat
          BY <3>5, <3>7
        <5> QED
          BY <4>2, <5>3, SumNat
      <4> QED
        BY <3>6, <4>3, <4>4, <4>5, <4>6
    <3> QED
      BY <3>5, <3>6, <3>7, <3>8
  <2> QED
    BY <2>1
<1> HIDE DEF N
<1>3. Nat \subseteq N
    BY <1>1, <1>2, Induction
<1>4. S \in SUBSET S /\ \A x \in S : S \ {x} \in SUBSET S
    OBVIOUS
<1> QED
    BY <1>0, <1>3, <1>4 DEF N

\* A sum over fewer elements is no larger.
LEMMA SumOfSubset ==
    ASSUME NEW f, NEW S, IsFiniteSet(S), \A x \in S : f[x] \in Nat, NEW R \in SUBSET S
    PROVE  SumFunctionOnSet(f, R) <= SumFunctionOnSet(f, S)
<1> DEFINE N == {n \in Nat : \A T \in SUBSET S : R \subseteq T /\ Cardinality(T) = n =>
                        SumFunctionOnSet(f, R) <= SumFunctionOnSet(f, T)}
<1>0. \A T \in SUBSET S : /\ IsFiniteSet(T) /\ Cardinality(T) \in Nat
                          /\ SumFunctionOnSet(f, T) \in Nat
    BY FS_Subset, FS_CardinalityType, SumNat
<1>1. 0 \in N
  <2>1. \A T \in SUBSET S : Cardinality(T) = 0 => T = {}
    BY <1>0, NoneLeft
  <2>2. \A T \in SUBSET S : R \subseteq T /\ Cardinality(T) = 0 => R = T
    BY <2>1
  <2> QED
    BY <1>0, <2>2
<1>2. ASSUME NEW n \in Nat, n \in N PROVE n + 1 \in N
  <2>1. ASSUME NEW T \in SUBSET S, R \subseteq T, Cardinality(T) = n + 1
        PROVE  SumFunctionOnSet(f, R) <= SumFunctionOnSet(f, T)
    <3>1. CASE R = T
      BY <1>0, <3>1
    <3>2. CASE R # T
      <4>1. PICK x \in T : x \notin R
        BY <2>1, <3>2
      <4>2. Cardinality(T \ {x}) = n /\ R \subseteq T \ {x} /\ T \ {x} \in SUBSET S
        BY <1>0, <2>1, <4>1, OneFewer
      <4>3. SumFunctionOnSet(f, R) <= SumFunctionOnSet(f, T \ {x})
        BY <1>2, <4>2
      <4>4. SumFunctionOnSet(f, T) = f[x] + SumFunctionOnSet(f, T \ {x}) /\ f[x] \in Nat
        BY <1>0, <4>1, SumWithout
      <4> QED
        BY <1>0, <4>2, <4>3, <4>4
    <3> QED
      BY <3>1, <3>2
  <2> QED
    BY <2>1
<1> HIDE DEF N
<1>3. Nat \subseteq N
    BY <1>1, <1>2, Induction
<1>4. S \in SUBSET S /\ Cardinality(S) \in N
    BY <1>0, <1>3
<1> QED
    BY <1>4 DEF N

Image(f, S) == {f[x] : x \in S}

\* The shares of a set of winners: what they get, the part of the schedule
\* their ranks stand for.
LEMMA SharesType ==
    ASSUME NEW T \in Nat, NEW K, IsFiniteSet(K), NEW part, \A k \in K : part[k] \in Nat,
           NEW D, IsFiniteSet(D), NEW rank, \A p \in D : rank[p] \in K,
           NEW share, \A p \in D : share[p] = (T * part[rank[p]]) \div 10000
    PROVE  /\ Image(rank, D) \subseteq K /\ IsFiniteSet(Image(rank, D))
           /\ SumFunctionOnSet(part, Image(rank, D)) \in Nat
           /\ \A p \in D : share[p] \in Nat
           /\ SumFunctionOnSet(share, D) \in Nat
<1>1. Image(rank, D) \subseteq K
    BY DEF Image
<1>2. IsFiniteSet(Image(rank, D))
    BY <1>1, FS_Subset
<1>3. \A k \in Image(rank, D) : part[k] \in Nat
    BY <1>1
<1>4. ASSUME NEW p \in D PROVE share[p] \in Nat
  <2>1. PICK a \in Nat : a = part[rank[p]]
    OBVIOUS
  <2>2. T * a \in Nat /\ share[p] = (T * a) \div 10000
    BY <2>1
  <2> QED
    BY <2>2
<1> QED
    BY <1>1, <1>2, <1>3, <1>4, SumNat

LEMMA OneMoreShare ==
    ASSUME NEW T \in Nat, NEW K, IsFiniteSet(K), NEW part, \A k \in K : part[k] \in Nat,
           NEW D, IsFiniteSet(D), NEW rank, \A q \in D : rank[q] \in K,
           \A q, r \in D : rank[q] = rank[r] => q = r,
           NEW share, \A q \in D : share[q] = (T * part[rank[q]]) \div 10000,
           NEW p \in D,
           10000 * SumFunctionOnSet(share, D \ {p})
                <= T * SumFunctionOnSet(part, Image(rank, D \ {p}))
    PROVE  10000 * SumFunctionOnSet(share, D) <= T * SumFunctionOnSet(part, Image(rank, D))
<1>1. PICK E : E = D \ {p}
    OBVIOUS
<1>2. /\ IsFiniteSet(E) /\ \A q \in E : rank[q] \in K
      /\ \A q \in E : share[q] = (T * part[rank[q]]) \div 10000
    BY <1>1, FS_Subset
<1>3. Image(rank, D) \ {rank[p]} = Image(rank, E) /\ rank[p] \in Image(rank, D)
    BY <1>1 DEF Image
<1>4. PICK b \in Nat : b = SumFunctionOnSet(part, Image(rank, E))
    BY <1>2, SharesType
<1>5. PICK c \in Nat : c = SumFunctionOnSet(share, E)
    BY <1>2, SharesType
<1>6. PICK a \in Nat : a = part[rank[p]]
    OBVIOUS
<1>7. PICK s \in Nat : s = share[p]
    BY SharesType
<1>8. Image(rank, D) \subseteq K /\ IsFiniteSet(Image(rank, D))
    BY SharesType
<1>9. \A k \in Image(rank, D) : part[k] \in Nat
    BY <1>8
<1>10. SumFunctionOnSet(part, Image(rank, D))
            = part[rank[p]] + SumFunctionOnSet(part, Image(rank, D) \ {rank[p]})
  <2>1. PICK I : I = Image(rank, D)
    OBVIOUS
  <2>2. PICK k \in I : k = rank[p]
    BY <1>3, <2>1
  <2>3. IsFiniteSet(I) /\ \A x \in I : part[x] \in Nat
    BY <1>8, <1>9, <2>1
  <2>4. SumFunctionOnSet(part, I) = part[k] + SumFunctionOnSet(part, I \ {k})
    BY <2>3, SumWithout
  <2> QED
    BY <2>1, <2>2, <2>4
<1>11. SumFunctionOnSet(part, Image(rank, D)) = a + b
  <2>1. \A x : x \in Image(rank, D) \ {rank[p]} <=> x \in Image(rank, E)
    BY <1>3
  <2>2. SumFunctionOnSet(part, Image(rank, D) \ {rank[p]}) = b
    BY <1>4, <2>1, SumSame
  <2> QED
    BY <1>6, <1>10, <2>2
<1>12. \A q \in D : share[q] \in Nat
    BY SharesType
<1>13. SumFunctionOnSet(share, D) = share[p] + SumFunctionOnSet(share, D \ {p})
    BY <1>12, SumWithout
<1>14. SumFunctionOnSet(share, D) = s + c
    BY <1>1, <1>5, <1>7, <1>13
<1>15. 10000 * c <= T * b
    BY <1>1, <1>4, <1>5
<1>16. 10000 * s <= T * a
  <2>1. PICK x \in Nat : x = T * a
    OBVIOUS
  <2>2. s = x \div 10000
    BY <1>6, <1>7, <2>1
  <2>3. 10000 * s <= x
    BY <2>2
  <2> QED
    BY <2>1, <2>3
<1>17. T * (a + b) = T * a + T * b /\ T * a \in Nat /\ T * b \in Nat
    OBVIOUS
<1>18. 10000 * (s + c) <= T * (a + b)
    BY <1>15, <1>16, <1>17
<1> QED
    BY <1>11, <1>14, <1>18

\* Rounding every share down costs the pool no more than the shares add up to.
LEMMA RoundedShares ==
    ASSUME NEW T \in Nat, NEW K, IsFiniteSet(K), NEW part, \A k \in K : part[k] \in Nat,
           NEW C, IsFiniteSet(C), NEW rank, \A p \in C : rank[p] \in K,
           \A p, q \in C : rank[p] = rank[q] => p = q,
           NEW share, \A p \in C : share[p] = (T * part[rank[p]]) \div 10000
    PROVE  10000 * SumFunctionOnSet(share, C) <= T * SumFunctionOnSet(part, K)
<1> DEFINE Fits(D) == 10000 * SumFunctionOnSet(share, D)
                        <= T * SumFunctionOnSet(part, Image(rank, D))
<1> HIDE DEF Fits
<1> DEFINE N == {n \in Nat : \A D \in SUBSET C : Cardinality(D) = n => Fits(D)}
<1>0. \A D \in SUBSET C : /\ IsFiniteSet(D) /\ Cardinality(D) \in Nat
                          /\ \A p \in D : rank[p] \in K
                          /\ \A p, q \in D : rank[p] = rank[q] => p = q
                          /\ \A p \in D : share[p] = (T * part[rank[p]]) \div 10000
    BY FS_Subset, FS_CardinalityType
<1>1. 0 \in N
  <2>1. \A D \in SUBSET C : Cardinality(D) = 0 => D = {}
    BY <1>0, NoneLeft
  <2>2. ASSUME NEW D, D = {} PROVE Fits(D)
    <3>1. SumFunctionOnSet(share, D) = 0
      BY <2>2, SumOfNone
    <3>2. \A x : x \notin Image(rank, D)
      BY <2>2 DEF Image
    <3>3. SumFunctionOnSet(part, Image(rank, D)) = 0
      BY <3>2, SumOfNone
    <3>4. 10000 * 0 <= T * 0
      OBVIOUS
    <3> QED
      BY <3>1, <3>3, <3>4 DEF Fits
  <2> QED
    BY <2>1, <2>2
<1>2. ASSUME NEW n \in Nat, n \in N PROVE n + 1 \in N
  <2>1. ASSUME NEW D \in SUBSET C, Cardinality(D) = n + 1
        PROVE  Fits(D)
    <3>1. IsFiniteSet(D)
      BY <1>0
    <3>2. PICK p \in D : Cardinality(D \ {p}) = n
      BY <2>1, <3>1, OneFewer
    <3>3. D \ {p} \in SUBSET C
      OBVIOUS
    <3>4. Fits(D \ {p})
      BY <1>2, <3>2, <3>3
    <3> HIDE DEF N
    <3>5. 10000 * SumFunctionOnSet(share, D \ {p})
                <= T * SumFunctionOnSet(part, Image(rank, D \ {p}))
      BY <3>4 DEF Fits
    <3>6. /\ \A q \in D : rank[q] \in K
          /\ \A q, r \in D : rank[q] = rank[r] => q = r
          /\ \A q \in D : share[q] = (T * part[rank[q]]) \div 10000
      BY <1>0
    <3>7. 10000 * SumFunctionOnSet(share, D) <= T * SumFunctionOnSet(part, Image(rank, D))
      BY <3>1, <3>5, <3>6, OneMoreShare
    <3> QED
      BY <3>7 DEF Fits
  <2> QED
    BY <2>1
<1> HIDE DEF N
<1>3. Nat \subseteq N
    BY <1>1, <1>2, Induction
<1>4. C \in SUBSET C /\ Cardinality(C) \in N
    BY <1>0, <1>3
<1>5. Fits(C)
    BY <1>4 DEF N
<1>6. Image(rank, C) \subseteq K
    BY SharesType
<1>7. SumFunctionOnSet(part, Image(rank, C)) <= SumFunctionOnSet(part, K)
    BY <1>6, SumOfSubset
<1>8. PICK b \in Nat : b = SumFunctionOnSet(part, Image(rank, C))
    BY SharesType
<1>9. PICK k \in Nat : k = SumFunctionOnSet(part, K)
    BY SumNat
<1>10. PICK c \in Nat : c = SumFunctionOnSet(share, C)
    BY SharesType
<1>11. T * b <= T * k
    BY <1>7, <1>8, <1>9
<1>12. 10000 * c <= T * b
    BY <1>5, <1>8, <1>10 DEF Fits
<1>13. T * b \in Nat /\ T * k \in Nat
    OBVIOUS
<1>14. 10000 * c <= T * k
    BY <1>11, <1>12, <1>13
<1> QED
    BY <1>9, <1>10, <1>14
----------------------------------------------------------------------------
\* WayOut promises a winner that the pool still covers the prize, however many
\* others claimed before.  That is a fact about the whole history of the pool:
\* it is what was funded less what the claims were worth, each claim by a rank
\* of its own, and the schedule gives away no more than all of it.
Shares == [p \in Participants |-> PrizeShare(p)]

PoolLedger == prizePool + SumFunctionOnSet(Shares, claimed) = totalPrizePool

\* A rank is a place of the schedule, and only ranked vaults have claimed.
RanksListed ==
    /\ \A p \in Participants : vaults[p].rank # 0 => vaults[p].rank <= config.topK
    /\ \A p \in claimed : p \in registered /\ vaults[p].rank # 0

\* What a vault recorded is never more than what it holds, unless it was called
\* back since.
RecordedHeld == \A p \in Participants : p \in unrecorded \/ Withdrawable(p)

ClaimInv == Inv /\ PoolLedger /\ RanksListed /\ RecordedHeld

LEMMA RecordedStep == ClaimInv /\ [Next]_vars => RecordedHeld'
<1> SUFFICES ASSUME ClaimInv, [Next]_vars, NEW q \in Participants,
                    q \notin unrecorded'
             PROVE  Withdrawable(q)'
    BY DEF RecordedHeld
<1>0. vaults \in [Participants -> VaultType] /\ config \in ConfigType
    BY DEF ClaimInv, Inv, TypeOK
<1>11. ASSUME q \notin unrecorded
       PROVE  /\ vaults[q].baseBalance <= vaults[q].base
              /\ vaults[q].quoteBalance <= vaults[q].quote
    BY <1>11 DEF ClaimInv, RecordedHeld, Withdrawable
<1>1. /\ vaults[q].base \in Nat /\ vaults[q].quote \in Nat
      /\ vaults[q].baseBalance \in Nat /\ vaults[q].quoteBalance \in Nat
    BY <1>0 DEF VaultType
<1>2. CASE UNCHANGED <<vaults, unrecorded>>
    BY <1>2, <1>11 DEF Withdrawable
<1>3. ASSUME NEW p \in Participants, NEW b \in Nat, NEW a \in Nat,
             vaults' = [vaults EXCEPT ![p] = Holding(@, b, a)],
             unrecorded' \in {unrecorded, unrecorded \ {p}}
      PROVE  Withdrawable(q)'
  <2>1. CASE p # q
    BY <1>0, <1>3, <1>11, <2>1 DEF Withdrawable
  <2>2. CASE p = q
    <3>1. vaults[q] \in VaultType
      BY <1>0
    <3>2. vaults'[q] = Holding(vaults[q], b, a)
      BY <1>0, <1>3, <2>2
    <3>3. PICK v \in VaultType : v = vaults[q]
      BY <3>1
    <3>4. PICK w : w = Holding(v, b, a)
      OBVIOUS
    <3>5. w.base = b /\ w.baseBalance = b /\ w.quote = a /\ w.quoteBalance = a
      BY <3>4, HoldingType
    <3>6. w.baseBalance <= w.base /\ w.quoteBalance <= w.quote
      BY ONLY <3>5, b \in Nat, a \in Nat
    <3>7. vaults'[q] = w
      BY <3>2, <3>3, <3>4
    <3> QED
      BY <3>6, <3>7 DEF Withdrawable
  <2> QED
    BY <2>1, <2>2
<1>4. ASSUME NEW b \in AcceptableBoards, UpdateLeaders(b) PROVE Withdrawable(q)'
  <2>1. /\ vaults'[q].base = vaults[q].base /\ vaults'[q].quote = vaults[q].quote
        /\ vaults'[q].baseBalance = vaults[q].baseBalance
        /\ vaults'[q].quoteBalance = vaults[q].quoteBalance
    BY <1>0, <1>4 DEF UpdateLeaders, VaultType
  <2>2. q \notin unrecorded
    BY <1>4 DEF UpdateLeaders, calls
  <2> QED
    BY <1>11, <2>1, <2>2 DEF Withdrawable
<1>5. ASSUME NEW p \in Participants, GiveToVault(p) PROVE Withdrawable(q)'
  <2>1. /\ vaults'[q].baseBalance = vaults[q].baseBalance
        /\ vaults'[q].quoteBalance = vaults[q].quoteBalance
        /\ vaults'[q].base \in {vaults[q].base, vaults[q].base + 1}
        /\ vaults'[q].quote \in {vaults[q].quote, vaults[q].quote + 1}
    BY <1>0, <1>5 DEF GiveToVault, VaultType
  <2>2. q \notin unrecorded
    BY <1>5 DEF GiveToVault, calls
  <2> QED
    BY <1>1, <1>11, <2>1, <2>2 DEF Withdrawable
<1>6. ASSUME NEW p \in Participants, Register(p) PROVE Withdrawable(q)'
  <2>1. vaults[p].base + config.entryAmount \in Nat /\ vaults[p].quote \in Nat
    BY <1>0 DEF VaultType, ConfigType
  <2> QED
    BY <1>3, <1>6, <2>1 DEF Register, calls
<1>7. ASSUME NEW p \in Participants, Trade(p) PROVE Withdrawable(q)'
  <2>1. vaults[p].base \in Nat /\ vaults[p].quote \in Nat
    BY <1>0 DEF VaultType
  <2>2. ASSUME NEW spent \in 1..vaults[p].base, NEW got \in Nat, SwapBaseForQuote(p, spent, got)
        PROVE  Withdrawable(q)'
    <3>1. vaults[p].base - spent \in Nat /\ vaults[p].quote + got \in Nat
      BY <2>1
    <3> QED
      BY <1>3, <2>2, <3>1 DEF SwapBaseForQuote
  <2>3. ASSUME NEW spent \in 1..vaults[p].quote, NEW got \in Nat, SwapQuoteForBase(p, spent, got)
        PROVE  Withdrawable(q)'
    <3>1. vaults[p].base + got \in Nat /\ vaults[p].quote - spent \in Nat
      BY <2>1
    <3> QED
      BY <1>3, <2>3, <3>1 DEF SwapQuoteForBase
  <2> QED
    BY <1>7, <2>2, <2>3 DEF Trade
<1>8. ASSUME NEW p \in Participants, Settle(p) PROVE Withdrawable(q)'
  <2>1. CASE p # q
    BY <1>0, <1>8, <1>11, <2>1 DEF Settle, Withdrawable
  <2>2. CASE p = q
    <3>1. /\ vaults'[q].base = vaults[q].base /\ vaults'[q].quote = vaults[q].quote
          /\ vaults'[q].baseBalance = vaults[q].base
          /\ vaults'[q].quoteBalance = vaults[q].quote
      BY <1>0, <1>8, <2>2 DEF Settle, Scored, Holding, VaultType
    <3> QED
      BY <1>1, <3>1 DEF Withdrawable
  <2> QED
    BY <2>1, <2>2
<1>9. ASSUME NEW p \in Participants, Exit(p) PROVE Withdrawable(q)'
  <2>1. CASE p # q
    BY <1>0, <1>9, <1>11, <2>1 DEF Exit, Withdrawable
  <2>2. CASE p = q
    <3>1. /\ vaults'[q].base = vaults[q].base - vaults[q].baseBalance
          /\ vaults'[q].quote = vaults[q].quote - vaults[q].quoteBalance
          /\ vaults'[q].baseBalance = vaults[q].base - vaults[q].baseBalance
          /\ vaults'[q].quoteBalance = vaults[q].quote - vaults[q].quoteBalance
      BY <1>0, <1>9, <2>2 DEF Exit, Holding, VaultType
    <3> QED
      BY <1>1, <3>1 DEF Withdrawable
  <2> QED
    BY <2>1, <2>2
<1>10. CASE Tick \/ GiveToContest \/ SyncState \/ Freeze \/ Seal \/ UNCHANGED vars
            \/ (\E c \in Configs : Initialize(c)) \/ (\E p \in Participants : Claim(p))
    BY <1>2, <1>10 DEF Tick, GiveToContest, SyncState, Freeze, Seal, vars, Initialize,
                       Claim, tokens, calls
<1>12. ASSUME NEW p \in Participants, SwapCallback(p) PROVE Withdrawable(q)'
  <2>1. p # q /\ q \notin unrecorded
    BY <1>12 DEF SwapCallback
  <2>2. vaults'[q] = vaults[q]
    BY <1>12, <2>1, CallbackKeeps DEF ClaimInv, Inv
  <2> QED
    BY <1>11, <2>1, <2>2 DEF Withdrawable
<1> QED
    BY <1>4, <1>5, <1>6, <1>7, <1>8, <1>9, <1>10, <1>12 DEF Next

\* The configuration stands from initialize on.
LEMMA ConfigStands ==
    ASSUME [Next]_vars, ~\E c \in Configs : Initialize(c)
    PROVE  config' = config
BY DEF Next, Tick, GiveToContest, SyncState, Freeze, Seal, vars, UpdateLeaders, GiveToVault, SwapCallback,
       Register, Trade, SwapBaseForQuote, SwapQuoteForBase, Settle, Claim, Exit

\* Without a new board a rank is kept or reset.
LEMMA RankUnlessBoard ==
    ASSUME Inv, [Next]_vars, ~\E b \in AcceptableBoards : UpdateLeaders(b),
           NEW q \in Participants
    PROVE  vaults'[q].rank \in {vaults[q].rank, 0}
<1>0. vaults \in [Participants -> VaultType]
    BY DEF Inv, TypeOK
<1>1. ASSUME NEW p \in Participants, GiveToVault(p) PROVE vaults'[q].rank = vaults[q].rank
    BY <1>0, <1>1 DEF GiveToVault, VaultType
<1>2. ASSUME NEW p \in Participants, Register(p) PROVE vaults'[q].rank = vaults[q].rank
    BY <1>0, <1>2 DEF Register, Holding, VaultType
<1>3. ASSUME NEW p \in Participants, Trade(p) PROVE vaults'[q].rank = vaults[q].rank
  <2>1. \E b, a : vaults' = [vaults EXCEPT ![p] = Holding(@, b, a)]
    BY <1>3 DEF Trade, SwapBaseForQuote, SwapQuoteForBase
  <2> QED
    BY <1>0, <2>1 DEF Holding, VaultType
<1>4. ASSUME NEW p \in Participants, Settle(p) PROVE vaults'[q].rank \in {vaults[q].rank, 0}
    BY <1>0, <1>4 DEF Settle, Scored, Holding, VaultType
<1>5. ASSUME NEW p \in Participants, Exit(p) PROVE vaults'[q].rank = vaults[q].rank
    BY <1>0, <1>5 DEF Exit, Holding, VaultType
<1>6. CASE Tick \/ GiveToContest \/ (\E c \in Configs : Initialize(c)) \/ SyncState \/ Freeze
            \/ Seal \/ UNCHANGED vars \/ (\E p \in Participants : Claim(p))
    BY <1>6 DEF Tick, GiveToContest, Initialize, SyncState, Freeze, Seal, Claim, vars, tokens
<1>7. ASSUME NEW p \in Participants, SwapCallback(p) PROVE vaults'[q].rank = vaults[q].rank
    BY <1>7, CallbackKeeps DEF Inv
<1> QED
    BY <1>1, <1>2, <1>3, <1>4, <1>5, <1>6, <1>7 DEF Next

LEMMA ListedStep == ClaimInv /\ [Next]_vars => RanksListed'
<1> SUFFICES ASSUME ClaimInv, [Next]_vars PROVE RanksListed'
    OBVIOUS
<1>0. Inv /\ RanksListed /\ vaults \in [Participants -> VaultType] /\ config \in ConfigType
    BY DEF ClaimInv, Inv, TypeOK
<1>1. ASSUME NEW c \in Configs, Initialize(c) PROVE RanksListed'
  <2>1. registered = {} /\ settled = {} /\ vaults' = vaults /\ claimed' = claimed
    BY <1>0, <1>1 DEF Initialize, Inv, Blank, SealedMeansScored
  <2>2. \A q \in Participants : vaults[q].rank = 0
    BY <1>0, <2>1 DEF Inv, SealedMeansScored
  <2>3. claimed = {}
    BY <1>0, <2>1 DEF RanksListed
  <2> QED
    BY <2>1, <2>2, <2>3 DEF RanksListed
<1>2. CASE ~\E c \in Configs : Initialize(c)
  <2>1. config' = config
    BY <1>2, ConfigStands
  <2>2. ASSUME NEW q \in Participants, vaults'[q].rank # 0
        PROVE  vaults'[q].rank <= config.topK
    <3>1. CASE vaults'[q].rank = vaults[q].rank
      BY <1>0, <2>2, <3>1 DEF RanksListed
    <3>2. ASSUME NEW b \in AcceptableBoards, UpdateLeaders(b), q \in Range(b)
          PROVE  vaults'[q].rank <= config.topK
      <4>1. PICK n \in 1..(IF config.topK < MaxBoardUpdates THEN config.topK
                           ELSE MaxBoardUpdates) : b \in [1..n -> settled]
        BY DEF AcceptableBoards
      <4>2. n \in Nat /\ n <= config.topK /\ b \in [1..n -> Participants]
        BY <1>0, <4>1 DEF Inv, TypeOK, ConfigType, MaxBoardUpdates
      <4>3. RankOnBoard(b, q) \in 1..n
        BY <3>2, <4>2, RankIsPlace
      <4>4. vaults'[q].rank = RankOnBoard(b, q)
        BY <1>0, <3>2 DEF UpdateLeaders, VaultType
      <4>5. config.topK \in Nat
        BY <1>0 DEF ConfigType
      <4> QED
        BY <4>2, <4>3, <4>4, <4>5
    <3>3. ASSUME NEW b \in AcceptableBoards, UpdateLeaders(b), q \notin Range(b)
          PROVE  vaults'[q].rank = vaults[q].rank
      BY <3>3 DEF UpdateLeaders
    <3>4. CASE ~\E b \in AcceptableBoards : UpdateLeaders(b)
      BY <1>0, <2>2, <3>1, <3>4, RankUnlessBoard
    <3> QED
      BY <3>1, <3>2, <3>3, <3>4
  <2>3. ASSUME NEW q \in claimed' PROVE q \in registered' /\ vaults'[q].rank # 0
    <3>1. state = "Sealed" /\ q \in registered /\ vaults[q].rank # 0 /\ q \in Participants
      <4>1. CASE q \in claimed
        BY <1>0, <4>1 DEF RanksListed, Inv, PaidWhenSealed, TypeOK
      <4>2. CASE q \notin claimed
        <5>1. Claim(q)
          BY <2>3, <4>2 DEF Next, Tick, GiveToContest, SyncState, Freeze, Seal, vars,
                 UpdateLeaders, GiveToVault, SwapCallback, Register, Trade, SwapBaseForQuote,
                 SwapQuoteForBase, Settle, Claim, Exit, Initialize
        <5> QED
          BY <1>0, <5>1 DEF Claim, ClaimEligible, IsWinner, Inv, TypeOK
      <4> QED
        BY <4>1, <4>2
    <3> QED
      BY <1>0, <3>1, AfterSeal
  <2> QED
    BY <2>1, <2>2, <2>3 DEF RanksListed
<1> QED
    BY <1>1, <1>2

\* What a vault that claimed is worth is an amount of tokens.
LEMMA ClaimedShares ==
    ASSUME ClaimInv, state = "Sealed", NEW p \in Participants, vaults[p].rank # 0
    PROVE  /\ vaults[p].rank \in Slots /\ config.payout[vaults[p].rank] \in Nat
           /\ Shares[p] = (totalPrizePool * config.payout[vaults[p].rank]) \div 10000
           /\ Shares[p] = PrizeShare(p) /\ Shares[p] \in Nat
           /\ IsWinner(p)
<1>0. Inv /\ config \in ConfigType /\ vaults[p].rank \in Nat
    BY DEF ClaimInv, Inv, TypeOK, VaultType
<1>1. config.topK \in 1..32
    BY <1>0 DEF Inv, Configured, ValidConfig
<1>2. vaults[p].rank <= config.topK
    BY DEF ClaimInv, RanksListed
<1>3. vaults[p].rank \in Slots /\ IsWinner(p)
    BY <1>0, <1>1, <1>2 DEF Slots, IsWinner
<1>4. config.payout[vaults[p].rank] \in Nat
    BY <1>0, <1>3 DEF ConfigType
<1>5. PrizeShare(p) \in Nat
    BY <1>0, <1>3, ShareType DEF Inv
<1> QED
    BY <1>3, <1>4, <1>5 DEF Shares, PrizeShare, BasisPoints

LEMMA LedgerStep == ClaimInv /\ [Next]_vars => PoolLedger'
<1> SUFFICES ASSUME ClaimInv, [Next]_vars PROVE PoolLedger'
    OBVIOUS
<1>0. /\ Inv /\ prizePool \in Nat /\ totalPrizePool \in Nat /\ claimed \subseteq Participants
      /\ prizePool + SumFunctionOnSet(Shares, claimed) = totalPrizePool
      /\ IsFiniteSet(claimed)
    BY ParticipantsAssumption, FS_Subset DEF ClaimInv, PoolLedger, Inv, TypeOK
<1>1. ASSUME NEW p \in Participants, Claim(p) PROVE PoolLedger'
  <2>1. /\ state = "Sealed" /\ p \notin claimed /\ vaults[p].rank # 0
        /\ claimed' = claimed \cup {p} /\ prizePool' = prizePool - PrizeShare(p)
        /\ totalPrizePool' = totalPrizePool
    BY <1>1 DEF Claim, ClaimEligible, IsWinner, PoolAfter
  <2>2. Shares' = Shares
    BY <1>0, <2>1, ShareStands DEF Shares
  <2>3. \A q \in claimed : Shares[q] \in Nat
    BY <1>0, <2>1, ClaimedShares DEF ClaimInv, RanksListed
  <2>4. Shares[p] \in Nat /\ Shares[p] = PrizeShare(p)
    BY <2>1, ClaimedShares
  <2>5. PICK C : C = claimed \cup {p}
    OBVIOUS
  <2>6. IsFiniteSet(C) /\ p \in C /\ \A q \in C : Shares[q] \in Nat
    BY <1>0, <2>3, <2>4, <2>5, FS_AddElement
  <2>7. SumFunctionOnSet(Shares, C) = Shares[p] + SumFunctionOnSet(Shares, C \ {p})
    BY <2>6, SumWithout
  <2>8. \A x : x \in C \ {p} <=> x \in claimed
    BY <2>1, <2>5
  <2>9. SumFunctionOnSet(Shares, C \ {p}) = SumFunctionOnSet(Shares, claimed)
    BY <2>8, SumSame
  <2>10. SumFunctionOnSet(Shares, claimed) \in Nat
    BY <1>0, <2>3, SumNat
  <2>11. SumFunctionOnSet(Shares, claimed)' = SumFunctionOnSet(Shares, C)
    <3>1. claimed' = C
      BY <2>1, <2>5
    <3> QED
      BY <2>2, <3>1
  <2> QED
    BY <1>0, <2>1, <2>4, <2>7, <2>9, <2>10, <2>11 DEF PoolLedger
<1>2. CASE ~\E p \in Participants : Claim(p)
  <2>1. claimed' = claimed
    BY <1>2 DEF Next, Tick, GiveToContest, SyncState, Freeze, Seal, vars, Initialize,
           UpdateLeaders, GiveToVault, SwapCallback, Register, Trade, SwapBaseForQuote, SwapQuoteForBase,
           Settle, Exit
  <2>2. CASE state = "Sealed"
    <3>1. Shares' = Shares /\ totalPrizePool' = totalPrizePool
      BY <1>0, <2>2, ShareStands, AfterSeal DEF Shares
    <3>2. prizePool' = prizePool
      BY <1>2, <2>2 DEF Next, Tick, GiveToContest, SyncState, Freeze, Seal, vars, Initialize,
             UpdateLeaders, GiveToVault, SwapCallback, Register, Synced, Trade, SwapBaseForQuote,
             SwapQuoteForBase, Settle, Exit, bookkeeping
    <3> QED
      BY <1>0, <2>1, <3>1, <3>2 DEF PoolLedger
  <2>3. CASE state # "Sealed"
    <3>1. claimed = {}
      BY <1>0, <2>3 DEF Inv, PaidWhenSealed
    <3>2. \A x : x \notin claimed /\ x \notin claimed'
      BY <2>1, <3>1
    <3>3. SumFunctionOnSet(Shares, claimed) = 0
      BY <3>2, SumOfNone
    <3>4. SumFunctionOnSet(Shares, claimed)' = 0
      <4>1. PICK f : f = Shares'
        OBVIOUS
      <4>2. PICK C : C = claimed'
        OBVIOUS
      <4>3. SumFunctionOnSet(f, C) = 0
        BY <3>2, <4>2, SumOfNone
      <4> QED
        BY <4>1, <4>2, <4>3
    <3>5. prizePool = totalPrizePool
      BY <1>0, <3>3
    <3>6. prizePool' = totalPrizePool' /\ prizePool' \in Nat
      <4>1. prizePool' = totalPrizePool'
        BY <1>2, <3>5 DEF Next, Tick, GiveToContest, SyncState, Freeze, Seal, vars,
               Initialize, UpdateLeaders, GiveToVault, SwapCallback, Register, Trade, SwapBaseForQuote,
               SwapQuoteForBase, Settle, Exit, bookkeeping
      <4> QED
        BY <1>0, <4>1, TypeStep DEF TypeOK
    <3>7. PICK x \in Nat : x = prizePool' /\ x = totalPrizePool'
      BY <3>6
    <3>8. PICK sum : sum = SumFunctionOnSet(Shares, claimed)'
      OBVIOUS
    <3>9. sum = 0
      BY <3>4, <3>8
    <3>10. x + sum = x
      BY <3>9
    <3> QED
      BY <3>7, <3>8, <3>10 DEF PoolLedger
  <2> QED
    BY <2>2, <2>3
<1> QED
    BY <1>1, <1>2

LEMMA ClaimInvHolds == Spec => []ClaimInv
<1>1. Init => ClaimInv
  <2> SUFFICES ASSUME Init PROVE ClaimInv
    OBVIOUS
  <2>1. RanksListed /\ RecordedHeld
    BY DEF Init, RanksListed, RecordedHeld, Withdrawable, EmptyVault
  <2>2. \A x : x \notin claimed
    BY DEF Init
  <2>3. SumFunctionOnSet(Shares, claimed) = 0
    BY <2>2, SumOfNone
  <2>4. PoolLedger
    BY <2>3 DEF PoolLedger, Init
  <2> QED
    BY <2>1, <2>4, InitInv DEF ClaimInv
<1>2. ClaimInv /\ [Next]_vars => ClaimInv'
    BY InvStep, RecordedStep, ListedStep, LedgerStep DEF ClaimInv
<1> QED
    BY <1>1, <1>2, PTL DEF Spec

\* In a sealed contest with a fair board, the pool covers the prize of every
\* winner who has not claimed yet.
LEMMA PoolCovers ==
    ASSUME ClaimInv, FairBoard, state = "Sealed",
           NEW p \in registered, p \notin claimed, vaults[p].rank # 0
    PROVE  Covered(p)
<1>0. /\ Inv /\ prizePool \in Nat /\ totalPrizePool \in Nat /\ config \in ConfigType
      /\ claimed \subseteq Participants /\ registered \subseteq Participants
      /\ prizePool + SumFunctionOnSet(Shares, claimed) = totalPrizePool
      /\ IsFiniteSet(claimed)
    BY ParticipantsAssumption, FS_Subset DEF ClaimInv, PoolLedger, Inv, TypeOK
<1>1. PICK C : C = claimed \cup {p}
    OBVIOUS
<1>2. IsFiniteSet(C) /\ p \in C /\ C \subseteq registered /\ C \subseteq Participants
    BY <1>0, <1>1, FS_AddElement DEF ClaimInv, RanksListed
<1>3. PICK rank : rank = [q \in Participants |-> vaults[q].rank]
    OBVIOUS
<1>4. PICK share : share = Shares
    OBVIOUS
<1>5. PICK part : part = config.payout
    OBVIOUS
<1>6. ASSUME NEW q \in C
      PROVE  /\ rank[q] \in Slots /\ share[q] \in Nat
             /\ share[q] = (totalPrizePool * part[rank[q]]) \div 10000
  <2>1. vaults[q].rank # 0 /\ q \in Participants
    BY <1>1, <1>2 DEF ClaimInv, RanksListed
  <2> QED
    BY <1>3, <1>4, <1>5, <2>1, ClaimedShares
<1>7. \A q, r \in C : rank[q] = rank[r] => q = r
  <2> SUFFICES ASSUME NEW q \in C, NEW r \in C, rank[q] = rank[r] PROVE q = r
    OBVIOUS
  <2>1. vaults[q].rank # 0 /\ q \in registered /\ r \in registered
    BY <1>1, <1>2 DEF ClaimInv, RanksListed
  <2>2. vaults[q].rank = vaults[r].rank
    BY <1>2, <1>3
  <2> QED
    BY <2>1, <2>2 DEF FairBoard
<1>8. IsFiniteSet(Slots) /\ \A k \in Slots : part[k] \in Nat
  <2>1. IsFiniteSet(1..32)
    <3>1. PICK a \in Int : a = 1
      OBVIOUS
    <3>2. PICK b \in Int : b = 32
      OBVIOUS
    <3>3. IsFiniteSet(a..b)
      BY FS_Interval
    <3> QED
      BY <3>1, <3>2, <3>3
  <2> QED
    BY <1>0, <1>5, <2>1 DEF Slots, ConfigType
<1>9. SumFunctionOnSet(part, Slots) = 10000
  <2>1. PayoutTotal(part) = 10000
    BY <1>0, <1>5 DEF Inv, Configured, ValidConfig, BasisPoints
  <2>2. DOMAIN part = Slots
    BY <1>0, <1>5 DEF ConfigType
  <2> QED
    BY <2>1, <2>2 DEF PayoutTotal, SumFunction
<1>10. 10000 * SumFunctionOnSet(share, C) <= totalPrizePool * SumFunctionOnSet(part, Slots)
    BY <1>0, <1>2, <1>6, <1>7, <1>8, RoundedShares
<1>11. SumFunctionOnSet(share, C) = share[p] + SumFunctionOnSet(share, C \ {p})
    BY <1>2, <1>6, SumWithout
<1>12. \A x : x \in C \ {p} <=> x \in claimed
    BY <1>1
<1>13. SumFunctionOnSet(share, C \ {p}) = SumFunctionOnSet(share, claimed)
    BY <1>12, SumSame
<1>14. SumFunctionOnSet(share, claimed) \in Nat
    BY <1>0, <1>1, <1>6, SumNat
<1>15. share[p] = PrizeShare(p) /\ share[p] \in Nat
    BY <1>2, <1>4, ClaimedShares
<1>16. PICK s \in Nat : s = SumFunctionOnSet(share, claimed)
    BY <1>14
<1>17. prizePool + s = totalPrizePool
    BY <1>0, <1>4, <1>16
<1>18. 10000 * (share[p] + s) <= totalPrizePool * 10000
    BY <1>9, <1>10, <1>11, <1>13, <1>16
<1> QED
    BY <1>0, <1>15, <1>17, <1>18 DEF Covered

\* In a sealed contest with a fair board nobody is stuck: every participant has
\* withdrawn, or has a claim the pool covers, or an exit the vault covers, unless
\* a direct call of the vault's callback took what the vault had recorded.
THEOREM EveryoneHasAWayOut == Spec => []WayOut
<1>1. ASSUME ClaimInv PROVE WayOut
  <2> SUFFICES ASSUME state = "Sealed", FairBoard, NEW p \in registered,
                      ~vaults[p].withdrawn
               PROVE  \/ ClaimEligible(p) /\ Covered(p)
                      \/ ExitAllowed(p) /\ (Withdrawable(p) \/ p \in unrecorded)
    BY DEF WayOut
  <2>1. p \in Participants /\ p \in settled /\ (Withdrawable(p) \/ p \in unrecorded)
    BY <1>1 DEF ClaimInv, Inv, TypeOK, SealedMeansScored, RecordedHeld
  <2>2. CASE vaults[p].rank = 0
    BY <2>1, <2>2 DEF ExitAllowed, IsWinner
  <2>3. CASE vaults[p].rank # 0
    <3>1. IsWinner(p)
      BY <1>1, <2>1, <2>3, ClaimedShares
    <3>2. config.payout[vaults[p].rank] # 0
      BY <2>3 DEF FairBoard
    <3>3. CASE p \in claimed
      BY <2>1, <3>1, <3>3 DEF ExitAllowed
    <3>4. CASE p \notin claimed
      BY <1>1, <2>1, <2>3, <3>1, <3>2, <3>4, PoolCovers DEF ClaimEligible
    <3> QED
      BY <3>3, <3>4
  <2> QED
    BY <2>2, <2>3
<1>2. ClaimInv => WayOut
    BY <1>1
<1> QED
    BY <1>2, ClaimInvHolds, PTL
----------------------------------------------------------------------------
(* The lifecycle orchestrator on top of the contest (module Lifecycle).     *)

\* Whatever the orchestrator does to the contest is a step of the contest.
LEMMA ServiceActs == [LifecycleNext]_lvars => [Next]_vars
<1> SUFFICES ASSUME [LifecycleNext]_lvars PROVE [Next]_vars
    OBVIOUS
<1>1. CASE Outside
    BY <1>1 DEF Outside
<1>2. ASSUME NEW p \in Participants, SettleNext(p) PROVE [Next]_vars
    BY <1>2 DEF SettleNext, Next
<1>3. CASE StartTick \/ ReadState \/ Scan \/ Fail \/ UNCHANGED lvars
           \/ \E p \in Participants : Track(p)
    BY <1>3 DEF StartTick, ReadState, Scan, Fail, lvars, Track
<1> QED
    BY <1>1, <1>2, <1>3 DEF LifecycleNext, Service

\* Nobody leaves the contest.
LEMMA OnlyMore == Inv /\ [Next]_vars => registered \subseteq registered'
BY DEF Next, Tick, GiveToContest, SyncState, Freeze, Seal, vars, Initialize, UpdateLeaders,
       GiveToVault, SwapCallback, Register, Trade, SwapBaseForQuote, SwapQuoteForBase,
       Settle, Claim, Exit, bookkeeping

\* No phase ends for the service: the times it compares with are not numbers.
LEMMA NoPhaseEnds == Branch \in {"scan", "idle"}
BY DEF Branch, Reached, readContestTimeline

\* The ids the service asks about are none of the contract's.
LEMMA NobodyReadsSettled == ASSUME NEW p PROVE ~ReadsSettled(p)
<1>1. ASSUME NEW q PROVE ContractVaultId(q) # IndexedVaultId(p)
  <2>1. ContractVaultId(q)[1] = "padded" /\ IndexedVaultId(p)[1] = "packed"
    BY DEF ContractVaultId, IndexedVaultId
  <2> QED
    BY <2>1
<1> QED
    BY <1>1 DEF ReadsSettled

LifecycleInv == Inv /\ ServiceTypeOK

LEMMA ServiceStep == LifecycleInv /\ [LifecycleNext]_lvars => ServiceTypeOK'
<1> SUFFICES ASSUME LifecycleInv, [LifecycleNext]_lvars PROVE ServiceTypeOK'
    OBVIOUS
<1>0. Inv /\ TypeOK /\ ServiceTypeOK
    BY DEF LifecycleInv, Inv
<1>1. registered \subseteq registered'
    BY <1>0, ServiceActs, OnlyMore
<1>2. seen' \in [state : Phases, unranked : BOOLEAN, allSettled : BOOLEAN]
  <2>1. Snapshot \in [state : Phases, unranked : BOOLEAN, allSettled : BOOLEAN]
    BY <1>0 DEF TypeOK, Snapshot
  <2>2. seen' = seen \/ seen' = Snapshot
    BY DEF LifecycleNext, Outside, Track, Service, StartTick, ReadState, Scan, SettleNext,
           Fail, lvars, service, Leave
  <2> QED
    BY <1>0, <2>1, <2>2 DEF ServiceTypeOK
<1>3. CASE UNCHANGED <<step, entries, unsettled, failures>> /\ listed' \subseteq registered'
    BY <1>0, <1>1, <1>2, <1>3 DEF ServiceTypeOK
<1>4. CASE Outside \/ UNCHANGED lvars
    BY <1>0, <1>1, <1>3, <1>4 DEF Outside, lvars, service, ServiceTypeOK
<1>5. ASSUME NEW p \in Participants, Track(p) PROVE ServiceTypeOK'
  <2>1. listed' \subseteq registered'
    BY <1>0, <1>1, <1>5 DEF Track, ServiceTypeOK
  <2> QED
    BY <1>3, <1>5, <2>1 DEF Track
<1>6. CASE Forget /\ listed' = listed /\ failures' \in 0..MaxFailures
    BY <1>0, <1>1, <1>2, <1>6 DEF Forget, ServiceTypeOK
<1>7. CASE StartTick
    BY <1>0, <1>1, <1>2, <1>7 DEF StartTick, Keep, ServiceTypeOK
<1>8. CASE ReadState
  <2>1. /\ step' = Branch /\ step = "read"
        /\ entries' = IF Branch = "idle" THEN {} ELSE entries
        /\ UNCHANGED <<unsettled, listed, failures>>
    BY <1>8 DEF ReadState, Keep
  <2>2. Branch = "scan" => entries # {}
    BY DEF Branch, Reached, readContestTimeline
  <2>3. unsettled' = {}
    BY <1>0, <2>1 DEF ServiceTypeOK
  <2> QED
    BY <1>0, <1>1, <1>2, <2>1, <2>2, <2>3, NoPhaseEnds DEF ServiceTypeOK
<1>9. CASE Scan
  <2>1. /\ step = "scan" /\ unsettled' = entries /\ step' = AfterScan(unsettled')
        /\ UNCHANGED <<entries, listed, failures>>
    BY <1>9, NobodyReadsSettled DEF Scan, Keep
  <2>2. entries # {}
    BY <1>0, <2>1 DEF ServiceTypeOK
  <2>3. step' = "settle"
    BY <2>1, <2>2 DEF AfterScan
  <2> QED
    BY <1>0, <1>1, <1>2, <2>1, <2>2, <2>3 DEF ServiceTypeOK
<1>10. ASSUME NEW p \in Participants, SettleNext(p) PROVE ServiceTypeOK'
  <2>1. CASE Leave
    BY <1>0, <1>6, <2>1 DEF Leave, Keep, ServiceTypeOK
  <2>2. CASE /\ unsettled' = StillUnsettled(p)
             /\ UNCHANGED <<step, entries, seen>> /\ Keep
    BY <1>0, <1>1, <1>2, <2>2 DEF Keep, StillUnsettled, ServiceTypeOK
  <2> QED
    BY <1>10, <2>1, <2>2 DEF SettleNext
<1>11. CASE Fail
  <2>1. failures' \in 0..MaxFailures
    BY <1>0, <1>11, LifecycleAssumption DEF Fail, ServiceTypeOK
  <2> QED
    BY <1>6, <1>11, <2>1 DEF Fail
<1> QED
    BY <1>4, <1>5, <1>7, <1>8, <1>9, <1>10, <1>11 DEF LifecycleNext, Service

\* The orchestrator's variables keep their types, a tick starts from nothing, and
\* none gets to one of the calls that would start, freeze, rank or seal a contest.
THEOREM ListsAreFresh == LifecycleSpec => []ServiceTypeOK
<1>1. LifecycleInit => LifecycleInv
  <2> SUFFICES ASSUME LifecycleInit PROVE LifecycleInv
    OBVIOUS
  <2>1. Inv
    BY InitInv DEF LifecycleInit
  <2>2. Snapshot \in [state : Phases, unranked : BOOLEAN, allSettled : BOOLEAN]
    BY <2>1 DEF Snapshot, Inv, TypeOK
  <2>3. failures \in 0..MaxFailures
    BY LifecycleAssumption DEF LifecycleInit
  <2> QED
    BY <2>1, <2>2, <2>3 DEF LifecycleInit, ServiceTypeOK, LifecycleInv
<1>2. LifecycleInv /\ [LifecycleNext]_lvars => LifecycleInv'
    BY ServiceActs, InvStep, ServiceStep DEF LifecycleInv
<1>3. LifecycleInv => ServiceTypeOK
    BY DEF LifecycleInv
<1> QED
    BY <1>1, <1>2, <1>3, PTL DEF LifecycleSpec

\* Everything proved of a contest whoever calls it holds with the orchestrator.
THEOREM OrchestratedIsContest == LifecycleSpec => Spec
<1>1. LifecycleInit => Init
    BY DEF LifecycleInit
<1> QED
    BY <1>1, ServiceActs, PTL DEF LifecycleSpec, Spec
============================================================================
