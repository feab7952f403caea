------------------------------ MODULE Contest ------------------------------
(***************************************************************************)
(* One on-chain trading contest: contracts/src/Contest.sol together with   *)
(* the participants' vaults of contracts/src/Vault.sol that it drives, and *)
(* the part of the two ERC-20 ledgers (entry asset = base, quote asset)    *)
(* they move.  A transaction is one atomic step; a transaction that        *)
(* reverts changes nothing and is not a step.  Every external function     *)
(* below is open to any account unless its guard says otherwise.           *)
(*                                                                         *)
(* A participant p and the vault deployed for it are named by p: the       *)
(* vault's address is a deterministic clone of (participant, contest,      *)
(* implementation), so it exists as a token holder before `register`.      *)
(***************************************************************************)
EXTENDS Integers, Sequences, FiniteSets, Functions

CONSTANTS
    Participants,    \* accounts that may register
    Configs,         \* the InitializeParams an organizer may submit
    Prices,          \* TWAP prices update() may return, in quote per base
    Funds,           \* entry-asset balance of each account at the start
    MaxRoiBps,       \* type(int32).max, the bound _computeRoi requires
    \* bounds of the model
    MaxTime,         \* the clock stops here
    MaxHolding,      \* what a trade may bring one side of a vault to
    MaxLeaderboards, \* leaderboard versions explored
    MaxGifts,        \* unsolicited token transfers explored
    MaxCallbacks     \* direct calls of the vaults' swap callback explored

Slots == 1..32                      \* payoutSchedule is uint16[32]
BasisPoints == 10000
MaxBoardUpdates == 16               \* updateLeaders takes at most 16 entries

Phases == {"Uninitialized", "Registering", "Live", "Frozen", "Sealed"}

(***************************************************************************)
(* InitializeParams, reduced to the fields later steps read.  `wellFormed` *)
(* stands for the checks that nothing later depends on: owner, contestId,  *)
(* entry asset, price source, pool, vault implementation and factory are   *)
(* non-zero, and settlementWindow >= 600.                                  *)
(***************************************************************************)
ConfigType ==
    [wellFormed : BOOLEAN, entryAmount : Nat, entryFee : Nat,
     initialPrize : Nat, maxParticipants : Nat, topK : Nat,
     toleranceBps : Nat, registeringEnds : Nat, liveEnds : Nat,
     claimEnds : Nat, payout : [Slots -> Nat]]

ASSUME ConfigsAssumption == Configs \subseteq ConfigType
ASSUME ParticipantsAssumption == IsFiniteSet(Participants)
ASSUME PricesAssumption == Prices \subseteq Nat
ASSUME BoundsAssumption ==
    /\ Funds \in Nat
    /\ MaxRoiBps \in Nat
    /\ MaxTime \in Nat
    /\ MaxHolding \in Nat
    /\ MaxLeaderboards \in Nat
    /\ MaxGifts \in Nat
    /\ MaxCallbacks \in Nat

VARIABLES
    now,                \* block.timestamp of the next transaction
    state,              \* ContestState
    config,             \* config, timeline and payoutSchedule once initialized
    prizePool,
    totalPrizePool,
    registered,         \* participants with participantVaults[p] # 0
    participantCount,
    settled,            \* vaultSettled
    settledCount,
    navs,               \* vaultNavs
    leaders,            \* _leaders, by participant
    leaderboardVersion,
    claimed,            \* rewardClaimed
    vaults,             \* per participant: the vault's tokens and its fields
    wallets,            \* per participant: the account's own tokens
    held,               \* entry-asset tokens the contest contract holds
    gifts,              \* unsolicited transfers made so far
    \* history variables, read by the properties only
    callbacks,          \* direct calls of uniswapV3SwapCallback so far
    unrecorded          \* vaults so called since they reread their balances

bookkeeping == <<prizePool, totalPrizePool, registered, participantCount>>
scoring == <<settled, settledCount, navs>>
board == <<leaders, leaderboardVersion>>
tokens == <<vaults, wallets, held>>
calls == <<callbacks, unrecorded>>

vars == <<now, state, config, bookkeeping, scoring, board, claimed, tokens,
          gifts, calls>>

(***************************************************************************)
(* base and quote are what the ERC-20 contracts say the vault holds;       *)
(* baseBalance and quoteBalance are the vault's own record of it.          *)
(***************************************************************************)
VaultType ==
    [base : Nat, quote : Nat, baseBalance : Nat, quoteBalance : Nat,
     rank : Nat, withdrawn : BOOLEAN]

WalletType == [base : Nat, quote : Nat]

\* A vault that has just reread its two balances, b and q.
Holding(vault, b, q) ==
    [vault EXCEPT !.base = b, !.quote = q,
                  !.baseBalance = b, !.quoteBalance = q]

Credited(wallet, b, q) ==
    [base |-> wallet.base + b, quote |-> wallet.quote + q]

NoConfig ==
    [wellFormed |-> FALSE, entryAmount |-> 0, entryFee |-> 0,
     initialPrize |-> 0, maxParticipants |-> 0, topK |-> 0,
     toleranceBps |-> 0, registeringEnds |-> 0, liveEnds |-> 0,
     claimEnds |-> 0, payout |-> [s \in Slots |-> 0]]

EmptyVault ==
    [base |-> 0, quote |-> 0, baseBalance |-> 0, quoteBalance |-> 0,
     rank |-> 0, withdrawn |-> FALSE]

\* Every variable has its type: no balance, counter or pool is ever negative,
\* so no subtraction of the contracts wraps or reverts where it should not.
TypeOK ==
    /\ now \in Nat
    /\ state \in Phases
    /\ config \in ConfigType
    /\ prizePool \in Nat
    /\ totalPrizePool \in Nat
    /\ registered \subseteq Participants
    /\ participantCount \in Nat
    /\ settled \subseteq Participants
    /\ settledCount \in Nat
    /\ navs \in [Participants -> Nat]
    /\ leaders \in Seq(Participants)
    /\ leaderboardVersion \in Nat
    /\ claimed \subseteq Participants
    /\ vaults \in [Participants -> VaultType]
    /\ wallets \in [Participants -> WalletType]
    /\ held \in Nat
    /\ gifts \in Nat
    /\ callbacks \in Nat
    /\ unrecorded \subseteq Participants

Init ==
    /\ now = 0
    /\ state = "Uninitialized"
    /\ config = NoConfig
    /\ prizePool = 0
    /\ totalPrizePool = 0
    /\ registered = {}
    /\ participantCount = 0
    /\ settled = {}
    /\ settledCount = 0
    /\ navs = [p \in Participants |-> 0]
    /\ leaders = <<>>
    /\ leaderboardVersion = 0
    /\ claimed = {}
    /\ vaults = [p \in Participants |-> EmptyVault]
    /\ wallets = [p \in Participants |-> [base |-> Funds, quote |-> 0]]
    /\ held = 0
    /\ gifts = 0
    /\ callbacks = 0
    /\ unrecorded = {}
----------------------------------------------------------------------------
(* Time and the parts of the environment that are not the contracts.       *)

Tick ==
    /\ now < MaxTime
    /\ now' = now + 1
    /\ UNCHANGED <<state, config, bookkeeping, scoring, board, claimed,
                   tokens, gifts, calls>>

\* ERC-20 tokens sent straight to a vault's address, deployed or not.
GiveToVault(p) ==
    /\ gifts < MaxGifts
    /\ gifts' = gifts + 1
    /\ \/ vaults' = [vaults EXCEPT ![p].base = @ + 1]
       \/ vaults' = [vaults EXCEPT ![p].quote = @ + 1]
    /\ UNCHANGED <<now, state, config, bookkeeping, scoring, board, claimed,
                   wallets, held, calls>>

\* ERC-20 tokens sent straight to the contest's address.
GiveToContest ==
    /\ gifts < MaxGifts
    /\ gifts' = gifts + 1
    /\ held' = held + 1
    /\ UNCHANGED <<now, state, config, bookkeeping, scoring, board, claimed,
                   vaults, wallets, calls>>

\* What is left of a vault that paid, and knows nothing of it.
Drawn(vault, b, q) == [vault EXCEPT !.base = @ - b, !.quote = @ - q]

\* Vault.uniswapV3SwapCallback called on its own, in any phase.  It compares
\* its caller with an address in the call's own data and pays the amounts the
\* call names to the caller: the vault's owner, or an account not followed.
SwapCallback(p) ==
    /\ callbacks < MaxCallbacks
    /\ p \in registered
    /\ \E b \in 0..vaults[p].base, q \in 0..vaults[p].quote :
        /\ b + q > 0
        /\ vaults' = [vaults EXCEPT ![p] = Drawn(@, b, q)]
        /\ wallets' \in {wallets, [wallets EXCEPT ![p] = Credited(@, b, q)]}
    /\ callbacks' = callbacks + 1
    /\ unrecorded' = unrecorded \cup {p}
    /\ UNCHANGED <<now, state, config, bookkeeping, scoring, board, claimed,
                   held, gifts>>
----------------------------------------------------------------------------
(* Setting the contest up.                                                 *)

PayoutTotal(schedule) == SumFunction(schedule)

\* The checks of initialize, in the order of the code.
ValidConfig(c) ==
    /\ c.wellFormed
    /\ c.entryAmount > 0
    /\ c.maxParticipants \in 1..1024
    /\ c.topK \in 1..32
    /\ c.topK <= c.maxParticipants
    /\ c.toleranceBps \in 1..1000
    /\ c.registeringEnds > 0
    /\ c.liveEnds > c.registeringEnds
    /\ c.claimEnds > c.liveEnds
    /\ PayoutTotal(c.payout) = BasisPoints

\* The organizer's allowance and balance cover the initial prize: otherwise
\* the call reverts.  Nothing compares registeringEnds with the clock.
Initialize(c) ==
    /\ state = "Uninitialized"
    /\ ValidConfig(c)
    /\ state' = "Registering"
    /\ config' = c
    /\ held' = held + c.initialPrize
    /\ prizePool' = c.initialPrize
    /\ totalPrizePool' = c.initialPrize
    /\ UNCHANGED <<now, registered, participantCount, scoring, board, claimed,
                   vaults, wallets, gifts, calls>>

\* syncState as its callers see it: the state after the call.
Synced ==
    IF state = "Registering" /\ now > config.registeringEnds
    THEN "Live" ELSE state

SyncState ==
    /\ state # Synced
    /\ state' = Synced
    /\ UNCHANGED <<now, config, bookkeeping, scoring, board, claimed, tokens,
                   gifts, calls>>

\* register: syncState runs first, and its transition to Live is undone
\* when the state check then reverts.  Vault.initialize requires the clone
\* to hold exactly entryAmount after the transfer.
Register(p) ==
    LET required == config.entryAmount + config.entryFee
        received == vaults[p].base + config.entryAmount
    IN
    /\ Synced = "Registering"
    /\ p \notin registered
    /\ participantCount < config.maxParticipants
    /\ wallets[p].base >= required
    /\ received = config.entryAmount
    /\ registered' = registered \cup {p}
    /\ participantCount' = participantCount + 1
    /\ wallets' = [wallets EXCEPT ![p] = Credited(@, -required, 0)]
    /\ vaults' = [vaults EXCEPT ![p] = Holding(@, received, @.quote)]
    /\ held' = held + config.entryFee
    /\ prizePool' = prizePool + config.entryFee
    /\ totalPrizePool' = totalPrizePool + config.entryFee
    /\ UNCHANGED <<now, state, config, scoring, board, claimed, gifts, calls>>
----------------------------------------------------------------------------
(* Trading: Vault.swapExact, called by the vault's owner.                  *)

\* PriceSource.requireWithinTolerance for a trade of `base` against `quote`
\* when the TWAP is `price`.  A zero amount on either side scores 0.
Tolerated(base, quote, price) ==
    \/ base = 0
    \/ quote = 0
    \/ LET fair == price * base
           gap == IF quote > fair THEN quote - fair ELSE fair - quote
       IN  fair > 0 /\ (gap * BasisPoints) \div fair <= config.toleranceBps

\* Mutant: the check of liveEnds is lost.
TradingOpenUntilFreeze == state = "Live"

\* swapExact reads the stored state, without syncState, and the clock.
TradingOpen == state = "Live" /\ now < config.liveEnds

\* The pool takes `spent` of the input and pays `got`; the vault then
\* rereads both balances.  Which TWAP the snapshot holds is left open.
SwapBaseForQuote(p, spent, got) ==
    /\ TradingOpen
    /\ p \in registered
    /\ spent \in 1..vaults[p].base
    /\ \E price \in Prices : Tolerated(spent, got, price)
    /\ LET base == vaults[p].base - spent
           quote == vaults[p].quote + got
       IN  /\ quote <= MaxHolding
           /\ vaults' = [vaults EXCEPT ![p] = Holding(@, base, quote)]
    /\ unrecorded' = unrecorded \ {p}
    /\ UNCHANGED <<now, state, config, bookkeeping, scoring, board, claimed,
                   wallets, held, gifts, callbacks>>

SwapQuoteForBase(p, spent, got) ==
    /\ TradingOpen
    /\ p \in registered
    /\ spent \in 1..vaults[p].quote
    /\ \E price \in Prices : Tolerated(got, spent, price)
    /\ LET base == vaults[p].base + got
           quote == vaults[p].quote - spent
       IN  /\ base <= MaxHolding
           /\ vaults' = [vaults EXCEPT ![p] = Holding(@, base, quote)]
    /\ unrecorded' = unrecorded \ {p}
    /\ UNCHANGED <<now, state, config, bookkeeping, scoring, board, claimed,
                   wallets, held, gifts, callbacks>>
----------------------------------------------------------------------------
(* Freezing and scoring.                                                   *)

Freeze ==
    /\ Synced = "Live"
    /\ now >= config.liveEnds
    /\ state' = "Frozen"
    /\ UNCHANGED <<now, config, bookkeeping, scoring, board, claimed, tokens,
                   gifts, calls>>

\* _computeScore with both assets in the same number of decimals.
Nav(vault, price) ==
    vault.base + (IF price = 0 THEN 0 ELSE vault.quote \div price)

\* _computeRoi: the magnitude that must fit an int32.
RoiMagnitude(nav) ==
    LET gap == IF nav > config.entryAmount THEN nav - config.entryAmount
               ELSE config.entryAmount - nav
    IN  (gap * BasisPoints) \div config.entryAmount

\* Mutant: the early return for a settled vault is lost.
UnscoredOrNot == registered

Unscored == registered \ settled

\* Mutant: the score is written and the balances are not read again.
ScoredUnread(vault) == [vault EXCEPT !.rank = 0]

\* The vault's side of settle: it rereads its balances and has no rank yet.
Scored(vault) == [Holding(vault, vault.base, vault.quote) EXCEPT !.rank = 0]

\* settle for a vault not settled yet; a second call returns the recorded
\* score and changes nothing.  The price is refreshed by this very call.
Settle(p) ==
    /\ state = "Frozen"
    /\ p \in Unscored
    /\ \E price \in Prices :
        LET nav == Nav(vaults[p], price) IN
        /\ RoiMagnitude(nav) <= MaxRoiBps
        /\ navs' = [navs EXCEPT ![p] = nav]
    /\ settled' = settled \cup {p}
    /\ settledCount' = settledCount + 1
    /\ vaults' = [vaults EXCEPT ![p] = Scored(@)]
    /\ unrecorded' = unrecorded \ {p}
    /\ UNCHANGED <<now, state, config, bookkeeping, board, claimed, wallets,
                   held, gifts, callbacks>>

\* The boards updateLeaders accepts: 1 to min(16, topK) settled vaults in
\* non-increasing NAV.  Each entry repeats the recorded NAV and ROI, so the
\* vault alone identifies it.  Repeats and omissions are accepted.
AcceptableBoards ==
    UNION {{b \in [1..n -> settled] :
                \A i \in 1..(n - 1) : navs[b[i]] >= navs[b[i + 1]]} :
           n \in 1..(IF config.topK < MaxBoardUpdates THEN config.topK
                     ELSE MaxBoardUpdates)}

\* updateRank is called once per entry, so the last entry of a vault wins;
\* the rank of a vault that is not on the new board is left as it was.
RankOnBoard(b, p) == CHOOSE i \in DOMAIN b :
    b[i] = p /\ \A j \in DOMAIN b : b[j] = p => j <= i

UpdateLeaders(b) ==
    /\ state = "Frozen"
    /\ b \in AcceptableBoards
    /\ leaderboardVersion < MaxLeaderboards
    /\ leaders' = b
    /\ leaderboardVersion' = leaderboardVersion + 1
    /\ vaults' = [p \in Participants |->
            IF p \in Range(b)
            THEN [vaults[p] EXCEPT !.rank = RankOnBoard(b, p)]
            ELSE vaults[p]]
    /\ UNCHANGED <<now, state, config, bookkeeping, scoring, claimed, wallets,
                   held, gifts, calls>>

Seal ==
    /\ state = "Frozen"
    /\ settledCount = participantCount
    /\ state' = "Sealed"
    /\ UNCHANGED <<now, config, bookkeeping, scoring, board, claimed, tokens,
                   gifts, calls>>
----------------------------------------------------------------------------
(* Paying out.                                                             *)

IsWinner(p) == vaults[p].rank # 0 /\ vaults[p].rank <= config.topK

PrizeShare(p) ==
    (totalPrizePool * config.payout[vaults[p].rank]) \div BasisPoints

\* Mutant: a second claim is not refused.
ClaimEligibleAgain(p) ==
    /\ state = "Sealed"
    /\ p \in settled
    /\ ~vaults[p].withdrawn
    /\ IsWinner(p)
    /\ config.payout[vaults[p].rank] # 0

\* What _claim checks before it looks at the pool.
ClaimEligible(p) ==
    /\ state = "Sealed"
    /\ p \in registered
    /\ p \in settled
    /\ p \notin claimed
    /\ ~vaults[p].withdrawn
    /\ IsWinner(p)
    /\ config.payout[vaults[p].rank] # 0

Covered(p) == PrizeShare(p) <= prizePool

\* Mutant: the pool is not charged.
PoolUncharged(p) == prizePool

PoolAfter(p) == prizePool - PrizeShare(p)

\* claim by the participant, claimFor by anyone: both pay the participant.
Claim(p) ==
    /\ ClaimEligible(p)
    /\ Covered(p)
    /\ claimed' = claimed \cup {p}
    /\ prizePool' = PoolAfter(p)
    /\ held' = held - PrizeShare(p)
    /\ wallets' = [wallets EXCEPT ![p] = Credited(@, PrizeShare(p), 0)]
    /\ UNCHANGED <<now, state, config, totalPrizePool, registered,
                   participantCount, scoring, board, vaults, gifts, calls>>

\* Mutant: a winner need not have claimed.
ExitForAnyWinner(p) ==
    /\ state = "Sealed"
    /\ p \in settled
    /\ ~vaults[p].withdrawn

ExitAllowed(p) ==
    /\ state = "Sealed"
    /\ p \in registered
    /\ p \in settled
    /\ ~vaults[p].withdrawn
    /\ IsWinner(p) => p \in claimed
    /\ ~IsWinner(p) => vaults[p].rank = 0

\* exit withdraws the recorded balances; Vault.withdraw rereads what is left
\* and marks the vault withdrawn only when nothing is.
Exit(p) ==
    LET baseLeft == vaults[p].base - vaults[p].baseBalance
        quoteLeft == vaults[p].quote - vaults[p].quoteBalance
    IN
    /\ ExitAllowed(p)
    /\ baseLeft >= 0
    /\ quoteLeft >= 0
    /\ wallets' = [wallets EXCEPT ![p] =
            Credited(@, vaults[p].baseBalance, vaults[p].quoteBalance)]
    /\ vaults' = [vaults EXCEPT ![p] =
            [Holding(@, baseLeft, quoteLeft) EXCEPT
                !.withdrawn = (baseLeft = 0 /\ quoteLeft = 0)]]
    /\ unrecorded' = unrecorded \ {p}
    /\ UNCHANGED <<now, state, config, bookkeeping, scoring, board, claimed,
                   held, gifts, callbacks>>
----------------------------------------------------------------------------
\* Every amount a pool could pay within the tolerance lies in these ranges.
TopPrice == CHOOSE price \in Prices : \A other \in Prices : other <= price

Trade(p) ==
    \/ \E spent \in 1..vaults[p].base :
            \E got \in 0..(2 * TopPrice * spent) :
                SwapBaseForQuote(p, spent, got)
    \/ \E spent \in 1..vaults[p].quote :
            \E got \in 0..(2 * spent) : SwapQuoteForBase(p, spent, got)

Next ==
    \/ Tick
    \/ GiveToContest
    \/ \E c \in Configs : Initialize(c)
    \/ SyncState
    \/ Freeze
    \/ Seal
    \/ \E b \in AcceptableBoards : UpdateLeaders(b)
    \/ \E p \in Participants :
        \/ GiveToVault(p)
        \/ SwapCallback(p)
        \/ Register(p)
        \/ Trade(p)
        \/ Settle(p)
        \/ Claim(p)
        \/ Exit(p)

Spec == Init /\ [][Next]_vars
----------------------------------------------------------------------------
(* What has to be true.                                                    *)

\* The contest always holds at least the tokens its prize pool accounts for,
\* so the transfer inside _claim never fails.
Solvency == prizePool <= held

\* Nobody is frozen out of the scoring: a sealed contest has scored exactly
\* the participants that registered (seal compares two counters only), and a
\* rank is given to scored vaults only.
SealedMeansScored ==
    /\ settled \subseteq registered
    /\ state = "Sealed" => settled = registered
    /\ \A p \in Participants : vaults[p].rank # 0 => p \in settled

\* The stored leaderboard stays in the order of the recorded scores, and
\* every vault on it carries the rank of its last entry, whatever
\* settlements, gifts, claims and exits follow updateLeaders.
BoardConsistent ==
    /\ \A i \in 1..(Len(leaders) - 1) :
            navs[leaders[i]] >= navs[leaders[i + 1]]
    /\ \A i \in 1..Len(leaders) :
            vaults[leaders[i]].rank = RankOnBoard(leaders, leaders[i])

\* A winner cannot empty the vault before collecting the prize: _claim
\* refuses a withdrawn vault, so that prize would be lost.
NoForfeitedPrize ==
    \A p \in registered :
        state = "Sealed" /\ vaults[p].withdrawn /\ IsWinner(p) => p \in claimed

\* No two vaults hold the same place, and every place held has a prize.
FairBoard ==
    /\ \A p, q \in registered :
            vaults[p].rank = vaults[q].rank => p = q \/ vaults[p].rank = 0
    /\ \A p \in registered :
            vaults[p].rank # 0 => config.payout[vaults[p].rank] # 0

\* exit's call of Vault.withdraw asks for no more than the vault holds.
Withdrawable(p) ==
    /\ vaults[p].baseBalance <= vaults[p].base
    /\ vaults[p].quoteBalance <= vaults[p].quote

\* In a sealed contest with a fair board every participant has a way out
\* that will not revert: to claim a prize the pool still covers, however
\* many others claimed before, or to exit; unless already withdrawn.  An exit
\* falls short only of what a direct call of the callback took from the vault
\* after settle had recorded it.
WayOut ==
    state = "Sealed" /\ FairBoard =>
        \A p \in registered :
            \/ vaults[p].withdrawn
            \/ ClaimEligible(p) /\ Covered(p)
            \/ ExitAllowed(p) /\ (Withdrawable(p) \/ p \in unrecorded)

\* A score is written once, and a sealed contest's ranks and leaderboard
\* never change again.
ResultsFinal ==
    [][/\ settled \subseteq settled'
       /\ \A p \in settled : navs'[p] = navs[p]
       /\ state = "Sealed" =>
            /\ leaders' = leaders
            /\ \A p \in Participants : vaults'[p].rank = vaults[p].rank]_vars

Kept(p) ==
    /\ vaults'[p].base >= vaults[p].base
    /\ vaults'[p].quote >= vaults[p].quote

Returned(p) ==
    /\ state = "Sealed"
    /\ p \in settled
    /\ vaults[p].base - vaults'[p].base = wallets'[p].base - wallets[p].base
    /\ vaults[p].quote - vaults'[p].quote = wallets'[p].quote - wallets[p].quote

\* A direct call of p's callback: no other vault is touched with it.
CalledBack(p) ==
    /\ callbacks' > callbacks
    /\ p \in unrecorded'
    /\ \A q \in Participants \ {p} : vaults'[q] = vaults[q]

OnlyToOwner ==
    state # "Uninitialized" /\ now >= config.liveEnds =>
        \A p \in Participants : Kept(p) \/ Returned(p) \/ CalledBack(p)

\* From liveEnds on, called freeze or not, neither a trade nor a call of the
\* contest takes anything out of a vault except into its owner's wallet, in a
\* sealed contest and in full.  What does is a direct call of that vault's
\* swap callback, the only other way out of it.
AssetsOnlyToOwner == [][OnlyToOwner]_vars

\* The contest is an escrow of its prize money.
Escrow == INSTANCE PrizeEscrow WITH
    funded <- totalPrizePool,
    remaining <- prizePool,
    paid <- [p \in claimed |-> PrizeShare(p)]

\* Every transaction moves prize money the way PrizeEscrow allows: each
\* participant is paid at most once, what was paid stays what the rank is
\* worth, and the pool is what was funded less what was paid.
EscrowSpec == Escrow!Spec
============================================================================
