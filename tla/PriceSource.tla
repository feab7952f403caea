----------------------------- MODULE PriceSource -----------------------------
(***************************************************************************)
(* contracts/src/PriceSource.sol: a cached time-weighted average price of a *)
(* Uniswap V3 pool, and the tolerance check of every trade of a vault.      *)
(*                                                                          *)
(* The pools are outside: a pool is the tick in force in each second, from  *)
(* which `observe` answers the difference of two tick cumulatives.          *)
(***************************************************************************)
EXTENDS Integers, Sequences, FiniteSets

CONSTANTS
    Pools,          \* pools the owner may configure
    Ticks,          \* ticks the market moves through
    PriceOf,        \* TickMath and FullMath: a tick's price, times Scale
    Scale,          \* 1e18
    MinTwap,        \* 600 seconds
    Tolerances,     \* toleranceBps of the contests that share the source
    \* bounds of the model
    Windows,        \* twapSeconds the owner submits
    Amounts,        \* base and quote amounts of trades
    MaxTime         \* the clock stops here

BasisPoints == 10000
NoPool == "none"

ASSUME PriceSourceAssumption ==
    /\ NoPool \notin Pools
    /\ Ticks \subseteq Int
    /\ \A t \in Ticks : PriceOf[t] \in Nat
    /\ Scale \in Nat \ {0}
    /\ MinTwap \in Nat \ {0}
    /\ Tolerances \subseteq Nat
    /\ Windows \subseteq Nat
    /\ Amounts \subseteq Nat
    /\ MaxTime \in Nat \ {0}

VARIABLES
    now,          \* block.timestamp; 1 at deployment, a timestamp is not 0
    history,      \* per pool, the tick of each second from 1 to now - 1
    pool,
    twapSeconds,
    snapshot,     \* meanTick and updatedAt; the prices follow from the tick
    judged        \* the last trade let through, for the properties

vars == <<now, history, pool, twapSeconds, snapshot, judged>>

NoSnapshot == [meanTick |-> 0, updatedAt |-> 0]
NoTrade    == [at |-> 0, from |-> NoPool, window |-> 0, meanTick |-> 0]

-----------------------------------------------------------------------------
(* The pool's oracle                                                         *)

\* tickCumulatives[1] - tickCumulatives[0] for the `window` seconds before t.
TickDelta(p, t, window) ==
    LET sum[i \in 0..window] ==
            IF i = 0 THEN 0 ELSE sum[i - 1] + history[p][t - i]
    IN  sum[window]

\* observe reverts when the window begins before the pool did.
Observable(window) == now > window

-----------------------------------------------------------------------------
(* The contract                                                              *)

\* Division truncates towards zero, as Solidity's does.
Truncated(a, b) == IF a >= 0 THEN a \div b ELSE -((-a) \div b)

MeanTick(delta, window) ==
    LET quotient == Truncated(delta, window)
    IN  IF delta < 0 /\ quotient * window # delta THEN quotient - 1 ELSE quotient

Taken == [meanTick |-> MeanTick(TickDelta(pool, now, twapSeconds), twapSeconds),
          updatedAt |-> now]

\* A mutant: a snapshot as old as the window still counts.
IsStaleLate == snapshot.updatedAt = 0 \/ now - snapshot.updatedAt > twapSeconds

IsStale == snapshot.updatedAt = 0 \/ now - snapshot.updatedAt >= twapSeconds

\* _priceImpact and _abs: a trade's price is no further than toleranceBps from
\* the average.  The clamp to int32 lies beyond every tolerance; a zero average
\* panics unless the prices are equal.
WithinTolerance(base, quote, tick, toleranceBps) ==
    base > 0 /\ quote > 0 =>
        LET twap == PriceOf[tick]
            actual == (quote * Scale) \div base
            gap == IF actual > twap THEN actual - twap ELSE twap - actual
        IN  \/ gap = 0
            \/ twap > 0 /\ (gap * BasisPoints) \div twap <= toleranceBps

-----------------------------------------------------------------------------
Init ==
    /\ now = 1
    /\ history = [p \in Pools |-> <<>>]
    /\ pool = NoPool
    /\ twapSeconds = 0
    /\ snapshot = NoSnapshot
    /\ judged = NoTrade

\* A second passes; each pool was at some tick in it.
Pass ==
    /\ now < MaxTime
    /\ now' = now + 1
    /\ \E ticks \in [Pools -> Ticks] :
        history' = [p \in Pools |-> Append(history[p], ticks[p])]
    /\ UNCHANGED <<pool, twapSeconds, snapshot, judged>>

AfterConfigure == NoSnapshot

LongEnough(window) == window >= MinTwap

Configure(p, window) ==
    /\ LongEnough(window)
    /\ pool' = p
    /\ twapSeconds' = window
    /\ snapshot' = AfterConfigure
    /\ UNCHANGED <<now, history, judged>>

Update ==
    /\ pool # NoPool
    /\ Observable(twapSeconds)
    /\ snapshot' = Taken
    /\ UNCHANGED <<now, history, pool, twapSeconds, judged>>

\* A trade that passes; one that does not reverts, a refresh with it.
RequireWithinTolerance(base, quote, toleranceBps) ==
    /\ pool # NoPool \/ ~IsStale
    /\ IsStale => Observable(twapSeconds)
    /\ snapshot' = IF IsStale THEN Taken ELSE snapshot
    /\ WithinTolerance(base, quote, snapshot'.meanTick, toleranceBps)
    /\ judged' = [at |-> now, from |-> pool, window |-> twapSeconds,
                  meanTick |-> snapshot'.meanTick]
    /\ UNCHANGED <<now, history, pool, twapSeconds>>

Next ==
    \/ Pass
    \/ \E p \in Pools, window \in Windows : Configure(p, window)
    \/ Update
    \/ \E base, quote \in Amounts, tolerance \in Tolerances :
            RequireWithinTolerance(base, quote, tolerance)

Spec == Init /\ [][Next]_vars

-----------------------------------------------------------------------------
(* Properties                                                                *)

\* The variables have their types and no snapshot is from the future.
TypeOK ==
    /\ now \in 1..MaxTime
    /\ history \in [Pools -> Seq(Ticks)]
    /\ \A p \in Pools : Len(history[p]) = now - 1
    /\ pool \in Pools \cup {NoPool}
    /\ twapSeconds \in Nat
    /\ snapshot.meanTick \in Int
    /\ snapshot.updatedAt \in 0..now
    /\ judged.at \in 0..now
    /\ pool # NoPool => twapSeconds >= MinTwap

\* `tick` is the floor of p's mean tick over the `window` seconds before t.
IsFlooredMean(tick, p, t, window) ==
    LET delta == TickDelta(p, t, window)
    IN  /\ tick * window <= delta
        /\ delta < (tick + 1) * window

\* The cached tick is the floor of the mean over exactly the configured window
\* of the configured pool, also for negative ticks and after any number of
\* reconfigurations: no price of a former pool or window survives (update
\* truncates and corrects, _configure clears).
SnapshotIsFlooredMean ==
    snapshot.updatedAt # 0 =>
        IsFlooredMean(snapshot.meanTick, pool, snapshot.updatedAt, twapSeconds)

\* Whoever refreshed the cache, and whenever it was, a trade is let through only
\* on the mean of a whole window of the pool that ended less than a window
\* before the trade (the refresh inside requireWithinTolerance).
TradesJudgedByRecentMean ==
    judged.at # 0 =>
        \E t \in (judged.at - judged.window + 1)..judged.at :
            /\ t > judged.window
            /\ IsFlooredMean(judged.meanTick, judged.from, t, judged.window)

\* Prices are means of whole windows, those cached and those trades are judged by.
PricesAreMeans == SnapshotIsFlooredMean /\ TradesJudgedByRecentMean
=============================================================================
