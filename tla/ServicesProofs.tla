----------------------------- MODULE ServicesProofs -----------------------------
(***************************************************************************)
(* Theorems about the parts that share no state with one another, for all   *)
(* values of their constants: the price source, the reports, the console,   *)
(* the development environment, the validation engine and the lists.  Each  *)
(* part has its own inductive invariant:                                    *)
(*   PriceInv      an observation is a mean of the pool's own log;          *)
(*   ReportInv     a handler between its read and its write has the row to  *)
(*                 itself, and one that failed for good has flagged it;     *)
(*   ConsoleInv    a call that is over is shown with the end it had, and    *)
(*                 open at the node only if its connection failed;          *)
(*   DevInv        what a command has seen of the world is still there, and *)
(*                 it removes what was asked and no more;                   *)
(*   VerdictInv    what is planned has its dependencies planned before it,  *)
(*                 and what is accepted deserves it;                        *)
(*   PagesInv      a page holds what lay between two cursors when it was    *)
(*                 read, and what was read stays true of the rows.          *)
(* Sets are counted and put in order by induction on sets of numbers        *)
(* (LeastOf, Induction).                                                    *)
(***************************************************************************)
EXTENDS PriceSource, Reports, Catalogue, Validation, Console, DevEnvironment,
        FiniteSetTheorems, SequenceTheorems, WellFoundedInduction, TLAPS

-----------------------------------------------------------------------------
(* Induction, with the set of the numbers that have a property for it        *)

LEMMA LeastOf ==
    ASSUME NEW T, T \subseteq Nat, T # {}
    PROVE  \E x \in T : \A y \in T : x <= y
<1> DEFINE R == OpToRel(<, Nat)
<1>1. \A x, y \in Nat : <<x, y>> \in R <=> x < y
    BY DEF OpToRel
<1>2. IsWellFoundedOn(R, Nat)
    BY NatLessThanWellFounded
<1> HIDE DEF R
<1>3. PICK x \in T : \A y \in T : ~ (<<y, x>> \in R)
    BY <1>2, WFMin
<1>4. \A y \in T : ~(y < x) /\ y \in Nat /\ x \in Nat
    BY <1>1, <1>3
<1> QED
    BY <1>4

LEMMA Induction ==
    ASSUME NEW S, 0 \in S, \A n \in Nat : n \in S => n + 1 \in S
    PROVE  Nat \subseteq S
<1> DEFINE T == Nat \ S
<1> SUFFICES ASSUME T # {} PROVE FALSE
    OBVIOUS
<1>1. PICK x \in T : \A y \in T : x <= y
    BY LeastOf
<1>2. x # 0 /\ x \in Nat
    OBVIOUS
<1>3. x - 1 \in Nat /\ x - 1 \notin T
    BY <1>1, <1>2
<1> QED
    BY <1>2, <1>3

-----------------------------------------------------------------------------
(* The pool's oracle                                                         *)

\* The recursion of TickDelta, over the ticks h of one pool.
Sums(h, t, window, sum) ==
    sum = [i \in 0..window |-> IF i = 0 THEN 0 ELSE sum[i - 1] + h[t - i]]

LEMMA SumsExist ==
    ASSUME NEW h, NEW t
    PROVE  \A window \in Nat : \E sum : Sums(h, t, window, sum)
<1> DEFINE S == {n \in Nat : \E sum : Sums(h, t, n, sum)}
<1>1. 0 \in S
  <2> DEFINE zero == [i \in 0..0 |-> 0]
  <2>1. Sums(h, t, 0, zero)
    BY DEF Sums
  <2> QED
    BY <2>1
<1>2. ASSUME NEW n \in Nat, n \in S PROVE n + 1 \in S
  <2>1. PICK g : Sums(h, t, n, g)
    BY <1>2
  <2> DEFINE k == [i \in 0..(n + 1) |-> IF i = n + 1 THEN g[n] + h[t - i] ELSE g[i]]
  <2>2. ASSUME NEW i \in 0..(n + 1)
        PROVE  k[i] = IF i = 0 THEN 0 ELSE k[i - 1] + h[t - i]
    <3>1. CASE i = n + 1
      <4>1. n \in 0..(n + 1) /\ n # n + 1 /\ i - 1 = n /\ i # 0
        BY <3>1
      <4> QED
        BY <3>1, <4>1
    <3>2. CASE i # n + 1
      <4>1. i \in 0..n /\ (i # 0 => i - 1 \in 0..(n + 1) /\ i - 1 # n + 1)
        BY <3>2
      <4>2. g[i] = IF i = 0 THEN 0 ELSE g[i - 1] + h[t - i]
        BY <2>1, <4>1 DEF Sums
      <4> QED
        BY <3>2, <4>1, <4>2
    <3> QED
      BY <3>1, <3>2
  <2>3. k = [i \in 0..(n + 1) |-> k[i]]
    OBVIOUS
  <2> HIDE DEF k
  <2>4. Sums(h, t, n + 1, k)
    BY <2>2, <2>3 DEF Sums
  <2> QED
    BY <2>4
<1>3. Nat \subseteq S
  <2> HIDE DEF S
  <2> QED
    BY <1>1, <1>2, Induction
<1> QED
    BY <1>3

\* TickDelta, of the ticks of one pool.
Delta(h, t, window) ==
    LET sum[i \in 0..window] == IF i = 0 THEN 0 ELSE sum[i - 1] + h[t - i]
    IN  sum[window]

LEMMA DeltaSums ==
    ASSUME NEW h, NEW t, NEW window \in Nat
    PROVE  \E sum : Sums(h, t, window, sum) /\ Delta(h, t, window) = sum[window]
<1> DEFINE Def(g) == g = [i \in 0..window |-> IF i = 0 THEN 0 ELSE g[i - 1] + h[t - i]]
<1>1. PICK sum : Sums(h, t, window, sum)
    BY SumsExist
<1>2. \E g : Def(g)
    BY <1>1 DEF Sums
<1>3. Def(CHOOSE g : Def(g))
    BY <1>2, Zenon
<1>4. Delta(h, t, window) = (CHOOSE g : Def(g))[window]
    BY DEF Delta
<1> QED
    BY <1>3, <1>4, Zenon DEF Sums

\* A window that the pool has seen has a whole number for its sum of ticks.
LEMMA DeltaInt ==
    ASSUME NEW h, NEW t \in Nat, NEW window \in Nat,
           \A i \in 1..window : h[t - i] \in Int
    PROVE  Delta(h, t, window) \in Int
<1>1. PICK sum : Sums(h, t, window, sum) /\ Delta(h, t, window) = sum[window]
    BY DeltaSums
<1> DEFINE S == {n \in Nat : n <= window => sum[n] \in Int}
<1>2. 0 \in S
    BY <1>1 DEF Sums
<1>3. ASSUME NEW n \in Nat, n \in S PROVE n + 1 \in S
  <2> SUFFICES ASSUME n + 1 <= window PROVE sum[n + 1] \in Int
    OBVIOUS
  <2>1. sum[n] \in Int /\ h[t - (n + 1)] \in Int
    <3>1. n + 1 \in 1..window /\ n <= window
      OBVIOUS
    <3> QED
      BY <1>3, <3>1
  <2>2. sum[n + 1] = sum[n] + h[t - (n + 1)]
    <3>1. n + 1 \in 0..window /\ n + 1 # 0 /\ (n + 1) - 1 = n
      OBVIOUS
    <3> QED
      BY <1>1, <3>1 DEF Sums
  <2> QED
    BY <2>1, <2>2
<1>4. Nat \subseteq S
  <2> HIDE DEF S
  <2> QED
    BY <1>2, <1>3, Induction
<1> QED
    BY <1>1, <1>4

\* What happens after the window does not change its sum.
LEMMA DeltaSame ==
    ASSUME NEW h, NEW g, NEW t \in Nat, NEW window \in Nat,
           \A i \in 1..window : h[t - i] = g[t - i]
    PROVE  Delta(h, t, window) = Delta(g, t, window)
<1>1. PICK sum : Sums(h, t, window, sum) /\ Delta(h, t, window) = sum[window]
    BY DeltaSums
<1>2. PICK other : Sums(g, t, window, other) /\ Delta(g, t, window) = other[window]
    BY DeltaSums
<1> DEFINE S == {n \in Nat : n <= window => sum[n] = other[n]}
<1>3. 0 \in S
    BY <1>1, <1>2 DEF Sums
<1>4. ASSUME NEW n \in Nat, n \in S PROVE n + 1 \in S
  <2> SUFFICES ASSUME n + 1 <= window PROVE sum[n + 1] = other[n + 1]
    OBVIOUS
  <2>1. sum[n] = other[n] /\ h[t - (n + 1)] = g[t - (n + 1)]
    <3>1. n + 1 \in 1..window /\ n <= window
      OBVIOUS
    <3> QED
      BY <1>4, <3>1
  <2>2. /\ sum[n + 1] = sum[n] + h[t - (n + 1)]
        /\ other[n + 1] = other[n] + g[t - (n + 1)]
    <3>1. n + 1 \in 0..window /\ n + 1 # 0 /\ (n + 1) - 1 = n
      OBVIOUS
    <3> QED
      BY <1>1, <1>2, <3>1 DEF Sums
  <2> QED
    BY <2>1, <2>2
<1>5. Nat \subseteq S
  <2> HIDE DEF S
  <2> QED
    BY <1>3, <1>4, Induction
<1> QED
    BY <1>1, <1>2, <1>5

\* Division that truncates, corrected for negative sums, is the floor.
LEMMA FloorDiv ==
    ASSUME NEW a \in Nat, NEW b \in Nat \ {0}
    PROVE  a \div b \in Nat /\ (a \div b) * b <= a /\ a < (a \div b + 1) * b
OBVIOUS

LEMMA MeanTickFloors ==
    ASSUME NEW delta \in Int, NEW window \in Nat \ {0}
    PROVE  /\ MeanTick(delta, window) \in Int
           /\ MeanTick(delta, window) * window <= delta
           /\ delta < (MeanTick(delta, window) + 1) * window
<1>1. CASE delta >= 0
  <2>1. MeanTick(delta, window) = delta \div window
    BY <1>1 DEF MeanTick, Truncated
  <2> QED
    BY <1>1, <2>1, FloorDiv
<1>2. CASE delta < 0
  <2>1. PICK a \in Nat : a = -delta
    BY <1>2
  <2>2. PICK q \in Nat : q = a \div window /\ q * window <= a /\ a < (q + 1) * window
    BY <2>1, FloorDiv
  <2>3. Truncated(delta, window) = -q
    BY <1>2, <2>1, <2>2 DEF Truncated
  <2>4. CASE (-q) * window = delta
    <3>1. MeanTick(delta, window) = -q
      BY <1>2, <2>3, <2>4 DEF MeanTick
    <3>2. (-q) * window <= delta /\ delta < (-q + 1) * window
      BY <2>4
    <3> QED
      BY <3>1, <3>2
  <2>5. CASE (-q) * window # delta
    <3>1. MeanTick(delta, window) = -q - 1
      BY <1>2, <2>3, <2>5 DEF MeanTick
    <3>2. (-q) * window = -(q * window) /\ (-q - 1) * window = -((q + 1) * window)
      OBVIOUS
    <3>3. (-q - 1) * window <= delta /\ delta < (-q) * window
      BY <2>1, <2>2, <2>5, <3>2
    <3> QED
      BY <3>1, <3>3
  <2> QED
    BY <2>4, <2>5
<1> QED
    BY <1>1, <1>2

-----------------------------------------------------------------------------
(* Prices are means                                                          *)

\* A snapshot is of the pool in use, and its window lies within what that pool
\* has seen; so does that of the mean a trade was judged by.
Sampled ==
    /\ snapshot \in [meanTick : Int, updatedAt : Nat]
    /\ judged \in [at : Nat, from : Pools \cup {NoPool}, window : Nat, meanTick : Int]
    /\ snapshot.updatedAt # 0 => pool \in Pools /\ snapshot.updatedAt > twapSeconds
    /\ judged.at # 0 => judged.from \in Pools

PriceInv == TypeOK /\ Sampled /\ PricesAreMeans

\* A mean that was right stays right, because time only adds to the history.
LEMMA MeansStay ==
    ASSUME TypeOK, [Next]_vars, NEW p \in Pools, NEW t \in 0..now, NEW window \in Nat, t > window,
           NEW floored, IsFlooredMean(floored, p, t, window)
    PROVE  IsFlooredMean(floored, p, t, window)'
<1>1. \A i \in 1..window : history'[p][t - i] = history[p][t - i]
  <2>1. CASE UNCHANGED history
    BY <2>1
  <2>2. ASSUME NEW ticks \in [Pools -> Ticks], history' = [q \in Pools |-> Append(history[q], ticks[q])]
        PROVE  \A i \in 1..window : history'[p][t - i] = history[p][t - i]
    <3>1. history[p] \in Seq(Ticks) /\ Len(history[p]) = now - 1 /\ ticks[p] \in Ticks
          /\ now \in Nat
      BY DEF TypeOK
    <3>2. history'[p] = Append(history[p], ticks[p])
      BY <2>2
    <3>3. ASSUME NEW i \in 1..window PROVE history'[p][t - i] = history[p][t - i]
      <4>1. t - i \in 1..Len(history[p])
        BY <3>1
      <4> QED
        BY <3>1, <3>2, <4>1
    <3> QED
      BY <3>3
  <2> QED
    BY <2>1, <2>2 DEF Next, vars, Pass, Configure, Update, RequireWithinTolerance
<1>2. t \in Nat
    BY DEF TypeOK
<1>3. Delta(history'[p], t, window) = Delta(history[p], t, window)
    BY <1>1, <1>2, DeltaSame
<1>4. TickDelta(p, t, window)' = TickDelta(p, t, window)
    BY <1>3 DEF TickDelta, Delta
<1> QED
    BY <1>4 DEF IsFlooredMean

\* What update stores is the floor of the mean, whatever its sign.
LEMMA TakenIsMean ==
    ASSUME TypeOK, pool \in Pools, Observable(twapSeconds)
    PROVE  /\ Taken \in [meanTick : Int, updatedAt : Nat] /\ Taken.updatedAt = now
           /\ IsFlooredMean(Taken.meanTick, pool, now, twapSeconds)
<1>1. /\ now \in Nat /\ twapSeconds \in Nat \ {0} /\ twapSeconds < now
      /\ history[pool] \in Seq(Ticks) /\ Len(history[pool]) = now - 1 /\ Ticks \subseteq Int
    BY PriceSourceAssumption DEF TypeOK, Observable
<1>2. \A i \in 1..twapSeconds : history[pool][now - i] \in Int
  <2> TAKE i \in 1..twapSeconds
  <2>1. PICK h \in Seq(Ticks) : h = history[pool]
    BY <1>1
  <2>2. now - i \in 1..Len(h)
    BY <1>1, <2>1
  <2>3. h[now - i] \in Ticks
    BY <2>2
  <2> QED
    BY <1>1, <2>1, <2>3
<1>3. Delta(history[pool], now, twapSeconds) \in Int
    BY <1>1, <1>2, DeltaInt
<1>4. PICK delta \in Int : delta = TickDelta(pool, now, twapSeconds)
    BY <1>3 DEF TickDelta, Delta
<1>5. /\ MeanTick(delta, twapSeconds) \in Int
      /\ MeanTick(delta, twapSeconds) * twapSeconds <= delta
      /\ delta < (MeanTick(delta, twapSeconds) + 1) * twapSeconds
    BY <1>1, MeanTickFloors
<1>6. Taken = [meanTick |-> MeanTick(delta, twapSeconds), updatedAt |-> now]
    BY <1>4 DEF Taken
<1> QED
    BY <1>1, <1>4, <1>5, <1>6 DEF IsFlooredMean

LEMMA PriceInit == Init => PriceInv
<1> SUFFICES ASSUME Init PROVE PriceInv
    OBVIOUS
<1>1. TypeOK
    BY PriceSourceAssumption DEF Init, TypeOK, NoSnapshot, NoTrade
<1>2. Sampled /\ PricesAreMeans
    BY DEF Init, Sampled, NoSnapshot, NoTrade, PricesAreMeans, SnapshotIsFlooredMean,
       TradesJudgedByRecentMean
<1> QED
    BY <1>1, <1>2 DEF PriceInv

LEMMA PriceTypes ==
    ASSUME PriceInv, Next
    PROVE  TypeOK' /\ Sampled'
<1>0. /\ now \in Nat /\ now >= 1 /\ MaxTime \in Nat
      /\ now < MaxTime => now + 1 \in 1..MaxTime
      /\ snapshot \in [meanTick : Int, updatedAt : Nat] /\ snapshot.updatedAt <= now
      /\ judged.at \in Nat /\ judged.at <= now
    BY PriceSourceAssumption DEF PriceInv, TypeOK, Sampled
<1> USE DEF PriceInv
<1>1. CASE Pass
  <2>1. PICK ticks \in [Pools -> Ticks] :
            history' = [p \in Pools |-> Append(history[p], ticks[p])]
    BY <1>1 DEF Pass
  <2>2. ASSUME NEW p \in Pools
        PROVE  history'[p] \in Seq(Ticks) /\ Len(history'[p]) = now' - 1
    <3>1. history[p] \in Seq(Ticks) /\ Len(history[p]) = now - 1 /\ ticks[p] \in Ticks
      BY DEF TypeOK
    <3>2. history'[p] = Append(history[p], ticks[p]) /\ now' = now + 1
      BY <1>1, <2>1 DEF Pass
    <3> QED
      BY <1>0, <3>1, <3>2
  <2>3. history' \in [Pools -> Seq(Ticks)]
    BY <2>1, <2>2
  <2>4. now' \in 1..MaxTime /\ now' = now + 1 /\ UNCHANGED <<pool, twapSeconds, snapshot, judged>>
    BY <1>0, <1>1 DEF Pass
  <2>5. snapshot.updatedAt \in 0..now' /\ judged.at \in 0..now'
    BY <1>0, <2>4
  <2> QED
    BY <2>2, <2>3, <2>4, <2>5 DEF TypeOK, Sampled
<1>2. ASSUME NEW p \in Pools, NEW window \in Windows, Configure(p, window)
      PROVE  TypeOK' /\ Sampled'
    BY <1>0, <1>2, PriceSourceAssumption
       DEF Configure, LongEnough, AfterConfigure, NoSnapshot, TypeOK, Sampled
<1>3. ASSUME pool \in Pools, Observable(twapSeconds), snapshot' = Taken,
             UNCHANGED <<now, history, pool, twapSeconds>>
      PROVE  /\ snapshot' \in [meanTick : Int, updatedAt : Nat] /\ snapshot'.updatedAt = now
             /\ snapshot'.updatedAt > twapSeconds
    BY <1>0, <1>3, TakenIsMean DEF Observable
<1>4. CASE Update
  <2>1. pool \in Pools
    BY <1>4 DEF Update, TypeOK
  <2>2. /\ snapshot' \in [meanTick : Int, updatedAt : Nat] /\ snapshot'.updatedAt = now
        /\ snapshot'.updatedAt > twapSeconds
    BY <1>3, <1>4, <2>1 DEF Update
  <2>3. snapshot'.updatedAt \in 0..now
    BY <1>0, <2>2
  <2> QED
    BY <1>4, <2>1, <2>2, <2>3 DEF Update, TypeOK, Sampled
<1>5. ASSUME NEW base \in Amounts, NEW quote \in Amounts, NEW tolerance \in Tolerances,
             RequireWithinTolerance(base, quote, tolerance)
      PROVE  TypeOK' /\ Sampled'
  <2>1. pool \in Pools
    BY <1>5 DEF RequireWithinTolerance, IsStale, TypeOK, Sampled
  <2>2. /\ snapshot' \in [meanTick : Int, updatedAt : Nat] /\ snapshot'.updatedAt \in 0..now
        /\ snapshot'.updatedAt > twapSeconds
    <3>1. CASE IsStale
      BY <1>0, <1>3, <1>5, <2>1, <3>1 DEF RequireWithinTolerance
    <3>2. CASE ~IsStale
      BY <1>0, <1>5, <3>2 DEF RequireWithinTolerance, IsStale, Sampled
    <3> QED
      BY <3>1, <3>2
  <2>3. judged' \in [at : Nat, from : Pools \cup {NoPool}, window : Nat, meanTick : Int]
        /\ judged'.at = now /\ judged'.from = pool
    BY <1>0, <1>5, <2>2 DEF RequireWithinTolerance, TypeOK
  <2> QED
    BY <1>0, <1>5, <2>1, <2>2, <2>3 DEF RequireWithinTolerance, TypeOK, Sampled
<1> QED
    BY <1>1, <1>2, <1>4, <1>5 DEF Next

LEMMA PriceMeans ==
    ASSUME PriceInv, [Next]_vars
    PROVE  PricesAreMeans'
<1>0. /\ now \in Nat /\ snapshot.updatedAt \in 0..now /\ judged.at \in 0..now
      /\ snapshot.updatedAt \in Nat /\ judged.at \in Nat /\ judged.window \in Nat
      /\ twapSeconds \in Nat
    BY DEF PriceInv, TypeOK, Sampled
<1>1. ASSUME pool \in Pools, Observable(twapSeconds), snapshot' = Taken,
             UNCHANGED <<now, history, pool, twapSeconds>>
      PROVE  /\ snapshot'.updatedAt = now
             /\ IsFlooredMean(snapshot'.meanTick, pool, now, twapSeconds)
             /\ SnapshotIsFlooredMean'
  <2>1. IsFlooredMean(Taken.meanTick, pool, now, twapSeconds) /\ Taken.updatedAt = now
    BY <1>1, TakenIsMean DEF PriceInv
  <2> QED
    BY <1>1, <2>1 DEF SnapshotIsFlooredMean, IsFlooredMean, TickDelta
<1>2. ASSUME UNCHANGED <<snapshot, pool, twapSeconds>> PROVE SnapshotIsFlooredMean'
  <2> SUFFICES ASSUME snapshot'.updatedAt # 0
               PROVE  IsFlooredMean(snapshot.meanTick, pool, snapshot.updatedAt, twapSeconds)'
    BY DEF SnapshotIsFlooredMean
  <2>1. PICK p \in Pools, t \in 0..now, window \in Nat, floored \in Int :
            /\ p = pool /\ t = snapshot.updatedAt /\ window = twapSeconds
            /\ floored = snapshot.meanTick /\ t > window
    BY <1>0, <1>2 DEF PriceInv, Sampled
  <2>2. IsFlooredMean(floored, p, t, window)
    BY <1>2, <2>1 DEF PriceInv, PricesAreMeans, SnapshotIsFlooredMean
  <2>3. IsFlooredMean(floored, p, t, window)'
    BY <2>1, <2>2, MeansStay DEF PriceInv
  <2> QED
    BY <1>2, <2>1, <2>3 DEF IsFlooredMean, TickDelta
<1>3. ASSUME UNCHANGED judged PROVE TradesJudgedByRecentMean'
  <2> SUFFICES ASSUME judged'.at # 0
               PROVE  \E t \in (judged.at - judged.window + 1)..judged.at :
                         /\ t > judged.window
                         /\ IsFlooredMean(judged.meanTick, judged.from, t, judged.window)'
    BY <1>3 DEF TradesJudgedByRecentMean, IsFlooredMean, TickDelta
  <2>1. PICK t \in (judged.at - judged.window + 1)..judged.at :
            /\ t > judged.window
            /\ IsFlooredMean(judged.meanTick, judged.from, t, judged.window)
    BY <1>3 DEF PriceInv, PricesAreMeans, TradesJudgedByRecentMean
  <2>2. PICK p \in Pools, window \in Nat, floored \in Int :
            p = judged.from /\ window = judged.window /\ floored = judged.meanTick
    BY <1>3 DEF PriceInv, Sampled
  <2>3. t \in 0..now
    BY <1>0, <2>1
  <2>4. IsFlooredMean(floored, p, t, window)'
    BY <2>1, <2>2, <2>3, MeansStay DEF PriceInv
  <2>5. IsFlooredMean(judged.meanTick, judged.from, t, judged.window)'
    BY <1>3, <2>2, <2>4 DEF IsFlooredMean, TickDelta
  <2> QED
    BY <2>1, <2>5
<1>4. CASE Pass
    BY <1>2, <1>3, <1>4 DEF Pass, PricesAreMeans
<1>5. ASSUME NEW p \in Pools, NEW window \in Windows, Configure(p, window)
      PROVE  PricesAreMeans'
  <2>1. SnapshotIsFlooredMean'
    BY <1>5 DEF Configure, AfterConfigure, NoSnapshot, SnapshotIsFlooredMean
  <2> QED
    BY <1>3, <1>5, <2>1 DEF Configure, PricesAreMeans
<1>6. CASE Update
  <2>1. pool \in Pools
    BY <1>6 DEF Update, PriceInv, TypeOK
  <2> QED
    BY <1>1, <1>3, <1>6, <2>1 DEF Update, PricesAreMeans
<1>7. ASSUME NEW base \in Amounts, NEW quote \in Amounts, NEW tolerance \in Tolerances,
             RequireWithinTolerance(base, quote, tolerance)
      PROVE  PricesAreMeans'
  <2>1. pool \in Pools /\ twapSeconds \in Nat \ {0} /\ UNCHANGED <<now, history, pool, twapSeconds>>
    BY <1>7, PriceSourceAssumption
       DEF RequireWithinTolerance, IsStale, PriceInv, TypeOK, Sampled
  <2>2. \E t \in (now - twapSeconds + 1)..now :
            /\ t > twapSeconds
            /\ IsFlooredMean(snapshot'.meanTick, pool, t, twapSeconds)
    <3>1. CASE IsStale
      <4>1. /\ now \in (now - twapSeconds + 1)..now /\ now > twapSeconds
            /\ IsFlooredMean(snapshot'.meanTick, pool, now, twapSeconds)
        BY <1>0, <1>1, <1>7, <2>1, <3>1 DEF RequireWithinTolerance, Observable
      <4> QED
        BY <4>1
    <3>2. CASE ~IsStale
      <4>1. /\ snapshot' = snapshot /\ snapshot.updatedAt # 0
            /\ now - snapshot.updatedAt < twapSeconds
        BY <1>0, <1>7, <3>2 DEF RequireWithinTolerance, IsStale
      <4>2. /\ snapshot.updatedAt \in (now - twapSeconds + 1)..now
            /\ snapshot.updatedAt > twapSeconds
            /\ IsFlooredMean(snapshot.meanTick, pool, snapshot.updatedAt, twapSeconds)
        BY <1>0, <2>1, <4>1 DEF PriceInv, Sampled, PricesAreMeans, SnapshotIsFlooredMean
      <4> QED
        BY <4>1, <4>2
    <3> QED
      BY <3>1, <3>2
  <2>3. judged' = [at |-> now, from |-> pool, window |-> twapSeconds, meanTick |-> snapshot'.meanTick]
    BY <1>7 DEF RequireWithinTolerance
  <2>4. TradesJudgedByRecentMean'
    <3>1. PICK t \in (now - twapSeconds + 1)..now :
              /\ t > twapSeconds
              /\ IsFlooredMean(snapshot'.meanTick, pool, t, twapSeconds)
      BY <2>2
    <3>2. IsFlooredMean(judged.meanTick, judged.from, t, judged.window)'
      BY <2>1, <2>3, <3>1 DEF IsFlooredMean, TickDelta
    <3>3. t \in (judged'.at - judged'.window + 1)..judged'.at /\ t > judged'.window
      BY <2>3, <3>1
    <3> QED
      BY <3>2, <3>3 DEF TradesJudgedByRecentMean
  <2>5. SnapshotIsFlooredMean'
    BY <1>1, <1>2, <1>7, <2>1 DEF RequireWithinTolerance
  <2> QED
    BY <2>4, <2>5 DEF PricesAreMeans
<1>8. CASE UNCHANGED vars
    BY <1>2, <1>3, <1>8 DEF vars, PricesAreMeans
<1> QED
    BY <1>4, <1>5, <1>6, <1>7, <1>8 DEF Next

LEMMA PricesAlways == Spec => []PriceInv
<1>1. PriceInv /\ UNCHANGED vars => TypeOK' /\ Sampled'
    BY DEF vars, PriceInv, TypeOK, Sampled
<1>2. PriceInv /\ [Next]_vars => PriceInv'
    BY <1>1, PriceTypes, PriceMeans DEF PriceInv
<1> QED
    BY <1>2, PriceInit, PTL DEF Spec

\* Every price cached, and every price a trade of a vault is judged by, is the
\* floored mean over one whole window of the pool then configured, for every
\* history of ticks, also negative ones, and every sequence of reconfigurations;
\* the mean of a trade ended less than a window before it (PriceSource.sol).
THEOREM PricesStayMeans == Spec => []PricesAreMeans
BY PricesAlways, PTL DEF PriceInv

\* No variable leaves its type; a snapshot is never from the future.
THEOREM PricesTyped == Spec => []TypeOK
BY PricesAlways, PTL DEF PriceInv
-----------------------------------------------------------------------------
(* The reports: the inductive invariant                                      *)

Steps == {"read", "upsert", "mail", "check", "write", "flag", "flagging", "done", "throw"}

\* No job is tried more often than the queue allows.
JobsTyped ==
    /\ reportJobs \in Seq(ReportJob)
    /\ \A j \in DOMAIN reportJobs :
          /\ reportJobs[j].retries <= SenderRetries
          /\ reportJobs[j].state = "retry" => reportJobs[j].retries < SenderRetries

\* Handlers are of jobs sent in a readable form; only the first has begun.
HandlersTyped ==
    /\ handlers \in [Workers -> Seq(HandlerType)]
    /\ \A w \in Workers : \A i \in DOMAIN handlers[w] :
          /\ handlers[w][i].job \in DOMAIN reportJobs
          /\ reportJobs[handlers[w][i].job].readable
          /\ i # 1 => handlers[w][i].step = "read"
    /\ \A w \in Workers : w \notin reportScene.workers => handlers[w] = <<>>

\* So is the row, and once it is there it stays.
RowTyped ==
    /\ report \in Row \cup {NoReport}
    /\ report # NoReport => report.job \in DOMAIN reportJobs /\ reportJobs[report.job].readable
    /\ \A w \in Workers : \A step \in {"mail", "check", "write", "flagging"} :
          At(w, step) => report # NoReport
    /\ review # NoReview => report # NoReport

ReportTypes ==
    /\ JobsTyped /\ HandlersTyped /\ RowTyped
    /\ mailed \in Nat
    /\ review \in ReviewType \cup {NoReview}
    /\ reportSpent \in [ReportSpending -> Nat]
    /\ reportScene \in ReportScene

\* Whoever writes the row has a count that was true when it was read.
Audited ==
    /\ report.audit <= mailed
    /\ \A w \in Workers : \A i \in DOMAIN handlers[w] : handlers[w][i].audit <= mailed
    /\ review # NoReview => review.seen.audit <= mailed

\* A handler between its read and its write has a pending row to itself.
Owned ==
    (Solitary /\ reportSpent["repeat"] = 0) =>
        /\ review # NoReview => review.to # "pending_review"
        /\ \A w \in Workers :
              At(w, "upsert") /\ report.status = "pending_review" =>
                  report.job = Handling(w).job

\* One handler at a time, of the one active job, in the attempt the job is at.
OneAtWork ==
    /\ \A w \in Workers :
          /\ \A i \in DOMAIN handlers[w] : i = 1
          /\ handlers[w] # <<>> =>
                /\ ~Handling(w).abandoned
                /\ reportJobs[Handling(w).job].state = "active"
                /\ Handling(w).attempt = reportJobs[Handling(w).job].retries
    /\ \A j \in DOMAIN reportJobs : reportJobs[j].state = "active" =>
          \E w \in Workers : handlers[w] # <<>> /\ Handling(w).job = j

\* A handler that has filed the row is its owner; one that failed for the last
\* time has flagged it.
Flagging(w) ==
    /\ \A step \in {"mail", "check", "write"} : At(w, step) => report.job = Handling(w).job
    /\ At(w, "flagging") /\ FailedStatus(w) = "pending_review" => report.status = "pending_review"
    /\ At(w, "throw") /\ Handling(w).attempt + 1 >= Threshold =>
          report = NoReport \/ report.status = "needs_attention"

GivenUp == report # NoReport /\ reportJobs[report.job].state = "failed"

Calm == \A what \in {"review", "repeat", "outside", "expiry", "crash"} : reportSpent[what] = 0

Flagged ==
    (Solitary /\ Calm) =>
        /\ review = NoReview
        /\ OneAtWork
        /\ \A w \in Workers : Flagging(w)
        /\ GivenUp => report.status = "needs_attention"

-----------------------------------------------------------------------------
(* Chains and jobs: what an action leaves of them                            *)

\* The head of a worker's chain becomes h.
HeadTo(w, h) == handlers' = [handlers EXCEPT ![w] = [@ EXCEPT ![1] = h]]

HandlerStep(w) ==
    ReadReport(w) \/ UpsertReport(w) \/ Notify(w) \/ CheckReport(w) \/ WriteReport(w) \/ LoseCall(w)

\* A chain of which the head moves keeps its length and its other places.
LEMMA HeadMoves ==
    ASSUME HandlersTyped, NEW w \in Workers, handlers[w] # <<>>, NEW h \in HandlerType, HeadTo(w, h)
    PROVE  /\ handlers' \in [Workers -> Seq(HandlerType)]
           /\ handlers'[w] # <<>> /\ handlers'[w][1] = h /\ 1 \in DOMAIN handlers[w]
           /\ \A v \in Workers : DOMAIN handlers'[v] = DOMAIN handlers[v]
           /\ \A v \in Workers : v # w => handlers'[v] = handlers[v]
           /\ \A i \in DOMAIN handlers[w] : i # 1 => handlers'[w][i] = handlers[w][i]
<1>1. PICK s \in Seq(HandlerType) : s = handlers[w] /\ s # <<>>
    BY DEF HandlersTyped
<1>2. /\ [s EXCEPT ![1] = h] \in Seq(HandlerType) /\ DOMAIN [s EXCEPT ![1] = h] = DOMAIN s
      /\ 1 \in DOMAIN s /\ [s EXCEPT ![1] = h] # <<>> /\ [s EXCEPT ![1] = h][1] = h
      /\ \A i \in DOMAIN s : i # 1 => [s EXCEPT ![1] = h][i] = s[i]
    BY <1>1
<1>3. handlers' = [handlers EXCEPT ![w] = [s EXCEPT ![1] = h]]
    BY <1>1 DEF HeadTo
<1>4. handlers'[w] = [s EXCEPT ![1] = h] /\ \A v \in Workers : v # w => handlers'[v] = handlers[v]
    BY <1>3 DEF HandlersTyped
<1>5. handlers' \in [Workers -> Seq(HandlerType)]
    BY <1>2, <1>3 DEF HandlersTyped
<1> QED
    BY <1>1, <1>2, <1>4, <1>5

\* Going on to a step changes nothing else of the handler.
LEMMA GoesOn ==
    ASSUME HandlersTyped, NEW w \in Workers, handlers[w] # <<>>, NEW step \in Steps, GoOn(w, step)
    PROVE  \E h \in HandlerType :
              /\ HeadTo(w, h) /\ h = [Handling(w) EXCEPT !.step = step] /\ h.step = step
              /\ h.job = Handling(w).job /\ h.attempt = Handling(w).attempt
              /\ h.audit = Handling(w).audit /\ h.abandoned = Handling(w).abandoned
<1>1. PICK s \in Seq(HandlerType) : s = handlers[w] /\ s # <<>>
    BY DEF HandlersTyped
<1>2. s[1] \in HandlerType
    BY <1>1
<1>3. PICK h \in HandlerType : h = [s[1] EXCEPT !.step = step]
    BY <1>2 DEF HandlerType, Steps
<1>4. HeadTo(w, h)
    BY <1>1, <1>3 DEF GoOn, HeadTo
<1> QED
    BY <1>1, <1>2, <1>3, <1>4 DEF Handling, HandlerType

\* A running handler is of a job that was sent in a readable form.
LEMMA HandlerIs ==
    ASSUME HandlersTyped, NEW w \in Workers, handlers[w] # <<>>
    PROVE  /\ Handling(w) \in HandlerType /\ Handling(w).job \in DOMAIN reportJobs
           /\ reportJobs[Handling(w).job].readable /\ 1 \in DOMAIN handlers[w]
<1>1. PICK s \in Seq(HandlerType) : s = handlers[w] /\ s # <<>>
    BY DEF HandlersTyped
<1>2. s[1] \in HandlerType /\ 1 \in DOMAIN s
    BY <1>1
<1> QED
    BY <1>1, <1>2 DEF HandlersTyped, Handling

\* The handler h that an action of w's running handler leaves.
Passed(w, h) ==
    /\ HeadTo(w, h) /\ UNCHANGED <<reportJobs, review>>
    /\ h.job = Handling(w).job /\ h.attempt = Handling(w).attempt
    /\ h.abandoned = Handling(w).abandoned
    /\ \/ /\ ReadReport(w)
          /\ h.audit = report.audit /\ h.step = (IF Filed(w) THEN "done" ELSE "upsert")
       \/ UpsertReport(w) /\ h.audit = Handling(w).audit /\ h.step = "mail"
       \/ Notify(w) /\ h.audit = Handling(w).audit + 1 /\ h.step = "check"
       \/ /\ CheckReport(w) /\ h.audit = Handling(w).audit
          /\ \/ /\ At(w, "check")
                /\ h.step = IF Allowed(report.status, "pending_review") THEN "write" ELSE "flag"
             \/ /\ At(w, "flag")
                /\ h.step = IF Allowed(report.status, FailedStatus(w)) THEN "flagging" ELSE "throw"
       \/ /\ WriteReport(w) /\ h.audit = Handling(w).audit
          /\ \/ At(w, "write") /\ h.step = "done"
             \/ At(w, "flagging") /\ h.step = "throw"
       \/ /\ LoseCall(w) /\ h.audit = Handling(w).audit
          /\ \/ h.step = "flag"
             \/ h.step = "throw" /\ SpendOn("outside")

\* Every action of a running handler leaves one of those.
LEMMA StepsOn ==
    ASSUME ReportTypes, NEW w \in Workers, HandlerStep(w)
    PROVE  handlers[w] # <<>> /\ \E h \in HandlerType : Passed(w, h)
<1>1. handlers[w] # <<>> /\ UNCHANGED <<reportJobs, review>> /\ HandlersTyped
    BY DEF HandlerStep, ReadReport, UpsertReport, Notify, CheckReport, WriteReport, LoseCall, At,
       ReportTypes
<1>2. Handling(w) \in HandlerType /\ mailed \in Nat /\ report.audit \in Nat
    BY <1>1, HandlerIs DEF ReportTypes, RowTyped, Row, NoReport
<1>3. PICK s \in Seq(HandlerType) : s = handlers[w] /\ s[1] = Handling(w)
    BY <1>1 DEF HandlersTyped, Handling
<1>4. ASSUME NEW step \in Steps, GoOn(w, step)
      PROVE  \E h \in HandlerType :
              /\ HeadTo(w, h) /\ h.step = step
              /\ h.job = Handling(w).job /\ h.attempt = Handling(w).attempt
              /\ h.audit = Handling(w).audit /\ h.abandoned = Handling(w).abandoned
    BY <1>1, <1>4, GoesOn
<1>5. CASE ReadReport(w)
  <2>1. PICK h \in HandlerType :
            h = [Handling(w) EXCEPT !.step = IF Filed(w) THEN "done" ELSE "upsert",
                                    !.audit = report.audit]
    BY <1>2 DEF HandlerType
  <2>2. HeadTo(w, h)
    BY <1>1, <1>3, <1>5, <2>1 DEF ReadReport, HeadTo, HandlersTyped
  <2> QED
    BY <1>1, <1>2, <1>5, <2>1, <2>2 DEF Passed, HandlerType
<1>6. CASE UpsertReport(w)
    BY <1>1, <1>4, <1>6 DEF UpsertReport, Passed, Steps
<1>7. CASE Notify(w)
  <2>1. PICK h \in HandlerType :
            h = [Handling(w) EXCEPT !.step = "check", !.audit = @ + 1]
    <3>1. PICK a \in Nat : a = Handling(w).audit + 1
      BY <1>2 DEF HandlerType
    <3>2. [Handling(w) EXCEPT !.step = "check", !.audit = a] \in HandlerType
      BY <1>2 DEF HandlerType
    <3> QED
      BY <3>1, <3>2
  <2>2. HeadTo(w, h)
    BY <1>1, <1>3, <1>7, <2>1 DEF Notify, HeadTo, HandlersTyped
  <2> QED
    BY <1>1, <1>2, <1>7, <2>1, <2>2 DEF Passed, HandlerType
<1>8. CASE CheckReport(w)
    BY <1>1, <1>4, <1>8 DEF CheckReport, Passed, Steps
<1>9. CASE WriteReport(w)
    BY <1>1, <1>4, <1>9 DEF WriteReport, Passed, Steps
<1>10. CASE LoseCall(w)
  <2>1. CASE GoOn(w, "flag")
    BY <1>1, <1>4, <1>10, <2>1 DEF Passed, Steps
  <2>2. CASE GoOn(w, "throw") /\ SpendOn("outside")
    BY <1>1, <1>4, <1>10, <2>2 DEF Passed, Steps
  <2> QED
    BY <1>10, <2>1, <2>2 DEF LoseCall
<1> QED
    BY <1>1, <1>5, <1>6, <1>7, <1>8, <1>9, <1>10 DEF HandlerStep

-----------------------------------------------------------------------------
\* The queue's changes to a job keep its form and its limit.
LEMMA JobForms ==
    ASSUME JobsTyped, NEW j \in DOMAIN reportJobs
    PROVE  /\ reportJobs[j] \in ReportJob
           /\ LET job == GivenBack(reportJobs[j]) IN
                 /\ job \in ReportJob /\ job.readable = reportJobs[j].readable
                 /\ job.retries <= SenderRetries /\ job.state \in {"retry", "failed"}
                 /\ job.state = "retry" => job.retries < SenderRetries
                 /\ job.state = "failed" => reportJobs[j].retries = SenderRetries
           /\ reportJobs[j].state \in {"created", "retry"} =>
              LET job == TakenUp(reportJobs[j]) IN
                 /\ job \in ReportJob /\ job.readable = reportJobs[j].readable
                 /\ job.retries <= SenderRetries /\ job.state = "active"
           /\ reportJobs[j].state \in {"created", "retry"} =>
              LET job == GivenBack(TakenUp(reportJobs[j])) IN
                 /\ job \in ReportJob /\ job.readable = reportJobs[j].readable
                 /\ job.retries <= SenderRetries /\ job.state \in {"retry", "failed"}
                 /\ job.state = "retry" => job.retries < SenderRetries
<1>1. PICK job \in ReportJob : job = reportJobs[j]
    BY DEF JobsTyped
<1>2. job.retries <= SenderRetries /\ (job.state = "retry" => job.retries < SenderRetries)
    BY <1>1 DEF JobsTyped
<1>3. SenderRetries \in Nat
    BY ReportsAssumption
<1>4. \A other \in ReportJob : other.retries <= SenderRetries =>
         LET given == GivenBack(other) IN
            /\ given \in ReportJob /\ given.readable = other.readable
            /\ given.retries <= SenderRetries /\ given.state \in {"retry", "failed"}
            /\ given.state = "retry" => given.retries < SenderRetries
            /\ given.state = "failed" => other.retries = SenderRetries
    BY <1>3 DEF GivenBack, ReportJob
<1>5. job.state \in {"created", "retry"} =>
         LET begun == TakenUp(job) IN
            /\ begun \in ReportJob /\ begun.readable = job.readable
            /\ begun.retries <= SenderRetries /\ begun.state = "active"
  <2>1. PICK n \in Nat : n = (IF job.state = "retry" THEN job.retries + 1 ELSE job.retries)
                        /\ (job.state \in {"created", "retry"} => n <= SenderRetries)
    BY <1>2, <1>3 DEF ReportJob
  <2>2. TakenUp(job) = [job EXCEPT !.state = "active", !.retries = n]
    BY <2>1 DEF TakenUp
  <2>3. [job EXCEPT !.state = "active", !.retries = n] \in ReportJob
    BY DEF ReportJob
  <2> QED
    BY <2>1, <2>2, <2>3 DEF ReportJob
<1> QED
    BY <1>1, <1>2, <1>4, <1>5

\* One job of the queue becomes another of the same form.
LEMMA JobsMove ==
    ASSUME JobsTyped, NEW j \in DOMAIN reportJobs, NEW job \in ReportJob,
           job.readable = reportJobs[j].readable, job.retries <= SenderRetries,
           job.state = "retry" => job.retries < SenderRetries,
           reportJobs' = [reportJobs EXCEPT ![j] = job]
    PROVE  /\ JobsTyped' /\ DOMAIN reportJobs' = DOMAIN reportJobs /\ reportJobs'[j] = job
           /\ \A i \in DOMAIN reportJobs : i # j => reportJobs'[i] = reportJobs[i]
           /\ \A i \in DOMAIN reportJobs : reportJobs'[i].readable = reportJobs[i].readable
<1>1. PICK s \in Seq(ReportJob) : s = reportJobs
    BY DEF JobsTyped
<1>2. /\ [s EXCEPT ![j] = job] \in Seq(ReportJob) /\ DOMAIN [s EXCEPT ![j] = job] = DOMAIN s
      /\ [s EXCEPT ![j] = job][j] = job
      /\ \A i \in DOMAIN s : i # j => [s EXCEPT ![j] = job][i] = s[i]
    BY <1>1
<1> QED
    BY <1>1, <1>2 DEF JobsTyped

\* A sequence and its next element.
LEMMA Appended ==
    ASSUME NEW S, NEW s \in Seq(S), NEW e \in S
    PROVE  /\ Append(s, e) \in Seq(S) /\ Append(s, e) # <<>> /\ Len(s) \in Nat
           /\ DOMAIN s = 1..Len(s) /\ DOMAIN Append(s, e) = 1..(Len(s) + 1)
           /\ \A i \in 1..Len(s) : Append(s, e)[i] = s[i]
           /\ Append(s, e)[Len(s) + 1] = e
<1>1. Len(s) \in Nat /\ DOMAIN s = 1..Len(s)
    OBVIOUS
<1>2. Append(s, e) \in Seq(S) /\ Len(Append(s, e)) = Len(s) + 1
    OBVIOUS
<1>3. Append(s, e)[Len(s) + 1] = e
    OBVIOUS
<1>4. \A i \in 1..Len(s) : Append(s, e)[i] = s[i]
    OBVIOUS
<1>5. DOMAIN Append(s, e) = 1..(Len(s) + 1)
    BY <1>2
<1>6. Append(s, e) # <<>>
    BY <1>1, <1>2
<1> QED
    BY <1>1, <1>2, <1>3, <1>4, <1>5, <1>6

\* A job that is sent takes the next place.
LEMMA JobsGrow ==
    ASSUME JobsTyped, NEW readable \in BOOLEAN, Enqueued(readable)
    PROVE  /\ JobsTyped' /\ DOMAIN reportJobs \subseteq DOMAIN reportJobs'
           /\ \A i \in DOMAIN reportJobs : reportJobs'[i] = reportJobs[i]
           /\ \A i \in DOMAIN reportJobs' : i \notin DOMAIN reportJobs =>
                 reportJobs'[i].state = "created"
<1>1. PICK s \in Seq(ReportJob), job \in ReportJob :
         s = reportJobs /\ job = [readable |-> readable, retries |-> 0, state |-> "created"]
    BY DEF JobsTyped, ReportJob
<1>2. /\ Append(s, job) \in Seq(ReportJob) /\ DOMAIN s = 1..Len(s)
      /\ DOMAIN Append(s, job) = 1..(Len(s) + 1)
      /\ Append(s, job)[Len(s) + 1] = job /\ Len(s) \in Nat
      /\ \A i \in DOMAIN s : Append(s, job)[i] = s[i]
    BY <1>1, Appended
<1>3. reportJobs' = Append(s, job)
    BY <1>1 DEF Enqueued
<1>4. \A i \in DOMAIN reportJobs' : i \in DOMAIN s \/ i = Len(s) + 1
    BY <1>2, <1>3
<1> QED
    BY <1>1, <1>2, <1>3, <1>4, ReportsAssumption DEF JobsTyped

-----------------------------------------------------------------------------
\* The types

\* What the other actions of a worker leave of its chain: fewer handlers, or one
\* more that has not begun.
LEMMA ChainGrows ==
    ASSUME HandlersTyped, NEW w \in Workers, NEW h \in HandlerType,
           handlers' = [handlers EXCEPT ![w] = Append(@, h)]
    PROVE  /\ handlers' \in [Workers -> Seq(HandlerType)]
           /\ \A v \in Workers : v # w => handlers'[v] = handlers[v]
           /\ \A i \in DOMAIN handlers[w] : i \in DOMAIN handlers'[w] /\ handlers'[w][i] = handlers[w][i]
           /\ \A i \in DOMAIN handlers'[w] : i \notin DOMAIN handlers[w] => handlers'[w][i] = h
           /\ handlers'[w] # <<>>
           /\ handlers[w] = <<>> => DOMAIN handlers'[w] = {1} /\ handlers'[w][1] = h
           /\ handlers[w] # <<>> => handlers'[w][1] = handlers[w][1]
<1>1. PICK s \in Seq(HandlerType) : s = handlers[w]
    BY DEF HandlersTyped
<1>2. /\ Append(s, h) \in Seq(HandlerType) /\ Append(s, h) # <<>>
      /\ \A i \in DOMAIN s : i \in DOMAIN Append(s, h) /\ Append(s, h)[i] = s[i]
      /\ \A i \in DOMAIN Append(s, h) : i \notin DOMAIN s => Append(s, h)[i] = h
      /\ s = <<>> => DOMAIN Append(s, h) = {1} /\ Append(s, h)[1] = h
      /\ s # <<>> => Append(s, h)[1] = s[1]
  <2>1. /\ Append(s, h) \in Seq(HandlerType) /\ Append(s, h) # <<>> /\ Len(s) \in Nat
        /\ DOMAIN s = 1..Len(s) /\ DOMAIN Append(s, h) = 1..(Len(s) + 1)
        /\ \A i \in 1..Len(s) : Append(s, h)[i] = s[i]
        /\ Append(s, h)[Len(s) + 1] = h
    BY <1>1, Appended
  <2>6. /\ s = <<>> => Len(s) = 0
        /\ s # <<>> => Len(s) >= 1
    BY <1>1
  <2>2. \A i \in DOMAIN s : i \in DOMAIN Append(s, h)
    BY <2>1
  <2>3. \A i \in DOMAIN Append(s, h) : i \notin DOMAIN s => i = Len(s) + 1
    BY <2>1
  <2>4. s = <<>> => DOMAIN Append(s, h) = {1} /\ Append(s, h)[1] = h
    BY <2>1, <2>6
  <2>5. s # <<>> => Append(s, h)[1] = s[1]
    BY <2>1, <2>6
  <2> QED
    BY <2>1, <2>2, <2>3, <2>4, <2>5
<1>3. handlers' = [handlers EXCEPT ![w] = Append(s, h)]
    BY <1>1
<1>4. handlers'[w] = Append(s, h) /\ \A v \in Workers : v # w => handlers'[v] = handlers[v]
    BY <1>3 DEF HandlersTyped
<1> QED
    BY <1>1, <1>2, <1>3, <1>4 DEF HandlersTyped

\* A sequence of no length is empty.
LEMMA EmptyIs ==
    ASSUME NEW S, NEW s \in Seq(S), Len(s) = 0
    PROVE  s = <<>>
OBVIOUS

\* A settled handler leaves those that have not begun.
LEMMA ChainShrinks ==
    ASSUME HandlersTyped, NEW w \in Workers, handlers[w] # <<>>,
           handlers' = [handlers EXCEPT ![w] = Tail(@)]
    PROVE  /\ handlers' \in [Workers -> Seq(HandlerType)]
           /\ \A v \in Workers : v # w => handlers'[v] = handlers[v]
           /\ \A i \in DOMAIN handlers'[w] :
                 i + 1 \in DOMAIN handlers[w] /\ i + 1 # 1 /\ handlers'[w][i] = handlers[w][i + 1]
           /\ (\A i \in DOMAIN handlers[w] : i = 1) => handlers'[w] = <<>>
<1>1. PICK s \in Seq(HandlerType) : s = handlers[w] /\ s # <<>>
    BY DEF HandlersTyped
<1>2. /\ Tail(s) \in Seq(HandlerType)
      /\ \A i \in DOMAIN Tail(s) : i + 1 \in DOMAIN s /\ i + 1 # 1 /\ Tail(s)[i] = s[i + 1]
    BY <1>1
<1>3. (\A i \in DOMAIN s : i = 1) => Tail(s) = <<>>
  <2> SUFFICES ASSUME \A i \in DOMAIN s : i = 1 PROVE Tail(s) = <<>>
    OBVIOUS
  <2>1. Len(s) \in Nat /\ DOMAIN s = 1..Len(s)
    BY <1>1
  <2>2. Len(s) \in 1..Len(s)
    BY <1>1, <2>1
  <2>3. Len(s) = 1
    BY <2>1, <2>2
  <2>4. Tail(s) \in Seq(HandlerType) /\ Len(Tail(s)) = Len(s) - 1
    BY <1>1
  <2>5. Len(Tail(s)) = 0
    BY <2>3, <2>4
  <2> QED
    BY <2>1, <2>4, <2>5, EmptyIs, Zenon
<1>4. handlers' = [handlers EXCEPT ![w] = Tail(s)]
    BY <1>1
<1>5. handlers'[w] = Tail(s) /\ \A v \in Workers : v # w => handlers'[v] = handlers[v]
    BY <1>4 DEF HandlersTyped
<1> QED
    BY <1>1, <1>2, <1>3, <1>4, <1>5 DEF HandlersTyped

\* A handler that is given up goes on with the same job, step and count.
LEMMA Abandons ==
    ASSUME HandlersTyped, NEW w \in Workers, NEW i \in DOMAIN handlers[w],
           handlers' = [handlers EXCEPT ![w][i].abandoned = TRUE]
    PROVE  /\ handlers' \in [Workers -> Seq(HandlerType)]
           /\ \A v \in Workers : DOMAIN handlers'[v] = DOMAIN handlers[v]
           /\ \A v \in Workers : \A k \in DOMAIN handlers[v] :
                 /\ handlers'[v][k].job = handlers[v][k].job
                 /\ handlers'[v][k].step = handlers[v][k].step
                 /\ handlers'[v][k].audit = handlers[v][k].audit
<1>1. PICK s \in Seq(HandlerType) : s = handlers[w]
    BY DEF HandlersTyped
<1>2. s[i] \in HandlerType
    BY <1>1
<1>3. PICK h \in HandlerType : h = [s[i] EXCEPT !.abandoned = TRUE]
    BY <1>2 DEF HandlerType
<1>4. h.job = s[i].job /\ h.step = s[i].step /\ h.audit = s[i].audit
    BY <1>2, <1>3 DEF HandlerType
<1>5. /\ [s EXCEPT ![i] = h] \in Seq(HandlerType) /\ DOMAIN [s EXCEPT ![i] = h] = DOMAIN s
      /\ \A k \in DOMAIN s : [s EXCEPT ![i] = h][k] = IF k = i THEN h ELSE s[k]
    BY <1>1
<1>6. handlers' = [handlers EXCEPT ![w] = [s EXCEPT ![i] = h]]
    BY <1>1, <1>3
<1>7. handlers'[w] = [s EXCEPT ![i] = h] /\ \A v \in Workers : v # w => handlers'[v] = handlers[v]
    BY <1>6 DEF HandlersTyped
<1>8. handlers' \in [Workers -> Seq(HandlerType)]
    BY <1>5, <1>6 DEF HandlersTyped
<1>9. ASSUME NEW v \in Workers
      PROVE  /\ DOMAIN handlers'[v] = DOMAIN handlers[v]
             /\ \A k \in DOMAIN handlers[v] :
                   /\ handlers'[v][k].job = handlers[v][k].job
                   /\ handlers'[v][k].step = handlers[v][k].step
                   /\ handlers'[v][k].audit = handlers[v][k].audit
  <2>1. CASE v = w
    <3>1. \A k \in DOMAIN s : LET g == [s EXCEPT ![i] = h][k] IN
             g.job = s[k].job /\ g.step = s[k].step /\ g.audit = s[k].audit
      BY <1>4, <1>5
    <3> QED
      BY <1>1, <1>5, <1>7, <2>1, <3>1
  <2>2. CASE v # w
    BY <1>7, <2>2
  <2> QED
    BY <2>1, <2>2
<1> QED
    BY <1>8, <1>9

JobsKept ==
    \A j \in DOMAIN reportJobs :
        j \in DOMAIN reportJobs' /\ reportJobs'[j].readable = reportJobs[j].readable

\* The steps whose handler relies on the row.
Written == {"mail", "check", "write", "flagging"}

\* Handlers of known jobs stay so while the queue keeps its jobs.
LEMMA HandlersStay ==
    ASSUME HandlersTyped, JobsKept, UNCHANGED reportScene,
           handlers' \in [Workers -> Seq(HandlerType)],
           \A v \in Workers : \A k \in DOMAIN handlers'[v] :
              /\ \E i \in DOMAIN handlers[v] : handlers'[v][k].job = handlers[v][i].job
              /\ k # 1 => handlers'[v][k].step = "read"
    PROVE  HandlersTyped'
<1>1. ASSUME NEW v \in Workers, NEW k \in DOMAIN handlers'[v]
      PROVE  /\ handlers'[v][k].job \in DOMAIN reportJobs'
             /\ reportJobs'[handlers'[v][k].job].readable
  <2>1. PICK i \in DOMAIN handlers[v] : handlers'[v][k].job = handlers[v][i].job
    OBVIOUS
  <2>2. handlers[v][i].job \in DOMAIN reportJobs /\ reportJobs[handlers[v][i].job].readable
    BY DEF HandlersTyped
  <2> QED
    BY <2>1, <2>2 DEF JobsKept
<1>2. ASSUME NEW v \in Workers, v \notin reportScene'.workers PROVE handlers'[v] = <<>>
  <2>1. handlers[v] = <<>>
    BY <1>2 DEF HandlersTyped
  <2>2. PICK s \in Seq(HandlerType) : s = handlers'[v]
    OBVIOUS
  <2>3. DOMAIN s = {}
    BY <2>1, <2>2
  <2> QED
    BY <2>2, <2>3
<1> QED
    BY <1>1, <1>2 DEF HandlersTyped

\* So does the row, while nobody comes to rely on it.
LEMMA RowStays ==
    ASSUME ReportTypes, JobsKept, UNCHANGED <<report, review>>,
           \A v \in Workers : \A step \in Written : At(v, step)' => At(v, step)
    PROVE  RowTyped'
BY DEF ReportTypes, RowTyped, JobsKept, Written

\* The row as a handler or a reviewer writes it.
LEMMA RowWritten ==
    ASSUME ReportTypes, JobsKept, review' \in {review, NoReview}, report' \in Row,
           \/ \E w \in Workers : handlers[w] # <<>> /\ report'.job = Handling(w).job
           \/ report # NoReport /\ report'.job = report.job
    PROVE  RowTyped'
<1>1. report'.job \in DOMAIN reportJobs /\ reportJobs[report'.job].readable
    BY HandlerIs DEF ReportTypes, RowTyped
<1>2. report' # NoReport
    BY DEF Row, NoReport, ReportStatuses
<1> QED
    BY <1>1, <1>2 DEF RowTyped, JobsKept

\* The handler's own actions.
LEMMA StepTypes ==
    ASSUME ReportTypes, NEW w \in Workers, HandlerStep(w), UNCHANGED reportScene
    PROVE  ReportTypes'
<1>0. HandlersTyped /\ RowTyped /\ JobsTyped
    BY DEF ReportTypes
<1>1. PICK h \in HandlerType : Passed(w, h)
    BY StepsOn
<1>2. handlers[w] # <<>> /\ HeadTo(w, h) /\ UNCHANGED <<reportJobs, review>>
    BY <1>1, StepsOn DEF Passed
<1>3. JobsTyped' /\ JobsKept
    BY <1>0, <1>2 DEF JobsTyped, JobsKept
<1>4. HandlersTyped'
  <2>1. /\ handlers' \in [Workers -> Seq(HandlerType)]
        /\ handlers'[w] # <<>> /\ handlers'[w][1] = h /\ 1 \in DOMAIN handlers[w]
        /\ \A v \in Workers : DOMAIN handlers'[v] = DOMAIN handlers[v]
        /\ \A v \in Workers : v # w => handlers'[v] = handlers[v]
        /\ \A i \in DOMAIN handlers[w] : i # 1 => handlers'[w][i] = handlers[w][i]
    BY <1>0, <1>2, HeadMoves
  <2>2. h.job = handlers[w][1].job
    BY <1>1 DEF Passed, Handling
  <2>3. ASSUME NEW v \in Workers, NEW k \in DOMAIN handlers'[v]
        PROVE  /\ \E i \in DOMAIN handlers[v] : handlers'[v][k].job = handlers[v][i].job
               /\ k # 1 => handlers'[v][k].step = "read"
    <3>1. k \in DOMAIN handlers[v] /\ (k # 1 => handlers[v][k].step = "read")
      BY <1>0, <2>1 DEF HandlersTyped
    <3>2. CASE v = w /\ k = 1
      BY <2>1, <2>2, <3>1, <3>2
    <3>3. CASE ~(v = w /\ k = 1)
      <4>1. handlers'[v][k] = handlers[v][k]
        BY <2>1, <3>1, <3>3
      <4> QED
        BY <3>1, <4>1
    <3> QED
      BY <3>2, <3>3
  <2> QED
    BY <1>0, <1>3, <2>1, <2>3, HandlersStay
<1>5. /\ \A step : At(w, step)' <=> h.step = step
      /\ \A v \in Workers, step \in Steps : v # w => (At(v, step)' <=> At(v, step))
    BY <1>0, <1>2, HeadMoves DEF At
<1>6. Handling(w) \in HandlerType /\ mailed \in Nat
    BY <1>0, <1>2, HandlerIs DEF ReportTypes
<1>7. RowTyped'
  <2>1. CASE UNCHANGED report
    <3>1. CASE report # NoReport
      BY <1>0, <1>2, <1>3, <2>1, <3>1 DEF RowTyped, JobsKept
    <3>2. CASE report = NoReport
      <4>1. h.step \notin Written
        <5>1. ~UpsertReport(w) /\ ~Notify(w) /\ ~WriteReport(w)
          BY <1>0, <1>6, <2>1, <3>2 DEF RowTyped, NoReport, UpsertReport, Notify, WriteReport, HandlerType
        <5>2. \A to : ~Allowed(report.status, to)
          BY <3>2 DEF NoReport, Allowed, ReportGraph
        <5> QED
          BY <1>1, <5>1, <5>2 DEF Passed, Written
      <4> QED
        BY <1>0, <1>2, <1>3, <1>5, <2>1, <4>1, RowStays DEF Written, Steps
    <3> QED
      BY <3>1, <3>2
  <2>2. CASE UpsertReport(w)
    <3>1. report' \in Row /\ report'.job = Handling(w).job
      BY <1>6, <2>2 DEF UpsertReport, Row, ReportStatuses, HandlerType
    <3> QED
      BY <1>2, <1>3, <3>1, RowWritten
  <2>3. CASE WriteReport(w)
    <3>1. report \in Row
      BY <1>0, <2>3 DEF WriteReport, RowTyped
    <3>2. report' \in Row /\ report'.job = report.job
      <4>1. Handling(w).attempt \in Nat /\ Handling(w).audit \in Nat /\ Handling(w).attempt + 1 \in Nat
        BY <1>6 DEF HandlerType
      <4>2. FailedStatus(w) \in ReportStatuses
        BY DEF FailedStatus, ReportStatuses
      <4>3. CASE At(w, "write") /\ report' = [report EXCEPT !.status = "pending_review",
                           !.attempts = Handling(w).attempt, !.audit = Handling(w).audit]
        BY <3>1, <4>1, <4>3 DEF Row, ReportStatuses
      <4>4. CASE At(w, "flagging") /\ report' = [report EXCEPT !.status = FailedStatus(w),
                           !.attempts = Handling(w).attempt + 1]
        <5>1. PICK n \in Nat : n = Handling(w).attempt + 1
          BY <4>1
        <5> QED
          BY <3>1, <4>2, <4>4, <5>1 DEF Row
      <4> QED
        BY <2>3, <4>3, <4>4 DEF WriteReport
    <3> QED
      BY <1>0, <1>2, <1>3, <2>3, <3>2, RowWritten DEF WriteReport, RowTyped
  <2> QED
    BY <2>1, <2>2, <2>3 DEF HandlerStep, ReadReport, Notify, CheckReport, LoseCall
<1>8. mailed' \in Nat /\ reportSpent' \in [ReportSpending -> Nat]
    BY <1>6 DEF ReportTypes, HandlerStep, ReadReport, UpsertReport, Notify, CheckReport, WriteReport,
       LoseCall, SpendOn, ReportSpending
<1> QED
    BY <1>2, <1>3, <1>4, <1>7, <1>8 DEF ReportTypes

\* What the queue does to a worker's chain.
QueueStep(w) ==
    \/ \E j \in DOMAIN reportJobs : TakeUp(w, j)
    \/ SettleReport(w) \/ StopWorker(w)
    \/ \E i \in DOMAIN handlers[w] : ExpireReport(w, i)

\* What is spent is typed, and counted.
LEMMA Spends ==
    ASSUME reportSpent \in [ReportSpending -> Nat], NEW what \in ReportSpending, SpendOn(what)
    PROVE  /\ reportSpent' \in [ReportSpending -> Nat] /\ reportSpent'[what] # 0
           /\ \A other \in ReportSpending : reportSpent'[other] = 0 => reportSpent[other] = 0
BY DEF SpendOn

\* The queue's actions.
LEMMA QueueTypes ==
    ASSUME ReportTypes, NEW w \in Workers, w \in reportScene.workers, QueueStep(w),
           UNCHANGED reportScene
    PROVE  ReportTypes'
<1>0. HandlersTyped /\ RowTyped /\ JobsTyped
    BY DEF ReportTypes
<1>1. UNCHANGED <<report, mailed, review>> /\ reportSpent' \in [ReportSpending -> Nat]
  <2>1. UNCHANGED <<report, mailed, review>>
    BY DEF QueueStep, TakeUp, SettleReport, StopWorker, ExpireReport
  <2>2. UNCHANGED reportSpent \/ SpendOn("crash") \/ SpendOn("expiry")
    BY DEF QueueStep, TakeUp, SettleReport, StopWorker, ExpireReport
  <2> QED
    BY <2>1, <2>2, Spends DEF ReportTypes, ReportSpending
<1>2. ASSUME JobsKept, JobsTyped', handlers' \in [Workers -> Seq(HandlerType)],
             \A v \in Workers : \A k \in DOMAIN handlers'[v] :
                /\ \E i \in DOMAIN handlers[v] : handlers'[v][k].job = handlers[v][i].job
                /\ k # 1 => handlers'[v][k].step = "read",
             \A v \in Workers : \A step \in Written : At(v, step)' => At(v, step)
      PROVE  ReportTypes'
    BY <1>0, <1>1, <1>2, HandlersStay, RowStays DEF ReportTypes
<1>3. ASSUME NEW j \in DOMAIN reportJobs, TakeUp(w, j) PROVE ReportTypes'
  <2>1. CASE /\ reportJobs[j].readable
             /\ reportJobs' = [reportJobs EXCEPT ![j] = TakenUp(@)]
             /\ handlers' = [handlers EXCEPT ![w] = Append(@,
                   [job |-> j, attempt |-> TakenUp(reportJobs[j]).retries, audit |-> 0,
                    step |-> "read", abandoned |-> FALSE])]
    <3>1. PICK job \in ReportJob :
              /\ job = TakenUp(reportJobs[j]) /\ job.readable = reportJobs[j].readable
              /\ job.retries <= SenderRetries /\ job.state = "active"
      BY <1>0, <1>3, JobForms DEF TakeUp
    <3>2. JobsTyped' /\ JobsKept
      BY <1>0, <2>1, <3>1, JobsMove DEF JobsKept
    <3>3. PICK h \in HandlerType :
              h = [job |-> j, attempt |-> TakenUp(reportJobs[j]).retries, audit |-> 0,
                   step |-> "read", abandoned |-> FALSE]
      <4>1. j \in Nat \ {0} /\ TakenUp(reportJobs[j]).retries \in Nat
        BY <1>0, <3>1 DEF ReportJob, JobsTyped
      <4> QED
        BY <4>1 DEF HandlerType
    <3>0. handlers' = [handlers EXCEPT ![w] = Append(@, h)]
      BY <2>1, <3>3
    <3>4. /\ handlers' \in [Workers -> Seq(HandlerType)]
          /\ \A v \in Workers : v # w => handlers'[v] = handlers[v]
          /\ \A i \in DOMAIN handlers[w] : i \in DOMAIN handlers'[w] /\ handlers'[w][i] = handlers[w][i]
          /\ \A i \in DOMAIN handlers'[w] : i \notin DOMAIN handlers[w] => handlers'[w][i] = h
          /\ handlers'[w] # <<>>
          /\ handlers[w] = <<>> => DOMAIN handlers'[w] = {1} /\ handlers'[w][1] = h
          /\ handlers[w] # <<>> => handlers'[w][1] = handlers[w][1]
      BY <1>0, <3>0, ChainGrows
    <3>5. ASSUME NEW v \in Workers, NEW k \in DOMAIN handlers'[v]
          PROVE  /\ handlers'[v][k].job \in DOMAIN reportJobs
                 /\ reportJobs[handlers'[v][k].job].readable
                 /\ k # 1 => handlers'[v][k].step = "read"
      <4>1. CASE v = w /\ k \notin DOMAIN handlers[w]
        BY <2>1, <3>3, <3>4, <4>1
      <4>2. CASE v # w \/ k \in DOMAIN handlers[w]
        <5>1. k \in DOMAIN handlers[v] /\ handlers'[v][k] = handlers[v][k]
          BY <3>4, <4>2
        <5> QED
          BY <1>0, <5>1 DEF HandlersTyped
      <4> QED
        BY <4>1, <4>2
    <3>6. HandlersTyped'
      BY <1>0, <3>2, <3>4, <3>5 DEF HandlersTyped, JobsKept
    <3>7. \A v \in Workers : \A step \in Written : At(v, step)' => At(v, step)
      BY <3>3, <3>4 DEF At, Written
    <3> QED
      BY <1>1, <3>2, <3>6, <3>7, RowStays DEF ReportTypes
  <2>2. CASE reportJobs' = [reportJobs EXCEPT ![j] = GivenBack(TakenUp(@))] /\ UNCHANGED handlers
    <3>1. PICK job \in ReportJob :
              /\ job = GivenBack(TakenUp(reportJobs[j])) /\ job.readable = reportJobs[j].readable
              /\ job.retries <= SenderRetries /\ (job.state = "retry" => job.retries < SenderRetries)
      BY <1>0, <1>3, JobForms DEF TakeUp
    <3>2. JobsTyped' /\ JobsKept
      BY <1>0, <2>2, <3>1, JobsMove DEF JobsKept
    <3> QED
      BY <1>0, <1>2, <2>2, <3>2 DEF HandlersTyped, At
  <2> QED
    BY <1>3, <2>1, <2>2 DEF TakeUp
<1>4. CASE SettleReport(w)
  <2>1. handlers[w] # <<>> /\ handlers' = [handlers EXCEPT ![w] = Tail(@)]
    BY <1>4 DEF SettleReport, At
  <2>2. /\ handlers' \in [Workers -> Seq(HandlerType)]
        /\ \A v \in Workers : v # w => handlers'[v] = handlers[v]
        /\ \A i \in DOMAIN handlers'[w] :
              i + 1 \in DOMAIN handlers[w] /\ i + 1 # 1 /\ handlers'[w][i] = handlers[w][i + 1]
    BY <1>0, <2>1, ChainShrinks
  <2>3. JobsTyped' /\ JobsKept
    <3>1. CASE UNCHANGED reportJobs
      BY <1>0, <3>1 DEF JobsTyped, JobsKept
    <3>2. PICK j \in DOMAIN reportJobs : j = Handling(w).job
      BY <1>0, <2>1, HandlerIs
    <3>3. CASE reportJobs' = [reportJobs EXCEPT ![j] = GivenBack(@)]
      BY <1>0, <3>3, JobForms, JobsMove DEF JobsKept
    <3>4. CASE reportJobs' = [reportJobs EXCEPT ![j] = [@ EXCEPT !.state = "completed"]]
      <4>1. [reportJobs[j] EXCEPT !.state = "completed"] \in ReportJob
        BY <1>0, JobForms DEF ReportJob
      <4>2. PICK job \in ReportJob :
               /\ job = [reportJobs[j] EXCEPT !.state = "completed"] /\ job.state = "completed"
               /\ job.readable = reportJobs[j].readable /\ job.retries = reportJobs[j].retries
        BY <1>0, <4>1, JobForms DEF ReportJob
      <4> QED
        BY <1>0, <3>4, <4>2, JobsMove DEF JobsKept, JobsTyped
    <3> QED
      BY <1>4, <3>1, <3>2, <3>3, <3>4 DEF SettleReport
  <2>4. ASSUME NEW v \in Workers, NEW k \in DOMAIN handlers'[v]
        PROVE  /\ \E i \in DOMAIN handlers[v] : handlers'[v][k].job = handlers[v][i].job
               /\ k # 1 => handlers'[v][k].step = "read"
    <3>1. PICK i \in DOMAIN handlers[v] : handlers'[v][k] = handlers[v][i] /\ (k # 1 => i # 1)
      <4>1. CASE v = w
        <5>1. k \in Nat
          <6>1. PICK s \in Seq(HandlerType) : s = handlers'[v]
            BY <2>2
          <6> QED
            BY <6>1
        <5> QED
          BY <2>2, <4>1, <5>1
      <4> QED
        BY <2>2, <4>1
    <3>2. i # 1 => handlers[v][i].step = "read"
      BY <1>0 DEF HandlersTyped
    <3> QED
      BY <3>1, <3>2
  <2>5. \A v \in Workers : \A step \in Written : At(v, step)' => At(v, step)
    <3>1. handlers'[w] # <<>> => handlers'[w][1].step = "read"
      <4>1. handlers'[w] # <<>> => 1 \in DOMAIN handlers'[w]
        <5>1. PICK s \in Seq(HandlerType) : s = handlers'[w]
          BY <2>2
        <5> QED
          BY <5>1
      <4> QED
        BY <1>0, <2>2, <4>1 DEF HandlersTyped
    <3> QED
      BY <2>2, <3>1 DEF At, Written
  <2> QED
    BY <1>2, <2>2, <2>3, <2>4, <2>5
<1>5. CASE StopWorker(w)
  <2>1. /\ handlers' \in [Workers -> Seq(HandlerType)] /\ handlers'[w] = <<>>
        /\ \A v \in Workers : v # w => handlers'[v] = handlers[v]
        /\ UNCHANGED reportJobs
    BY <1>0, <1>5 DEF StopWorker, HandlersTyped
  <2>2. JobsTyped' /\ JobsKept
    BY <1>0, <2>1 DEF JobsTyped, JobsKept
  <2>3. ASSUME NEW v \in Workers, NEW k \in DOMAIN handlers'[v]
        PROVE  /\ \E i \in DOMAIN handlers[v] : handlers'[v][k].job = handlers[v][i].job
               /\ k # 1 => handlers'[v][k].step = "read"
    <3>1. v # w
      BY <2>1
    <3> QED
      BY <1>0, <2>1, <3>1 DEF HandlersTyped
  <2>4. \A v \in Workers : \A step \in Written : At(v, step)' => At(v, step)
    BY <2>1 DEF At
  <2> QED
    BY <1>2, <2>1, <2>2, <2>3, <2>4
<1>6. ASSUME NEW i \in DOMAIN handlers[w], ExpireReport(w, i) PROVE ReportTypes'
  <2>1. PICK j \in DOMAIN reportJobs : j = handlers[w][i].job
    BY <1>0 DEF HandlersTyped
  <2>2. JobsTyped' /\ JobsKept
    BY <1>0, <1>6, <2>1, JobForms, JobsMove DEF JobsKept, ExpireReport
  <2>3. /\ handlers' \in [Workers -> Seq(HandlerType)]
        /\ \A v \in Workers : DOMAIN handlers'[v] = DOMAIN handlers[v]
        /\ \A v \in Workers : \A k \in DOMAIN handlers[v] :
              /\ handlers'[v][k].job = handlers[v][k].job
              /\ handlers'[v][k].step = handlers[v][k].step
              /\ handlers'[v][k].audit = handlers[v][k].audit
    BY <1>0, <1>6, Abandons DEF ExpireReport
  <2>4. \A v \in Workers : \A step \in Written : At(v, step)' => At(v, step)
    <3> SUFFICES ASSUME NEW v \in Workers, NEW step \in Written, At(v, step)' PROVE At(v, step)
      OBVIOUS
    <3>1. PICK s \in Seq(HandlerType) : s = handlers[v]
      BY <1>0 DEF HandlersTyped
    <3>2. PICK t \in Seq(HandlerType) : t = handlers'[v] /\ t # <<>>
      BY <2>3 DEF At
    <3>3. 1 \in DOMAIN t /\ DOMAIN s = DOMAIN t
      BY <2>3, <3>1, <3>2
    <3>4. s # <<>>
      BY <3>3
    <3> QED
      BY <2>3, <3>1, <3>3, <3>4 DEF At
  <2>5. ASSUME NEW v \in Workers, NEW k \in DOMAIN handlers'[v]
        PROVE  /\ \E n \in DOMAIN handlers[v] : handlers'[v][k].job = handlers[v][n].job
               /\ k # 1 => handlers'[v][k].step = "read"
    <3>1. k \in DOMAIN handlers[v]
      BY <2>3
    <3>2. k # 1 => handlers[v][k].step = "read"
      BY <1>0, <3>1 DEF HandlersTyped
    <3> QED
      BY <2>3, <3>1, <3>2
  <2> QED
    BY <1>2, <2>2, <2>3, <2>4, <2>5
<1> QED
  BY <1>3, <1>4, <1>5, <1>6 DEF QueueStep

\* Whoever sends reports or reviews one, and maintenance.
OutsideStep ==
    \/ SendReplayReport \/ SendReport
    \/ \E j \in DOMAIN reportJobs : GiveBackLost(j)
    \/ \E to \in ReportStatuses : RequestReview(to)
    \/ CheckReview \/ WriteReview

\* Those of senders, reviewers and maintenance.
LEMMA OutsideTypes ==
    ASSUME ReportTypes, OutsideStep, UNCHANGED reportScene
    PROVE  ReportTypes'
<1>0. HandlersTyped /\ RowTyped /\ JobsTyped /\ reportSpent \in [ReportSpending -> Nat]
    BY DEF ReportTypes
<1>1. UNCHANGED <<handlers, mailed>>
    BY DEF OutsideStep, SendReplayReport, SendReport, GiveBackLost, RequestReview, CheckReview, WriteReview
<1>2. reportSpent' \in [ReportSpending -> Nat]
  <2>1. UNCHANGED reportSpent \/ \E what \in {"replay", "send", "repeat", "review"} : SpendOn(what)
    BY DEF OutsideStep, SendReplayReport, SendReport, GiveBackLost, RequestReview, CheckReview,
       WriteReview
  <2> QED
    BY <1>0, <2>1, Spends DEF ReportSpending
<1>3. JobsTyped' /\ JobsKept
  <2>1. CASE SendReplayReport \/ SendReport
    BY <1>0, <2>1, JobsGrow DEF SendReplayReport, SendReport, JobsKept
  <2>2. ASSUME NEW j \in DOMAIN reportJobs, GiveBackLost(j) PROVE JobsTyped' /\ JobsKept
    BY <1>0, <2>2, JobForms, JobsMove DEF JobsKept, GiveBackLost
  <2>3. CASE UNCHANGED reportJobs
    BY <1>0, <2>3 DEF JobsTyped, JobsKept
  <2> QED
    BY <2>1, <2>2, <2>3 DEF OutsideStep, RequestReview, CheckReview, WriteReview
<1>4. HandlersTyped'
    BY <1>0, <1>1, <1>3 DEF HandlersTyped, JobsKept
<1>5. /\ RowTyped' /\ review' \in ReviewType \cup {NoReview}
  <2>1. CASE UNCHANGED <<report, review>>
    BY <1>0, <1>1, <1>3, <2>1, RowStays DEF At, ReportTypes
  <2>2. ASSUME NEW to \in ReportStatuses, RequestReview(to)
        PROVE  RowTyped' /\ review' \in ReviewType \cup {NoReview}
    <3>1. report \in Row /\ report # NoReport
      BY <1>0, <2>2 DEF RequestReview, RowTyped, Allowed, ReportGraph, NoReport
    <3>2. review' \in ReviewType
      BY <2>2, <3>1 DEF RequestReview, ReviewType
    <3>3. UNCHANGED report
      BY <2>2 DEF RequestReview
    <3> QED
      BY <1>0, <1>1, <1>3, <3>1, <3>2, <3>3 DEF RowTyped, JobsKept, At
  <2>3. CASE CheckReview
    <3>1. review \in ReviewType /\ review # NoReview
      BY <2>3 DEF CheckReview, ReportTypes, NoReview, ReviewType
    <3>2. review' \in ReviewType \cup {NoReview} /\ UNCHANGED report
      BY <2>3, <3>1 DEF CheckReview, ReviewType
    <3> QED
      BY <1>0, <1>1, <1>3, <3>1, <3>2 DEF RowTyped, JobsKept, At
  <2>4. CASE WriteReview
    <3>1. review \in ReviewType /\ review # NoReview
      BY <2>4 DEF WriteReview, ReportTypes, NoReview, ReviewType
    <3>2. report \in Row /\ report # NoReport /\ review.seen \in Row /\ review.to \in ReportStatuses
      BY <1>0, <3>1 DEF RowTyped, ReviewType
    <3>3. report' \in Row /\ report'.job = report.job /\ review' = NoReview
      BY <2>4, <3>2 DEF WriteReview, Row
    <3> QED
      BY <1>3, <3>2, <3>3, RowWritten
  <2> QED
    BY <2>1, <2>2, <2>3, <2>4 DEF OutsideStep, SendReplayReport, SendReport, GiveBackLost
<1> QED
  BY <1>1, <1>2, <1>3, <1>4, <1>5 DEF ReportTypes

\* The three kinds of steps.
LEMMA NextIs ==
    ASSUME ReportsNext, ReportTypes
    PROVE  /\ UNCHANGED reportScene
           /\ \/ \E w \in Workers :
                    w \in reportScene.workers /\ (HandlerStep(w) \/ QueueStep(w))
              \/ OutsideStep
<1>1. reportScene.workers \subseteq Workers
    BY DEF ReportTypes, ReportScene
<1>2. UNCHANGED reportScene
    BY DEF ReportsNext
<1>3. ASSUME NEW w \in reportScene.workers,
             \/ \E j \in DOMAIN reportJobs : TakeUp(w, j)
             \/ Handle(w) \/ LoseCall(w) \/ StopWorker(w)
             \/ \E i \in DOMAIN handlers[w] : ExpireReport(w, i)
      PROVE  HandlerStep(w) \/ QueueStep(w)
    BY <1>3 DEF HandlerStep, QueueStep, Handle
<1> QED
    BY <1>1, <1>2, <1>3 DEF ReportsNext, OutsideStep

-----------------------------------------------------------------------------
\* The count of notifications

\* Nobody writes a count that he did not read, or mail.
LEMMA AuditStays ==
    ASSUME ReportTypes, Audited, ReportsNext
    PROVE  Audited'
<1>0. HandlersTyped /\ RowTyped /\ JobsTyped /\ mailed \in Nat /\ report.audit \in Nat
    BY DEF ReportTypes, RowTyped, Row, NoReport
<1>1. ASSUME NEW w \in Workers, HandlerStep(w) PROVE Audited'
  <2>1. PICK h \in HandlerType : Passed(w, h) /\ handlers[w] # <<>>
    BY <1>1, StepsOn
  <2>2. UNCHANGED review /\ HeadTo(w, h)
    BY <2>1 DEF Passed
  <2>3. Handling(w).audit <= mailed /\ Handling(w).audit \in Nat
    BY <1>0, <2>1, HandlerIs DEF Audited, Handling, HandlerType
  <2>4. mailed' \in Nat /\ mailed <= mailed'
    BY <1>0, <1>1 DEF HandlerStep, ReadReport, UpsertReport, Notify, CheckReport, WriteReport, LoseCall
  <2>5. h.audit <= mailed'
    <3>1. Notify(w) => mailed' = mailed + 1
      BY DEF Notify
    <3> QED
      BY <1>0, <2>1, <2>3, <2>4, <3>1 DEF Passed, Audited
  <2>6. report'.audit = report.audit \/ report'.audit = Handling(w).audit
    <3>1. CASE UpsertReport(w)
      BY <3>1 DEF UpsertReport
    <3>2. CASE WriteReport(w)
      <4>1. report \in Row
        BY <1>0, <3>2 DEF WriteReport, RowTyped
      <4> QED
        BY <3>2, <4>1 DEF WriteReport, Row
    <3>3. CASE UNCHANGED report
      BY <3>3
    <3> QED
      BY <1>1, <3>1, <3>2, <3>3 DEF HandlerStep, ReadReport, Notify, CheckReport, LoseCall
  <2>7. report'.audit <= mailed'
    BY <1>0, <2>3, <2>4, <2>6 DEF Audited
  <2>8. ASSUME NEW v \in Workers, NEW i \in DOMAIN handlers'[v] PROVE handlers'[v][i].audit <= mailed'
    <3>1. i \in DOMAIN handlers[v] /\ handlers[v][i].audit <= mailed /\ handlers[v][i].audit \in Nat
      <4>1. i \in DOMAIN handlers[v]
        BY <1>0, <2>1, <2>2, HeadMoves
      <4>2. PICK s \in Seq(HandlerType) : s = handlers[v]
        BY <1>0 DEF HandlersTyped
      <4>3. s[i] \in HandlerType
        BY <4>1, <4>2
      <4> QED
        BY <4>1, <4>2, <4>3 DEF Audited, HandlerType
    <3>2. CASE v = w /\ i = 1
      BY <1>0, <2>1, <2>2, <2>5, <3>2, HeadMoves
    <3>3. CASE ~(v = w /\ i = 1)
      <4>1. handlers'[v][i] = handlers[v][i]
        BY <1>0, <2>1, <2>2, <3>1, <3>3, HeadMoves
      <4> QED
        BY <1>0, <2>4, <3>1, <4>1
    <3> QED
      BY <3>2, <3>3
  <2>9. review # NoReview => review.seen.audit <= mailed'
    BY <1>0, <2>4 DEF Audited, ReportTypes, ReviewType, Row
  <2> QED
    BY <2>2, <2>7, <2>8, <2>9 DEF Audited
<1>2. ASSUME NEW w \in Workers, QueueStep(w) PROVE Audited'
  <2>1. UNCHANGED <<report, mailed, review>>
    BY <1>2 DEF QueueStep, TakeUp, SettleReport, StopWorker, ExpireReport
  <2>2. ASSUME NEW v \in Workers, NEW k \in DOMAIN handlers'[v]
        PROVE  \/ handlers'[v][k].audit = 0
               \/ \E i \in DOMAIN handlers[v] : handlers'[v][k].audit = handlers[v][i].audit
    <3>1. CASE UNCHANGED handlers
      BY <3>1
    <3>2. ASSUME NEW h \in HandlerType, h.audit = 0, handlers' = [handlers EXCEPT ![w] = Append(@, h)]
          PROVE  \/ handlers'[v][k].audit = 0
                 \/ \E i \in DOMAIN handlers[v] : handlers'[v][k].audit = handlers[v][i].audit
      <4>1. CASE v = w /\ k \notin DOMAIN handlers[w]
        BY <1>0, <3>2, <4>1, ChainGrows
      <4>2. CASE v # w \/ k \in DOMAIN handlers[w]
        <5>1. k \in DOMAIN handlers[v] /\ handlers'[v][k] = handlers[v][k]
          BY <1>0, <3>2, <4>2, ChainGrows
        <5> QED
          BY <5>1
      <4> QED
        BY <4>1, <4>2
    <3>3. CASE SettleReport(w)
      <4>1. CASE v = w
        <5>1. handlers[w] # <<>> /\ handlers' = [handlers EXCEPT ![w] = Tail(@)]
          BY <3>3 DEF SettleReport, At
        <5>2. \A i \in DOMAIN handlers'[w] :
                 i + 1 \in DOMAIN handlers[w] /\ handlers'[w][i] = handlers[w][i + 1]
          BY <1>0, <5>1, ChainShrinks
        <5> QED
          BY <4>1, <5>2
      <4>2. CASE v # w
        BY <1>0, <3>3, <4>2, ChainShrinks DEF SettleReport, At
      <4> QED
        BY <4>1, <4>2
    <3>4. CASE StopWorker(w)
      <4>1. v # w /\ handlers'[v] = handlers[v]
        BY <1>0, <3>4 DEF StopWorker, HandlersTyped
      <4> QED
        BY <4>1
    <3>5. ASSUME NEW i \in DOMAIN handlers[w], ExpireReport(w, i)
          PROVE  \E n \in DOMAIN handlers[v] : handlers'[v][k].audit = handlers[v][n].audit
      BY <1>0, <3>5, Abandons DEF ExpireReport
    <3>6. ASSUME NEW j \in DOMAIN reportJobs, TakeUp(w, j)
          PROVE  \/ UNCHANGED handlers
                 \/ \E h \in HandlerType :
                       h.audit = 0 /\ handlers' = [handlers EXCEPT ![w] = Append(@, h)]
      <4>1. j \in Nat \ {0} /\ TakenUp(reportJobs[j]).retries \in Nat
        BY <1>0, <3>6, JobForms DEF ReportJob, JobsTyped, TakeUp
      <4>2. PICK h \in HandlerType :
               h = [job |-> j, attempt |-> TakenUp(reportJobs[j]).retries, audit |-> 0,
                    step |-> "read", abandoned |-> FALSE]
        BY <4>1 DEF HandlerType
      <4> QED
        BY <3>6, <4>2 DEF TakeUp
    <3> QED
      BY <1>2, <3>1, <3>2, <3>3, <3>4, <3>5, <3>6 DEF QueueStep
  <2> QED
    BY <1>0, <2>1, <2>2 DEF Audited
<1>3. CASE OutsideStep
  <2>1. UNCHANGED <<handlers, mailed>>
    BY <1>3 DEF OutsideStep, SendReplayReport, SendReport, GiveBackLost, RequestReview, CheckReview,
       WriteReview
  <2>2. report'.audit <= mailed /\ (review' # NoReview => review'.seen.audit <= mailed)
    <3>1. CASE UNCHANGED <<report, review>>
      BY <3>1 DEF Audited
    <3>2. ASSUME NEW to \in ReportStatuses, RequestReview(to)
          PROVE  report'.audit <= mailed /\ review'.seen.audit <= mailed
      BY <3>2 DEF RequestReview, Audited
    <3>3. CASE CheckReview
      <4>1. review \in ReviewType /\ review # NoReview
        BY <3>3 DEF CheckReview, ReportTypes, NoReview, ReviewType
      <4> QED
        BY <3>3, <4>1 DEF CheckReview, Audited, ReviewType
    <3>4. CASE WriteReview
      <4>1. review \in ReviewType /\ review # NoReview
        BY <3>4 DEF WriteReview, ReportTypes, NoReview, ReviewType
      <4>2. report \in Row
        BY <1>0, <4>1 DEF RowTyped
      <4> QED
        BY <3>4, <4>1, <4>2 DEF WriteReview, Audited, Row
    <3> QED
      BY <1>3, <3>1, <3>2, <3>3, <3>4 DEF OutsideStep, SendReplayReport, SendReport, GiveBackLost
  <2> QED
    BY <2>1, <2>2 DEF Audited
<1> QED
    BY <1>1, <1>2, <1>3, NextIs

-----------------------------------------------------------------------------
\* Who owns the row

\* No budget is given back.
LEMMA SpentGrows ==
    ASSUME ReportTypes, ReportsNext, NEW what \in ReportSpending, reportSpent'[what] = 0
    PROVE  reportSpent[what] = 0
<1>1. UNCHANGED reportSpent \/ \E other \in ReportSpending : SpendOn(other)
  <2>1. ASSUME NEW w \in Workers, HandlerStep(w)
        PROVE  UNCHANGED reportSpent \/ \E other \in ReportSpending : SpendOn(other)
    BY <2>1 DEF HandlerStep, ReadReport, UpsertReport, Notify, CheckReport, WriteReport, LoseCall,
       ReportSpending
  <2>2. ASSUME NEW w \in Workers, QueueStep(w)
        PROVE  UNCHANGED reportSpent \/ \E other \in ReportSpending : SpendOn(other)
    BY <2>2 DEF QueueStep, TakeUp, SettleReport, StopWorker, ExpireReport, ReportSpending
  <2>3. CASE OutsideStep
    BY <2>3 DEF OutsideStep, SendReplayReport, SendReport, GiveBackLost, RequestReview, CheckReview,
       WriteReview, ReportSpending
  <2> QED
    BY <2>1, <2>2, <2>3, NextIs
<1> QED
    BY <1>1, Spends DEF ReportTypes

\* What the queue leaves at the head of a chain has not begun, or was there.
LEMMA QueueHeads ==
    ASSUME ReportTypes, NEW w \in Workers, QueueStep(w), NEW v \in Workers, handlers'[v] # <<>>
    PROVE  \/ handlers'[v][1].step = "read"
           \/ /\ handlers[v] # <<>> /\ handlers'[v][1].step = handlers[v][1].step
              /\ handlers'[v][1].job = handlers[v][1].job
<1>0. HandlersTyped /\ JobsTyped
    BY DEF ReportTypes
<1>1. ASSUME NEW j \in DOMAIN reportJobs, TakeUp(w, j)
      PROVE  \/ UNCHANGED handlers
             \/ \E h \in HandlerType :
                   h.step = "read" /\ handlers' = [handlers EXCEPT ![w] = Append(@, h)]
  <2>1. j \in Nat \ {0} /\ TakenUp(reportJobs[j]).retries \in Nat
    BY <1>0, <1>1, JobForms DEF ReportJob, JobsTyped, TakeUp
  <2>2. PICK h \in HandlerType :
           h = [job |-> j, attempt |-> TakenUp(reportJobs[j]).retries, audit |-> 0,
                step |-> "read", abandoned |-> FALSE]
    BY <2>1 DEF HandlerType
  <2> QED
    BY <1>1, <2>2 DEF TakeUp
<1>2. ASSUME NEW h \in HandlerType, h.step = "read", handlers' = [handlers EXCEPT ![w] = Append(@, h)]
      PROVE  handlers'[v][1].step = "read" \/ (handlers[v] # <<>> /\ handlers'[v][1] = handlers[v][1])
    BY <1>0, <1>2, ChainGrows
<1>3. CASE SettleReport(w)
  <2>1. CASE v = w
    <3>1. PICK s \in Seq(HandlerType) : s = handlers'[v] /\ s # <<>>
      BY <1>0, <1>3, ChainShrinks DEF SettleReport, At
    <3>2. 1 \in DOMAIN s
      BY <3>1
    <3> QED
      BY <1>0, <1>3, <2>1, <3>1, <3>2, ChainShrinks DEF SettleReport, At, HandlersTyped
  <2> QED
    BY <1>0, <1>3, <2>1, ChainShrinks DEF SettleReport, At
<1>4. CASE StopWorker(w)
  <2>1. v # w /\ handlers'[v] = handlers[v]
    BY <1>0, <1>4 DEF StopWorker, HandlersTyped
  <2> QED
    BY <2>1
<1>5. ASSUME NEW i \in DOMAIN handlers[w], ExpireReport(w, i)
      PROVE  /\ handlers[v] # <<>> /\ handlers'[v][1].step = handlers[v][1].step
             /\ handlers'[v][1].job = handlers[v][1].job
  <2>1. /\ handlers' \in [Workers -> Seq(HandlerType)]
        /\ DOMAIN handlers'[v] = DOMAIN handlers[v]
        /\ \A k \in DOMAIN handlers[v] :
              /\ handlers'[v][k].job = handlers[v][k].job
              /\ handlers'[v][k].step = handlers[v][k].step
    BY <1>0, <1>5, Abandons DEF ExpireReport
  <2>2. PICK s \in Seq(HandlerType), t \in Seq(HandlerType) :
           s = handlers[v] /\ t = handlers'[v] /\ t # <<>>
    BY <1>0, <2>1 DEF HandlersTyped
  <2>3. 1 \in DOMAIN t /\ DOMAIN s = DOMAIN t
    BY <2>1, <2>2
  <2>4. s # <<>>
    BY <2>3
  <2> QED
    BY <2>1, <2>2, <2>3, <2>4
<1> QED
    BY <1>1, <1>2, <1>3, <1>4, <1>5 DEF QueueStep

\* A handler that read a pending row files only its own.
LEMMA OwnerStays ==
    ASSUME ReportTypes, ReportTypes', Owned, ReportsNext
    PROVE  Owned'
<1> SUFFICES ASSUME Solitary', reportSpent'["repeat"] = 0
             PROVE  /\ review' # NoReview => review'.to # "pending_review"
                    /\ \A v \in Workers : At(v, "upsert")' /\ report'.status = "pending_review" =>
                          report'.job = Handling(v)'.job
    BY DEF Owned
<1>0. HandlersTyped /\ HandlersTyped' /\ UNCHANGED reportScene
    BY NextIs DEF ReportTypes
<1>1. /\ review # NoReview => review.to # "pending_review"
      /\ \A v \in Workers : At(v, "upsert") /\ report.status = "pending_review" =>
            report.job = Handling(v).job
  <2>1. reportSpent["repeat"] = 0
    BY SpentGrows DEF ReportSpending
  <2> QED
    BY <1>0, <2>1 DEF Owned, Solitary
<1>2. ASSUME NEW w \in Workers, w \in reportScene.workers, NEW v \in Workers, v # w
      PROVE  handlers[v] = <<>> /\ handlers'[v] = <<>>
    BY <1>0, <1>2 DEF HandlersTyped, Solitary
<1>3. ASSUME NEW w \in Workers, w \in reportScene.workers, HandlerStep(w)
      PROVE  /\ UNCHANGED review
             /\ At(w, "upsert")' /\ report'.status = "pending_review" => report'.job = Handling(w)'.job
  <2>1. PICK h \in HandlerType : Passed(w, h) /\ handlers[w] # <<>>
    BY <1>3, StepsOn
  <2>2. UNCHANGED review /\ HeadTo(w, h) /\ h.job = Handling(w).job
    BY <2>1 DEF Passed
  <2>3. handlers'[w][1] = h
    BY <1>0, <2>1, <2>2, HeadMoves
  <2>4. h.step = "upsert" => ReadReport(w) /\ ~Filed(w)
    BY <2>1 DEF Passed
  <2>5. h.step = "upsert" /\ report'.status = "pending_review" => report'.job = h.job
    BY <2>2, <2>4 DEF ReadReport, Filed, NoReport
  <2> QED
    BY <2>2, <2>3, <2>5 DEF At, Handling
<1>4. ASSUME NEW w \in Workers, w \in reportScene.workers, QueueStep(w), NEW v \in Workers,
             At(v, "upsert")'
      PROVE  UNCHANGED <<report, review>> /\ At(v, "upsert") /\ Handling(v)'.job = Handling(v).job
  <2>1. UNCHANGED <<report, review>>
    BY <1>4 DEF QueueStep, TakeUp, SettleReport, StopWorker, ExpireReport
  <2>2. handlers'[v] # <<>> /\ handlers'[v][1].step = "upsert"
    BY <1>4 DEF At
  <2> QED
    BY <1>4, <2>1, <2>2, QueueHeads DEF At, Handling
<1>5. CASE OutsideStep
  <2>1. UNCHANGED handlers
    BY <1>5 DEF OutsideStep, SendReplayReport, SendReport, GiveBackLost, RequestReview, CheckReview,
       WriteReview
  <2>2. CASE UNCHANGED <<report, review>>
    BY <1>1, <2>1, <2>2 DEF At, Handling
  <2>3. ASSUME NEW to \in ReportStatuses, RequestReview(to)
        PROVE  UNCHANGED report /\ review'.to # "pending_review"
    <3>1. to # "pending_review"
      BY <2>3, Spends DEF RequestReview, ReportTypes, ReportSpending
    <3> QED
      BY <2>3, <3>1 DEF RequestReview
  <2>4. CASE CheckReview
    <3>1. review \in ReviewType /\ review # NoReview
      BY <2>4 DEF CheckReview, ReportTypes, NoReview, ReviewType
    <3> QED
      BY <1>1, <2>1, <2>4, <3>1 DEF CheckReview, ReviewType, At, Handling
  <2>5. CASE WriteReview
    <3>1. review \in ReviewType /\ review # NoReview
      BY <2>5 DEF WriteReview, ReportTypes, NoReview, ReviewType
    <3>2. report \in Row
      BY <3>1 DEF ReportTypes, RowTyped
    <3>3. report'.status # "pending_review" /\ review' = NoReview
      BY <1>1, <2>5, <3>1, <3>2 DEF WriteReview, Row
    <3> QED
      BY <3>3
  <2> QED
    BY <1>1, <1>5, <2>1, <2>2, <2>3, <2>4, <2>5
       DEF OutsideStep, SendReplayReport, SendReport, GiveBackLost, At, Handling
<1>6. ASSUME NEW w \in Workers, w \in reportScene.workers, QueueStep(w) PROVE UNCHANGED <<report, review>>
  BY <1>6 DEF QueueStep, TakeUp, SettleReport, StopWorker, ExpireReport
<1> QED
  <2>1. ASSUME NEW w \in Workers, w \in reportScene.workers, HandlerStep(w),
               NEW v \in Workers, At(v, "upsert")', report'.status = "pending_review"
        PROVE  report'.job = Handling(v)'.job
    <3>1. v = w
      BY <1>2, <2>1 DEF At
    <3> QED
      BY <1>3, <2>1, <3>1
  <2> QED
    BY <1>1, <1>3, <1>4, <1>5, <1>6, <2>1, NextIs

-----------------------------------------------------------------------------
\* What was given up is flagged

\* The last attempt flags the row before its job is given up.
LEMMA FlagStays ==
    ASSUME Threshold <= SenderRetries + 1, ReportTypes, ReportTypes', Flagged, ReportsNext
    PROVE  Flagged'
<1> SUFFICES ASSUME Solitary', Calm'
             PROVE  /\ review' = NoReview
                    /\ OneAtWork'
                    /\ \A v \in Workers : Flagging(v)'
                    /\ GivenUp' => report'.status = "needs_attention"
    BY DEF Flagged
<1>0. HandlersTyped /\ HandlersTyped' /\ JobsTyped /\ RowTyped /\ RowTyped' /\ UNCHANGED reportScene
    BY NextIs DEF ReportTypes
<1>1. /\ review = NoReview
      /\ OneAtWork
      /\ \A v \in Workers : Flagging(v)
      /\ GivenUp => report.status = "needs_attention"
  <2>1. Calm
    BY SpentGrows DEF Calm, ReportSpending
  <2> QED
    BY <1>0, <2>1 DEF Flagged, Solitary
<1>2. ASSUME NEW w \in Workers, w \in reportScene.workers, NEW v \in Workers, v # w
      PROVE  handlers[v] = <<>> /\ handlers'[v] = <<>>
    BY <1>0, <1>2 DEF HandlersTyped, Solitary
<1>3. ASSUME NEW what \in {"review", "repeat", "outside", "expiry", "crash"}, SpendOn(what)
      PROVE  FALSE
    BY <1>3, Spends DEF Calm, ReportTypes, ReportSpending
<1>4. ASSUME NEW w \in Workers, w \in reportScene.workers, HandlerStep(w)
      PROVE  /\ review' = NoReview
             /\ OneAtWork'
             /\ \A v \in Workers : Flagging(v)'
             /\ GivenUp' => report'.status = "needs_attention"
  <2>1. PICK h \in HandlerType : Passed(w, h) /\ handlers[w] # <<>>
    BY <1>4, StepsOn
  <2>2. /\ review' = NoReview /\ UNCHANGED reportJobs /\ HeadTo(w, h)
        /\ h.job = Handling(w).job /\ h.attempt = Handling(w).attempt
        /\ h.abandoned = Handling(w).abandoned
    BY <1>1, <2>1 DEF Passed
  <2>3. /\ handlers'[w] # <<>> /\ handlers'[w][1] = h
        /\ \A v \in Workers : DOMAIN handlers'[v] = DOMAIN handlers[v]
        /\ \A v \in Workers : v # w => handlers'[v] = handlers[v]
    BY <1>0, <2>1, <2>2, HeadMoves
  <2>4. OneAtWork'
    <3>1. ASSUME NEW v \in Workers
          PROVE  /\ \A i \in DOMAIN handlers'[v] : i = 1
                 /\ handlers'[v] # <<>> =>
                       /\ ~Handling(v)'.abandoned
                       /\ reportJobs'[Handling(v)'.job].state = "active"
                       /\ Handling(v)'.attempt = reportJobs'[Handling(v)'.job].retries
      <4>1. \A i \in DOMAIN handlers'[v] : i = 1
        BY <1>1, <2>3 DEF OneAtWork
      <4>2. CASE v = w
        BY <1>1, <2>1, <2>2, <2>3, <4>1, <4>2 DEF OneAtWork, Handling
      <4>3. CASE v # w
        BY <1>2, <1>4, <4>1, <4>3
      <4> QED
        BY <4>2, <4>3
    <3>2. ASSUME NEW j \in DOMAIN reportJobs', reportJobs'[j].state = "active"
          PROVE  \E v \in Workers : handlers'[v] # <<>> /\ Handling(v)'.job = j
      <4>1. PICK v \in Workers : handlers[v] # <<>> /\ Handling(v).job = j
        BY <1>1, <2>2, <3>2 DEF OneAtWork
      <4>2. v = w
        BY <1>2, <1>4, <4>1
      <4> QED
        BY <2>2, <2>3, <4>1, <4>2 DEF Handling
    <3> QED
      BY <3>1, <3>2 DEF OneAtWork
  <2>5. /\ \A step : At(w, step)' <=> h.step = step
        /\ Handling(w)' = h /\ FailedStatus(w)' = FailedStatus(w)
        /\ \A v \in Workers, step \in Steps : v # w => ~At(v, step)'
    BY <1>2, <1>4, <2>2, <2>3 DEF At, Handling, FailedStatus
  <2>6. Flagging(w)'
    <3> SUFFICES
           /\ \A step \in {"mail", "check", "write"} : h.step = step => report'.job = h.job
           /\ h.step = "flagging" /\ FailedStatus(w) = "pending_review" =>
                  report'.status = "pending_review"
           /\ h.step = "throw" /\ h.attempt + 1 >= Threshold =>
                  report' = NoReport \/ report'.status = "needs_attention"
      BY <2>5 DEF Flagging
    <3>0. Flagging(w)
      BY <1>1
    <3>1. CASE ReadReport(w) /\ h.step \in {"done", "upsert"}
      BY <3>1
    <3>2. CASE UpsertReport(w) /\ h.step = "mail"
      BY <2>2, <3>2 DEF UpsertReport
    <3>3. CASE Notify(w) /\ h.step = "check"
      BY <2>2, <3>0, <3>3 DEF Notify, Flagging
    <3>4. CASE CheckReport(w) /\ At(w, "check") /\ h.step \in {"write", "flag"}
      BY <2>2, <3>0, <3>4 DEF CheckReport, Flagging
    <3>5. CASE /\ CheckReport(w) /\ At(w, "flag")
               /\ h.step = IF Allowed(report.status, FailedStatus(w)) THEN "flagging" ELSE "throw"
      <4>1. UNCHANGED report
        BY <3>5 DEF CheckReport
      <4>2. Allowed(report.status, "pending_review") => report.status = "pending_review"
        BY DEF Allowed, ReportGraph
      <4>3. ~Allowed(report.status, "needs_attention") => report = NoReport
        BY <1>0 DEF Allowed, ReportGraph, RowTyped, Row, ReportStatuses
      <4>4. h.attempt + 1 >= Threshold => FailedStatus(w) = "needs_attention"
        BY <2>2 DEF FailedStatus
      <4> QED
        BY <3>5, <4>1, <4>2, <4>3, <4>4
    <3>6. CASE WriteReport(w) /\ At(w, "write") /\ h.step = "done"
      BY <3>6
    <3>7. CASE WriteReport(w) /\ At(w, "flagging") /\ h.step = "throw"
      <4>1. report \in Row
        BY <1>0, <3>7 DEF RowTyped
      <4>2. report' = [report EXCEPT !.status = FailedStatus(w), !.attempts = Handling(w).attempt + 1]
        BY <3>7 DEF WriteReport, At
      <4>3. report'.status = FailedStatus(w)
        BY <4>1, <4>2 DEF Row
      <4> QED
        BY <2>2, <3>7, <4>3 DEF FailedStatus
    <3>8. CASE LoseCall(w) /\ h.step = "flag"
      BY <3>8
    <3>9. CASE SpendOn("outside")
      BY <1>3, <3>9
    <3> QED
      BY <2>1, <3>1, <3>2, <3>3, <3>4, <3>5, <3>6, <3>7, <3>8, <3>9 DEF Passed
  <2>7. \A v \in Workers : Flagging(v)'
    BY <2>5, <2>6 DEF Flagging, Steps
  <2>8. reportJobs'[Handling(w).job].state # "failed"
    BY <1>1, <2>1, <2>2 DEF OneAtWork
  <2>9. GivenUp' => report'.status = "needs_attention"
    <3> SUFFICES ASSUME GivenUp' PROVE report'.status = "needs_attention"
      OBVIOUS
    <3>1. CASE UNCHANGED report
      BY <1>1, <2>2, <3>1 DEF GivenUp
    <3>2. CASE UpsertReport(w)
      BY <2>8, <3>2 DEF UpsertReport, GivenUp
    <3>3. CASE WriteReport(w)
      <4>1. report \in Row /\ report # NoReport
        BY <1>0, <3>3 DEF RowTyped, WriteReport
      <4>2. CASE /\ At(w, "write")
                 /\ report' = [report EXCEPT !.status = "pending_review",
                           !.attempts = Handling(w).attempt, !.audit = Handling(w).audit]
        <5>1. report.job = Handling(w).job
          BY <1>1, <4>2 DEF Flagging
        <5>2. report'.job = report.job
          BY <4>1, <4>2 DEF Row
        <5> QED
          BY <2>8, <5>1, <5>2 DEF GivenUp
      <4>3. CASE /\ At(w, "flagging")
                 /\ report' = [report EXCEPT !.status = FailedStatus(w), !.attempts = Handling(w).attempt + 1]
        <5>1. report'.job = report.job /\ report'.status = FailedStatus(w)
          BY <4>1, <4>3 DEF Row
        <5>2. report.status = "needs_attention"
          BY <1>1, <2>2, <4>1, <5>1 DEF GivenUp
        <5>3. FailedStatus(w) # "pending_review"
          BY <1>1, <4>3, <5>2 DEF Flagging
        <5> QED
          BY <5>1, <5>3 DEF FailedStatus
      <4> QED
        BY <3>3, <4>2, <4>3 DEF WriteReport
    <3> QED
      BY <1>4, <3>1, <3>2, <3>3 DEF HandlerStep, ReadReport, Notify, CheckReport, LoseCall
  <2> QED
    BY <2>2, <2>4, <2>7, <2>9
<1>5. ASSUME NEW w \in Workers, w \in reportScene.workers, NEW j \in DOMAIN reportJobs, TakeUp(w, j)
      PROVE  /\ review' = NoReview
             /\ OneAtWork'
             /\ \A v \in Workers : Flagging(v)'
             /\ GivenUp' => report'.status = "needs_attention"
  <2>1. UNCHANGED <<report, review>> /\ reportJobs[j].state \in {"created", "retry"}
    BY <1>5 DEF TakeUp
  <2>2. handlers[w] = <<>>
    <3>1. handlers[w] # <<>> => 1 \in DOMAIN handlers[w] /\ ~handlers[w][1].abandoned
      BY <1>0, <1>1, HandlerIs DEF OneAtWork, Handling
    <3> QED
      BY <1>5, <3>1 DEF TakeUp
  <2>3. \A i \in DOMAIN reportJobs : reportJobs[i].state # "active"
    BY <1>1, <1>2, <1>5, <2>2 DEF OneAtWork
  <2>4. CASE /\ reportJobs[j].readable
             /\ reportJobs' = [reportJobs EXCEPT ![j] = TakenUp(@)]
             /\ handlers' = [handlers EXCEPT ![w] = Append(@,
                   [job |-> j, attempt |-> TakenUp(reportJobs[j]).retries, audit |-> 0,
                    step |-> "read", abandoned |-> FALSE])]
    <3>1. PICK job \in ReportJob :
              /\ job = TakenUp(reportJobs[j]) /\ job.readable = reportJobs[j].readable
              /\ job.retries <= SenderRetries /\ job.state = "active"
      BY <1>0, <2>1, JobForms
    <3>2. /\ DOMAIN reportJobs' = DOMAIN reportJobs /\ reportJobs'[j] = job
          /\ \A i \in DOMAIN reportJobs : i # j => reportJobs'[i] = reportJobs[i]
      BY <1>0, <2>4, <3>1, JobsMove
    <3>3. j \in Nat \ {0} /\ job.retries \in Nat
      BY <1>0 DEF ReportJob, JobsTyped
    <3>4. PICK h \in HandlerType :
             h = [job |-> j, attempt |-> job.retries, audit |-> 0, step |-> "read", abandoned |-> FALSE]
      BY <3>3 DEF HandlerType
    <3>5. handlers' = [handlers EXCEPT ![w] = Append(@, h)]
      BY <2>4, <3>1, <3>4
    <3>6. handlers'[w] # <<>> /\ DOMAIN handlers'[w] = {1} /\ handlers'[w][1] = h
      BY <1>0, <2>2, <3>5, ChainGrows
    <3>7. OneAtWork'
      <4>1. ASSUME NEW v \in Workers
            PROVE  /\ \A i \in DOMAIN handlers'[v] : i = 1
                   /\ handlers'[v] # <<>> =>
                         /\ ~Handling(v)'.abandoned
                         /\ reportJobs'[Handling(v)'.job].state = "active"
                         /\ Handling(v)'.attempt = reportJobs'[Handling(v)'.job].retries
        <5>1. CASE v = w
          BY <3>1, <3>2, <3>4, <3>6, <5>1 DEF Handling
        <5>2. CASE v # w
          BY <1>2, <1>5, <5>2
        <5> QED
          BY <5>1, <5>2
      <4>2. ASSUME NEW i \in DOMAIN reportJobs', reportJobs'[i].state = "active"
            PROVE  \E v \in Workers : handlers'[v] # <<>> /\ Handling(v)'.job = i
        BY <2>3, <3>2, <3>4, <3>6, <4>2 DEF Handling
      <4> QED
        BY <4>1, <4>2 DEF OneAtWork
    <3>8. \A v \in Workers : Flagging(v)'
      <4>1. handlers'[w][1].step = "read"
        BY <3>4, <3>6
      <4>2. \A v \in Workers : \A step \in Steps : At(v, step)' => step = "read"
        BY <1>2, <1>5, <4>1 DEF At
      <4> QED
        BY <4>2 DEF Flagging, Steps
    <3>9. GivenUp' => GivenUp
      BY <1>0, <2>1, <3>1, <3>2 DEF GivenUp, RowTyped
    <3> QED
      BY <1>1, <2>1, <3>7, <3>8, <3>9
  <2>5. CASE /\ ~reportJobs[j].readable /\ UNCHANGED handlers
             /\ reportJobs' = [reportJobs EXCEPT ![j] = GivenBack(TakenUp(@))]
    <3>1. PICK job \in ReportJob :
              /\ job = GivenBack(TakenUp(reportJobs[j])) /\ job.readable = reportJobs[j].readable
              /\ job.retries <= SenderRetries /\ job.state \in {"retry", "failed"}
              /\ job.state = "retry" => job.retries < SenderRetries
      BY <1>0, <2>1, JobForms
    <3>2. /\ DOMAIN reportJobs' = DOMAIN reportJobs /\ reportJobs'[j] = job
          /\ \A i \in DOMAIN reportJobs : i # j => reportJobs'[i] = reportJobs[i]
      BY <1>0, <2>5, <3>1, JobsMove
    <3>3. \A v \in Workers : handlers'[v] = <<>>
      BY <1>2, <1>5, <2>2, <2>5
    <3>4. \A i \in DOMAIN reportJobs' : reportJobs'[i].state # "active"
      BY <2>3, <3>1, <3>2
    <3>5. OneAtWork'
      <4>1. \A v \in Workers : \A i \in DOMAIN handlers'[v] : i = 1
        BY <1>1, <2>5 DEF OneAtWork
      <4> QED
        BY <3>3, <3>4, <4>1 DEF OneAtWork
    <3>6. \A v \in Workers : Flagging(v)'
      BY <3>3 DEF Flagging, At
    <3>7. GivenUp' => GivenUp
      BY <1>0, <2>1, <2>5, <3>2 DEF GivenUp, RowTyped
    <3> QED
      BY <1>1, <2>1, <3>5, <3>6, <3>7
  <2> QED
    BY <1>5, <2>4, <2>5 DEF TakeUp
<1>6. ASSUME NEW w \in Workers, w \in reportScene.workers, SettleReport(w)
      PROVE  /\ review' = NoReview
             /\ OneAtWork'
             /\ \A v \in Workers : Flagging(v)'
             /\ GivenUp' => report'.status = "needs_attention"
  <2>1. /\ UNCHANGED <<report, review>> /\ handlers[w] # <<>>
        /\ handlers' = [handlers EXCEPT ![w] = Tail(@)]
    BY <1>6 DEF SettleReport, At
  <2>2. PICK j \in DOMAIN reportJobs :
           /\ j = Handling(w).job /\ ~Handling(w).abandoned
           /\ Handling(w).attempt = reportJobs[j].retries
    BY <1>0, <1>1, <2>1, HandlerIs DEF OneAtWork
  <2>3. PICK job \in ReportJob :
           /\ reportJobs' = [reportJobs EXCEPT ![j] = job]
           /\ job.readable = reportJobs[j].readable /\ job.retries <= SenderRetries
           /\ job.state = "retry" => job.retries < SenderRetries
           /\ job.state # "active"
           /\ job.state = "failed" => At(w, "throw") /\ reportJobs[j].retries = SenderRetries
    <3>1. CASE At(w, "done")
      <4>1. [reportJobs[j] EXCEPT !.state = "completed"] \in ReportJob
        BY <1>0, JobForms DEF ReportJob
      <4>2. PICK job \in ReportJob :
               /\ job = [reportJobs[j] EXCEPT !.state = "completed"] /\ job.state = "completed"
               /\ job.readable = reportJobs[j].readable /\ job.retries = reportJobs[j].retries
        BY <1>0, <4>1, JobForms DEF ReportJob
      <4>3. reportJobs' = [reportJobs EXCEPT ![j] = job]
        BY <1>6, <2>2, <3>1, <4>2 DEF SettleReport
      <4> QED
        BY <1>0, <4>2, <4>3 DEF JobsTyped
    <3>2. CASE ~At(w, "done")
      <4>1. reportJobs' = [reportJobs EXCEPT ![j] = GivenBack(@)] /\ At(w, "throw")
        BY <1>6, <2>2, <3>2 DEF SettleReport
      <4> QED
        BY <1>0, <4>1, JobForms
    <3> QED
      BY <3>1, <3>2
  <2>4. /\ DOMAIN reportJobs' = DOMAIN reportJobs /\ reportJobs'[j] = job
        /\ \A i \in DOMAIN reportJobs : i # j => reportJobs'[i] = reportJobs[i]
    BY <1>0, <2>3, JobsMove
  <2>5. \A v \in Workers : handlers'[v] = <<>>
    <3>1. handlers'[w] = <<>>
      BY <1>0, <1>1, <2>1, ChainShrinks DEF OneAtWork
    <3> QED
      BY <1>2, <1>6, <3>1
  <2>6. \A i \in DOMAIN reportJobs' : reportJobs'[i].state # "active"
    <3>1. \A i \in DOMAIN reportJobs : reportJobs[i].state = "active" => i = j
      BY <1>1, <1>2, <1>6, <2>2 DEF OneAtWork
    <3> QED
      BY <2>3, <2>4, <3>1
  <2>7. OneAtWork'
    <3>1. ASSUME NEW v \in Workers, NEW i \in DOMAIN handlers'[v] PROVE FALSE
      BY <2>5, <3>1
    <3> QED
      BY <2>5, <2>6, <3>1 DEF OneAtWork
  <2>8. \A v \in Workers : Flagging(v)'
    BY <2>5 DEF Flagging, At
  <2>9. GivenUp' => report'.status = "needs_attention"
    <3> SUFFICES ASSUME GivenUp' PROVE report.status = "needs_attention"
      BY <2>1
    <3>1. report.job \in DOMAIN reportJobs
      BY <1>0, <2>1 DEF RowTyped, GivenUp
    <3>2. CASE report.job = j
      <4>1. At(w, "throw") /\ Handling(w).attempt = SenderRetries
        BY <2>1, <2>2, <2>3, <2>4, <3>2 DEF GivenUp
      <4>2. Handling(w).attempt + 1 >= Threshold
        BY <4>1, ReportsAssumption
      <4> QED
        BY <1>1, <2>1, <4>1, <4>2 DEF Flagging, GivenUp
    <3>3. CASE report.job # j
      BY <1>1, <2>1, <2>4, <3>1, <3>3 DEF GivenUp
    <3> QED
      BY <3>2, <3>3
  <2> QED
    BY <1>1, <2>1, <2>7, <2>8, <2>9
<1>7. ASSUME NEW w \in Workers, w \in reportScene.workers, QueueStep(w)
      PROVE  /\ review' = NoReview
             /\ OneAtWork'
             /\ \A v \in Workers : Flagging(v)'
             /\ GivenUp' => report'.status = "needs_attention"
  <2>1. ~StopWorker(w) /\ ~(\E i \in DOMAIN handlers[w] : ExpireReport(w, i))
    BY <1>3 DEF StopWorker, ExpireReport
  <2> QED
    BY <1>5, <1>6, <1>7, <2>1 DEF QueueStep
<1>8. CASE OutsideStep
  <2>1. CASE SendReplayReport \/ SendReport
    <3>1. /\ UNCHANGED <<report, review, handlers>> /\ DOMAIN reportJobs \subseteq DOMAIN reportJobs'
          /\ \A i \in DOMAIN reportJobs : reportJobs'[i] = reportJobs[i]
          /\ \A i \in DOMAIN reportJobs' : i \notin DOMAIN reportJobs => reportJobs'[i].state = "created"
      BY <1>0, <2>1, JobsGrow DEF SendReplayReport, SendReport
    <3>2. \A v \in Workers : handlers[v] # <<>> => Handling(v).job \in DOMAIN reportJobs
      BY <1>0, HandlerIs
    <3>3. OneAtWork'
      BY <1>1, <3>1, <3>2 DEF OneAtWork, Handling
    <3>4. \A v \in Workers : Flagging(v)'
      BY <1>1, <3>1 DEF Flagging, At, Handling, FailedStatus
    <3>5. GivenUp' => GivenUp
      BY <1>0, <3>1 DEF GivenUp, RowTyped
    <3> QED
      BY <1>1, <3>1, <3>3, <3>4, <3>5
  <2>2. ASSUME NEW j \in DOMAIN reportJobs, GiveBackLost(j) PROVE FALSE
    <3>1. PICK v \in Workers : handlers[v] # <<>> /\ Handling(v).job = j
      BY <1>1, <2>2 DEF GiveBackLost, OneAtWork
    <3>2. 1 \in DOMAIN handlers[v] /\ ~Handling(v).abandoned
      BY <1>0, <1>1, <3>1, HandlerIs DEF OneAtWork
    <3> QED
      BY <2>2, <3>1, <3>2 DEF GiveBackLost, Handling
  <2>3. ~(\E to \in ReportStatuses : RequestReview(to))
    BY <1>3 DEF RequestReview
  <2>4. ~CheckReview /\ ~WriteReview
    BY <1>1 DEF CheckReview, WriteReview, NoReview
  <2> QED
    BY <1>8, <2>1, <2>2, <2>3, <2>4 DEF OutsideStep
<1> QED
  BY <1>4, <1>7, <1>8, NextIs

-----------------------------------------------------------------------------
\* What holds of every configuration, and what needs enough attempts.
LedgerInv == ReportTypes /\ Audited /\ Owned
ReportInv == LedgerInv /\ Flagged

LEMMA ReportInit == ReportsInit => ReportInv
<1> SUFFICES ASSUME ReportsInit PROVE ReportInv
    OBVIOUS
<1> USE DEF ReportsInit
<1>1. JobsTyped
    BY DEF JobsTyped
<1>2. /\ \A w \in Workers : handlers[w] = <<>> /\ DOMAIN handlers[w] = {}
      /\ handlers \in [Workers -> Seq(HandlerType)]
    OBVIOUS
<1>3. ReportTypes
    BY <1>1, <1>2, ReportsAssumption
       DEF ReportTypes, HandlersTyped, RowTyped, At, NoReview, ReportSpending
<1>4. Audited
    BY <1>2 DEF Audited, NoReport
<1>5. Owned
    BY <1>2 DEF Owned, At
<1>6. Flagged
    BY <1>2 DEF Flagged, OneAtWork, Flagging, At, GivenUp
<1> QED
    BY <1>3, <1>4, <1>5, <1>6 DEF ReportInv, LedgerInv

LEMMA ReportsIdle ==
    ASSUME UNCHANGED reportVars
    PROVE  (LedgerInv => LedgerInv') /\ (Flagged => Flagged')
BY DEF reportVars, LedgerInv, ReportTypes, JobsTyped, HandlersTyped, RowTyped, Audited, Owned,
   Flagged, OneAtWork, Flagging, GivenUp, Calm, Solitary, At, Handling, FailedStatus

LEMMA LedgerStays ==
    ASSUME LedgerInv, ReportsNext
    PROVE  LedgerInv'
<1>1. ReportTypes /\ UNCHANGED reportScene
    BY NextIs DEF LedgerInv
<1>2. ReportTypes'
  <2>1. ASSUME NEW w \in Workers, HandlerStep(w) PROVE ReportTypes'
    BY <1>1, <2>1, StepTypes
  <2>2. ASSUME NEW w \in Workers, w \in reportScene.workers, QueueStep(w) PROVE ReportTypes'
    BY <1>1, <2>2, QueueTypes
  <2>3. CASE OutsideStep
    BY <1>1, <2>3, OutsideTypes
  <2> QED
    BY <1>1, <2>1, <2>2, <2>3, NextIs
<1> QED
    BY <1>2, AuditStays, OwnerStays DEF LedgerInv

LEMMA LedgerAlways == ReportsSpec => []LedgerInv
<1>1. LedgerInv /\ [ReportsNext]_reportVars => LedgerInv'
    BY LedgerStays, ReportsIdle
<1>2. ReportsInit => LedgerInv
    BY ReportInit DEF ReportInv
<1> QED
    BY <1>1, <1>2, PTL DEF ReportsSpec

\* Any number of workers, retries, duplicates and reviewers keep the report's
\* row, its jobs, the handlers and a review in their types: a job is tried
\* SenderRetries + 1 times at most, and no handler is of an unreadable job.
THEOREM ReportsTyped == ReportsSpec => []ReportsTypeOK
<1>1. LedgerInv => ReportsTypeOK
    BY DEF LedgerInv, ReportTypes, JobsTyped, HandlersTyped, RowTyped, ReportsTypeOK
<1> QED
    BY <1>1, LedgerAlways, PTL

\* The row of a report never counts a notification that was not sent and, when
\* the queue tries a job at least as often as the threshold asks, with one worker
\* a report that was given up after every attempt failed in the handler's own
\* code is marked for attention (reconciliationProcessor.ts).
THEOREM RowsAreTrue ==
    ASSUME Threshold <= SenderRetries + 1
    PROVE  ReportsSpec => []RowIsTrue
<1>1. ReportInv /\ [ReportsNext]_reportVars => ReportInv'
  <2>1. ReportInv /\ ReportsNext => ReportInv'
    BY LedgerStays, FlagStays DEF ReportInv, LedgerInv
  <2> QED
    BY <2>1, ReportsIdle DEF ReportInv
<1>2. ReportInv => RowIsTrue
    BY DEF ReportInv, LedgerInv, RowIsTrue, AuditIsOfSent, GivenUpIsFlagged, Audited, Flagged,
       GivenUp, Calm
<1> QED
    BY <1>1, <1>2, ReportInit, PTL DEF ReportsSpec

\* With one worker no step hands a pending row over to another job, whatever is
\* lost, tried again or given up, unless a reviewer put it back to pending
\* (reconciliationProcessor.ts, reconciliationAdmin.ts).
THEOREM OwnersAreKept == ReportsSpec => OwnerKept
<1> DEFINE OwnerStep == Solitary /\ report.status = "pending_review" /\ reportSpent["repeat"] = 0
                    => report'.job = report.job
<1>1. ASSUME LedgerInv, [ReportsNext]_reportVars PROVE OwnerStep
  <2>0. ReportTypes /\ RowTyped /\ Owned
    BY <1>1 DEF LedgerInv, ReportTypes
  <2>1. ASSUME UNCHANGED report PROVE OwnerStep
    BY <2>1
  <2>2. ASSUME NEW w \in Workers, HandlerStep(w) PROVE OwnerStep
    <3>1. CASE UpsertReport(w)
      BY <2>0, <3>1 DEF UpsertReport, Owned
    <3>2. CASE WriteReport(w)
      <4>1. report \in Row
        BY <2>0, <3>2 DEF WriteReport, RowTyped
      <4> QED
        BY <3>2, <4>1 DEF WriteReport, Row
    <3> QED
      BY <2>1, <2>2, <3>1, <3>2 DEF HandlerStep, ReadReport, Notify, CheckReport, LoseCall
  <2>3. ASSUME NEW w \in Workers, QueueStep(w) PROVE UNCHANGED report
    BY <2>3 DEF QueueStep, TakeUp, SettleReport, StopWorker, ExpireReport
  <2>4. CASE WriteReview
    <3>1. review # NoReview
      BY <2>4 DEF WriteReview, NoReview
    <3>2. report \in Row
      BY <2>0, <3>1 DEF RowTyped
    <3> QED
      BY <2>4, <3>2 DEF WriteReview, Row
  <2>5. CASE OutsideStep /\ ~WriteReview
    BY <2>1, <2>5 DEF OutsideStep, SendReplayReport, SendReport, GiveBackLost, RequestReview, CheckReview
  <2>6. CASE UNCHANGED reportVars
    BY <2>1, <2>6 DEF reportVars
  <2> QED
    BY <1>1, <2>0, <2>1, <2>2, <2>3, <2>4, <2>5, <2>6, NextIs
<1>2. LedgerInv /\ [ReportsNext]_reportVars => [OwnerStep]_reportVars
    BY <1>1
<1> HIDE DEF OwnerStep
<1>3. ReportsSpec => [][OwnerStep]_reportVars
    BY <1>2, LedgerAlways, PTL DEF ReportsSpec
<1> QED
    BY <1>3 DEF OwnerStep, OwnerKept

-----------------------------------------------------------------------------
(* The developer console                                                     *)

Ended == {"confirmed", "failed"}

ConsoleTypes ==
    /\ page \in {"config", "provider", "abis", "ready", "error"}
    /\ listed \subseteq Contracts
    /\ callsMade \in Seq(CallRecord)
    /\ statusFilter \in StatusFilters

\* A call that is over is shown as ended; an integer comes with its end, and what
\* is still open then was cut off.
EndShown(call) ==
    /\ call.step = "over" <=> call.status \in Ended
    /\ call.integer => call.step = "over"
    /\ call.effect = "open" => call.step \in {"sent", "over"}
    /\ call.effect = "open" /\ call.step = "over" => call.cut

NoIntegers == \A i \in DOMAIN callsMade : ~callsMade[i].integer

Told(call) ==
    /\ call.step # "lost"
    /\ call.status = "confirmed" => call.effect = "done"
    /\ call.status = "failed" /\ call.effect \in {"open", "done"} => call.cut

ConsoleInv ==
    /\ ConsoleTypes
    /\ \A i \in DOMAIN callsMade : EndShown(callsMade[i])
    /\ WritesInOrder
    /\ NoIntegers => \A i \in DOMAIN callsMade : Told(callsMade[i])

LEMMA ConsoleInitially == ConsoleInit => ConsoleInv
BY DEF ConsoleInit, ConsoleInv, ConsoleTypes, StatusFilters, WritesInOrder, NoIntegers

\* What a step has to show of the one call it moves.
LEMMA CallMoves ==
    ASSUME ConsoleInv, NEW i \in DOMAIN callsMade, NEW o \in CallRecord, o = callsMade[i],
           NEW c \in CallRecord, Set(i, c), UNCHANGED <<page, listed, statusFilter>>,
           o.step \notin {"over", "lost"}, c.step \notin {"waiting", "lost"}, c.kind = o.kind,
           EndShown(c), o.step = "waiting" => Turn(i),
           NoIntegers' => Told(c)
    PROVE  ConsoleInv'
<1>0. callsMade \in Seq(CallRecord) /\ DOMAIN callsMade = 1 .. Len(callsMade) /\ Len(callsMade) \in Nat
    BY DEF ConsoleInv, ConsoleTypes
<1>1. /\ callsMade' \in Seq(CallRecord) /\ DOMAIN callsMade' = DOMAIN callsMade
      /\ \A j \in DOMAIN callsMade : callsMade'[j] = IF j = i THEN c ELSE callsMade[j]
    BY <1>0 DEF Set
<1>2. ConsoleTypes'
    BY <1>1 DEF ConsoleInv, ConsoleTypes
<1>3. \A j \in DOMAIN callsMade' : EndShown(callsMade'[j])
    BY <1>1 DEF ConsoleInv
<1>4. WritesInOrder'
  <2> SUFFICES ASSUME NEW h \in DOMAIN callsMade, NEW j \in DOMAIN callsMade, h < j,
                      callsMade'[h].kind = "write", callsMade'[j].kind = "write",
                      callsMade'[j].step \in {"running", "sent", "over"}
               PROVE  /\ callsMade'[h].step \in {"over", "lost"}
                      /\ callsMade'[h].effect = "open" => callsMade'[h].cut
    BY <1>1 DEF WritesInOrder
  <2>0. callsMade[h].kind = "write" /\ callsMade[j].kind = "write"
    BY <1>1
  <2>1. callsMade[h].step \in {"over", "lost"}
    <3>1. CASE j = i /\ o.step = "waiting"
      <4>1. Turn(i) /\ h \in 1 .. i - 1
        BY <1>0, <3>1
      <4> QED
        BY <2>0, <4>1 DEF Turn, EarlierWrites
    <3>2. CASE j # i \/ o.step # "waiting"
      <4>1. callsMade[j].step \in {"running", "sent", "over"}
        BY <1>1, <3>2 DEF CallRecord
      <4> QED
        BY <2>0, <4>1 DEF ConsoleInv, WritesInOrder
    <3> QED
      BY <3>1, <3>2
  <2>2. h # i
    BY <2>1
  <2>3. callsMade[h].effect = "open" => callsMade[h].cut
    BY <2>1 DEF ConsoleInv, EndShown
  <2> QED
    BY <1>1, <2>1, <2>2, <2>3
<1>5. NoIntegers' => \A j \in DOMAIN callsMade' : Told(callsMade'[j])
  <2> SUFFICES ASSUME NoIntegers', NEW j \in DOMAIN callsMade PROVE Told(callsMade'[j])
    BY <1>1
  <2>1. ~o.integer
    BY DEF ConsoleInv, EndShown
  <2>2. NoIntegers
    BY <1>1, <2>1 DEF NoIntegers
  <2>3. Told(callsMade[j])
    BY <2>2 DEF ConsoleInv
  <2> QED
    BY <1>1, <2>3
<1> QED
    BY <1>2, <1>3, <1>4, <1>5 DEF ConsoleInv

\* Drawing the history throws only for an integer in it.
LEMMA ThrowsForInteger ==
    ASSUME NEW made, Unprintable(made)
    PROVE  \E i \in DOMAIN made : made[i].integer
BY DEF Unprintable

LEMMA CallFails ==
    ASSUME ConsoleInv, NEW i \in DOMAIN callsMade, NEW effect \in {"none", "open", "done", "undone"},
           NEW cut \in BOOLEAN, effect \in {"open", "done"} => cut,
           callsMade[i].step \in {"running", "sent"}, FailCall(i, effect, cut),
           UNCHANGED <<page, listed, statusFilter>>
    PROVE  ConsoleInv'
<1>1. PICK o \in CallRecord : o = callsMade[i]
    BY DEF ConsoleInv, ConsoleTypes
<1>2. PICK integer \in BOOLEAN :
        Set(i, [o EXCEPT !.status = "failed", !.step = "over", !.effect = effect,
                         !.cut = cut, !.integer = integer])
    BY <1>1, Zenon DEF FailCall, Details
<1> DEFINE c == [o EXCEPT !.status = "failed", !.step = "over", !.effect = effect,
                          !.cut = cut, !.integer = integer]
<1>3. /\ c \in CallRecord /\ c.kind = o.kind /\ c.step = "over" /\ c.status = "failed"
      /\ c.effect = effect /\ c.cut = cut
    BY DEF CallRecord, CallStatus
<1> HIDE DEF c
<1>4. Set(i, c)
    BY <1>2 DEF c
<1>5. EndShown(c) /\ Told(c)
    BY <1>3 DEF EndShown, Told, Ended
<1> QED
    BY <1>1, <1>3, <1>4, <1>5, CallMoves

LEMMA CallSucceeds ==
    ASSUME ConsoleInv, NEW i \in DOMAIN callsMade, NEW integer \in BOOLEAN,
           callsMade[i].step \in {"running", "sent"}, Succeed(i, integer),
           UNCHANGED <<page, listed, statusFilter>>
    PROVE  ConsoleInv'
<1>1. PICK o \in CallRecord : o = callsMade[i]
    BY DEF ConsoleInv, ConsoleTypes
<1> DEFINE done == [o EXCEPT !.status = "confirmed", !.step = "over", !.effect = "done",
                             !.integer = integer]
<1>2. /\ done \in CallRecord /\ done.kind = o.kind /\ done.step = "over"
      /\ done.status = "confirmed" /\ done.effect = "done" /\ done.integer = integer
    BY DEF CallRecord, CallStatus
<1>3. PICK d \in CallRecord : d = done
    BY <1>2
<1>4. Set(i, IF Unprintable([callsMade EXCEPT ![i] = d]) THEN [d EXCEPT !.status = "failed"] ELSE d)
    BY <1>1, <1>3 DEF Succeed
<1> HIDE DEF done
<1>5. DOMAIN callsMade = 1 .. Len(callsMade)
    BY DEF ConsoleInv, ConsoleTypes
<1>6. CASE ~Unprintable([callsMade EXCEPT ![i] = d])
  <2>1. EndShown(d) /\ Told(d)
    BY <1>2, <1>3 DEF EndShown, Told, Ended
  <2> QED
    BY <1>1, <1>2, <1>3, <1>4, <1>6, <2>1, CallMoves
<1>7. CASE Unprintable([callsMade EXCEPT ![i] = d])
  <2>1. PICK c \in CallRecord : /\ c = [d EXCEPT !.status = "failed"] /\ c.kind = o.kind
                                /\ c.step = "over" /\ c.integer = d.integer
                                /\ c.status = "failed" /\ c.effect = "done"
    <3> DEFINE new == [d EXCEPT !.status = "failed"]
    <3>1. /\ new \in CallRecord /\ new.kind = o.kind /\ new.step = "over"
          /\ new.integer = d.integer /\ new.status = "failed" /\ new.effect = "done"
      BY <1>2, <1>3 DEF CallRecord, CallStatus
    <3> HIDE DEF new
    <3>2. PICK c \in CallRecord : c = new
      BY <3>1
    <3> QED
      BY <3>1, <3>2 DEF new
  <2>2. Set(i, c)
    BY <1>4, <1>7, <2>1
  <2>3. ~NoIntegers'
    <3>1. PICK j \in DOMAIN [callsMade EXCEPT ![i] = d] : [callsMade EXCEPT ![i] = d][j].integer
      BY <1>7, ThrowsForInteger
    <3>2. j \in DOMAIN callsMade /\ callsMade'[j].integer
      BY <1>5, <2>1, <2>2, <3>1 DEF Set
    <3>3. j \in DOMAIN callsMade'
      BY <2>2, <3>2 DEF Set
    <3> QED
      BY <3>2, <3>3 DEF NoIntegers
  <2>4. EndShown(c)
    BY <2>1 DEF EndShown, Ended
  <2> QED
    BY <1>1, <2>1, <2>2, <2>3, <2>4, CallMoves
<1> QED
    BY <1>6, <1>7

\* The chain changes nothing the console knows.
LEMMA CallMined ==
    ASSUME ConsoleInv, NEW i \in DOMAIN callsMade, Mine(i), UNCHANGED <<page, listed, statusFilter>>
    PROVE  ConsoleInv'
<1>0. callsMade \in Seq(CallRecord) /\ DOMAIN callsMade = 1 .. Len(callsMade) /\ Len(callsMade) \in Nat
    BY DEF ConsoleInv, ConsoleTypes
<1>1. PICK o \in CallRecord : o = callsMade[i]
    BY <1>0
<1>2. PICK effect \in {"done", "undone"} : Set(i, [o EXCEPT !.effect = effect])
    BY <1>1 DEF Mine
<1>3. PICK c \in CallRecord : /\ c = [o EXCEPT !.effect = effect]
                              /\ c.kind = o.kind /\ c.step = o.step /\ c.status = o.status
                              /\ c.integer = o.integer /\ c.cut = o.cut /\ c.effect = effect
  <2> DEFINE new == [o EXCEPT !.effect = effect]
  <2>1. /\ new \in CallRecord /\ new.kind = o.kind /\ new.step = o.step /\ new.status = o.status
        /\ new.integer = o.integer /\ new.cut = o.cut /\ new.effect = effect
    BY DEF CallRecord
  <2> HIDE DEF new
  <2>2. PICK c \in CallRecord : c = new
    BY <2>1
  <2> QED
    BY <2>1, <2>2 DEF new
<1>4. /\ callsMade' \in Seq(CallRecord) /\ DOMAIN callsMade' = DOMAIN callsMade
      /\ \A j \in DOMAIN callsMade : callsMade'[j] = IF j = i THEN c ELSE callsMade[j]
    BY <1>0, <1>2, <1>3 DEF Set
<1>5. o.effect = "open"
    BY <1>1 DEF Mine
<1>6. ConsoleTypes'
    BY <1>4 DEF ConsoleInv, ConsoleTypes
<1>7. EndShown(o) /\ EndShown(c)
    BY <1>1, <1>3 DEF ConsoleInv, EndShown
<1>8. \A j \in DOMAIN callsMade' : EndShown(callsMade'[j])
    BY <1>4, <1>7 DEF ConsoleInv
<1>9. WritesInOrder'
  <2> SUFFICES ASSUME NEW h \in DOMAIN callsMade, NEW j \in DOMAIN callsMade, h < j,
                      callsMade'[h].kind = "write", callsMade'[j].kind = "write",
                      callsMade'[j].step \in {"running", "sent", "over"}
               PROVE  /\ callsMade'[h].step \in {"over", "lost"}
                      /\ callsMade'[h].effect = "open" => callsMade'[h].cut
    BY <1>4 DEF WritesInOrder
  <2>1. callsMade[h].kind = "write" /\ callsMade[j].kind = "write"
    BY <1>1, <1>3, <1>4
  <2>2. callsMade[j].step = callsMade'[j].step /\ callsMade[h].step = callsMade'[h].step
    BY <1>1, <1>3, <1>4
  <2>3. callsMade[h].step \in {"over", "lost"}
    BY <2>1, <2>2 DEF ConsoleInv, WritesInOrder
  <2>4. callsMade'[h].effect = "open" => callsMade'[h].cut
    BY <1>4, <1>8, <2>2, <2>3 DEF EndShown
  <2> QED
    BY <2>2, <2>3, <2>4
<1>10. NoIntegers' => \A j \in DOMAIN callsMade' : Told(callsMade'[j])
  <2>1. NoIntegers' => NoIntegers
    BY <1>1, <1>3, <1>4 DEF NoIntegers
  <2>2. Told(o) => Told(c)
    BY <1>3, <1>5 DEF Told
  <2> QED
    BY <1>1, <1>4, <2>1, <2>2 DEF ConsoleInv
<1> QED
    BY <1>6, <1>8, <1>9, <1>10 DEF ConsoleInv

LEMMA CallCarries ==
    ASSUME ConsoleInv, NEW i \in DOMAIN callsMade, Carry(i), UNCHANGED <<page, listed, statusFilter>>
    PROVE  ConsoleInv'
<1>1. PICK o \in CallRecord : o = callsMade[i]
    BY DEF ConsoleInv, ConsoleTypes
<1>2. CASE ExecuteRead(i)
    BY <1>2, CallFails, CallSucceeds DEF ExecuteRead, Details
<1>3. CASE StartWrite(i)
  <2>1. PICK c \in CallRecord : /\ c = [o EXCEPT !.status = "submitted", !.step = "running"]
                                /\ c.kind = o.kind /\ c.step = "running"
                                /\ c.status = "submitted" /\ c.integer = o.integer
                                /\ c.effect = o.effect
    <3> DEFINE new == [o EXCEPT !.status = "submitted", !.step = "running"]
    <3>1. /\ new \in CallRecord /\ new.kind = o.kind /\ new.step = "running"
          /\ new.status = "submitted" /\ new.integer = o.integer
          /\ new.effect = o.effect
      BY DEF CallRecord, CallStatus
    <3> HIDE DEF new
    <3>2. PICK c \in CallRecord : c = new
      BY <3>1
    <3> QED
      BY <3>1, <3>2 DEF new
  <2>2. EndShown(c) /\ Told(c)
    BY <1>1, <1>3, <2>1 DEF EndShown, Told, Ended, ConsoleInv, StartWrite
  <2> QED
    BY <1>1, <1>3, <2>1, <2>2, CallMoves DEF StartWrite
<1>4. CASE Send(i)
  <2>1. CASE FailCall(i, "none", FALSE)
    BY <1>4, <2>1, CallFails DEF Send
  <2>3. CASE \E effect \in {"none", "open"} : FailCall(i, effect, TRUE)
    BY <1>4, <2>3, CallFails DEF Send
  <2>2. CASE Set(i, [o EXCEPT !.step = "sent", !.effect = "open"])
    <3>1. PICK c \in CallRecord : /\ c = [o EXCEPT !.step = "sent", !.effect = "open"]
                                  /\ c.kind = o.kind /\ c.step = "sent"
                                  /\ c.status = o.status /\ c.integer = o.integer
      <4> DEFINE new == [o EXCEPT !.step = "sent", !.effect = "open"]
      <4>1. /\ new \in CallRecord /\ new.kind = o.kind /\ new.step = "sent"
            /\ new.status = o.status /\ new.integer = o.integer
        BY DEF CallRecord
      <4> HIDE DEF new
      <4>2. PICK c \in CallRecord : c = new
        BY <4>1
      <4> QED
        BY <4>1, <4>2 DEF new
    <3>2. o.step = "running" /\ EndShown(o)
      BY <1>1, <1>4 DEF Send, ConsoleInv
    <3>3. EndShown(c) /\ Told(c)
      BY <3>1, <3>2 DEF EndShown, Told, Ended
    <3> QED
      BY <1>1, <2>2, <3>1, <3>2, <3>3, CallMoves
  <2> QED
    BY <1>1, <1>4, <2>1, <2>2, <2>3 DEF Send
<1>5. CASE AwaitReceipt(i)
  <2>1. CASE callsMade[i].effect = "done" /\ Succeed(i, FALSE)
    BY <1>5, <2>1, CallSucceeds DEF AwaitReceipt
  <2>2. CASE FailCall(i, "undone", FALSE)
    BY <1>5, <2>2, CallFails DEF AwaitReceipt
  <2>3. CASE FailCall(i, callsMade[i].effect, TRUE)
    <3>1. callsMade[i].effect \in {"none", "open", "done", "undone"}
      BY <1>1 DEF CallRecord
    <3> QED
      BY <1>5, <2>3, <3>1, CallFails DEF AwaitReceipt
  <2> QED
    BY <1>5, <2>1, <2>2, <2>3 DEF AwaitReceipt
<1>6. CASE Mine(i)
    BY <1>6, CallMined
<1> QED
    BY <1>2, <1>3, <1>4, <1>5, <1>6 DEF Carry

LEMMA CallSubmitted ==
    ASSUME ConsoleInv, NEW kind \in {"read", "write"}, Submit(kind)
    PROVE  ConsoleInv'
<1>0. callsMade \in Seq(CallRecord) /\ DOMAIN callsMade = 1 .. Len(callsMade) /\ Len(callsMade) \in Nat
    BY DEF ConsoleInv, ConsoleTypes
<1>1. PICK n \in CallRecord : n = NewCall(kind)
    BY DEF NewCall, CallRecord, CallStatus
<1>2. /\ n.kind = kind /\ n.status = "validated" /\ n.step = "lost" /\ ~n.integer
      /\ n.effect = "none"
    BY <1>1 DEF NewCall
<1>3. PICK c \in CallRecord :
        /\ callsMade' = Append(callsMade, c) /\ c.kind = kind /\ ~c.integer
        /\ c.effect = "none"
        /\ c.status \notin Ended /\ c.step \notin {"sent", "over"}
        /\ c.step = "running" => kind = "read"
        /\ c.step = "lost" => Unprintable(Append(callsMade, n))
  <2>1. CASE Unprintable(Append(callsMade, n))
    BY <1>1, <1>2, <2>1 DEF Submit, Ended
  <2>2. CASE ~Unprintable(Append(callsMade, n)) /\ kind = "read"
    <3>1. PICK c \in CallRecord : /\ c = [n EXCEPT !.status = "submitted", !.step = "running"]
                                  /\ c.kind = kind /\ ~c.integer
                                  /\ c.status = "submitted" /\ c.step = "running"
                                  /\ c.effect = "none"
      <4> DEFINE new == [n EXCEPT !.status = "submitted", !.step = "running"]
      <4>1. /\ new \in CallRecord /\ new.kind = kind /\ ~new.integer
            /\ new.status = "submitted" /\ new.step = "running" /\ new.effect = "none"
        BY <1>2 DEF CallRecord, CallStatus
      <4> HIDE DEF new
      <4>2. PICK c \in CallRecord : c = new
        BY <4>1
      <4> QED
        BY <4>1, <4>2 DEF new
    <3> QED
      BY <1>1, <2>2, <3>1 DEF Submit, Ended
  <2>3. CASE ~Unprintable(Append(callsMade, n)) /\ kind # "read"
    <3>1. PICK c \in CallRecord : /\ c = [n EXCEPT !.status = "queued", !.step = "waiting"]
                                  /\ c.kind = kind /\ ~c.integer
                                  /\ c.status = "queued" /\ c.step = "waiting"
                                  /\ c.effect = "none"
      <4> DEFINE new == [n EXCEPT !.status = "queued", !.step = "waiting"]
      <4>1. /\ new \in CallRecord /\ new.kind = kind /\ ~new.integer
            /\ new.status = "queued" /\ new.step = "waiting" /\ new.effect = "none"
        BY <1>2 DEF CallRecord, CallStatus
      <4> HIDE DEF new
      <4>2. PICK c \in CallRecord : c = new
        BY <4>1
      <4> QED
        BY <4>1, <4>2 DEF new
    <3> QED
      BY <1>1, <2>3, <3>1 DEF Submit, Ended
  <2> QED
    BY <2>1, <2>2, <2>3
<1>4. /\ callsMade' \in Seq(CallRecord) /\ DOMAIN callsMade' = 1 .. Len(callsMade) + 1
      /\ \A j \in 1 .. Len(callsMade) + 1 :
            callsMade'[j] = IF j \in DOMAIN callsMade THEN callsMade[j] ELSE c
    BY <1>0, <1>3
<1>5. ConsoleTypes'
    BY <1>4 DEF ConsoleInv, ConsoleTypes, Submit
<1>6. \A j \in DOMAIN callsMade' : EndShown(callsMade'[j])
  <2>1. EndShown(c)
    BY <1>3 DEF EndShown
  <2> QED
    BY <1>4, <2>1 DEF ConsoleInv
<1>7. WritesInOrder'
  <2> SUFFICES ASSUME NEW h \in DOMAIN callsMade', NEW j \in DOMAIN callsMade', h < j,
                      callsMade'[h].kind = "write", callsMade'[j].kind = "write",
                      callsMade'[j].step \in {"running", "sent", "over"}
               PROVE  /\ callsMade'[h].step \in {"over", "lost"}
                      /\ callsMade'[h].effect = "open" => callsMade'[h].cut
    BY DEF WritesInOrder
  <2>1. j \in DOMAIN callsMade
    BY <1>3, <1>4
  <2>2. h \in DOMAIN callsMade
    BY <1>0, <1>4, <2>1
  <2>3. callsMade'[h] = callsMade[h] /\ callsMade'[j] = callsMade[j]
    BY <1>4, <2>1, <2>2
  <2> QED
    BY <2>1, <2>2, <2>3 DEF ConsoleInv, WritesInOrder
<1>8. NoIntegers' => \A j \in DOMAIN callsMade' : Told(callsMade'[j])
  <2> SUFFICES ASSUME NoIntegers' PROVE \A j \in DOMAIN callsMade' : Told(callsMade'[j])
    OBVIOUS
  <2>1. \A j \in DOMAIN callsMade : j \in DOMAIN callsMade' /\ callsMade'[j] = callsMade[j]
    BY <1>0, <1>4
  <2>2. NoIntegers
    BY <2>1 DEF NoIntegers
  <2>3. Told(c)
    <3>1. c.step # "lost"
      <4>1. ASSUME Unprintable(Append(callsMade, n)) PROVE FALSE
        <5>1. PICK j \in DOMAIN Append(callsMade, n) : Append(callsMade, n)[j].integer
          BY <4>1, ThrowsForInteger
        <5>2. /\ j \in 1 .. Len(callsMade) + 1
              /\ Append(callsMade, n)[j] = IF j \in DOMAIN callsMade THEN callsMade[j] ELSE n
          BY <1>0, <5>1
        <5> QED
          BY <1>2, <2>2, <5>1, <5>2 DEF NoIntegers
      <4> QED
        BY <1>3, <4>1
    <3> QED
      BY <1>3, <3>1 DEF Told, Ended
  <2> QED
    BY <1>4, <2>2, <2>3 DEF ConsoleInv
<1> QED
    BY <1>5, <1>6, <1>7, <1>8 DEF ConsoleInv

LEMMA ConsoleStep ==
    ASSUME ConsoleInv, [ConsoleNext]_consoleVars
    PROVE  ConsoleInv'
<1>1. ASSUME UNCHANGED callsMade, ConsoleTypes' PROVE ConsoleInv'
    BY <1>1 DEF ConsoleInv, WritesInOrder, NoIntegers
<1>2. CASE UNCHANGED consoleVars
    BY <1>1, <1>2 DEF consoleVars, ConsoleInv, ConsoleTypes
<1>3. CASE LoadConfig \/ CreateProvider \/ BuildContractList
           \/ \E choice \in StatusFilters : ChooseFilter(choice)
    BY <1>1, <1>3 DEF LoadConfig, CreateProvider, BuildContractList, ChooseFilter,
                      ConsoleInv, ConsoleTypes
<1>4. ASSUME NEW kind \in {"read", "write"}, Submit(kind) PROVE ConsoleInv'
    BY <1>4, CallSubmitted
<1>5. CASE CarryOn
    BY <1>5, CallCarries DEF CarryOn
<1> QED
    BY <1>2, <1>3, <1>4, <1>5 DEF ConsoleNext

\* Whatever the node answers and however many calls are made: a write reaches the
\* node only when the writes asked for before it are over, well or not, and none of
\* them is open there but one whose connection failed.  A call shown confirmed took
\* effect, and one shown failed did not and never will, unless its connection
\* failed or the history came to hold an integer, which is when drawing it throws
\* (callExecutor.ts, statusTracker.ts).
THEOREM CallsStayRight == ConsoleSpec => []CallsComeOutRight
<1>1. ConsoleInv => CallsComeOutRight
    BY DEF ConsoleInv, CallsComeOutRight, OutcomeIsTold, NoIntegers, Told
<1> QED
    BY <1>1, ConsoleInitially, ConsoleStep, PTL DEF ConsoleSpec

\* The console's variables keep their types, and the tracker shows an end exactly
\* of the calls that are over.
THEOREM ConsoleTyped == ConsoleSpec => []ConsoleTypeOK
<1>1. ConsoleInv => ConsoleTypeOK
    BY DEF ConsoleInv, ConsoleTypes, EndShown, Ended, ConsoleTypeOK
<1> QED
    BY <1>1, ConsoleInitially, ConsoleStep, PTL DEF ConsoleSpec

-----------------------------------------------------------------------------
(* The development environment: a command remembers what it was asked and    *)
(* what its listings found, and while no listing failed what it found is     *)
(* what there is.                                                            *)

\* What the services of a configuration mount, with the configuration given.
MountsIn(config, names) ==
    UNION {(CHOOSE s \in ToSet(config.services) : s.name = n).mounts : n \in names}

\* The world: a container is of a service, its network and its volumes are there.
DevWorld ==
    /\ devScene \in DevScenarios
    /\ networked \in BOOLEAN /\ taken \in BOOLEAN
    /\ disk \subseteq Volumes /\ data \subseteq Volumes
    /\ containers \subseteq Names(Config.services)
    /\ MountsIn(Config, containers) \subseteq disk
    /\ containers # {} => networked

DevCommands ==
    [name : {"none", "validate", "start", "stop", "reset"}, step : CommandSteps, wipe : BOOLEAN,
     mode : Modes, left : Seq(Volumes), found : SUBSET (Names(Config.services) \cup Volumes \cup {"network"}),
     profiles : SUBSET Keys, asked : SUBSET Volumes, faulty : BOOLEAN, blind : BOOLEAN]

DownSteps == {"down", "list containers", "remove containers", "list volumes", "remove volumes",
              "list networks", "remove networks"}
EmptySteps == {"list volumes", "remove volumes", "list networks", "remove networks", "select"}

Selective(c) == c.name = "reset" /\ c.mode = "selective"

\* What a command is about, by its step: what it may remove is what was asked.
DevAsks(c) ==
    /\ c.step \in {"preflight", "up"} => c.name = "start"
    /\ c.step = "done" => c.name = "validate"
    /\ c.step = "refused" => c.name = "reset" /\ c.asked = {}
    /\ c.blind => c.faulty
    /\ c.step \in DownSteps =>
          /\ c.name \in {"stop", "reset"}
          /\ c.wipe => c.asked = Volumes
          /\ Selective(c) => ~c.wipe /\ c.asked = ToSet(c.left)
          /\ c.wipe \/ Selective(c) \/ c.asked = {}
    /\ c.step \in {"list volumes", "remove volumes"} => c.wipe
    /\ c.step = "select" => c.name = "reset" /\ ~c.wipe /\ ToSet(c.left) \subseteq c.asked

\* What a command that is not blind knows of the world.
DevSees(c) ==
    /\ c.step = "remove containers" => c.found = containers
    /\ c.step \in EmptySteps => containers = {}
    /\ c.step = "remove volumes" => c.found = disk
    /\ c.step \in {"list networks", "remove networks"} /\ c.wipe => disk = {}
    /\ c.step = "remove networks" /\ c.found = {} => ~networked
    /\ c.step = "select" => ~networked

\* What a reset of chosen volumes has not yet come to, and nothing else of what was
\* asked, still has data.
DevLeft(c) == c.step = "select" => \A v \in c.asked : v \in ToSet(c.left) \/ v \notin data

DevCommandOK ==
    /\ command \in DevCommands
    /\ DevAsks(command)
    /\ ~command.blind => DevSees(command)
    /\ DevLeft(command)

DevTold ==
    /\ command.step # "none" => told = NoOutcome
    /\ told.exit \in ExitCodes
    /\ ExitIsTrue

DevInv == DevWorld /\ DevCommandOK /\ DevTold

\* Merging two typed files gives a typed one.
LEMMA MergedTyped ==
    ASSUME NEW base, NEW over, Typed(base), Typed(over)
    PROVE  Typed(MergeObjects(base, over))
<1> DEFINE raw == MergeObjects(base, over)
<1>1. DOMAIN raw = DOMAIN base \cup DOMAIN over
  BY DEF MergeObjects
<1>2. ASSUME NEW key \in DOMAIN raw, key # "resetPolicy"
      PROVE  raw[key] = IF key \in DOMAIN over THEN over[key] ELSE base[key]
  BY <1>2 DEF MergeObjects
<1>3. ASSUME "resetPolicy" \in DOMAIN raw
      PROVE  raw["resetPolicy"] =
               IF "resetPolicy" \in DOMAIN base \cap DOMAIN over
               THEN [j \in DOMAIN base["resetPolicy"] \cup DOMAIN over["resetPolicy"] |->
                        IF j \in DOMAIN over["resetPolicy"] THEN over["resetPolicy"][j]
                        ELSE base["resetPolicy"][j]]
               ELSE IF "resetPolicy" \in DOMAIN over THEN over["resetPolicy"]
                    ELSE base["resetPolicy"]
  BY <1>3 DEF MergeObjects
<1> HIDE DEF raw
<1>4. "services" \in DOMAIN raw =>
          \A i \in DOMAIN raw.services : raw.services[i].mounts \subseteq Volumes
  <2> SUFFICES ASSUME "services" \in DOMAIN raw
               PROVE  \A i \in DOMAIN raw.services : raw.services[i].mounts \subseteq Volumes
    OBVIOUS
  <2>1. raw["services"] = IF "services" \in DOMAIN over THEN over["services"] ELSE base["services"]
    BY <1>2
  <2>2. CASE "services" \in DOMAIN over
    BY <2>1, <2>2 DEF Typed
  <2>3. CASE "services" \notin DOMAIN over
    BY <1>1, <2>1, <2>3 DEF Typed
  <2> QED BY <2>2, <2>3
<1>5. "profiles" \in DOMAIN raw => Names(raw.profiles) \subseteq Keys
  <2> SUFFICES ASSUME "profiles" \in DOMAIN raw
               PROVE  Names(raw.profiles) \subseteq Keys
    OBVIOUS
  <2>1. raw["profiles"] = IF "profiles" \in DOMAIN over THEN over["profiles"] ELSE base["profiles"]
    BY <1>2
  <2>2. CASE "profiles" \in DOMAIN over
    BY <2>1, <2>2 DEF Typed
  <2>3. CASE "profiles" \notin DOMAIN over
    BY <1>1, <2>1, <2>3 DEF Typed
  <2> QED BY <2>2, <2>3
<1>6. ASSUME "resetPolicy" \in DOMAIN raw
      PROVE  /\ "mode" \in DOMAIN raw.resetPolicy => raw.resetPolicy.mode \in Modes
             /\ "selectiveVolumes" \in DOMAIN raw.resetPolicy =>
                   raw.resetPolicy.selectiveVolumes \in Seq(Volumes)
  <2>1. CASE "resetPolicy" \in DOMAIN base \cap DOMAIN over
    <3>1. PICK old : old = base["resetPolicy"]
      OBVIOUS
    <3>2. PICK upd : upd = over["resetPolicy"]
      OBVIOUS
    <3>3. raw["resetPolicy"] = [j \in DOMAIN old \cup DOMAIN upd |->
                                   IF j \in DOMAIN upd THEN upd[j] ELSE old[j]]
      BY <1>3, <1>6, <2>1, <3>1, <3>2
    <3>4. /\ "mode" \in DOMAIN old => old["mode"] \in Modes
          /\ "selectiveVolumes" \in DOMAIN old => old["selectiveVolumes"] \in Seq(Volumes)
      BY <2>1, <3>1 DEF Typed
    <3>5. /\ "mode" \in DOMAIN upd => upd["mode"] \in Modes
          /\ "selectiveVolumes" \in DOMAIN upd => upd["selectiveVolumes"] \in Seq(Volumes)
      BY <2>1, <3>2 DEF Typed
    <3> QED BY <3>3, <3>4, <3>5
  <2>2. CASE "resetPolicy" \in DOMAIN over /\ "resetPolicy" \notin DOMAIN base
    BY <1>3, <1>6, <2>2 DEF Typed
  <2>3. CASE "resetPolicy" \notin DOMAIN over
    BY <1>1, <1>3, <1>6, <2>3 DEF Typed
  <2> QED BY <2>1, <2>2, <2>3
<1> QED BY <1>4, <1>5, <1>6 DEF Typed, raw

\* What the schema makes of a typed file.
LEMMA ParsedTyped ==
    ASSUME NEW raw, Typed(raw)
    PROVE  /\ Names(Parsed(raw).profiles) \subseteq Keys
           /\ Parsed(raw).mode \in Modes
           /\ Parsed(raw).selective \in Seq(Volumes)
           /\ \A i \in DOMAIN Parsed(raw).services :
                 Parsed(raw).services[i].mounts \subseteq Volumes
<1>1. PICK policy : policy = Field(raw, "resetPolicy", <<>>)
  OBVIOUS
<1>2. /\ Parsed(raw).profiles = Field(raw, "profiles", <<>>)
      /\ Parsed(raw).mode = Field(policy, "mode", "preserve")
      /\ Parsed(raw).selective = Field(policy, "selectiveVolumes", <<>>)
      /\ Parsed(raw).services = Field(raw, "services", <<>>)
  BY <1>1 DEF Parsed
<1>3. PICK nothing \in Seq(Volumes) : nothing = <<>> /\ DOMAIN nothing = {}
  <2>1. <<>> \in Seq(Volumes)
    OBVIOUS
  <2>2. DOMAIN <<>> = {}
    OBVIOUS
  <2> QED BY <2>1, <2>2, Zenon
<1>4. Names(Field(raw, "profiles", <<>>)) \subseteq Keys
  <2>1. CASE "profiles" \in DOMAIN raw
    BY <2>1 DEF Field, Typed
  <2>2. CASE "profiles" \notin DOMAIN raw
    <3>1. Field(raw, "profiles", <<>>) = nothing
      BY <1>3, <2>2 DEF Field
    <3>2. Names(nothing) = {}
      BY <1>3 DEF Names
    <3> QED BY <3>1, <3>2
  <2> QED BY <2>1, <2>2
<1>5. /\ "mode" \in DOMAIN policy => policy["mode"] \in Modes
      /\ "selectiveVolumes" \in DOMAIN policy => policy["selectiveVolumes"] \in Seq(Volumes)
  <2>1. CASE "resetPolicy" \in DOMAIN raw
    BY <1>1, <2>1 DEF Field, Typed
  <2>2. CASE "resetPolicy" \notin DOMAIN raw
    BY <1>1, <1>3, <2>2 DEF Field
  <2> QED BY <2>1, <2>2
<1>6. Field(policy, "mode", "preserve") \in Modes
  BY <1>5 DEF Field, Modes
<1>7. Field(policy, "selectiveVolumes", <<>>) \in Seq(Volumes)
  BY <1>5 DEF Field
<1>8. ASSUME NEW i \in DOMAIN Field(raw, "services", <<>>)
      PROVE  Field(raw, "services", <<>>)[i].mounts \subseteq Volumes
  <2>1. CASE "services" \in DOMAIN raw
    BY <1>8, <2>1 DEF Field, Typed
  <2>2. CASE "services" \notin DOMAIN raw
    BY <1>3, <1>8, <2>2 DEF Field
  <2> QED BY <2>1, <2>2
<1>9. Names(Parsed(raw).profiles) \subseteq Keys
  BY <1>2, <1>4
<1> QED BY <1>2, <1>6, <1>7, <1>8, <1>9

LEMMA ConfigTyped ==
    ASSUME devScene \in DevScenarios
    PROVE  /\ Names(Config.profiles) \subseteq Keys
           /\ Config.mode \in Modes
           /\ Config.selective \in Seq(Volumes)
           /\ \A i \in DOMAIN Config.services : Config.services[i].mounts \subseteq Volumes
<1>1. Typed(devScene.base.content) /\ Typed(devScene.over.content)
  BY DevAssumption
<1>2. PICK raw : raw = RawConfig(devScene.base, devScene.over)
  OBVIOUS
<1>3. Typed(raw)
  BY <1>1, <1>2, MergedTyped DEF RawConfig
<1>4. Config = Parsed(raw)
  BY <1>2 DEF Config
<1> QED BY <1>3, <1>4, ParsedTyped

LEMMA MountsGrow ==
    ASSUME NEW config, NEW few, NEW many, few \subseteq many
    PROVE  MountsIn(config, few) \subseteq MountsIn(config, many)
BY DEF MountsIn

LEMMA MountsJoin ==
    ASSUME NEW config, NEW some, NEW others
    PROVE  MountsIn(config, some \cup others)
              = MountsIn(config, some) \cup MountsIn(config, others)
BY DEF MountsIn

LEMMA MountsNothing ==
    ASSUME NEW config, NEW none, none = {}
    PROVE  MountsIn(config, none) = {}
BY DEF MountsIn

LEMMA MountsTyped ==
    ASSUME NEW config, NEW names \in SUBSET Names(config.services),
           \A i \in DOMAIN config.services : config.services[i].mounts \subseteq Volumes
    PROVE  MountsIn(config, names) \subseteq Volumes
<1> SUFFICES ASSUME NEW n \in names
             PROVE  (CHOOSE s \in ToSet(config.services) : s.name = n).mounts \subseteq Volumes
  BY DEF MountsIn
<1>1. PICK i \in DOMAIN config.services : config.services[i].name = n
  BY DEF Names
<1>2. config.services[i] \in ToSet(config.services)
  BY DEF ToSet
<1>3. PICK s : s = CHOOSE x \in ToSet(config.services) : x.name = n
  OBVIOUS
<1>4. s \in ToSet(config.services)
  BY <1>1, <1>2, <1>3
<1>5. PICK j \in DOMAIN config.services : s = config.services[j]
  BY <1>4 DEF ToSet
<1> QED BY <1>3, <1>5

\* Mounted, with the configuration it reads.
LEMMA MountedReads == \A names : Mounted(names) = MountsIn(Config, names)
BY DEF Mounted, MountsIn, Service

LEMMA ActiveNamed ==
    ASSUME NEW profiles
    PROVE  Active(profiles) \subseteq Names(Config.services)
BY DEF Active, Names, ToSet

LEMMA DevFrame ==
    ASSUME devScene' = devScene
    PROVE  Config' = Config /\ LoadConfigResult' = LoadConfigResult /\ DevCommands' = DevCommands
<1>1. Config' = Config
  BY DEF Config
<1> QED BY <1>1 DEF LoadConfigResult, DevCommands

LEMMA IdleTyped == Idle \in DevCommands
BY DEF Idle, DevCommands, CommandSteps, Modes

\* A command that ends leaves nothing to keep.
LEMMA DevIdle ==
    ASSUME command' = Idle
    PROVE  DevCommandOK'
<1>1. Idle \in DevCommands'
  BY DEF Idle, DevCommands, CommandSteps, Modes
<1>2. Idle.step = "none" /\ Idle.blind = FALSE
  BY DEF Idle
<1>3. PICK c : c = Idle
  OBVIOUS
<1>4. DevAsks(c)
  BY <1>2, <1>3 DEF DevAsks, DownSteps
<1>5. /\ command'.step = "none" /\ command'.blind = FALSE
      /\ command' \in DevCommands' /\ DevAsks(command')
  BY <1>1, <1>2, <1>3, <1>4
<1>6. DevAsks(command)' /\ DevSees(command)' /\ DevLeft(command)'
  BY <1>5 DEF DevAsks, DevSees, DevLeft, EmptySteps
<1> QED BY <1>5, <1>6 DEF DevCommandOK

\* A docker call that failed is told as one, and its failure has a cause.
LEMMA DevFaults ==
    ASSUME NEW exit \in ExitCodes \ {"Success"}, FailDocker(exit)
    PROVE  DevCommandOK' /\ DevTold'
<1>1. command' = Idle
  BY DEF FailDocker
<1>2. told'.exit = exit /\ told'.faulty = TRUE
  BY DEF FailDocker
<1>3. ExitIsTrue'
  BY <1>2 DEF ExitIsTrue, SuccessMeansDone, FailsForACause
<1>4. command'.step = "none"
  BY <1>1 DEF Idle
<1> QED BY <1>1, <1>2, <1>3, <1>4, DevIdle DEF DevTold

\* While a command is under way nothing is told.
LEMMA DevSilent ==
    ASSUME told' = NoOutcome
    PROVE  DevTold'
<1>1. told'.name = "none" /\ told'.exit = "Success"
  BY DEF NoOutcome
<1>2. ExitIsTrue'
  BY <1>1 DEF ExitIsTrue, SuccessMeansDone, FailsForACause
<1> QED BY <1>1, <1>2 DEF DevTold, ExitCodes

\* A command that goes on to another step keeps everything else.
LEMMA DevGoes ==
    ASSUME command \in DevCommands, devScene' = devScene,
           NEW next \in CommandSteps, command' = [command EXCEPT !.step = next]
    PROVE  /\ command' \in DevCommands'
           /\ command'.step = next /\ command'.name = command.name
           /\ command'.wipe = command.wipe /\ command'.mode = command.mode
           /\ command'.left = command.left /\ command'.found = command.found
           /\ command'.asked = command.asked
           /\ command'.faulty = command.faulty /\ command'.blind = command.blind
<1>1. [command EXCEPT !.step = next] \in DevCommands
  BY DEF DevCommands
<1> QED BY <1>1, DevFrame DEF DevCommands

\* Nothing changes in the world.
LEMMA DevRests ==
    ASSUME DevWorld, UNCHANGED <<docker, taken, devScene>>
    PROVE  DevWorld'
<1>1. Config' = Config
  BY DevFrame
<1> QED BY <1>1 DEF DevWorld, docker

LEMMA DevIssues ==
    ASSUME DevInv, NEW new, Issue(new), devScene' = devScene, new \in DevCommands,
           DevAsks(new), new.blind = FALSE,
           new.step \in {"done", "refused", "preflight", "down"}
    PROVE  DevInv'
<1>1. DevWorld'
  BY DevRests DEF DevInv, Issue
<1>2. CASE LoadConfigResult = "Success"
  <2>1. command' = new /\ told' = NoOutcome
    BY <1>2 DEF Issue
  <2>2. command' \in DevCommands'
    BY <2>1, DevFrame
  <2>3. DevAsks(command')
    BY <2>1
  <2>4. DevSees(command)' /\ DevLeft(command)'
    BY <2>1 DEF DevSees, DevLeft, EmptySteps
  <2> QED BY <1>1, <2>1, <2>2, <2>3, <2>4, DevSilent DEF DevInv, DevCommandOK
<1>3. CASE LoadConfigResult # "Success"
  <2>1. /\ command' = Idle /\ command = Idle
        /\ told' = [NoOutcome EXCEPT !.name = new.name, !.exit = LoadConfigResult]
    BY <1>3 DEF Issue
  <2>2. told'.exit = LoadConfigResult /\ told'.faulty = FALSE
    BY <2>1 DEF NoOutcome
  <2>3. LoadConfigResult \in ExitCodes
    BY DEF LoadConfigResult, ExitCodes
  <2>4. LoadConfigResult' = LoadConfigResult
    BY DevFrame
  <2>5. ExitIsTrue'
    BY <1>3, <2>2, <2>4 DEF ExitIsTrue, SuccessMeansDone, FailsForACause
  <2>6. command'.step = "none"
    BY <2>1 DEF Idle
  <2>7. DevTold'
    BY <2>2, <2>3, <2>5, <2>6 DEF DevTold
  <2> QED BY <1>1, <2>1, <2>7, DevIdle DEF DevInv
<1> QED BY <1>2, <1>3

LEMMA DevValidate ==
    ASSUME DevInv, RunValidate, devScene' = devScene
    PROVE  DevInv'
<1> DEFINE new == [Idle EXCEPT !.name = "validate", !.step = "done"]
<1>1. new.blind = FALSE /\ new.step = "done" /\ new.name = "validate"
  BY DEF Idle
<1>2. new \in DevCommands
  BY IdleTyped DEF DevCommands, CommandSteps
<1>3. Issue(new)
  BY DEF RunValidate
<1> HIDE DEF new
<1>4. PICK c : c = new
  OBVIOUS
<1>5. DevAsks(c)
  BY <1>1, <1>4 DEF DevAsks, DownSteps
<1> QED BY <1>1, <1>2, <1>3, <1>4, <1>5, DevIssues

LEMMA DevStart ==
    ASSUME DevInv, NEW enable \in SUBSET Keys, NEW disable, RunStart(enable, disable),
           devScene' = devScene
    PROVE  DevInv'
<1> DEFINE new == [Idle EXCEPT !.name = "start", !.step = "preflight",
                               !.profiles = DetermineProfiles(enable, disable)]
<1>1. DefaultProfiles \subseteq Names(Config.profiles)
  BY DEF DefaultProfiles, Names, ToSet
<1>2. DetermineProfiles(enable, disable) \subseteq Keys
  BY <1>1, ConfigTyped DEF DetermineProfiles, DevInv, DevWorld
<1>3. new.blind = FALSE /\ new.step = "preflight" /\ new.name = "start"
  BY DEF Idle
<1>4. new \in DevCommands
  BY <1>2, IdleTyped DEF DevCommands, CommandSteps
<1>5. Issue(new)
  BY DEF RunStart
<1> HIDE DEF new
<1>6. PICK c : c = new
  OBVIOUS
<1>7. DevAsks(c)
  BY <1>3, <1>6 DEF DevAsks, DownSteps
<1> QED BY <1>3, <1>4, <1>5, <1>6, <1>7, DevIssues

LEMMA DevStop ==
    ASSUME DevInv, NEW removeVolumes \in BOOLEAN, RunStop(removeVolumes), devScene' = devScene
    PROVE  DevInv'
<1> DEFINE asks == IF removeVolumes THEN Volumes ELSE {}
           new  == [Idle EXCEPT !.name = "stop", !.step = "down", !.wipe = removeVolumes,
                                !.asked = asks]
<1>1. asks \in SUBSET Volumes /\ (removeVolumes => asks = Volumes) /\ (removeVolumes \/ asks = {})
  OBVIOUS
<1>2. Issue(new)
  BY DEF RunStop
<1> HIDE DEF asks
<1>3. /\ new.blind = FALSE /\ new.step = "down" /\ new.name = "stop"
      /\ new.wipe = removeVolumes /\ new.asked = asks
  BY DEF Idle
<1>4. new \in DevCommands
  BY <1>1, IdleTyped DEF DevCommands, CommandSteps
<1> HIDE DEF new
<1>5. PICK c : c = new
  OBVIOUS
<1>6. DevAsks(c)
  BY <1>1, <1>3, <1>5 DEF DevAsks, Selective, DownSteps
<1> QED BY <1>2, <1>3, <1>4, <1>5, <1>6, DevIssues

LEMMA SequencesUpTo ==
    ASSUME NEW S, NEW n \in Nat, NEW seq \in BoundedSeq(S, n)
    PROVE  seq \in Seq(S)
<1>1. PICK m \in 0 .. n : seq \in [1 .. m -> S]
  BY DEF BoundedSeq, SeqOf
<1> QED BY <1>1

LEMMA DevReset ==
    ASSUME DevInv, NEW mode \in Modes \cup {"default"}, NEW requested \in Seq(Volumes),
           RunReset(mode, requested), devScene' = devScene
    PROVE  DevInv'
<1> DEFINE effective == DetermineMode(mode)
           selection == DetermineSelectiveVolumes(requested)
           refused   == \/ effective = "selective" /\ selection = <<>>
                        \/ ~(ToSet(selection) \subseteq Names(Config.volumes))
           next  == IF refused THEN "refused" ELSE "down"
           wipes == Wipes(effective)
           asks  == CASE ~refused /\ effective = "full" -> Volumes
                      [] ~refused /\ effective = "selective" -> ToSet(selection)
                      [] OTHER -> {}
           new   == [Idle EXCEPT !.name = "reset", !.mode = effective, !.step = next,
                                 !.wipe = wipes, !.left = selection, !.asked = asks]
<1>1. effective \in Modes
  BY ConfigTyped DEF DetermineMode, DevInv, DevWorld
<1>2. selection \in Seq(Volumes)
  BY ConfigTyped DEF DetermineSelectiveVolumes, DevInv, DevWorld
<1>3. wipes \in BOOLEAN /\ (wipes <=> effective = "full")
  BY DEF Wipes
<1>4. next \in {"refused", "down"}
  OBVIOUS
<1>5. Issue(new)
  BY DEF RunReset
<1> HIDE DEF effective, selection, wipes
<1>6. ToSet(selection) \subseteq Volumes
  BY <1>2 DEF ToSet
<1>7. /\ asks \in SUBSET Volumes
      /\ next = "refused" => asks = {}
      /\ next = "down" => /\ effective = "full" => asks = Volumes
                          /\ effective = "selective" => asks = ToSet(selection)
                          /\ effective \notin {"full", "selective"} => asks = {}
  <2>1. CASE refused
    BY <2>1
  <2>2. CASE ~refused /\ effective = "full"
    BY <2>2
  <2>3. CASE ~refused /\ effective = "selective"
    BY <1>6, <2>3
  <2>4. CASE ~refused /\ effective \notin {"full", "selective"}
    BY <2>4
  <2> QED BY <2>1, <2>2, <2>3, <2>4
<1> HIDE DEF refused, next, asks
<1>8. /\ new.blind = FALSE /\ new.step = next /\ new.mode = effective
      /\ new.name = "reset" /\ new.wipe = wipes /\ new.asked = asks /\ new.left = selection
  BY DEF Idle
<1>9. new \in DevCommands
  BY <1>1, <1>2, <1>3, <1>4, <1>7 DEF Idle, DevCommands, CommandSteps
<1> HIDE DEF new
<1>10. PICK c : c = new
  OBVIOUS
<1>11. DevAsks(c)
  <2>1. PICK chosen : chosen = ToSet(selection) /\ chosen = ToSet(c.left)
    BY <1>8, <1>10
  <2> QED BY <1>1, <1>3, <1>4, <1>7, <1>8, <1>10, <2>1 DEF DevAsks, Selective, DownSteps, Modes
<1> QED BY <1>4, <1>5, <1>8, <1>9, <1>10, <1>11, DevIssues

LEMMA DevRefuses ==
    ASSUME DevInv, Refuse, devScene' = devScene
    PROVE  DevInv'
<1>1. DevWorld'
  BY DevRests DEF DevInv, Refuse
<1>2. command.step = "refused" /\ command.name = "reset" /\ command.asked = {}
  BY DEF Refuse, DevInv, DevCommandOK, DevAsks
<1>3. /\ command' = Idle /\ told'.name = "reset" /\ told'.exit = "TeardownFailed"
      /\ told'.asked = {}
  BY <1>2 DEF Refuse, End
<1>4. ExitIsTrue'
  BY <1>3 DEF ExitIsTrue, SuccessMeansDone, FailsForACause
<1>5. command'.step = "none"
  BY <1>3 DEF Idle
<1>6. DevTold'
  BY <1>3, <1>4, <1>5 DEF DevTold, ExitCodes
<1> QED BY <1>1, <1>3, <1>6, DevIdle DEF DevInv

LEMMA DevChecks ==
    ASSUME DevInv, Preflight, devScene' = devScene
    PROVE  DevInv'
<1>1. DevWorld'
  BY DevRests DEF DevInv, Preflight
<1>2. command.step = "preflight" /\ command.name = "start" /\ command \in DevCommands
  BY DEF Preflight, DevInv, DevCommandOK, DevAsks
<1>3. CASE FailDocker("OrchestrationFailed")
  BY <1>1, <1>3, DevFaults DEF DevInv, ExitCodes
<1>4. CASE PortInUse /\ End("OrchestrationFailed")
  <2>1. /\ command' = Idle /\ told'.name = "start" /\ told'.exit = "OrchestrationFailed"
    BY <1>2, <1>4 DEF End
  <2>2. Config.checked
    BY <1>4 DEF PortInUse
  <2>3. Config'.checked
    BY <2>2, DevFrame
  <2>4. ExitIsTrue'
    BY <2>1, <2>3 DEF ExitIsTrue, SuccessMeansDone, FailsForACause
  <2>5. command'.step = "none"
    BY <2>1 DEF Idle
  <2>6. DevTold'
    BY <2>1, <2>4, <2>5 DEF DevTold, ExitCodes
  <2> QED BY <1>1, <2>1, <2>6, DevIdle DEF DevInv
<1>5. CASE Goto("up") /\ UNCHANGED told
  <2>1. told' = NoOutcome
    BY <1>2, <1>5 DEF DevInv, DevTold
  <2>2. "up" \in CommandSteps
    BY DEF CommandSteps
  <2>3. /\ command' \in DevCommands' /\ command'.step = "up" /\ command'.name = "start"
        /\ command'.faulty = command.faulty /\ command'.blind = command.blind
    BY <1>2, <1>5, <2>2, DevGoes DEF Goto
  <2>4. command.blind => command.faulty
    BY DEF DevInv, DevCommandOK, DevAsks
  <2>5. PICK c : c = command'
    OBVIOUS
  <2>6. DevAsks(c)
    BY <2>3, <2>4, <2>5 DEF DevAsks, DownSteps
  <2>7. DevSees(command)' /\ DevLeft(command)'
    BY <2>3 DEF DevSees, DevLeft, EmptySteps
  <2> QED BY <1>1, <2>1, <2>3, <2>5, <2>6, <2>7, DevSilent DEF DevInv, DevCommandOK
<1> QED BY <1>3, <1>4, <1>5 DEF Preflight

LEMMA DevComesUp ==
    ASSUME DevInv, ComposeUp, devScene' = devScene
    PROVE  DevInv'
<1>1. PICK up \in SUBSET Active(command.profiles) :
          /\ containers' = containers \cup up
          /\ networked' = (networked \/ up # {})
          /\ disk' = disk \cup Mounted(up)
          /\ data' = data \cup Mounted(up)
          /\ \/ /\ up = Active(command.profiles)
                /\ End("Success") /\ UNCHANGED devSpent
             \/ FailDocker("OrchestrationFailed")
  BY DEF ComposeUp
<1>2. taken' = taken
  BY DEF ComposeUp
<1>3. up \subseteq Names(Config.services)
  BY ActiveNamed
<1>4. PICK mounted : mounted = MountsIn(Config, up) /\ mounted = Mounted(up)
  BY MountedReads
<1>5. mounted \subseteq Volumes
  BY <1>3, <1>4, ConfigTyped, MountsTyped DEF DevInv, DevWorld
<1>6. DevWorld'
  <2>1. Config' = Config
    BY DevFrame
  <2>2. MountsIn(Config, containers \cup up) = MountsIn(Config, containers) \cup mounted
    <3>1. PICK config, ran : config = Config /\ ran = containers
      OBVIOUS
    <3>2. MountsIn(config, ran \cup up) = MountsIn(config, ran) \cup MountsIn(config, up)
      BY MountsJoin
    <3>3. MountsIn(config, up) = mounted
      BY <1>4, <3>1
    <3> QED BY <3>1, <3>2, <3>3, Zenon
  <2>3. MountsIn(Config, containers') \subseteq disk'
    BY <1>1, <1>4, <2>2 DEF DevInv, DevWorld
  <2>4. containers' # {} => networked'
    BY <1>1 DEF DevInv, DevWorld
  <2>5. networked' \in BOOLEAN
    BY <1>1 DEF DevInv, DevWorld
  <2>6. /\ disk' \subseteq Volumes /\ data' \subseteq Volumes
        /\ containers' \subseteq Names(Config.services)
    BY <1>1, <1>3, <1>4, <1>5 DEF DevInv, DevWorld
  <2>7. devScene' \in DevScenarios /\ taken' \in BOOLEAN
    BY <1>2 DEF DevInv, DevWorld
  <2> QED BY <2>1, <2>3, <2>4, <2>5, <2>6, <2>7 DEF DevWorld
<1>7. CASE FailDocker("OrchestrationFailed")
  BY <1>6, <1>7, DevFaults DEF DevInv, ExitCodes
<1>8. CASE End("Success")
  <2>1. command.name = "start"
    BY DEF ComposeUp, DevInv, DevCommandOK, DevAsks
  <2>2. command' = Idle /\ told'.name = "start" /\ told'.exit = "Success"
    BY <1>8, <2>1 DEF End
  <2>3. ExitIsTrue'
    BY <2>2 DEF ExitIsTrue, SuccessMeansDone, FailsForACause
  <2>4. command'.step = "none"
    BY <2>2 DEF Idle
  <2>5. DevTold'
    BY <2>2, <2>3, <2>4 DEF DevTold, ExitCodes
  <2> QED BY <1>6, <2>2, <2>5, DevIdle DEF DevInv
<1> QED BY <1>1, <1>7, <1>8

\* What a command at a step down knows of itself.
LEMMA DevDown ==
    ASSUME DevInv, command.step \in DownSteps
    PROVE  /\ command \in DevCommands
           /\ command.name \in {"stop", "reset"}
           /\ command.wipe => command.asked = Volumes
           /\ Selective(command) => ~command.wipe /\ command.asked = ToSet(command.left)
           /\ command.wipe \/ Selective(command) \/ command.asked = {}
           /\ command.blind => command.faulty
           /\ told = NoOutcome
<1>1. command.step # "none"
  BY DEF DownSteps
<1> QED BY <1>1 DEF DevInv, DevCommandOK, DevAsks, DevTold

\* Going from a step down to the next one.
LEMMA DevDownGoes ==
    ASSUME DevInv, command.step \in DownSteps, devScene' = devScene,
           NEW next \in DownSteps, command' = [command EXCEPT !.step = next],
           next \in {"list volumes", "remove volumes"} => command.wipe
    PROVE  /\ command' \in DevCommands' /\ DevAsks(command)'
           /\ command'.step = next /\ command'.blind = command.blind
           /\ command'.found = command.found /\ command'.wipe = command.wipe
<1>1. next \in CommandSteps
  BY DEF DownSteps, CommandSteps
<1>2. /\ command' \in DevCommands' /\ command'.step = next /\ command'.name = command.name
      /\ command'.wipe = command.wipe /\ command'.mode = command.mode
      /\ command'.left = command.left /\ command'.found = command.found
      /\ command'.asked = command.asked
      /\ command'.faulty = command.faulty /\ command'.blind = command.blind
  BY <1>1, DevDown, DevGoes
<1>3. PICK c : c = command'
  OBVIOUS
<1>4. Selective(c) <=> Selective(command)
  BY <1>2, <1>3 DEF Selective
<1>5. PICK chosen : chosen = ToSet(command.left) /\ chosen = ToSet(c.left)
  BY <1>2, <1>3
<1>6. DevAsks(c)
  BY <1>2, <1>3, <1>4, <1>5, DevDown DEF DevAsks, DownSteps
<1> QED BY <1>2, <1>3, <1>6

LEMMA DevComesDown ==
    ASSUME DevInv, ComposeDown, devScene' = devScene
    PROVE  DevInv'
<1>1. PICK gone \in SUBSET containers, wiped \in SUBSET disk :
          /\ wiped # {} => command.wipe /\ wiped \cap Mounted(containers \ gone) = {}
          /\ containers' = containers \ gone
          /\ networked' = (networked /\ containers' # {})
          /\ RemoveVolumes(wiped)
          /\ \/ /\ containers \cap Active({}) \subseteq gone
                /\ Goto("list containers") /\ UNCHANGED <<told, devSpent>>
             \/ FailDocker("TeardownFailed")
  BY DEF ComposeDown
<1>2. command.step = "down" /\ taken' = taken
  BY DEF ComposeDown
<1>3. PICK mounted : mounted = MountsIn(Config, containers \ gone) /\ mounted = Mounted(containers \ gone)
  BY MountedReads
<1>4. DevWorld'
  <2>1. Config' = Config
    BY DevFrame
  <2>2. mounted \subseteq MountsIn(Config, containers)
    BY <1>3, MountsGrow
  <2>3. mounted \subseteq disk'
    BY <1>1, <1>3, <2>2 DEF DevInv, DevWorld, RemoveVolumes
  <2>4. containers' # {} => networked'
    BY <1>1 DEF DevInv, DevWorld
  <2>5. networked' \in BOOLEAN
    BY <1>1 DEF DevInv, DevWorld
  <2>6. /\ disk' \subseteq Volumes /\ data' \subseteq Volumes
        /\ containers' \subseteq Names(Config.services)
    BY <1>1 DEF DevInv, DevWorld, RemoveVolumes
  <2>7. devScene' \in DevScenarios /\ taken' \in BOOLEAN
    BY <1>2 DEF DevInv, DevWorld
  <2>8. MountsIn(Config, containers') = mounted
    BY <1>1, <1>3
  <2> QED BY <2>1, <2>3, <2>4, <2>5, <2>6, <2>7, <2>8 DEF DevWorld
<1>5. CASE FailDocker("TeardownFailed")
  BY <1>4, <1>5, DevFaults DEF DevInv, ExitCodes
<1>6. CASE Goto("list containers") /\ UNCHANGED told
  <2>1. command.step \in DownSteps /\ "list containers" \in DownSteps
    BY <1>2 DEF DownSteps
  <2>2. /\ command' \in DevCommands' /\ DevAsks(command)'
        /\ command'.step = "list containers" /\ command'.blind = command.blind
    BY <1>6, <2>1, DevDownGoes DEF Goto
  <2>3. DevSees(command)' /\ DevLeft(command)'
    BY <2>2 DEF DevSees, DevLeft, EmptySteps
  <2>4. told' = NoOutcome
    BY <1>6, <2>1, DevDown
  <2> QED BY <1>4, <2>2, <2>3, <2>4, DevSilent DEF DevInv, DevCommandOK
<1> QED BY <1>1, <1>5, <1>6

\* A listing that was answered is what there is; one that failed makes it blind.
LEMMA DevLists ==
    ASSUME DevInv, NEW step \in DownSteps, NEW next \in DownSteps,
           NEW what \in SUBSET (Names(Config.services) \cup Volumes \cup {"network"}),
           next \in {"list volumes", "remove volumes"} => command.wipe,
           Listing(step, what, next), devScene' = devScene
    PROVE  /\ DevWorld' /\ told' = NoOutcome
           /\ command' \in DevCommands' /\ DevAsks(command)' /\ command'.step = next
           /\ command'.wipe = command.wipe
           /\ ~command'.blind => ~command.blind /\ command'.found = what
           /\ UNCHANGED docker
<1>1. command.step = step /\ UNCHANGED <<docker, taken, told>>
  BY DEF Listing
<1>2. DevWorld'
  BY <1>1, DevRests DEF DevInv
<1>3. next \in CommandSteps
  BY DEF DownSteps, CommandSteps
<1>4. PICK found \in SUBSET (Names(Config.services) \cup Volumes \cup {"network"}),
           blind \in BOOLEAN, faulty \in BOOLEAN :
          /\ command' = [command EXCEPT !.step = next, !.found = found, !.blind = blind,
                                        !.faulty = faulty]
          /\ blind => faulty
          /\ ~blind => ~command.blind /\ found = what
  <2>1. CASE command' = [command EXCEPT !.step = next, !.found = what]
    <3>1. command.blind \in BOOLEAN /\ command.faulty \in BOOLEAN
          /\ (command.blind => command.faulty)
      BY <1>1, DevDown DEF DevCommands
    <3>2. command' = [command EXCEPT !.step = next, !.found = what, !.blind = command.blind,
                                     !.faulty = command.faulty]
      BY <1>1, <2>1, DevDown DEF DevCommands
    <3> QED BY <3>1, <3>2
  <2>2. CASE command' = [command EXCEPT !.step = next, !.found = {}, !.blind = TRUE,
                                        !.faulty = TRUE]
    BY <2>2
  <2> QED BY <2>1, <2>2 DEF Listing
<1>5. [command EXCEPT !.step = next, !.found = found, !.blind = blind, !.faulty = faulty]
         \in DevCommands
  BY <1>1, <1>3, DevDown DEF DevCommands
<1>6. PICK c \in DevCommands : c = command'
  BY <1>4, <1>5
<1>7. /\ c.step = next /\ c.name = command.name /\ c.wipe = command.wipe
      /\ c.mode = command.mode /\ c.left = command.left /\ c.found = found
      /\ c.asked = command.asked /\ c.faulty = faulty /\ c.blind = blind
  BY <1>1, <1>4, <1>6, DevDown DEF DevCommands
<1>8. Selective(c) <=> Selective(command)
  BY <1>7 DEF Selective
<1>9. PICK chosen : chosen = ToSet(command.left) /\ chosen = ToSet(c.left)
  BY <1>7
<1>10. DevAsks(c)
  BY <1>1, <1>4, <1>7, <1>8, <1>9, DevDown DEF DevAsks, DownSteps
<1>11. c \in DevCommands'
  BY DevFrame
<1>12. told' = NoOutcome
  BY <1>1, DevDown
<1> QED BY <1>1, <1>2, <1>4, <1>6, <1>7, <1>10, <1>11, <1>12

LEMMA DevListsContainers ==
    ASSUME DevInv, ListContainers, devScene' = devScene
    PROVE  DevInv'
<1>1. "list containers" \in DownSteps /\ "remove containers" \in DownSteps
  BY DEF DownSteps
<1>2. containers \in SUBSET (Names(Config.services) \cup Volumes \cup {"network"})
  BY DEF DevInv, DevWorld
<1>3. /\ DevWorld' /\ told' = NoOutcome
      /\ command' \in DevCommands' /\ DevAsks(command)' /\ command'.step = "remove containers"
      /\ ~command'.blind => command'.found = containers
      /\ UNCHANGED docker
  BY <1>1, <1>2, DevLists DEF ListContainers
<1>4. ~command'.blind => DevSees(command)'
  BY <1>3 DEF DevSees, EmptySteps, docker
<1>5. DevLeft(command)'
  BY <1>3 DEF DevLeft
<1> QED BY <1>3, <1>4, <1>5, DevSilent DEF DevInv, DevCommandOK

LEMMA DevListsVolumes ==
    ASSUME DevInv, ListVolumes, devScene' = devScene
    PROVE  DevInv'
<1>1. "list volumes" \in DownSteps /\ "remove volumes" \in DownSteps
  BY DEF DownSteps
<1>2. disk \in SUBSET (Names(Config.services) \cup Volumes \cup {"network"})
  BY DEF DevInv, DevWorld
<1>3. command.step = "list volumes" /\ command.wipe
  BY DEF ListVolumes, Listing, DevInv, DevCommandOK, DevAsks
<1>4. /\ DevWorld' /\ told' = NoOutcome
      /\ command' \in DevCommands' /\ DevAsks(command)' /\ command'.step = "remove volumes"
      /\ ~command'.blind => ~command.blind /\ command'.found = disk
      /\ UNCHANGED docker
  BY <1>1, <1>2, <1>3, DevLists DEF ListVolumes
<1>5. ~command.blind => containers = {}
  BY <1>3 DEF DevInv, DevCommandOK, DevSees, EmptySteps
<1>6. ~command'.blind => DevSees(command)'
  BY <1>4, <1>5 DEF DevSees, EmptySteps, docker
<1>7. DevLeft(command)'
  BY <1>4 DEF DevLeft
<1> QED BY <1>4, <1>6, <1>7, DevSilent DEF DevInv, DevCommandOK

LEMMA DevListsNetworks ==
    ASSUME DevInv, ListNetworks, devScene' = devScene
    PROVE  DevInv'
<1>1. "list networks" \in DownSteps /\ "remove networks" \in DownSteps
  BY DEF DownSteps
<1>2. PICK what \in SUBSET (Names(Config.services) \cup Volumes \cup {"network"}) :
         what = IF networked THEN {"network"} ELSE {}
  OBVIOUS
<1>3. what = {} => ~networked
  BY <1>2
<1>4. Listing("list networks", what, "remove networks")
  BY <1>2 DEF ListNetworks
<1>5. command.step = "list networks"
  BY <1>4 DEF Listing
<1>6. /\ DevWorld' /\ told' = NoOutcome
      /\ command' \in DevCommands' /\ DevAsks(command)' /\ command'.step = "remove networks"
      /\ command'.wipe = command.wipe
      /\ ~command'.blind => ~command.blind /\ command'.found = what
      /\ UNCHANGED docker
  BY <1>1, <1>4, DevLists
<1>7. ~command.blind => containers = {} /\ (command.wipe => disk = {})
  BY <1>5 DEF DevInv, DevCommandOK, DevSees, EmptySteps
<1>8. ~command'.blind => DevSees(command)'
  BY <1>3, <1>6, <1>7 DEF DevSees, EmptySteps, docker
<1>9. DevLeft(command)'
  BY <1>6 DEF DevLeft
<1> QED BY <1>6, <1>8, <1>9, DevSilent DEF DevInv, DevCommandOK

LEMMA DevRemovesContainers ==
    ASSUME DevInv, ForceRemoveContainers, devScene' = devScene
    PROVE  DevInv'
<1>1. /\ command.step = "remove containers"
      /\ UNCHANGED <<networked, disk, data, taken>>
  BY DEF ForceRemoveContainers
<1>2. command.step \in DownSteps
  BY <1>1 DEF DownSteps
<1>3. containers' \subseteq containers
  BY DEF ForceRemoveContainers
<1>4. DevWorld'
  <2>1. Config' = Config
    BY DevFrame
  <2>2. MountsIn(Config, containers') \subseteq MountsIn(Config, containers)
    BY <1>3, MountsGrow
  <2> QED BY <1>1, <1>3, <2>1, <2>2 DEF DevInv, DevWorld
<1>5. CASE FailDocker("TeardownFailed")
  BY <1>4, <1>5, DevFaults DEF DevInv, ExitCodes
<1>6. CASE containers' = containers \ command.found /\ Goto(AfterContainers) /\ UNCHANGED told
  <2>1. PICK next \in DownSteps :
           next = AfterContainers /\ next \in {"list volumes", "list networks"}
           /\ (next = "list volumes" => command.wipe)
           /\ (next = "list networks" => ~command.wipe)
    <3>1. command.wipe \in BOOLEAN
      BY <1>2, DevDown DEF DevCommands
    <3> QED BY <3>1 DEF AfterContainers, DownSteps
  <2>2. /\ command' \in DevCommands' /\ DevAsks(command)'
        /\ command'.step = next /\ command'.blind = command.blind /\ command'.wipe = command.wipe
    BY <1>2, <1>6, <2>1, DevDownGoes DEF Goto
  <2>3. ~command.blind => command.found = containers
    BY <1>1 DEF DevInv, DevCommandOK, DevSees
  <2>4. ~command.blind => containers' = {}
    BY <1>6, <2>3
  <2>5. ~command'.blind => DevSees(command)'
    BY <2>1, <2>2, <2>4 DEF DevSees, EmptySteps
  <2>6. DevLeft(command)'
    BY <2>1, <2>2 DEF DevLeft
  <2>7. told' = NoOutcome
    BY <1>2, <1>6, DevDown
  <2> QED BY <1>4, <2>2, <2>5, <2>6, <2>7, DevSilent DEF DevInv, DevCommandOK
<1> QED BY <1>5, <1>6 DEF ForceRemoveContainers

LEMMA DevRemovesVolumes ==
    ASSUME DevInv, ForceRemoveVolumes, devScene' = devScene
    PROVE  DevInv'
<1>1. /\ command.step = "remove volumes" /\ command.wipe
      /\ UNCHANGED <<containers, networked, taken>>
  BY DEF ForceRemoveVolumes, DevInv, DevCommandOK, DevAsks
<1>2. command.step \in DownSteps
  BY <1>1 DEF DownSteps
<1>3. PICK mounted : mounted = MountsIn(Config, containers) /\ mounted = Mounted(containers)
  BY MountedReads
<1>4. CASE FailDocker("TeardownFailed") /\ UNCHANGED <<disk, data>>
  <2>1. DevWorld'
    BY <1>1, <1>4, DevRests DEF DevInv, docker
  <2> QED BY <1>4, <2>1, DevFaults DEF DevInv, ExitCodes
<1>5. CASE /\ RemoveVolumes(command.found \ Mounted(containers))
           /\ IF command.found \cap Mounted(containers) = {}
              THEN Goto("list networks") /\ UNCHANGED told
              ELSE End("TeardownFailed")
  <2>1. /\ disk' = disk \ (command.found \ mounted)
        /\ data' \subseteq data
    BY <1>3, <1>5 DEF RemoveVolumes
  <2>2. DevWorld'
    <3>1. Config' = Config
      BY DevFrame
    <3>2. mounted \subseteq disk
      BY <1>3 DEF DevInv, DevWorld
    <3>3. MountsIn(Config, containers') \subseteq disk'
      BY <1>1, <1>3, <2>1, <3>2
    <3> QED BY <1>1, <2>1, <3>1, <3>3 DEF DevInv, DevWorld
  <2>3. ~command.blind => containers = {} /\ command.found = disk
    BY <1>1 DEF DevInv, DevCommandOK, DevSees, EmptySteps
  <2>4. ~command.blind => mounted = {}
    BY <1>3, <2>3, MountsNothing
  <2>5. CASE command.found \cap mounted = {}
    <3>1. Goto("list networks") /\ UNCHANGED told
      BY <1>3, <1>5, <2>5
    <3>2. "list networks" \in DownSteps
      BY DEF DownSteps
    <3>3. /\ command' \in DevCommands' /\ DevAsks(command)'
          /\ command'.step = "list networks" /\ command'.blind = command.blind
      BY <1>2, <3>1, <3>2, DevDownGoes DEF Goto
    <3>4. ~command.blind => containers' = {} /\ disk' = {}
      BY <1>1, <2>1, <2>3, <2>4
    <3>5. ~command'.blind => DevSees(command)'
      BY <3>3, <3>4 DEF DevSees, EmptySteps
    <3>6. DevLeft(command)'
      BY <3>3 DEF DevLeft
    <3>7. told' = NoOutcome
      BY <1>2, <3>1, DevDown
    <3> QED BY <2>2, <3>3, <3>5, <3>6, <3>7, DevSilent DEF DevInv, DevCommandOK
  <2>6. CASE command.found \cap mounted # {}
    <3>1. End("TeardownFailed")
      BY <1>3, <1>5, <2>6
    <3>2. command.faulty = TRUE
      <4>1. command.blind
        BY <2>4, <2>6
      <4>2. command.faulty \in BOOLEAN
        BY <1>2, DevDown DEF DevCommands
      <4> QED BY <1>2, <4>1, <4>2, DevDown
    <3>3. /\ command' = Idle /\ told'.exit = "TeardownFailed"
          /\ told'.faulty = TRUE
      BY <3>1, <3>2 DEF End
    <3>4. ExitIsTrue'
      BY <3>3 DEF ExitIsTrue, SuccessMeansDone, FailsForACause
    <3>5. command'.step = "none"
      BY <3>3 DEF Idle
    <3>6. DevTold'
      BY <3>3, <3>4, <3>5 DEF DevTold, ExitCodes
    <3> QED BY <2>2, <3>3, <3>6, DevIdle DEF DevInv
  <2> QED BY <2>5, <2>6
<1> QED BY <1>4, <1>5 DEF ForceRemoveVolumes

LEMMA DevRemovesNetworks ==
    ASSUME DevInv, ForceRemoveNetworks, devScene' = devScene
    PROVE  DevInv'
<1>1. /\ command.step = "remove networks"
      /\ UNCHANGED <<containers, disk, data, taken>>
  BY DEF ForceRemoveNetworks
<1>2. command.step \in DownSteps
  BY <1>1 DEF DownSteps
<1>3. /\ command.blind \in BOOLEAN /\ command.faulty \in BOOLEAN /\ command.wipe \in BOOLEAN
      /\ command.name \in {"stop", "reset"}
  BY <1>2, DevDown DEF DevCommands
<1>4. ~command.blind =>
          /\ containers = {}
          /\ command.wipe => disk = {}
          /\ command.found = {} => ~networked
  BY <1>1 DEF DevInv, DevCommandOK, DevSees, EmptySteps
<1>5. ASSUME /\ networked' \in BOOLEAN
             /\ containers # {} => networked'
      PROVE  DevWorld'
  <2>1. Config' = Config
    BY DevFrame
  <2> QED BY <1>1, <1>5, <2>1 DEF DevInv, DevWorld
<1>6. CASE FailDocker("TeardownFailed") /\ UNCHANGED networked
  <2>1. DevWorld'
    BY <1>1, <1>6, DevRests DEF DevInv, docker
  <2> QED BY <1>6, <2>1, DevFaults DEF DevInv, ExitCodes
<1>7. CASE /\ command.found # {} /\ containers # {}
           /\ End("TeardownFailed") /\ UNCHANGED networked
  <2>1. DevWorld'
    BY <1>1, <1>7, DevRests DEF DevInv, docker
  <2>2. command.faulty = TRUE
    BY <1>2, <1>3, <1>4, <1>7, DevDown
  <2>3. command' = Idle /\ told'.exit = "TeardownFailed" /\ told'.faulty = TRUE
    BY <1>7, <2>2 DEF End
  <2>4. ExitIsTrue'
    BY <2>3 DEF ExitIsTrue, SuccessMeansDone, FailsForACause
  <2>5. command'.step = "none"
    BY <2>3 DEF Idle
  <2>6. DevTold'
    BY <2>3, <2>4, <2>5 DEF DevTold, ExitCodes
  <2> QED BY <2>1, <2>3, <2>6, DevIdle DEF DevInv
<1>8. CASE /\ command.found = {} \/ containers = {}
           /\ networked' = (networked /\ command.found = {})
           /\ IF command.name = "reset" /\ command.mode = "selective"
              THEN Goto("select") /\ UNCHANGED told
              ELSE End("Success")
  <2>1. networked' \in BOOLEAN /\ (containers # {} => networked')
    <3>1. networked \in BOOLEAN /\ (containers # {} => networked)
      BY DEF DevInv, DevWorld
    <3> QED BY <1>8, <3>1
  <2>2. DevWorld'
    BY <1>5, <2>1
  <2>3. ~command.blind => ~networked'
    BY <1>4, <1>8
  <2>4. CASE Selective(command)
    <3>1. Goto("select") /\ UNCHANGED told
      BY <1>8, <2>4 DEF Selective
    <3>2. /\ command' \in DevCommands'
          /\ command'.step = "select" /\ command'.name = command.name
          /\ command'.wipe = command.wipe /\ command'.left = command.left
          /\ command'.asked = command.asked
          /\ command'.faulty = command.faulty /\ command'.blind = command.blind
      <4>1. "select" \in CommandSteps
        BY DEF CommandSteps
      <4> QED BY <1>2, <3>1, <4>1, DevDown, DevGoes DEF Goto
    <3>3. /\ command.name = "reset" /\ ~command.wipe /\ command.asked = ToSet(command.left)
          /\ command.blind => command.faulty
      BY <1>2, <2>4, DevDown DEF Selective
    <3>4. PICK c, chosen : c = command' /\ chosen = ToSet(c.left) /\ chosen = command.asked
      BY <3>2, <3>3
    <3>5. DevAsks(c)
      BY <3>2, <3>3, <3>4 DEF DevAsks, DownSteps
    <3>6. ~command'.blind => DevSees(command)'
      BY <1>1, <1>4, <2>3, <3>2 DEF DevSees, EmptySteps
    <3>7. DevLeft(command)'
      <4>1. \A v \in c.asked : v \in ToSet(c.left)
        BY <3>2, <3>4
      <4> QED BY <3>4, <4>1 DEF DevLeft
    <3>8. told' = NoOutcome
      BY <1>2, <3>1, DevDown
    <3> QED BY <2>2, <3>2, <3>4, <3>5, <3>6, <3>7, <3>8, DevSilent DEF DevInv, DevCommandOK
  <2>5. CASE ~Selective(command)
    <3>1. End("Success")
      BY <1>8, <2>5 DEF Selective
    <3>2. /\ command' = Idle /\ told'.exit = "Success" /\ told'.blind = command.blind
          /\ told'.wipe = command.wipe /\ told'.asked = command.asked
      BY <3>1 DEF End
    <3>3. ~command.wipe => command.asked = {}
      BY <1>2, <2>5, DevDown
    <3>4. ~command.blind => /\ containers' = {} /\ ~networked'
                            /\ command.wipe => disk' = {}
      BY <1>1, <1>4, <2>3
    <3>5. ExitIsTrue'
      BY <3>2, <3>3, <3>4 DEF ExitIsTrue, SuccessMeansDone, FailsForACause
    <3>6. command'.step = "none"
      BY <3>2 DEF Idle
    <3>7. DevTold'
      BY <3>2, <3>5, <3>6 DEF DevTold, ExitCodes
    <3> QED BY <2>2, <3>2, <3>7, DevIdle DEF DevInv
  <2> QED BY <2>4, <2>5
<1> QED BY <1>6, <1>7, <1>8 DEF ForceRemoveNetworks

LEMMA HeadAndTail ==
    ASSUME NEW S, NEW seq \in Seq(S), seq # <<>>
    PROVE  /\ Head(seq) \in ToSet(seq) /\ Tail(seq) \in Seq(S)
           /\ ToSet(Tail(seq)) \subseteq ToSet(seq)
           /\ \A x \in ToSet(seq) : x = Head(seq) \/ x \in ToSet(Tail(seq))
<1>1. Len(seq) \in Nat \ {0} /\ DOMAIN seq = 1 .. Len(seq) /\ Head(seq) = seq[1]
  OBVIOUS
<1>2. /\ Tail(seq) \in Seq(S) /\ DOMAIN Tail(seq) = 1 .. Len(seq) - 1
      /\ \A i \in 1 .. Len(seq) - 1 : Tail(seq)[i] = seq[i + 1]
  OBVIOUS
<1>3. PICK rest : rest = Tail(seq)
  OBVIOUS
<1>4. ASSUME NEW x \in ToSet(seq)
      PROVE  x = Head(seq) \/ x \in ToSet(rest)
  <2>1. PICK i \in 1 .. Len(seq) : x = seq[i]
    BY <1>1 DEF ToSet
  <2>2. CASE i = 1
    BY <1>1, <2>1, <2>2
  <2>3. CASE i # 1
    <3>1. i - 1 \in 1 .. Len(seq) - 1 /\ i = (i - 1) + 1
      BY <1>1, <2>3
    <3>2. x = rest[i - 1] /\ i - 1 \in DOMAIN rest
      BY <1>2, <1>3, <2>1, <3>1
    <3> QED BY <3>2 DEF ToSet
  <2> QED BY <2>2, <2>3
<1>5. ASSUME NEW x \in ToSet(rest)
      PROVE  x \in ToSet(seq)
  <2>1. PICK i \in 1 .. Len(seq) - 1 : x = rest[i]
    BY <1>2, <1>3, <1>5 DEF ToSet
  <2>2. x = seq[i + 1] /\ i + 1 \in DOMAIN seq
    BY <1>1, <1>2, <1>3, <2>1
  <2> QED BY <2>2 DEF ToSet
<1>6. Head(seq) \in ToSet(seq)
  BY <1>1 DEF ToSet
<1> QED BY <1>2, <1>3, <1>4, <1>5, <1>6

LEMMA DevResetsVolume ==
    ASSUME DevInv, ResetVolume, devScene' = devScene
    PROVE  DevInv'
<1>1. /\ command.step = "select" /\ command.left # <<>>
      /\ UNCHANGED <<containers, networked, taken>>
  BY DEF ResetVolume
<1>2. /\ command \in DevCommands
      /\ command.name = "reset" /\ ~command.wipe
      /\ ToSet(command.left) \subseteq command.asked
      /\ command.blind => command.faulty
      /\ command.blind \in BOOLEAN /\ command.faulty \in BOOLEAN
  BY <1>1 DEF DevInv, DevCommandOK, DevAsks, DevCommands
<1>3. ~command.blind => containers = {} /\ ~networked
  BY <1>1 DEF DevInv, DevCommandOK, DevSees, EmptySteps
<1>4. \A v \in command.asked : v \in ToSet(command.left) \/ v \notin data
  BY <1>1 DEF DevInv, DevCommandOK, DevLeft
<1>5. told = NoOutcome
  BY <1>1 DEF DevInv, DevTold
<1>6. PICK left \in Seq(Volumes) : left = command.left
  BY <1>2 DEF DevCommands
<1>7. PICK mounted : mounted = MountsIn(Config, containers) /\ mounted = Mounted(containers)
  BY MountedReads
<1>8. ASSUME disk' \subseteq disk, data' \subseteq data, mounted \subseteq disk'
      PROVE  DevWorld'
  <2>1. Config' = Config
    BY DevFrame
  <2>2. MountsIn(Config, containers') \subseteq disk'
    BY <1>1, <1>7, <1>8
  <2> QED BY <1>1, <1>8, <2>1, <2>2 DEF DevInv, DevWorld
<1>9. mounted \subseteq disk
  BY <1>7 DEF DevInv, DevWorld
<1>10. CASE FailDocker("TeardownFailed") /\ UNCHANGED <<disk, data>>
  <2>1. DevWorld'
    BY <1>1, <1>10, DevRests DEF DevInv, docker
  <2> QED BY <1>10, <2>1, DevFaults DEF DevInv, ExitCodes
\* The volume is gone from what is left, and with it its data.
<1>11. ASSUME command' = [command EXCEPT !.left = Tail(@)], told' = told,
              data' = data \ {Head(left)}, DevWorld'
       PROVE  DevInv'
  <2>1. PICK rest \in Seq(Volumes) : rest = Tail(left)
    BY <1>1, <1>6, HeadAndTail
  <2>2. PICK c \in DevCommands : c = command'
    BY <1>2, <1>6, <1>11, <2>1 DEF DevCommands
  <2>3. /\ c.step = "select" /\ c.name = "reset" /\ ~c.wipe /\ c.left = rest
        /\ c.asked = command.asked /\ c.faulty = command.faulty /\ c.blind = command.blind
    BY <1>1, <1>2, <1>6, <1>11, <2>1, <2>2 DEF DevCommands
  <2>4. PICK after, before : after = ToSet(rest) /\ before = ToSet(left)
    OBVIOUS
  <2>5. after \subseteq before /\ \A v \in before : v = Head(left) \/ v \in after
    BY <1>1, <1>6, <2>1, <2>4, HeadAndTail
  <2>6. before \subseteq command.asked
    BY <1>2, <1>6, <2>4
  <2>7. PICK later : later = ToSet(c.left) /\ later = after
    BY <2>3, <2>4
  <2>8. DevAsks(c)
    BY <1>2, <2>3, <2>5, <2>6, <2>7 DEF DevAsks, DownSteps
  <2>9. ~command'.blind => DevSees(command)'
    BY <1>1, <1>3, <2>2, <2>3 DEF DevSees, EmptySteps
  <2>10. DevLeft(command)'
    <3>1. \A v \in c.asked : v \in later \/ v \notin data'
      BY <1>4, <1>6, <1>11, <2>3, <2>4, <2>5, <2>7
    <3> QED BY <2>2, <2>7, <3>1 DEF DevLeft
  <2>11. c \in DevCommands'
    BY DevFrame
  <2>12. DevTold'
    BY <1>5, <1>11, DevSilent
  <2> QED BY <1>11, <2>2, <2>8, <2>9, <2>10, <2>11, <2>12 DEF DevInv, DevCommandOK
<1>12. CASE RemoveBindPath
  <2>1. /\ data' = data \ {Head(left)} /\ disk' = disk /\ told' = told
        /\ command' = [command EXCEPT !.left = Tail(@)]
    BY <1>6, <1>12 DEF RemoveBindPath, Chosen
  <2>2. DevWorld'
    BY <1>8, <1>9, <2>1
  <2> QED BY <1>11, <2>1, <2>2
<1>13. CASE RemoveDockerVolume /\ Head(left) \in disk \ mounted
  <2>1. /\ disk' = disk \ {Head(left)} /\ data' = data \ {Head(left)} /\ told' = told
        /\ command' = [command EXCEPT !.left = Tail(@)]
    BY <1>6, <1>7, <1>13 DEF RemoveDockerVolume, RemoveVolumes, Chosen
  <2>2. DevWorld'
    BY <1>8, <1>9, <1>13, <2>1
  <2> QED BY <1>11, <2>1, <2>2
<1>14. CASE RemoveDockerVolume /\ Head(left) \notin disk \ mounted
  <2>1. End("TeardownFailed") /\ UNCHANGED <<disk, data>> /\ ~Bound(Head(left))
    BY <1>6, <1>7, <1>14 DEF RemoveDockerVolume, Chosen
  <2>2. DevWorld'
    BY <1>8, <1>9, <2>1
  <2>3. /\ command' = Idle /\ told'.exit = "TeardownFailed" /\ told'.name = "reset"
        /\ told'.faulty = command.faulty /\ told'.wipe = command.wipe
        /\ told'.asked = command.asked
    BY <1>2, <2>1 DEF End
  <2>4. ~command.blind => mounted = {}
    BY <1>3, <1>7, MountsNothing
  <2>5. ~command.faulty => Head(left) \notin disk'
    BY <1>2, <1>14, <2>1, <2>4
  <2>6. Head(left) \in command.asked
    BY <1>1, <1>2, <1>6, HeadAndTail
  <2>7. (~Bound(Head(left)))'
    <3>1. Config' = Config
      BY DevFrame
    <3> QED BY <2>1, <3>1 DEF Bound
  <2>8. ExitIsTrue'
    BY <1>2, <2>3, <2>5, <2>6, <2>7 DEF ExitIsTrue, SuccessMeansDone, FailsForACause
  <2>9. command'.step = "none"
    BY <2>3 DEF Idle
  <2>10. DevTold'
    BY <2>3, <2>8, <2>9 DEF DevTold, ExitCodes
  <2> QED BY <2>2, <2>3, <2>10, DevIdle DEF DevInv
<1> QED BY <1>10, <1>12, <1>13, <1>14 DEF ResetVolume

LEMMA DevFinishes ==
    ASSUME DevInv, FinishReset, devScene' = devScene
    PROVE  DevInv'
<1>1. DevWorld'
  BY DevRests DEF DevInv, FinishReset
<1>2. /\ command' = Idle /\ told'.exit = "Success" /\ told'.name = command.name
      /\ told'.blind = command.blind /\ told'.wipe = command.wipe
      /\ told'.asked = command.asked
  BY DEF FinishReset, End
<1>3. UNCHANGED docker
  BY DEF FinishReset
<1>4. ExitIsTrue'
  <2>1. CASE command.step = "done"
    <3>1. command.name = "validate"
      BY <2>1 DEF DevInv, DevCommandOK, DevAsks
    <3> QED BY <1>2, <3>1 DEF ExitIsTrue, SuccessMeansDone, FailsForACause
  <2>2. CASE command.step = "select" /\ command.left = <<>>
    <3>1. ~command.wipe
      BY <2>2 DEF DevInv, DevCommandOK, DevAsks
    <3>2. ~command.blind => containers = {} /\ ~networked
      BY <2>2 DEF DevInv, DevCommandOK, DevSees, EmptySteps
    <3>3. command.asked \cap data = {}
      <4>1. \A v \in command.asked : v \in ToSet(<<>>) \/ v \notin data
        BY <2>2 DEF DevInv, DevCommandOK, DevLeft
      <4>2. ToSet(<<>>) = {}
        BY DEF ToSet
      <4> QED BY <4>1, <4>2
    <3> QED BY <1>2, <1>3, <3>1, <3>2, <3>3
            DEF ExitIsTrue, SuccessMeansDone, FailsForACause, docker
  <2> QED BY <2>1, <2>2 DEF FinishReset
<1>5. command'.step = "none"
  BY <1>2 DEF Idle
<1>6. DevTold'
  BY <1>2, <1>4, <1>5 DEF DevTold, ExitCodes
<1> QED BY <1>1, <1>2, <1>6, DevIdle DEF DevInv

\* What was told stays true while nothing happens to docker.
LEMMA DevStands ==
    ASSUME DevInv, UNCHANGED <<docker, told, devScene>>,
           command' = command \/ command' = Idle
    PROVE  DevTold'
<1>1. Config' = Config /\ LoadConfigResult' = LoadConfigResult
  BY DevFrame
<1>2. ExitIsTrue'
  <2>1. \A v \in told.asked : Bound(v)' = Bound(v)
    BY <1>1 DEF Bound
  <2>2. SuccessMeansDone'
    BY DEF DevInv, DevTold, ExitIsTrue, SuccessMeansDone, docker
  <2>3. FailsForACause'
    BY <1>1, <2>1 DEF DevInv, DevTold, ExitIsTrue, FailsForACause, docker
  <2> QED BY <2>2, <2>3 DEF ExitIsTrue
<1>3. command'.step # "none" => told = NoOutcome
  BY DEF DevInv, DevTold, Idle
<1> QED BY <1>2, <1>3 DEF DevInv, DevTold

\* A command knows as much as before while nothing happens to docker.
LEMMA DevKnows ==
    ASSUME DevInv, UNCHANGED <<docker, command, devScene>>
    PROVE  DevCommandOK'
<1>1. command \in DevCommands' /\ DevAsks(command)
  BY DevFrame DEF DevInv, DevCommandOK
<1>2. (~command.blind => DevSees(command))'
  BY DEF DevInv, DevCommandOK, DevSees, docker
<1>3. DevLeft(command)'
  BY DEF DevInv, DevCommandOK, DevLeft, docker
<1> QED BY <1>1, <1>2, <1>3 DEF DevCommandOK

LEMMA DevKilled ==
    ASSUME DevInv, Kill, devScene' = devScene
    PROVE  DevInv'
<1>1. command' = Idle /\ UNCHANGED <<docker, taken, told>>
  BY DEF Kill
<1>2. DevWorld'
  BY <1>1, DevRests DEF DevInv
<1> QED BY <1>1, <1>2, DevIdle, DevStands DEF DevInv

LEMMA DevPortTaken ==
    ASSUME DevInv, TakePort, devScene' = devScene
    PROVE  DevInv'
<1>1. taken' = ~taken /\ UNCHANGED <<docker, command, told>>
  BY DEF TakePort
<1>2. taken' \in BOOLEAN
  BY <1>1
<1>3. Config' = Config
  BY DevFrame
<1>4. DevWorld'
  BY <1>1, <1>2, <1>3 DEF DevInv, DevWorld, docker
<1> QED BY <1>1, <1>4, DevKnows, DevStands DEF DevInv

LEMMA DevStarts == DevInit => DevInv
<1> SUFFICES ASSUME DevInit
             PROVE  DevInv
  OBVIOUS
<1>1. MountsIn(Config, containers) = {}
  BY MountsNothing DEF DevInit
<1>2. DevWorld
  BY <1>1 DEF DevInit, DevWorld
<1>3. command = Idle /\ told = NoOutcome
  BY DEF DevInit
<1>4. Idle.step = "none" /\ Idle.blind = FALSE
  BY DEF Idle
<1>5. PICK c : c = Idle
  OBVIOUS
<1>6. DevAsks(c)
  BY <1>4, <1>5 DEF DevAsks, DownSteps
<1>7. DevSees(c) /\ DevLeft(c)
  BY <1>4, <1>5 DEF DevSees, DevLeft, EmptySteps
<1>8. DevCommandOK
  BY <1>3, <1>5, <1>6, <1>7, IdleTyped DEF DevCommandOK
<1>9. NoOutcome.name = "none" /\ NoOutcome.exit = "Success"
  BY DEF NoOutcome
<1>10. ExitIsTrue
  BY <1>3, <1>9 DEF ExitIsTrue, SuccessMeansDone, FailsForACause
<1>11. DevTold
  BY <1>3, <1>9, <1>10 DEF DevTold, ExitCodes
<1> QED BY <1>2, <1>8, <1>11 DEF DevInv

LEMMA DevKept == DevInv /\ [DevNext]_devVars => DevInv'
<1> SUFFICES ASSUME DevInv, [DevNext]_devVars
             PROVE  DevInv'
  OBVIOUS
<1>1. CASE UNCHANGED devVars
  <2>1. UNCHANGED <<docker, taken, command, told, devScene>>
    BY <1>1 DEF devVars, docker
  <2>2. DevWorld'
    BY <2>1, DevRests DEF DevInv
  <2> QED BY <2>1, <2>2, DevKnows, DevStands DEF DevInv
<1>2. CASE DevNext
  <2>1. devScene' = devScene
    BY <1>2 DEF DevNext
  <2>2. CASE RunValidate
    BY <2>1, <2>2, DevValidate
  <2>3. CASE \E enable, disable \in SUBSET Keys : RunStart(enable, disable)
    BY <2>1, <2>3, DevStart
  <2>4. CASE \E wipe \in BOOLEAN : RunStop(wipe)
    BY <2>1, <2>4, DevStop
  <2>5. CASE \E mode \in Modes \cup {"default"}, vs \in BoundedSeq(Volumes, 2) : RunReset(mode, vs)
    <3>1. PICK mode \in Modes \cup {"default"}, vs \in BoundedSeq(Volumes, 2) : RunReset(mode, vs)
      BY <2>5
    <3>2. vs \in Seq(Volumes)
      BY SequencesUpTo
    <3> QED BY <2>1, <3>1, <3>2, DevReset
  <2>6. CASE DevStep
    BY <2>1, <2>6, DevRefuses, DevChecks, DevComesUp, DevComesDown, DevListsContainers,
       DevRemovesContainers, DevListsVolumes, DevRemovesVolumes, DevListsNetworks,
       DevRemovesNetworks, DevResetsVolume, DevFinishes DEF DevStep
  <2>7. CASE Kill
    BY <2>1, <2>7, DevKilled
  <2>8. CASE TakePort
    BY <2>1, <2>8, DevPortTaken
  <2> QED BY <1>2, <2>2, <2>3, <2>4, <2>5, <2>6, <2>7, <2>8 DEF DevNext
<1> QED BY <1>1, <1>2

\* Success leaves nothing behind that was to go, and a failure has a cause the user
\* can remove: whatever the configuration, however often the calls to docker fail and
\* wherever the tool is killed (src/tools/dev-bootstrap: the commands of the tool).
THEOREM ExitIsAlwaysTrue == DevSpec => []ExitIsTrue
<1>1. DevInv => ExitIsTrue
  BY DEF DevInv, DevTold
<1> QED BY <1>1, DevStarts, DevKept, PTL DEF DevSpec

\* Every variable has its type; a container's volumes and network exist, so docker
\* never has a container to remove whose volume is gone (compose up, down and the
\* forced removals).
THEOREM DevTyped == DevSpec => []DevTypeOK
<1>1. DevInv => DevTypeOK
  <2> SUFFICES ASSUME DevInv
               PROVE  DevTypeOK
    OBVIOUS
  <2>1. Mounted(containers) = MountsIn(Config, containers)
    BY MountedReads
  <2>2. /\ command.step \in CommandSteps /\ command.mode \in Modes
        /\ command.profiles \subseteq Keys /\ command.asked \subseteq Volumes
    BY DEF DevInv, DevCommandOK, DevCommands
  <2> QED BY <2>1, <2>2 DEF DevInv, DevWorld, DevTold, DevTypeOK
<1> QED BY <1>1, DevStarts, DevKept, PTL DEF DevSpec

\* The steps that remove a volume are those of a command that was asked to.
LEMMA DevLosesOnlyTheAsked ==
    ASSUME DevInv, [DevNext]_devVars
    PROVE  data \ data' \subseteq command.asked
<1>1. data \subseteq Volumes
  BY DEF DevInv, DevWorld
<1>2. CASE UNCHANGED data \/ data \subseteq data'
  BY <1>2
<1>3. CASE ComposeDown
  <2>1. PICK wiped \in SUBSET disk : (wiped # {} => command.wipe) /\ RemoveVolumes(wiped)
    BY <1>3 DEF ComposeDown
  <2>2. command.wipe => command.asked = Volumes
    BY <1>3 DEF ComposeDown, DevInv, DevCommandOK, DevAsks, DownSteps
  <2>3. CASE wiped = {}
    BY <2>1, <2>3 DEF RemoveVolumes
  <2>4. CASE wiped # {}
    BY <1>1, <2>1, <2>2, <2>4
  <2> QED BY <2>3, <2>4
<1>4. CASE ForceRemoveVolumes
  <2>1. command.asked = Volumes
    BY <1>4 DEF ForceRemoveVolumes, DevInv, DevCommandOK, DevAsks, DownSteps
  <2> QED BY <1>1, <2>1
<1>5. CASE ResetVolume
  <2>1. /\ command.step = "select" /\ command.left # <<>> /\ command.left \in Seq(Volumes)
        /\ ToSet(command.left) \subseteq command.asked
    BY <1>5 DEF ResetVolume, DevInv, DevCommandOK, DevAsks, DevCommands
  <2>2. Chosen \in command.asked
    BY <2>1, HeadAndTail DEF Chosen
  <2>3. data \ {Chosen} \subseteq data'
    BY <1>5 DEF ResetVolume, RemoveBindPath, RemoveDockerVolume, RemoveVolumes
  <2> QED BY <2>2, <2>3
<1>6. CASE ComposeUp
  BY <1>6 DEF ComposeUp
<1>7. ASSUME DevNext, ~ComposeDown, ~ForceRemoveVolumes, ~ResetVolume, ~ComposeUp
      PROVE  data' = data
  <2>1. CASE DevStep
    BY <1>7, <2>1 DEF DevStep, Refuse, Preflight, ListContainers, ListVolumes, ListNetworks,
       Listing, ForceRemoveContainers, ForceRemoveNetworks, FinishReset, docker
  <2>2. CASE RunValidate \/ Kill \/ TakePort
    BY <2>2 DEF RunValidate, Issue, Kill, TakePort, docker
  <2>3. CASE \E enable, disable \in SUBSET Keys : RunStart(enable, disable)
    BY <2>3 DEF RunStart, Issue, docker
  <2>4. CASE \E wipe \in BOOLEAN : RunStop(wipe)
    BY <2>4 DEF RunStop, Issue, docker
  <2>5. CASE \E mode \in Modes \cup {"default"}, vs \in BoundedSeq(Volumes, 2) : RunReset(mode, vs)
    BY <2>5 DEF RunReset, Issue, docker
  <2> QED BY <1>7, <2>1, <2>2, <2>3, <2>4, <2>5 DEF DevNext
<1>8. CASE UNCHANGED devVars
  BY <1>8 DEF devVars
<1> QED BY <1>2, <1>3, <1>4, <1>5, <1>6, <1>7, <1>8

\* A volume's data is lost only to a command that was asked to remove that volume,
\* whatever fails on the way and whenever the tool is killed (stop --volumes, reset).
THEOREM NothingElseIsLost == DevSpec => OnlyTheAskedIsLost
<1> DEFINE Loses == data \ data' \subseteq command.asked
<1>1. DevInv /\ [DevNext]_devVars => [Loses]_devVars
  BY DevLosesOnlyTheAsked
<1> HIDE DEF Loses
<1>2. DevSpec => [][Loses]_devVars
  BY <1>1, DevStarts, DevKept, PTL DEF DevSpec
<1> QED BY <1>2 DEF OnlyTheAskedIsLost, Loses

-----------------------------------------------------------------------------
(* The validation engine: sets in order                                      *)

\* A finite set of numbers has a largest one.
LEMMA LargestOf ==
    ASSUME NEW S, S \subseteq Nat, IsFiniteSet(S), S # {}
    PROVE  Max(S) \in S /\ \A y \in S : y <= Max(S)
<1> DEFINE Reaches(T) == \E m \in T : \A y \in T : y <= m
<1> DEFINE N == {n \in Nat : \A T \in SUBSET Nat :
                    IsFiniteSet(T) /\ Cardinality(T) = n /\ T # {} => Reaches(T)}
<1>1. 0 \in N
  BY FS_EmptySet
<1>2. ASSUME NEW n \in Nat, n \in N PROVE n + 1 \in N
  <2> SUFFICES ASSUME NEW T \in SUBSET Nat, IsFiniteSet(T), Cardinality(T) = n + 1, T # {}
               PROVE  Reaches(T)
    BY <1>2
  <2>1. PICK x \in T : TRUE
    OBVIOUS
  <2>2. PICK R : R = T \ {x}
    OBVIOUS
  <2>3. IsFiniteSet(R) /\ Cardinality(R) = n
    <3>1. IsFiniteSet(T \ {x}) /\ Cardinality(T \ {x}) = (n + 1) - 1
      BY <2>1, FS_RemoveElement
    <3> QED BY <2>2, <3>1
  <2>4. CASE R = {}
    BY <2>1, <2>2, <2>4
  <2>5. CASE R # {}
    <3>1. PICK m \in R : \A y \in R : y <= m
      BY <1>2, <2>2, <2>3, <2>5
    <3>2. CASE x <= m
      BY <2>1, <2>2, <3>1, <3>2
    <3>3. CASE m <= x
      <4>1. \A y \in T : y <= x
        BY <2>1, <2>2, <3>1, <3>3
      <4> QED BY <2>1, <4>1
    <3> QED BY <2>1, <2>2, <3>1, <3>2, <3>3
  <2> QED BY <2>4, <2>5
<1>3. Cardinality(S) \in N
  <2>1. Nat \subseteq N
    <3> HIDE DEF N
    <3> QED BY <1>1, <1>2, Induction
  <2> QED BY <2>1, FS_CardinalityType
<1>4. PICK m \in S : \A y \in S : y <= m
  BY <1>3
<1>5. \E x \in S : \A y \in S : x >= y
  BY <1>4
<1> QED BY <1>5 DEF Max

Increasing(q, n) == \A i, j \in 1 .. n : i < j => q[i] < q[j]

LEMMA SortedExists ==
    ASSUME NEW S, S \subseteq Nat, IsFiniteSet(S)
    PROVE  \E q \in [1 .. Cardinality(S) -> S] : Increasing(q, Cardinality(S))
<1> DEFINE N == {n \in Nat : \A T \in SUBSET Nat :
                    IsFiniteSet(T) /\ Cardinality(T) = n
                        => \E q \in [1 .. n -> T] : Increasing(q, n)}
<1>1. 0 \in N
  <2> SUFFICES ASSUME NEW T \in SUBSET Nat
               PROVE  \E q \in [1 .. 0 -> T] : Increasing(q, 0)
    OBVIOUS
  <2> DEFINE q == [i \in 1 .. 0 |-> 0]
  <2>1. q \in [1 .. 0 -> T] /\ Increasing(q, 0)
    BY DEF Increasing
  <2> QED BY <2>1
<1>2. ASSUME NEW n \in Nat, n \in N PROVE n + 1 \in N
  <2> SUFFICES ASSUME NEW T \in SUBSET Nat, IsFiniteSet(T), Cardinality(T) = n + 1
               PROVE  \E q \in [1 .. n + 1 -> T] : Increasing(q, n + 1)
    BY <1>2
  <2>1. T # {}
    BY FS_EmptySet
  <2>2. PICK m \in T : \A y \in T : y <= m
    BY <2>1, LargestOf
  <2>3. PICK R : R = T \ {m}
    OBVIOUS
  <2>4. IsFiniteSet(R) /\ Cardinality(R) = n
    <3>1. IsFiniteSet(T \ {m}) /\ Cardinality(T \ {m}) = (n + 1) - 1
      BY <2>2, FS_RemoveElement
    <3> QED BY <2>3, <3>1
  <2>5. PICK q \in [1 .. n -> R] : Increasing(q, n)
    BY <1>2, <2>3, <2>4
  <2> DEFINE p == [i \in 1 .. n + 1 |-> IF i = n + 1 THEN m ELSE q[i]]
  <2>6. p \in [1 .. n + 1 -> T]
    BY <2>2, <2>3, <2>5
  <2>7. Increasing(p, n + 1)
    <3> SUFFICES ASSUME NEW i \in 1 .. n + 1, NEW j \in 1 .. n + 1, i < j
                 PROVE  p[i] < p[j]
      BY DEF Increasing
    <3>1. i \in 1 .. n /\ p[i] = q[i] /\ q[i] \in R
      BY <2>5
    <3>2. CASE j = n + 1
      <4>1. q[i] # m /\ q[i] <= m /\ q[i] \in Nat /\ m \in Nat
        BY <2>2, <2>3, <3>1
      <4> QED BY <3>1, <3>2, <4>1
    <3>3. CASE j # n + 1
      <4>1. j \in 1 .. n /\ p[j] = q[j]
        BY <3>3
      <4> QED BY <2>5, <3>1, <4>1 DEF Increasing
    <3> QED BY <3>2, <3>3
  <2> HIDE DEF p
  <2> QED BY <2>6, <2>7
<1>3. Nat \subseteq N
  <2> HIDE DEF N
  <2> QED BY <1>1, <1>2, Induction
<1> QED BY <1>3, FS_CardinalityType

\* The types of a set in order: each of them once.
LEMMA SortedIs ==
    ASSUME NEW S, S \subseteq Nat, IsFiniteSet(S)
    PROVE  /\ Sorted(S) \in Seq(S) /\ Len(Sorted(S)) = Cardinality(S)
           /\ IsInjective(Sorted(S)) /\ Range(Sorted(S)) = S
<1>1. PICK n \in Nat : n = Cardinality(S)
  BY FS_CardinalityType
<1>2. PICK q : q = Sorted(S)
  OBVIOUS
<1>3. q \in [1 .. n -> S] /\ Increasing(q, n)
  BY <1>1, <1>2, SortedExists DEF Sorted, Increasing
<1>4. q \in Seq(S) /\ Len(q) = n /\ DOMAIN q = 1 .. n
  BY <1>3
<1>5. IsInjective(q)
  <2> SUFFICES ASSUME NEW i \in 1 .. n, NEW j \in 1 .. n, q[i] = q[j], i # j
               PROVE  FALSE
    BY <1>4 DEF IsInjective
  <2>1. (q[i] < q[j]) \/ (q[j] < q[i])
    BY <1>3 DEF Increasing
  <2>2. q[i] \in Nat /\ q[j] \in Nat
    BY <1>3
  <2> QED BY <2>1, <2>2
<1>6. Range(q) = S
  <2>1. PICK D : D = 1 .. n
    OBVIOUS
  <2>2. IsFiniteSet(D) /\ Cardinality(D) = n
    BY <2>1, FS_Interval
  <2>3. q \in Injection(D, S)
    BY <1>3, <1>4, <1>5, <2>1 DEF Injection
  <2>4. q \in Surjection(D, S)
    BY <1>1, <2>2, <2>3, FS_Injection
  <2> QED BY <1>4, <2>1, <2>4 DEF Surjection, Range
<1> QED BY <1>1, <1>2, <1>4, <1>5, <1>6

\* What taking the head away leaves of a sequence.
LEMMA TailOf ==
    ASSUME NEW T, NEW q \in Seq(T), q # <<>>, IsInjective(q)
    PROVE  /\ Head(q) \in Range(q) /\ Head(q) \in T
           /\ Tail(q) \in Seq(T) /\ IsInjective(Tail(q))
           /\ Range(Tail(q)) = Range(q) \ {Head(q)}
<1>1. PICK n \in Nat : n + 1 = Len(q)
  <2>1. Len(q) \in Nat /\ Len(q) # 0
    OBVIOUS
  <2>2. Len(q) - 1 \in Nat /\ (Len(q) - 1) + 1 = Len(q)
    BY <2>1
  <2> QED BY <2>2
<1>2. DOMAIN q = 1 .. n + 1 /\ Head(q) = q[1] /\ q \in [1 .. n + 1 -> T]
  BY <1>1
<1>3. PICK r : r = Tail(q)
  OBVIOUS
<1>4. r \in Seq(T) /\ DOMAIN r = 1 .. n /\ \A i \in 1 .. n : r[i] = q[i + 1]
  BY <1>1, <1>3
<1>5. \A i, j \in 1 .. n + 1 : q[i] = q[j] => i = j
  BY <1>2 DEF IsInjective
<1>6. IsInjective(r)
  <2>1. ASSUME NEW i \in 1 .. n, NEW j \in 1 .. n, r[i] = r[j] PROVE i = j
    <3>1. i + 1 \in 1 .. n + 1 /\ j + 1 \in 1 .. n + 1
      OBVIOUS
    <3>2. q[i + 1] = q[j + 1]
      BY <1>4, <2>1
    <3>3. i + 1 = j + 1
      BY <1>5, <3>1, <3>2
    <3> QED BY <3>3
  <2> QED BY <1>4, <2>1 DEF IsInjective
<1>7. Range(r) = Range(q) \ {q[1]}
  <2>1. ASSUME NEW x \in Range(r) PROVE x \in Range(q) /\ x # q[1]
    <3>1. PICK i \in 1 .. n : x = q[i + 1]
      BY <1>4 DEF Range
    <3>2. i + 1 \in 1 .. n + 1 /\ i + 1 # 1 /\ 1 \in 1 .. n + 1
      OBVIOUS
    <3> QED BY <1>2, <1>5, <3>1, <3>2 DEF Range
  <2>2. ASSUME NEW x \in Range(q), x # q[1] PROVE x \in Range(r)
    <3>1. PICK i \in 1 .. n + 1 : x = q[i]
      BY <1>2 DEF Range
    <3>2. i - 1 \in 1 .. n /\ (i - 1) + 1 = i
      BY <2>2, <3>1
    <3>3. r[i - 1] = x /\ i - 1 \in DOMAIN r
      BY <1>4, <3>1, <3>2
    <3> QED BY <3>3 DEF Range
  <2> QED BY <2>1, <2>2
<1>8. q[1] \in Range(q) /\ q[1] \in T
  <2>1. 1 \in 1 .. n + 1
    OBVIOUS
  <2> QED BY <1>2, <2>1 DEF Range
<1> QED BY <1>2, <1>3, <1>4, <1>6, <1>7, <1>8

\* Two sequences without a common element, one after the other.
LEMMA Joined ==
    ASSUME NEW T, NEW q \in Seq(T), NEW r \in Seq(T), IsInjective(q), IsInjective(r),
           Range(q) \cap Range(r) = {}
    PROVE  /\ q \o r \in Seq(T) /\ IsInjective(q \o r)
           /\ Range(q \o r) = Range(q) \cup Range(r)
<1>1. PICK m \in Nat, n \in Nat : m = Len(q) /\ n = Len(r)
  OBVIOUS
<1>2. DOMAIN q = 1 .. m /\ DOMAIN r = 1 .. n
  BY <1>1
<1>3. PICK s : s = q \o r
  OBVIOUS
<1>4. /\ s \in Seq(T) /\ DOMAIN s = 1 .. m + n
      /\ \A i \in 1 .. m + n : s[i] = IF i <= m THEN q[i] ELSE r[i - m]
  BY <1>1, <1>3
<1>5. ASSUME NEW i \in 1 .. m + n
      PROVE  \/ i \in 1 .. m /\ s[i] = q[i] /\ s[i] \in Range(q)
             \/ i - m \in 1 .. n /\ s[i] = r[i - m] /\ s[i] \in Range(r)
  <2>1. CASE i <= m
    <3>1. i \in 1 .. m
      BY <2>1
    <3> QED BY <1>2, <1>4, <2>1, <3>1 DEF Range
  <2>2. CASE ~(i <= m)
    <3>1. i - m \in 1 .. n
      BY <2>2
    <3> QED BY <1>2, <1>4, <2>2, <3>1 DEF Range
  <2> QED BY <2>1, <2>2
<1>6. IsInjective(s)
  <2> SUFFICES ASSUME NEW i \in 1 .. m + n, NEW j \in 1 .. m + n, s[i] = s[j]
               PROVE  i = j
    BY <1>4 DEF IsInjective
  <2>1. \A a, b \in 1 .. m : q[a] = q[b] => a = b
    BY <1>2 DEF IsInjective
  <2>2. \A a, b \in 1 .. n : r[a] = r[b] => a = b
    BY <1>2 DEF IsInjective
  <2>3. CASE s[i] \in Range(q)
    <3>1. /\ i \in 1 .. m /\ s[i] = q[i]
          /\ j \in 1 .. m /\ s[j] = q[j]
      BY <1>5, <2>3
    <3> QED BY <2>1, <3>1
  <2>4. CASE s[i] \in Range(r)
    <3>1. /\ i - m \in 1 .. n /\ s[i] = r[i - m]
          /\ j - m \in 1 .. n /\ s[j] = r[j - m]
      BY <1>5, <2>4
    <3>2. i - m = j - m
      BY <2>2, <3>1
    <3> QED BY <3>2
  <2> QED BY <1>5, <2>3, <2>4
<1>7. Range(s) = Range(q) \cup Range(r)
  <2>1. ASSUME NEW x \in Range(s) PROVE x \in Range(q) \cup Range(r)
    <3>1. PICK i \in 1 .. m + n : x = s[i]
      BY <1>4 DEF Range
    <3> QED BY <1>5, <3>1
  <2>2. ASSUME NEW x \in Range(q) PROVE x \in Range(s)
    <3>1. PICK i \in 1 .. m : x = q[i]
      BY <1>2 DEF Range
    <3>2. i \in 1 .. m + n /\ s[i] = q[i]
      BY <1>4
    <3> QED BY <1>4, <3>1, <3>2 DEF Range
  <2>3. ASSUME NEW x \in Range(r) PROVE x \in Range(s)
    <3>1. PICK i \in 1 .. n : x = r[i]
      BY <1>2 DEF Range
    <3>2. i + m \in 1 .. m + n /\ ~(i + m <= m) /\ (i + m) - m = i
      OBVIOUS
    <3>3. s[i + m] = r[i]
      BY <1>4, <3>2
    <3> QED BY <1>4, <3>1, <3>2, <3>3 DEF Range
  <2> QED BY <2>1, <2>2, <2>3
<1> QED BY <1>3, <1>4, <1>6, <1>7

\* One more at the end.
LEMMA OneMore ==
    ASSUME NEW T, NEW q \in Seq(T), NEW t \in T, IsInjective(q), t \notin Range(q)
    PROVE  /\ Append(q, t) \in Seq(T) /\ IsInjective(Append(q, t))
           /\ Range(Append(q, t)) = Range(q) \cup {t}
<1>1. PICK n \in Nat : n = Len(q)
  OBVIOUS
<1>2. PICK s : s = Append(q, t)
  OBVIOUS
<1>3. /\ s \in Seq(T) /\ DOMAIN q = 1 .. n /\ DOMAIN s = 1 .. n + 1
      /\ \A i \in 1 .. n : s[i] = q[i]
      /\ s[n + 1] = t
  BY <1>1, <1>2, Appended
<1>4. \A i \in 1 .. n : q[i] \in Range(q) /\ q[i] # t
  BY <1>3 DEF Range
<1>5. IsInjective(s)
  <2> SUFFICES ASSUME NEW i \in 1 .. n + 1, NEW j \in 1 .. n + 1, s[i] = s[j]
               PROVE  i = j
    BY <1>3 DEF IsInjective
  <2>1. \A a, b \in 1 .. n : q[a] = q[b] => a = b
    BY <1>3 DEF IsInjective
  <2>2. (i \in 1 .. n \/ i = n + 1) /\ (j \in 1 .. n \/ j = n + 1)
    OBVIOUS
  <2> QED BY <1>3, <1>4, <2>1, <2>2
<1>6. Range(s) = Range(q) \cup {t}
  <2>1. ASSUME NEW x \in Range(s) PROVE x \in Range(q) \cup {t}
    <3>1. PICK i \in 1 .. n + 1 : x = s[i]
      BY <1>3 DEF Range
    <3>2. i \in 1 .. n \/ i = n + 1
      OBVIOUS
    <3> QED BY <1>3, <1>4, <3>1, <3>2
  <2>2. ASSUME NEW x \in Range(q) PROVE x \in Range(s)
    <3>1. PICK i \in 1 .. n : x = q[i]
      BY <1>3 DEF Range
    <3>2. i \in 1 .. n + 1 /\ s[i] = x
      BY <1>3, <3>1
    <3> QED BY <1>3, <3>2 DEF Range
  <2>3. t \in Range(s)
    <3>1. n + 1 \in 1 .. n + 1
      OBVIOUS
    <3> QED BY <1>3, <3>1 DEF Range
  <2> QED BY <2>1, <2>2, <2>3
<1> QED BY <1>2, <1>3, <1>5, <1>6

-----------------------------------------------------------------------------
(* The validation engine: the plan                                           *)

\* What the plan looks like while it grows: the queue holds the types whose
\* dependencies are all planned, and each is deeper than those.
PlanSound ==
    /\ IsInjective(ordered) /\ IsInjective(queue) /\ Planned \cap Range(queue) = {}
    /\ \A t \in Types : t \in Planned \cup Range(queue) <=> registry[t] \subseteq Planned
    /\ \A i \in DOMAIN ordered : registry[ordered[i]] \subseteq {ordered[j] : j \in 1 .. i - 1}
    /\ \A t \in Planned \cup Range(queue) : \A d \in registry[t] : depth[d] < depth[t]

PlanTyped ==
    /\ scene \in ValidationScenarios
    /\ registry \in Dependencies /\ merged \in Nat
    /\ queue \in Seq(Types) /\ ordered \in Seq(Types)
    /\ depth \in [Types -> Nat]
    /\ outcome \in Outcomes

Started == {"running", "success", "rejected", "unknown", "missing", "reentered"}

PlanInv ==
    /\ PlanTyped
    /\ outcome.result \in {"merging", "refused"} => queue = <<>> /\ ordered = <<>>
    /\ outcome.result \notin {"merging", "refused"} => PlanSound
    /\ outcome.result = "cyclic" => Cyclic
    /\ outcome.result \in Started => Planned = Types

\* The types that the batch has entries of.
Present == {TypeOf(j) : j \in Indexes}

\* An entry under evaluation is not accepted yet; of the dependencies it has been
\* through, those it notes as missing have no entry and the others have one.
FrameSound(f, done) ==
    /\ f.index \in Indexes \ done
    /\ f.missing \cap Present = {}
    /\ TypeOf(f.index) \in Types =>
          /\ f.missing \subseteq registry[TypeOf(f.index)]
          /\ \A n \in 1 .. Cardinality(registry[TypeOf(f.index)]) :
                n < f.next => Declared(TypeOf(f.index))[n] \in Present \cup f.missing

\* A call inside another is of a type less deep.
StackSound(fs, done) ==
    /\ fs \in Seq(Frame)
    /\ \A a \in DOMAIN fs : FrameSound(fs[a], done)
    /\ \A a, b \in DOMAIN fs : a < b =>
          /\ TypeOf(fs[a].index) \in Types /\ TypeOf(fs[b].index) \in Types
          /\ depth[TypeOf(fs[b].index)] < depth[TypeOf(fs[a].index)]

\* The dependencies a call has been through have a value, are missing, or are those
\* of a call further in.
Dependency(f, n) == Declared(TypeOf(f.index))[n]
Got(done)        == {TypeOf(j) : j \in done}
Served(fs, done) ==
    \A a \in DOMAIN fs, n \in Nat \ {0} : n < fs[a].next =>
       \/ Dependency(fs[a], n) \in Got(done) \cup fs[a].missing
       \/ \E b \in DOMAIN fs : a < b /\ TypeOf(fs[b].index) = Dependency(fs[a], n)

\* A type's value is of an accepted entry of the type, and there once one is.
ResolvedSound ==
    /\ resolved \in [Types -> evaluated \cup {NoEntry}]
    /\ \A t \in Types : HasValue(t) => TypeOf(resolved[t]) = t
    /\ \A i \in evaluated : HasValue(TypeOf(i))

CanPass(i) == \E v \in Views(i) : Passes(i, v)

BatchInv ==
    /\ outcome.result \notin Started => frames = <<>> /\ evaluated = {}
    /\ \A i \in evaluated : i \in Indexes /\ CanPass(i)
    /\ ResolvedSound
    /\ StackSound(frames, evaluated)
    /\ Served(frames, evaluated)
    /\ NeverReentered
    /\ VerdictIsJustified

VerdictInv == PlanInv /\ BatchInv

LEMMA TypesAreNumbers ==
    /\ Types \subseteq Nat /\ IsFiniteSet(Types) /\ Cardinality(Types) \in Nat
    /\ Types = 1 .. Cardinality(Types)
    /\ \A S \in SUBSET Types : IsFiniteSet(S) /\ S \subseteq Nat /\ Cardinality(S) \in Nat
<1>1. IsFiniteSet(Types) /\ Types = 1 .. Cardinality(Types)
  BY ValidationAssumption
<1>2. Cardinality(Types) \in Nat
  BY <1>1, FS_CardinalityType
<1>3. Types \subseteq Nat
  BY <1>1, <1>2
<1>4. ASSUME NEW S \in SUBSET Types PROVE IsFiniteSet(S) /\ Cardinality(S) \in Nat
  BY <1>1, FS_Subset, FS_CardinalityType
<1> QED BY <1>1, <1>2, <1>3, <1>4

\* What scenario a behaviour has.
LEMMA SceneIs ==
    ASSUME scene \in ValidationScenarios
    PROVE  /\ scene.registry \in Dependencies /\ scene.overrides \in Seq(Override)
           /\ scene.batch \in Seq(Entry)
           /\ Indexes = 1 .. Len(scene.batch) /\ Len(scene.batch) \in Nat
           /\ \A i \in Indexes : scene.batch[i] \in Entry /\ TypeOf(i) \in Types \cup {Unknown}
<1>1. /\ scene.registry \in Dependencies /\ scene.overrides \in Seq(Override)
      /\ scene.batch \in Seq(Entry)
  BY ValidationAssumption
<1>2. Indexes = 1 .. Len(scene.batch) /\ Len(scene.batch) \in Nat
  BY <1>1 DEF Indexes
<1>3. \A i \in Indexes : scene.batch[i] \in Entry
  BY <1>1, <1>2
<1>4. \A i \in Indexes : TypeOf(i) \in Types \cup {Unknown}
  BY <1>3 DEF TypeOf, Entry
<1> QED BY <1>1, <1>2, <1>3, <1>4

\* A plan of all types in order leaves no circle.
LEMMA NoCircle ==
    ASSUME PlanTyped, PlanSound, Planned = Types
    PROVE  ~Cyclic
<1> SUFFICES ASSUME NEW S \in SUBSET Types, S # {}, \A t \in S : registry[t] \cap S # {}
             PROVE  FALSE
  BY DEF Cyclic
<1> DEFINE T == {i \in DOMAIN ordered : ordered[i] \in S}
<1>1. DOMAIN ordered = 1 .. Len(ordered) /\ Len(ordered) \in Nat
  BY DEF PlanTyped
<1>2. T \subseteq Nat /\ T # {}
  <2>1. PICK t \in S : TRUE
    OBVIOUS
  <2>2. PICK i \in DOMAIN ordered : ordered[i] = t
    BY <2>1 DEF Planned, Range
  <2> QED BY <1>1, <2>1, <2>2
<1>3. PICK i \in T : \A j \in T : i <= j
  <2> HIDE DEF T
  <2> QED BY <1>2, LeastOf
<1>4. PICK d \in registry[ordered[i]] : d \in S
  BY <1>3
<1>5. PICK j \in 1 .. i - 1 : d = ordered[j]
  BY <1>3, <1>4 DEF PlanSound
<1>6. j \in T /\ j < i
  <2>1. i \in 1 .. Len(ordered)
    BY <1>1, <1>3
  <2>2. j \in 1 .. Len(ordered) /\ j < i
    BY <1>1, <1>5, <2>1
  <2> QED BY <1>1, <1>4, <1>5, <2>2
<1>7. i \in Nat /\ j \in Nat
  BY <1>2, <1>3, <1>6
<1> QED BY <1>3, <1>6, <1>7

\* A plan is complete when it is as long as the registry.
LEMMA CompleteMeansAll ==
    ASSUME PlanTyped, IsInjective(ordered)
    PROVE  PlanComplete <=> Planned = Types
<1>1. PICK n \in Nat : n = Len(ordered)
  BY DEF PlanTyped
<1>2. ordered \in [1 .. n -> Types] /\ DOMAIN ordered = 1 .. n
  BY <1>1 DEF PlanTyped
<1>3. PICK D : D = 1 .. n
  OBVIOUS
<1>4. IsFiniteSet(D) /\ Cardinality(D) = n
  BY <1>3, FS_Interval
<1>5. ordered \in Injection(D, Types)
  BY <1>2, <1>3 DEF Injection
<1>6. Cardinality(D) = Cardinality(Types) <=> ordered \in Surjection(D, Types)
  BY <1>5, TypesAreNumbers, FS_Injection
<1>7. ordered \in Surjection(D, Types) <=> Planned = Types
  <2>1. ASSUME ordered \in Surjection(D, Types) PROVE Planned = Types
    BY <1>2, <1>3, <2>1 DEF Surjection, Planned, Range
  <2>2. ASSUME Planned = Types PROVE ordered \in Surjection(D, Types)
    BY <1>2, <1>3, <2>2 DEF Surjection, Planned, Range
  <2> QED BY <2>1, <2>2
<1> QED BY <1>1, <1>4, <1>6, <1>7 DEF PlanComplete

LEMMA PlanStarts == ValidationInit => PlanInv
<1> SUFFICES ASSUME ValidationInit PROVE PlanInv
  OBVIOUS
<1>1. scene.registry \in Dependencies
  BY SceneIs DEF ValidationInit
<1>2. PlanTyped
  BY <1>1 DEF ValidationInit, PlanTyped, Outcomes, Result
<1> QED BY <1>2 DEF ValidationInit, PlanInv, Result, Started

LEMMA OverrideMerged ==
    ASSUME PlanInv, MergeOverride, UNCHANGED scene
    PROVE  PlanInv'
<1>1. merged + 1 \in DOMAIN scene.overrides
  <2>1. scene.overrides \in Seq(Override)
    BY SceneIs DEF PlanInv, PlanTyped
  <2>2. merged \in Nat /\ merged < Len(scene.overrides)
    BY DEF PlanInv, PlanTyped, MergeOverride
  <2> QED BY <2>1, <2>2
<1>2. PICK o \in Override : o = scene.overrides[merged + 1]
  <2>1. scene.overrides \in Seq(Override)
    BY SceneIs DEF PlanInv, PlanTyped
  <2> QED BY <1>1, <2>1
<1>3. registry' \in Dependencies
  <2>1. registry' = registry \/ registry' = [registry EXCEPT ![o.of] = o.to]
    BY <1>2 DEF MergeOverride
  <2>2. registry \in Dependencies /\ o.of \in Types /\ o.to \in SUBSET Types
    BY <1>2 DEF PlanInv, PlanTyped, Override
  <2> QED BY <2>1, <2>2 DEF Dependencies
<1>4. outcome' = outcome \/ outcome' = Result("refused", 0)
  BY DEF MergeOverride
<1>5. outcome' \in Outcomes /\ outcome'.result \in {"merging", "refused"}
  BY <1>4 DEF PlanInv, PlanTyped, MergeOverride, Outcomes, Result
<1>6. UNCHANGED <<queue, ordered, depth>> /\ merged' \in Nat /\ queue = <<>> /\ ordered = <<>>
  BY DEF MergeOverride, PlanInv, PlanTyped
<1>7. PlanTyped'
  BY <1>3, <1>5, <1>6 DEF PlanInv, PlanTyped
<1> QED BY <1>5, <1>6, <1>7 DEF PlanInv, Started

LEMMA RegistryChecked ==
    ASSUME PlanInv, CheckRegistry, UNCHANGED scene
    PROVE  PlanInv'
<1> DEFINE roots == {t \in Types : registry[t] = {}}
<1>1. /\ UNCHANGED <<registry, merged, ordered, depth, scene>> /\ ordered = <<>> /\ queue = <<>>
      /\ registry \in Dependencies
  BY DEF CheckRegistry, PlanInv, PlanTyped
<1>2. CASE Consistent(registry)
  <2>1. outcome' = Result("planning", 0) /\ queue' = Sorted(roots)
    BY <1>2 DEF CheckRegistry
  <2>2. PICK S : S = roots
    OBVIOUS
  <2>3. /\ Sorted(S) \in Seq(S) /\ IsInjective(Sorted(S)) /\ Range(Sorted(S)) = S
    BY <2>2, TypesAreNumbers, SortedIs
  <2>4. PICK q : q = Sorted(S)
    OBVIOUS
  <2>5. q \in Seq(Types) /\ queue' = q /\ IsInjective(q) /\ Range(q) = S
    <3>1. q \in Seq(S) /\ S \subseteq Types
      BY <2>2, <2>3, <2>4
    <3>2. q \in Seq(Types)
      BY <3>1, SeqMonotonic
    <3>3. queue' = q
      BY <2>1, <2>2, <2>4
    <3> QED BY <2>3, <2>4, <3>2, <3>3
  <2>6. PlanTyped'
    BY <1>1, <2>1, <2>5 DEF PlanInv, PlanTyped, Outcomes, Result
  <2>7. Planned' = {} /\ ordered' = <<>> /\ IsInjective(ordered') /\ DOMAIN ordered' = {}
    BY <1>1 DEF Planned, Range, IsInjective
  <2>8. PlanSound'
    <3>1. \A t \in Types : t \in S <=> registry[t] \subseteq {}
      BY <2>2
    <3>2. \A t \in S : registry[t] = {}
      BY <2>2
    <3> QED BY <1>1, <2>5, <2>7, <3>1, <3>2 DEF PlanSound
  <2> QED BY <2>1, <2>6, <2>8 DEF PlanInv, Result, Started
<1>3. CASE ~Consistent(registry)
  <2>1. outcome' = Result("refused", 0) /\ queue' = queue
    BY <1>3 DEF CheckRegistry
  <2> QED BY <1>1, <2>1 DEF PlanInv, PlanTyped, Outcomes, Result, Started
<1> QED BY <1>2, <1>3

\* The next type of the queue is planned and those it was the last dependency of
\* enter the queue.
LEMMA PlanGrows ==
    ASSUME PlanInv, PlanNext, UNCHANGED scene
    PROVE  PlanInv'
<1>1. /\ PlanTyped /\ PlanSound /\ outcome.result = "planning"
      /\ UNCHANGED <<registry, merged, outcome, scene>>
  BY DEF PlanNext, PlanInv
<1>2. /\ registry \in Dependencies /\ queue \in Seq(Types) /\ ordered \in Seq(Types)
      /\ depth \in [Types -> Nat]
  BY <1>1 DEF PlanTyped
<1>3. PICK t \in Types : t = Head(queue)
  BY <1>1, <1>2, TailOf DEF PlanSound, PlanNext
<1>4. PICK new \in SUBSET Types : new = Ready(t)
  BY DEF Ready
<1>5. \A f \in Types : f \in new <=> registry[f] \ Planned = {t}
  BY <1>4 DEF Ready
<1>6. /\ t \in Range(queue) /\ t \notin Planned
      /\ Tail(queue) \in Seq(Types) /\ IsInjective(Tail(queue))
      /\ Range(Tail(queue)) = Range(queue) \ {t}
  BY <1>1, <1>2, <1>3, TailOf DEF PlanSound, PlanNext
<1>7. PICK s \in Seq(Types) : s = Sorted(new) /\ IsInjective(s) /\ Range(s) = new
  <2>1. Sorted(new) \in Seq(new) /\ IsInjective(Sorted(new)) /\ Range(Sorted(new)) = new
    BY TypesAreNumbers, SortedIs
  <2>2. Sorted(new) \in Seq(Types)
    BY <2>1, SeqMonotonic
  <2> QED BY <2>1, <2>2
<1>8. \A f \in new : f \notin Planned \cup Range(queue)
  <2>1. \A f \in new : ~(registry[f] \subseteq Planned)
    BY <1>5, <1>6
  <2> QED BY <1>1, <2>1 DEF PlanSound
<1>9. /\ queue' \in Seq(Types) /\ IsInjective(queue')
      /\ Range(queue') = (Range(queue) \ {t}) \cup new
  <2>1. PICK q \in Seq(Types) : q = Tail(queue)
    BY <1>6
  <2>2. queue' = q \o s
    BY <1>3, <1>4, <1>7, <2>1 DEF PlanNext
  <2>3. IsInjective(q) /\ Range(q) = Range(queue) \ {t} /\ Range(q) \cap Range(s) = {}
    BY <1>6, <1>7, <1>8, <2>1
  <2> QED BY <1>7, <2>2, <2>3, Joined
<1>10. /\ ordered' \in Seq(Types) /\ IsInjective(ordered')
       /\ Planned' = Planned \cup {t}
  <2>1. ordered' = Append(ordered, t) /\ t \notin Range(ordered) /\ IsInjective(ordered)
    BY <1>1, <1>3, <1>6 DEF PlanNext, Planned, PlanSound
  <2>2. /\ Append(ordered, t) \in Seq(Types) /\ IsInjective(Append(ordered, t))
        /\ Range(Append(ordered, t)) = Range(ordered) \cup {t}
    BY <1>2, <2>1, OneMore
  <2> QED BY <2>1, <2>2 DEF Planned
<1>11. PICK P, Q : P = Planned /\ Q = Range(queue)
  OBVIOUS
<1>12. \A f \in Types : f \in P \cup Q <=> registry[f] \subseteq P
  BY <1>1, <1>11 DEF PlanSound
<1>13. ASSUME NEW f \in Types
       PROVE  f \in Planned' \cup Range(queue') <=> registry[f] \subseteq Planned'
  <2>1. f \in Planned' \cup Range(queue') <=> f \in P \cup Q \cup new
    BY <1>6, <1>9, <1>10, <1>11
  <2>2. registry[f] \subseteq Planned' <=> (registry[f] \subseteq P \/ registry[f] \ P = {t})
    BY <1>10, <1>11
  <2> QED BY <1>5, <1>11, <1>12, <2>1, <2>2
<1>14. ASSUME NEW i \in DOMAIN ordered'
       PROVE  registry[ordered'[i]] \subseteq {ordered'[j] : j \in 1 .. i - 1}
  <2>1. PICK n \in Nat : n = Len(ordered)
    BY <1>2
  <2>2. /\ DOMAIN ordered = 1 .. n /\ DOMAIN ordered' = 1 .. n + 1
        /\ \A j \in 1 .. n : ordered'[j] = ordered[j]
        /\ ordered'[n + 1] = t
    BY <1>2, <1>3, <2>1, Appended DEF PlanNext
  <2>3. ASSUME NEW k \in 1 .. n + 1, NEW D, D \subseteq {ordered[j] : j \in 1 .. k - 1}
        PROVE  D \subseteq {ordered'[j] : j \in 1 .. k - 1}
    <3> SUFFICES ASSUME NEW d \in D PROVE \E j \in 1 .. k - 1 : d = ordered'[j]
      OBVIOUS
    <3>1. PICK j \in 1 .. k - 1 : d = ordered[j]
      BY <2>3
    <3>2. j \in 1 .. n
      OBVIOUS
    <3> QED BY <2>2, <3>1, <3>2
  <2>4. CASE i \in 1 .. n
    <3>1. registry[ordered[i]] \subseteq {ordered[j] : j \in 1 .. i - 1}
      BY <1>1, <2>2, <2>4 DEF PlanSound
    <3>2. i \in 1 .. n + 1
      BY <2>4
    <3>3. registry[ordered[i]] \subseteq {ordered'[j] : j \in 1 .. i - 1}
      BY <2>3, <3>1, <3>2
    <3> QED BY <2>2, <2>4, <3>3
  <2>5. CASE i = n + 1
    <3>1. registry[t] \subseteq P
      BY <1>6, <1>11, <1>12
    <3>2. P = {ordered[j] : j \in 1 .. n} /\ n + 1 \in 1 .. n + 1 /\ (n + 1) - 1 = n
      BY <1>11, <2>2 DEF Planned, Range
    <3>3. registry[t] \subseteq {ordered'[j] : j \in 1 .. (n + 1) - 1}
      BY <2>3, <3>1, <3>2
    <3> QED BY <2>2, <2>5, <3>3
  <2> QED BY <2>2, <2>4, <2>5
<1>15. /\ depth' \in [Types -> Nat]
       /\ \A f \in Types \ new : depth'[f] = depth[f]
       /\ \A f \in new : \A d \in registry[f] : depth[d] < depth'[f]
  <2> DEFINE deepest(f) == Max({depth[d] : d \in registry[f]})
  <2>1. ASSUME NEW f \in new
        PROVE  deepest(f) \in Nat /\ \A d \in registry[f] : depth[d] <= deepest(f)
    <3>1. PICK D : D = {depth[d] : d \in registry[f]}
      OBVIOUS
    <3>2. registry[f] \in SUBSET Types /\ registry[f] # {}
      BY <1>2, <1>5 DEF Dependencies
    <3>3. D \subseteq Nat /\ D # {}
      BY <1>2, <3>1, <3>2
    <3>4. IsFiniteSet(D)
      <4>1. PICK R \in SUBSET Types : R = registry[f]
        BY <3>2
      <4>2. PICK g : g = [d \in R |-> depth[d]]
        OBVIOUS
      <4>3. g \in Surjection(R, D)
        BY <3>1, <4>1, <4>2 DEF Surjection
      <4>4. IsFiniteSet(R)
        BY TypesAreNumbers
      <4> QED BY <4>3, <4>4, FS_Surjection
    <3>5. Max(D) \in D /\ \A y \in D : y <= Max(D)
      BY <3>3, <3>4, LargestOf
    <3> QED BY <3>1, <3>3, <3>5
  <2>2. depth' = [f \in Types |-> IF f \in new THEN deepest(f) + 1 ELSE depth[f]]
    BY <1>3, <1>4 DEF PlanNext
  <2>3. \A f \in new : deepest(f) + 1 \in Nat
    BY <2>1
  <2>4. ASSUME NEW f \in new, NEW d \in registry[f]
        PROVE  depth[d] < deepest(f) + 1
    <3>1. deepest(f) \in Nat /\ depth[d] <= deepest(f)
      BY <2>1
    <3>2. PICK m \in Nat : m = deepest(f)
      BY <3>1
    <3>3. depth[d] \in Nat
      BY <1>2 DEF Dependencies
    <3> QED BY <3>1, <3>2, <3>3
  <2> HIDE DEF deepest
  <2>5. depth' \in [Types -> Nat]
    BY <1>2, <2>2, <2>3
  <2> QED BY <2>2, <2>4, <2>5
<1>16. ASSUME NEW f \in P \cup Q \cup new, NEW d \in registry[f]
       PROVE  depth'[d] < depth'[f]
  <2>1. f \in Types /\ d \in Types
    BY <1>2, <1>11 DEF Dependencies, Planned, Range
  <2>2. CASE f \in new
    <3>1. d \in P \cup Q
      BY <1>5, <1>6, <1>11, <2>2
    <3>2. d \notin new
      BY <1>8, <1>11, <3>1
    <3> QED BY <1>15, <2>1, <2>2, <3>2
  <2>3. CASE f \notin new
    <3>1. f \in P \cup Q /\ d \in P
      BY <1>12, <2>1, <2>3
    <3>2. d \notin new /\ depth[d] < depth[f]
      BY <1>1, <1>8, <1>11, <3>1 DEF PlanSound
    <3> QED BY <1>15, <2>1, <2>3, <3>2
  <2> QED BY <2>2, <2>3
<1>17. PlanSound'
  <2>1. Planned' \cap Range(queue') = {}
    BY <1>1, <1>6, <1>8, <1>9, <1>10, <1>11 DEF PlanSound
  <2>2. Planned' \cup Range(queue') = P \cup Q \cup new
    BY <1>6, <1>9, <1>10, <1>11
  <2>3. registry' = registry
    BY <1>1
  <2>4. \A f \in Planned' \cup Range(queue') : \A d \in registry'[f] : depth'[d] < depth'[f]
    BY <1>16, <2>2, <2>3
  <2>5. \A f \in Types : f \in Planned' \cup Range(queue') <=> registry'[f] \subseteq Planned'
    BY <1>13, <2>3
  <2>6. \A i \in DOMAIN ordered' : registry'[ordered'[i]] \subseteq {ordered'[j] : j \in 1 .. i - 1}
    BY <1>14, <2>3
  <2> QED BY <1>9, <1>10, <2>1, <2>4, <2>5, <2>6 DEF PlanSound
<1>18. PlanTyped'
  BY <1>1, <1>9, <1>10, <1>15 DEF PlanTyped
<1> QED BY <1>1, <1>17, <1>18 DEF PlanInv, Started

LEMMA PlanFinished ==
    ASSUME PlanInv, FinishPlan, UNCHANGED scene
    PROVE  PlanInv'
<1>1. /\ PlanTyped /\ PlanSound /\ queue = <<>>
      /\ UNCHANGED <<registry, merged, queue, ordered, depth, scene>>
  BY DEF FinishPlan, PlanInv
<1>2. PlanComplete <=> Planned = Types
  BY <1>1, CompleteMeansAll DEF PlanSound
<1>3. outcome' = IF PlanComplete THEN Result("running", 0) ELSE Result("cyclic", 0)
  BY DEF FinishPlan
<1>4. PlanTyped' /\ outcome'.result \in {"running", "cyclic"}
  BY <1>1, <1>3 DEF PlanTyped, Outcomes, Result
<1>5. PlanSound' /\ Planned' = Planned
  BY <1>1 DEF PlanSound, Planned
<1>6. outcome'.result = "running" => Planned' = Types
  BY <1>2, <1>3, <1>5 DEF Result
<1>7. ASSUME outcome'.result = "cyclic" PROVE Cyclic'
  <2>1. Planned # Types
    BY <1>2, <1>3, <1>7 DEF Result
  <2>2. PICK S \in SUBSET Types : S = Types \ Planned
    OBVIOUS
  <2>3. S # {}
    BY <1>1, <2>1, <2>2 DEF PlanTyped, Planned, Range
  <2>4. ASSUME NEW t \in S PROVE registry[t] \cap S # {}
    <3>1. Range(queue) = {}
      BY <1>1 DEF Range
    <3>2. ~(registry[t] \subseteq Planned) /\ registry[t] \subseteq Types
      BY <1>1, <2>2, <3>1 DEF PlanSound, PlanTyped, Dependencies
    <3> QED BY <2>2, <3>2
  <2>5. Cyclic
    BY <2>3, <2>4 DEF Cyclic
  <2> QED BY <1>1, <2>5 DEF Cyclic
<1> QED BY <1>4, <1>5, <1>6, <1>7 DEF PlanInv, Started

-----------------------------------------------------------------------------
(* The validation engine: the batch                                          *)

\* While a batch is evaluated the plan stands.
LEMMA PlanStands ==
    ASSUME PlanInv, outcome.result = "running",
           UNCHANGED <<registry, merged, queue, ordered, depth, scene>>,
           outcome' \in Outcomes, outcome'.result \in Started
    PROVE  PlanInv'
<1>1. PlanTyped /\ PlanSound /\ Planned = Types
  BY DEF PlanInv, Started
<1>2. PlanTyped' /\ PlanSound' /\ Planned' = Types
  BY <1>1 DEF PlanTyped, PlanSound, Planned
<1> QED BY <1>2 DEF PlanInv, Started

\* Depth goes down from a type to those it depends on.
LEMMA DependenciesAreLower ==
    ASSUME PlanInv, outcome.result = "running", NEW t \in Types, NEW d \in registry[t]
    PROVE  /\ d \in Types /\ depth[d] \in Nat /\ depth[t] \in Nat
           /\ depth[d] < depth[t]
<1>1. PlanTyped /\ PlanSound /\ Planned = Types
  BY DEF PlanInv, Started
<1>2. d \in Types
  BY <1>1 DEF PlanTyped, Dependencies
<1> QED BY <1>1, <1>2 DEF PlanSound, PlanTyped

\* What a stack of calls says does not change while registry and plan stand.
LEMMA StackStays ==
    ASSUME UNCHANGED <<registry, depth, scene>>, StackSound(frames', evaluated')
    PROVE  StackSound(frames, evaluated)'
<1>1. Indexes' = Indexes /\ Present' = Present /\ \A i : TypeOf(i)' = TypeOf(i)
  BY DEF Indexes, Present, TypeOf
<1>2. \A t : Declared(t)' = Declared(t)
  BY DEF Declared
<1>3. ASSUME NEW f, FrameSound(f, evaluated')
      PROVE  FrameSound(f, evaluated)'
  BY <1>1, <1>2, <1>3 DEF FrameSound
<1> QED BY <1>1, <1>3 DEF StackSound

LEMMA ServedStays ==
    ASSUME UNCHANGED <<registry, scene>>, Served(frames', evaluated')
    PROVE  Served(frames, evaluated)'
<1>1. \A i : TypeOf(i)' = TypeOf(i)
  BY DEF TypeOf
<1>2. \A t : Declared(t)' = Declared(t)
  BY DEF Declared
<1>3. \A f, n : Dependency(f, n)' = Dependency(f, n)
  BY <1>1, <1>2 DEF Dependency
<1>4. Got(evaluated)' = Got(evaluated')
  BY <1>1 DEF Got
<1> QED BY <1>1, <1>3, <1>4 DEF Served

\* The call on top goes on to its next dependency, or calls for it.
Onward(fs, n, h, hs, done) ==
    /\ h.index = fs[n].index /\ h.next = fs[n].next + 1 /\ fs[n].missing \subseteq h.missing
    /\ DOMAIN fs \subseteq DOMAIN hs
    /\ \A a \in DOMAIN fs : hs[a] = IF a = n THEN h ELSE fs[a]
    /\ \A b \in DOMAIN hs : b \notin DOMAIN fs => hs[b].next = 1
    /\ \/ Dependency(fs[n], fs[n].next) \in Got(done) \cup h.missing
       \/ \E b \in DOMAIN hs : n < b /\ TypeOf(hs[b].index) = Dependency(fs[n], fs[n].next)

LEMMA ServedOnward ==
    ASSUME NEW fs \in Seq(Frame), NEW done, Served(fs, done), NEW n \in DOMAIN fs,
           NEW h \in Frame, NEW hs \in Seq(Frame), Onward(fs, n, h, hs, done)
    PROVE  Served(hs, done)
<1>0. PICK t : t = Dependency(fs[n], fs[n].next)
  OBVIOUS
<1>6. /\ h.index = fs[n].index /\ h.next = fs[n].next + 1 /\ fs[n].missing \subseteq h.missing
      /\ DOMAIN fs \subseteq DOMAIN hs
      /\ \A a \in DOMAIN fs : hs[a] = IF a = n THEN h ELSE fs[a]
      /\ \A b \in DOMAIN hs : b \notin DOMAIN fs => hs[b].next = 1
      /\ \/ t \in Got(done) \cup h.missing
         \/ \E b \in DOMAIN hs : n < b /\ TypeOf(hs[b].index) = t
  BY <1>0 DEF Onward
<1> SUFFICES ASSUME NEW a \in DOMAIN hs, NEW m \in Nat \ {0}, m < hs[a].next
             PROVE  \/ Dependency(hs[a], m) \in Got(done) \cup hs[a].missing
                    \/ \E b \in DOMAIN hs : a < b /\ TypeOf(hs[b].index) = Dependency(hs[a], m)
  BY DEF Served
<1>1. a \in DOMAIN fs
  <2>1. hs[a].next # 1
    OBVIOUS
  <2> QED BY <1>6, <2>1
<1>2. \A b \in DOMAIN fs : hs[b].index = fs[b].index
  BY <1>6
<1>3. Dependency(hs[a], m) = Dependency(fs[a], m)
  BY <1>1, <1>2 DEF Dependency
<1>4. CASE m < fs[a].next
  <2>1. \/ Dependency(fs[a], m) \in Got(done) \cup fs[a].missing
        \/ \E b \in DOMAIN fs : a < b /\ TypeOf(fs[b].index) = Dependency(fs[a], m)
    BY <1>1, <1>4 DEF Served
  <2>2. fs[a].missing \subseteq hs[a].missing
    BY <1>1, <1>6
  <2> QED BY <1>2, <1>3, <1>6, <2>1, <2>2
<1>5. CASE ~(m < fs[a].next)
  <2>1. a = n /\ hs[a] = h
    BY <1>1, <1>5, <1>6
  <2>2. fs[n].next \in Nat
    <3>1. PICK f \in Frame : f = fs[n]
      OBVIOUS
    <3> QED BY <3>1 DEF Frame
  <2>3. m = fs[n].next
    BY <1>5, <1>6, <2>1, <2>2
  <2> QED BY <1>0, <1>3, <1>6, <2>1, <2>3
<1> QED BY <1>4, <1>5

\* The call on top returns.
LEMMA ServedReturns ==
    ASSUME NEW fs \in Seq(Frame), fs # <<>>, NEW done, Served(fs, done)
    PROVE  Served(Front(fs), done \cup {fs[Len(fs)].index})
<1>1. PICK n \in Nat : n = Len(fs) /\ n # 0 /\ DOMAIN fs = 1 .. n
  OBVIOUS
<1>2. PICK hs, i, more : hs = Front(fs) /\ i = fs[n].index /\ more = done \cup {i}
  OBVIOUS
<1>3. DOMAIN hs = 1 .. n - 1 /\ \A a \in 1 .. n - 1 : hs[a] = fs[a]
  <2>1. hs = SubSeq(fs, 1, n - 1)
    BY <1>1, <1>2 DEF Front
  <2>2. fs \in Seq(Frame) /\ n - 1 \in 0 .. n
    BY <1>1
  <2>3. SubSeq(fs, 1, n - 1) \in Seq(Frame) /\ Len(SubSeq(fs, 1, n - 1)) = n - 1
    BY <1>1, <2>2
  <2>4. \A a \in 1 .. n - 1 : SubSeq(fs, 1, n - 1)[a] = fs[a]
    BY <1>1, <2>2
  <2> QED BY <1>1, <2>1, <2>3, <2>4
<1>4. Got(done) \subseteq Got(more) /\ TypeOf(i) \in Got(more)
  BY <1>2 DEF Got
<1>5. ASSUME NEW a \in 1 .. n - 1, NEW m \in Nat \ {0}, m < hs[a].next
      PROVE  \/ Dependency(hs[a], m) \in Got(more) \cup hs[a].missing
             \/ \E b \in 1 .. n - 1 : a < b /\ TypeOf(hs[b].index) = Dependency(hs[a], m)
  <2>1. a \in 1 .. n /\ hs[a] = fs[a]
    BY <1>1, <1>3
  <2>2. \/ Dependency(fs[a], m) \in Got(done) \cup fs[a].missing
        \/ \E b \in 1 .. n : a < b /\ TypeOf(fs[b].index) = Dependency(fs[a], m)
    BY <1>1, <1>5, <2>1 DEF Served
  <2>3. ASSUME NEW b \in 1 .. n, a < b, TypeOf(fs[b].index) = Dependency(fs[a], m)
        PROVE  \/ Dependency(fs[a], m) \in Got(more)
               \/ b \in 1 .. n - 1 /\ TypeOf(hs[b].index) = Dependency(fs[a], m)
    <3>1. CASE b = n
      BY <1>2, <1>4, <2>3, <3>1
    <3>2. CASE b # n
      BY <1>1, <1>3, <2>3, <3>2
    <3> QED BY <3>1, <3>2
  <2> QED BY <1>4, <2>1, <2>2, <2>3
<1>6. Served(hs, more)
  BY <1>3, <1>5 DEF Served
<1> QED BY <1>1, <1>2, <1>6

\* The call on top goes on.
LEMMA TopReplaced ==
    ASSUME NEW fs, NEW done, StackSound(fs, done), fs # <<>>, NEW g \in Frame,
           g.index = fs[Len(fs)].index, FrameSound(g, done)
    PROVE  StackSound([fs EXCEPT ![Len(fs)] = g], done)
<1>1. PICK n \in Nat : n = Len(fs) /\ n # 0 /\ DOMAIN fs = 1 .. n
  BY DEF StackSound
<1>2. PICK hs : hs = [fs EXCEPT ![n] = g]
  OBVIOUS
<1>3. /\ hs \in Seq(Frame) /\ DOMAIN hs = 1 .. n
      /\ \A a \in 1 .. n : hs[a] = IF a = n THEN g ELSE fs[a]
  BY <1>1, <1>2 DEF StackSound
<1>4. \A a \in 1 .. n : hs[a].index = fs[a].index
  BY <1>1, <1>3
<1>5. \A a \in 1 .. n : FrameSound(hs[a], done)
  BY <1>1, <1>3 DEF StackSound
<1>6. StackSound(hs, done)
  BY <1>1, <1>3, <1>4, <1>5 DEF StackSound
<1> QED BY <1>1, <1>2, <1>6

\* The call on top makes another one, of a type less deep.
LEMMA CallPushed ==
    ASSUME NEW fs, NEW done, StackSound(fs, done), fs # <<>>, NEW g \in Frame,
           FrameSound(g, done), PlanTyped,
           TypeOf(g.index) \in Types, TypeOf(fs[Len(fs)].index) \in Types,
           depth[TypeOf(g.index)] < depth[TypeOf(fs[Len(fs)].index)]
    PROVE  StackSound(Append(fs, g), done)
<1>1. PICK n \in Nat : n = Len(fs) /\ n # 0 /\ DOMAIN fs = 1 .. n
  BY DEF StackSound
<1>2. PICK hs : hs = Append(fs, g)
  OBVIOUS
<1>3. /\ hs \in Seq(Frame) /\ DOMAIN hs = 1 .. n + 1
      /\ \A a \in 1 .. n : hs[a] = fs[a]
      /\ hs[n + 1] = g
  BY <1>1, <1>2, Appended DEF StackSound
<1>4. \A a \in 1 .. n + 1 : a \in 1 .. n \/ a = n + 1
  OBVIOUS
<1>5. \A a \in 1 .. n + 1 : FrameSound(hs[a], done)
  BY <1>1, <1>3, <1>4 DEF StackSound
<1>6. ASSUME NEW a \in 1 .. n
      PROVE  /\ TypeOf(fs[a].index) \in Types
             /\ depth[TypeOf(g.index)] < depth[TypeOf(fs[a].index)]
  <2>1. CASE a = n
    BY <1>1, <2>1
  <2>2. CASE a # n
    <3>1. a < n /\ n \in 1 .. n
      BY <1>1, <2>2
    <3>2. /\ TypeOf(fs[a].index) \in Types
          /\ depth[TypeOf(fs[n].index)] < depth[TypeOf(fs[a].index)]
      BY <1>1, <3>1 DEF StackSound
    <3>3. PICK x \in Nat, y \in Nat, z \in Nat :
             /\ x = depth[TypeOf(g.index)] /\ y = depth[TypeOf(fs[n].index)]
             /\ z = depth[TypeOf(fs[a].index)]
      BY <1>1, <3>2 DEF PlanTyped
    <3>4. x < y /\ y < z
      BY <1>1, <3>2, <3>3
    <3>5. x < z
      BY <3>4
    <3> QED BY <3>2, <3>3, <3>5
  <2> QED BY <2>1, <2>2
<1>7. ASSUME NEW a \in 1 .. n + 1, NEW b \in 1 .. n + 1, a < b
      PROVE  /\ TypeOf(hs[a].index) \in Types /\ TypeOf(hs[b].index) \in Types
             /\ depth[TypeOf(hs[b].index)] < depth[TypeOf(hs[a].index)]
  <2>1. a \in 1 .. n
    BY <1>7
  <2>2. CASE b \in 1 .. n
    BY <1>1, <1>3, <1>7, <2>1, <2>2 DEF StackSound
  <2>3. CASE b = n + 1
    BY <1>3, <1>6, <2>1, <2>3
  <2> QED BY <1>4, <2>2, <2>3
<1>8. StackSound(hs, done)
  BY <1>3, <1>5, <1>7 DEF StackSound
<1> QED BY <1>2, <1>8

\* No entry is in the stack twice.
LEMMA OnStackOnce ==
    ASSUME NEW fs, NEW done, StackSound(fs, done), PlanTyped,
           NEW a \in DOMAIN fs, NEW b \in DOMAIN fs, fs[a].index = fs[b].index
    PROVE  a = b
<1>1. PICK n \in Nat : DOMAIN fs = 1 .. n
  BY DEF StackSound
<1>2. ASSUME NEW c \in 1 .. n, NEW d \in 1 .. n, c < d, fs[c].index = fs[d].index
      PROVE  FALSE
  <2>1. /\ TypeOf(fs[c].index) \in Types
        /\ depth[TypeOf(fs[c].index)] < depth[TypeOf(fs[c].index)]
    BY <1>1, <1>2 DEF StackSound
  <2>2. PICK x \in Nat : x = depth[TypeOf(fs[c].index)]
    BY <2>1 DEF PlanTyped
  <2> QED BY <2>1, <2>2
<1>3. a \in 1 .. n /\ b \in 1 .. n
  BY <1>1
<1>4. ~(a < b) /\ ~(b < a)
  BY <1>2, <1>3
<1> QED BY <1>3, <1>4

\* The call on top returns, its entry accepted.
LEMMA CallReturns ==
    ASSUME NEW fs, NEW done, StackSound(fs, done), fs # <<>>, PlanTyped
    PROVE  StackSound(Front(fs), done \cup {fs[Len(fs)].index})
<1>1. PICK n \in Nat : n = Len(fs) /\ n # 0 /\ DOMAIN fs = 1 .. n
  BY DEF StackSound
<1>2. PICK hs, i : hs = Front(fs) /\ i = fs[n].index
  OBVIOUS
<1>3. /\ hs \in Seq(Frame) /\ DOMAIN hs = 1 .. n - 1
      /\ \A a \in 1 .. n - 1 : hs[a] = fs[a]
  <2>1. hs = SubSeq(fs, 1, n - 1)
    BY <1>1, <1>2 DEF Front
  <2>2. fs \in Seq(Frame) /\ n - 1 \in 0 .. n
    BY <1>1 DEF StackSound
  <2>3. SubSeq(fs, 1, n - 1) \in Seq(Frame) /\ Len(SubSeq(fs, 1, n - 1)) = n - 1
    BY <1>1, <2>2
  <2>4. \A a \in 1 .. n - 1 : SubSeq(fs, 1, n - 1)[a] = fs[a]
    BY <1>1, <2>2
  <2> QED BY <1>1, <2>1, <2>3, <2>4
<1>4. ASSUME NEW a \in 1 .. n - 1
      PROVE  FrameSound(hs[a], done \cup {i})
  <2>1. a \in 1 .. n /\ a # n /\ n \in 1 .. n
    BY <1>1
  <2>2. fs[a].index # i /\ FrameSound(fs[a], done)
    BY <1>1, <1>2, <2>1, OnStackOnce DEF StackSound
  <2> QED BY <1>3, <2>2 DEF FrameSound
<1>5. ASSUME NEW a \in 1 .. n - 1, NEW b \in 1 .. n - 1, a < b
      PROVE  /\ TypeOf(hs[a].index) \in Types /\ TypeOf(hs[b].index) \in Types
             /\ depth[TypeOf(hs[b].index)] < depth[TypeOf(hs[a].index)]
  <2>1. a \in 1 .. n /\ b \in 1 .. n
    BY <1>1
  <2> QED BY <1>1, <1>3, <1>5, <2>1 DEF StackSound
<1>6. StackSound(hs, done \cup {i})
  BY <1>3, <1>4, <1>5 DEF StackSound
<1> QED BY <1>1, <1>2, <1>6

LEMMA NoCalls == \A done : StackSound(<<>>, done) /\ Served(<<>>, done)
BY DEF StackSound, Served

\* A call that begins.
LEMMA CallBegins ==
    ASSUME PlanTyped, NEW done, NEW i \in Indexes \ done
    PROVE  /\ Call(i) \in Frame /\ FrameSound(Call(i), done)
           /\ StackSound(<<Call(i)>>, done) /\ Served(<<Call(i)>>, done)
<1>1. i \in Nat \ {0}
  BY SceneIs DEF PlanTyped
<1>2. PICK g : g = Call(i)
  OBVIOUS
<1>3. g \in Frame /\ g.index = i /\ g.next = 1 /\ g.missing = {}
  BY <1>1, <1>2 DEF Call, Frame
<1>4. FrameSound(g, done)
  <2>1. \A c : \A n \in 1 .. c : ~(n < 1)
    OBVIOUS
  <2> QED BY <1>3, <2>1 DEF FrameSound
<1>5. StackSound(<<g>>, done)
  <2>1. <<g>> \in Seq(Frame) /\ DOMAIN <<g>> = {1} /\ <<g>>[1] = g
    BY <1>3
  <2>2. ~(1 < 1)
    OBVIOUS
  <2>3. PICK fs : fs = <<g>>
    OBVIOUS
  <2>4. \A a, b \in DOMAIN fs : ~(a < b)
    BY <2>1, <2>2, <2>3
  <2>5. \A a \in DOMAIN fs : fs[a] = g
    BY <2>1, <2>3
  <2>6. StackSound(fs, done)
    BY <1>4, <2>1, <2>3, <2>4, <2>5 DEF StackSound
  <2> QED BY <2>3, <2>6
<1>6. Served(<<g>>, done)
  <2>1. \A a \in DOMAIN <<g>> : <<g>>[a].next = 1
    BY <1>3
  <2>2. \A n \in Nat \ {0} : ~(n < 1)
    OBVIOUS
  <2> QED BY <2>1, <2>2 DEF Served
<1> QED BY <1>2, <1>3, <1>4, <1>5, <1>6

LEMMA BatchStarts == ValidationInit => BatchInv
<1> SUFFICES ASSUME ValidationInit PROVE BatchInv
  OBVIOUS
<1>1. /\ frames = <<>> /\ evaluated = {} /\ resolved = [t \in Types |-> NoEntry]
      /\ outcome = Result("merging", 0)
  BY DEF ValidationInit
<1>2. ResolvedSound
  BY <1>1 DEF ResolvedSound, HasValue
<1>3. StackSound(frames, evaluated) /\ Served(frames, evaluated)
  BY <1>1, NoCalls
<1> QED BY <1>1, <1>2, <1>3 DEF BatchInv, Result, Started, NeverReentered, VerdictIsJustified

\* While the batch waits for the plan nothing of it moves.
LEMMA BatchWaits ==
    ASSUME BatchInv, outcome.result \in {"merging", "planning"},
           UNCHANGED <<frames, evaluated, resolved, scene>>,
           outcome'.result \in {"merging", "planning", "refused", "cyclic", "running"}
    PROVE  BatchInv'
<1>1. frames = <<>> /\ evaluated = {} /\ ResolvedSound
  BY DEF BatchInv, Started
<1>2. frames' = <<>> /\ evaluated' = {} /\ resolved' = resolved
  BY <1>1
<1>3. ResolvedSound'
  BY <1>1, <1>2 DEF ResolvedSound, HasValue, TypeOf
<1>4. StackSound(frames, evaluated)' /\ Served(frames, evaluated)'
  BY <1>2 DEF StackSound, Served
<1> QED BY <1>2, <1>3, <1>4 DEF BatchInv, NeverReentered, VerdictIsJustified

\* Whether an entry passes is a matter of registry, batch and what is in view.
LEMMA BatchStands ==
    ASSUME UNCHANGED <<registry, scene>>
    PROVE  /\ Indexes' = Indexes
           /\ \A i : TypeOf(i)' = TypeOf(i) /\ Views(i)' = Views(i)
           /\ \A i, v : Passes(i, v)' = Passes(i, v)
           /\ \A i : CanPass(i)' = CanPass(i)
<1>1. Indexes' = Indexes /\ \A i : TypeOf(i)' = TypeOf(i) /\ ValueOf(i)' = ValueOf(i)
  BY DEF Indexes, TypeOf, ValueOf
<1>2. \A i : Views(i)' = Views(i)
  BY <1>1 DEF Views
<1>3. ASSUME NEW i, NEW v PROVE Passes(i, v)' = Passes(i, v)
  <2>1. [d \in DOMAIN v |-> ValueOf(v[d])'] = [d \in DOMAIN v |-> ValueOf(v[d])]
    BY <1>1
  <2> QED BY <1>1, <2>1 DEF Passes
<1>4. \A i : CanPass(i)' = CanPass(i)
  BY <1>2, <1>3 DEF CanPass
<1> QED BY <1>1, <1>2, <1>3, <1>4

\* A step of the evaluation that ends nothing.
LEMMA BatchMoves ==
    ASSUME BatchInv, outcome.result = "running", outcome' = outcome,
           UNCHANGED <<registry, depth, scene>>,
           StackSound(frames', evaluated'), Served(frames', evaluated'),
           \A i \in evaluated' : i \in Indexes /\ CanPass(i),
           ResolvedSound'
    PROVE  BatchInv'
<1>1. StackSound(frames, evaluated)' /\ Served(frames, evaluated)'
  BY StackStays, ServedStays
<1>2. \A i \in evaluated' : i \in Indexes' /\ CanPass(i)'
  BY BatchStands
<1>4. outcome'.result = "running"
  OBVIOUS
<1> QED BY <1>1, <1>2, <1>4 DEF BatchInv, Started, NeverReentered, VerdictIsJustified

\* What an entry is refused for.
Refused(why, i) ==
    /\ why \in {"unknown", "missing"} => Views(i) = {}
    /\ why = "rejected" => \E v \in Views(i) : Range(v) \subseteq evaluated /\ ~Passes(i, v)

\* An error names an entry that is refused for a reason.
LEMMA BatchFails ==
    ASSUME PlanTyped, BatchInv, outcome.result = "running", UNCHANGED <<registry, depth, scene>>,
           NEW why \in {"rejected", "unknown", "missing"}, NEW i \in Indexes, Refused(why, i),
           Fail(why, i)
    PROVE  BatchInv' /\ outcome' \in Outcomes /\ outcome'.result \in Started
<1>1. /\ outcome' = Result(why, i) /\ frames' = <<>> /\ UNCHANGED <<evaluated, resolved>>
  BY DEF Fail
<1>2. i \in Nat
  BY SceneIs DEF PlanTyped
<1>3. outcome' \in Outcomes /\ outcome'.result = why /\ outcome'.at = i
  BY <1>1, <1>2 DEF Outcomes, Result
<1>4. StackSound(frames', evaluated') /\ Served(frames', evaluated')
  BY <1>1, NoCalls
<1>5. StackSound(frames, evaluated)' /\ Served(frames, evaluated)'
  BY <1>4, StackStays, ServedStays
<1>6. \A j \in evaluated' : j \in Indexes' /\ CanPass(j)'
  BY <1>1, BatchStands DEF BatchInv
<1>7. ResolvedSound'
  BY <1>1, BatchStands DEF BatchInv, ResolvedSound, HasValue
<1>8. /\ why \in {"unknown", "missing"} => Views(i)' = {}
      /\ why = "rejected" => \E v \in Views(i)' : Range(v) \subseteq evaluated' /\ ~Passes(i, v)'
  BY <1>1, BatchStands DEF Refused
<1>9. VerdictIsJustified' /\ NeverReentered'
  <2>1. Views(outcome.at)' = Views(i)' /\ \A v : Passes(outcome.at, v)' = Passes(i, v)'
    BY <1>3 DEF Views, Passes, TypeOf, ValueOf
  <2> QED BY <1>3, <1>8, <2>1 DEF VerdictIsJustified, NeverReentered
<1> QED BY <1>3, <1>5, <1>6, <1>7, <1>9 DEF BatchInv, Started

LEMMA LoopCalls ==
    ASSUME PlanInv, BatchInv, CallNext, UNCHANGED scene
    PROVE  PlanInv' /\ BatchInv'
<1>1. /\ outcome.result = "running" /\ frames = <<>>
      /\ UNCHANGED <<registry, merged, queue, ordered, depth, evaluated, resolved, scene>>
  BY DEF CallNext
<1>2. CASE Indexes \subseteq evaluated
  <2>1. outcome' = Result("success", 0) /\ frames' = frames
    BY <1>2 DEF CallNext
  <2>2. outcome' \in Outcomes /\ outcome'.result = "success"
    BY <2>1 DEF Outcomes, Result
  <2>3. PlanInv'
    BY <1>1, <2>2, PlanStands DEF Started
  <2>4. StackSound(frames', evaluated') /\ Served(frames', evaluated')
    BY <1>1, <2>1 DEF BatchInv
  <2>5. StackSound(frames, evaluated)' /\ Served(frames, evaluated)'
    BY <1>1, <2>4, StackStays, ServedStays
  <2>6. \A i \in evaluated' : i \in Indexes' /\ CanPass(i)'
    BY <1>1, BatchStands DEF BatchInv
  <2>7. ResolvedSound'
    BY <1>1, BatchStands DEF BatchInv, ResolvedSound, HasValue
  <2>8. \A i \in Indexes' : CanPass(i)'
    BY <1>1, <1>2, <2>6, BatchStands
  <2> QED BY <1>1, <2>2, <2>3, <2>5, <2>6, <2>7, <2>8
          DEF BatchInv, Started, NeverReentered, VerdictIsJustified, CanPass
<1>3. CASE ~(Indexes \subseteq evaluated)
  <2>1. PICK S : S = Indexes \ evaluated
    OBVIOUS
  <2>2. S \subseteq Nat /\ S # {}
    BY <1>3, <2>1, SceneIs DEF PlanInv, PlanTyped
  <2>3. Min(S) \in S
    <3>1. \E x \in S : \A y \in S : x <= y
      BY <2>2, LeastOf
    <3> QED BY <3>1 DEF Min
  <2>4. PICK i \in Indexes \ evaluated : i = Min(S)
    BY <2>1, <2>3
  <2>5. frames' = <<Call(i)>> /\ outcome' = outcome
    BY <1>3, <2>1, <2>4 DEF CallNext
  <2>6. StackSound(frames', evaluated') /\ Served(frames', evaluated')
    BY <1>1, <2>5, CallBegins DEF PlanInv
  <2>7. PlanInv'
    BY <1>1, <2>5, PlanStands DEF PlanInv, PlanTyped, Started
  <2>8. BatchInv'
    <3>1. \A j \in evaluated' : j \in Indexes /\ CanPass(j)
      BY <1>1 DEF BatchInv
    <3>2. ResolvedSound'
      BY <1>1, BatchStands DEF BatchInv, ResolvedSound, HasValue
    <3> QED BY <1>1, <2>5, <2>6, <3>1, <3>2, BatchMoves
  <2> QED BY <2>7, <2>8
<1> QED BY <1>2, <1>3

\* The entry under evaluation.
LEMMA TopIs ==
    ASSUME PlanInv, BatchInv, Running
    PROVE  /\ frames \in Seq(Frame) /\ frames # <<>> /\ Len(frames) \in DOMAIN frames
           /\ Top \in Frame /\ Top = frames[Len(frames)] /\ FrameSound(Top, evaluated)
           /\ Top.index \in Indexes \ evaluated
           /\ TypeOf(Top.index) \in Types \cup {Unknown}
<1>1. frames \in Seq(Frame) /\ frames # <<>> /\ Len(frames) \in DOMAIN frames
  <2>1. frames \in Seq(Frame) /\ frames # <<>>
    BY DEF Running, BatchInv, StackSound
  <2> QED BY <2>1
<1>2. Top \in Frame /\ Top = frames[Len(frames)] /\ FrameSound(Top, evaluated)
  BY <1>1 DEF Top, BatchInv, StackSound
<1>3. Top.index \in Indexes \ evaluated
  BY <1>2 DEF FrameSound
<1>4. TypeOf(Top.index) \in Types \cup {Unknown}
  BY <1>3, SceneIs DEF PlanInv, PlanTyped
<1> QED BY <1>1, <1>2, <1>3, <1>4

\* A type without a value and without an entry to evaluate is not in the batch.
LEMMA NotThere ==
    ASSUME PlanInv, BatchInv, NEW t, NEW i, ~HasValue(t), DependencyOf(t, i) = {}
    PROVE  t \notin Present
<1>1. PICK S : S = Waiting(t)
  OBVIOUS
<1>2. S \subseteq Nat
  BY <1>1, SceneIs DEF Waiting, PlanInv, PlanTyped
<1>3. S = {}
  <2> SUFFICES ASSUME S # {} PROVE FALSE
    OBVIOUS
  <2>1. PICK x \in S : \A y \in S : x <= y
    BY <1>2, LeastOf
  <2> QED BY <1>1, <2>1 DEF DependencyOf
<1>4. \A j \in Indexes : TypeOf(j) = t => j \in evaluated
  BY <1>1, <1>3 DEF Waiting
<1>5. \A j \in evaluated : TypeOf(j) # t
  BY DEF BatchInv, ResolvedSound
<1> QED BY <1>4, <1>5 DEF Present

LEMMA DependencyResolved ==
    ASSUME PlanInv, BatchInv, Running, UNCHANGED <<registry, depth, scene>>,
           TypeOf(Top.index) \in Types,
           Top.next <= Cardinality(registry[TypeOf(Top.index)]),
           Resolve
    PROVE  BatchInv' /\ outcome' = outcome
<1>1. /\ frames \in Seq(Frame) /\ frames # <<>> /\ Len(frames) \in DOMAIN frames
      /\ Top \in Frame /\ Top = frames[Len(frames)] /\ FrameSound(Top, evaluated)
  BY TopIs
<1>2. PICK g \in Frame, n \in Nat : g = Top /\ n = Len(frames)
  BY <1>1
<1>3. g.next \in Nat \ {0} /\ g.missing \in SUBSET Types
  BY <1>2 DEF Frame
<1>4. PICK w \in Types : w = TypeOf(g.index)
  BY <1>2
<1>5. PICK R \in SUBSET Types : R = registry[w]
  BY <1>4 DEF PlanInv, PlanTyped, Dependencies
<1>6. PICK c \in Nat : c = Cardinality(R)
  BY TypesAreNumbers
<1>7. PICK q \in Seq(R) : q = Declared(w) /\ Len(q) = c
  BY <1>5, <1>6, TypesAreNumbers, SortedIs DEF Declared
<1>8. g.next \in 1 .. c
  BY <1>2, <1>3, <1>4, <1>5, <1>6
<1>9. PICK t \in R : t = q[g.next]
  BY <1>7, <1>8
<1>10. t = Declared(TypeOf(Top.index))[Top.next]
  BY <1>2, <1>4, <1>7, <1>9
<1>11. PICK e : e = evaluated
  OBVIOUS
<1>12. /\ g.index \in Indexes \ e /\ g.missing \cap Present = {} /\ g.missing \subseteq R
       /\ \A m \in 1 .. c : m < g.next => q[m] \in Present \cup g.missing
  BY <1>1, <1>2, <1>4, <1>5, <1>6, <1>7, <1>11 DEF FrameSound
<1>13. ASSUME NEW h \in Frame, h.index = g.index, h.next = g.next + 1,
              \/ t \in Present /\ h.missing = g.missing
              \/ t \notin Present /\ h.missing = g.missing \cup {t}
       PROVE  /\ FrameSound(h, e)
              /\ StackSound([frames EXCEPT ![n] = h], e)
  <2>1. h.missing \cap Present = {} /\ h.missing \subseteq R /\ h.index \in Indexes \ e
    BY <1>12, <1>13
  <2>2. ASSUME NEW m \in 1 .. c, m < h.next
        PROVE  q[m] \in Present \cup h.missing
    <3>1. CASE m < g.next
      BY <1>12, <1>13, <3>1
    <3>2. CASE ~(m < g.next)
      <4>1. m = g.next
        BY <1>3, <1>13, <2>2, <3>2
      <4> QED BY <1>9, <1>13, <4>1
    <3> QED BY <3>1, <3>2
  <2>3. TypeOf(h.index) = w
    BY <1>4, <1>13
  <2>4. FrameSound(h, e)
    BY <1>5, <1>6, <1>7, <2>1, <2>2, <2>3 DEF FrameSound
  <2>5. StackSound(frames, e) /\ h.index = frames[n].index
    BY <1>1, <1>2, <1>11, <1>13 DEF BatchInv
  <2>6. StackSound([frames EXCEPT ![n] = h], e)
    BY <1>1, <1>2, <2>4, <2>5, TopReplaced
  <2> QED BY <2>4, <2>6
<1>14. PICK up : up = [frames EXCEPT ![Len(frames)].next = @ + 1]
  OBVIOUS
<1>15. PICK found : found = DependencyOf(t, Top.index)
  OBVIOUS
<1>16. outcome.result = "running"
  BY DEF Running
<1>17. HasValue(t) => t \in Present /\ t \in Got(e)
  <2> SUFFICES ASSUME HasValue(t) PROVE t \in Present /\ t \in Got(e)
    OBVIOUS
  <2>1. resolved[t] \in e /\ TypeOf(resolved[t]) = t
    BY <1>9, <1>11 DEF BatchInv, ResolvedSound, HasValue
  <2> QED BY <1>11, <2>1 DEF BatchInv, Present, Got
<1>18. \A j \in e : j \in Indexes /\ CanPass(j)
  BY <1>11 DEF BatchInv
<1>26. ASSUME UNCHANGED <<evaluated, resolved>> PROVE ResolvedSound'
  BY <1>26, BatchStands DEF BatchInv, ResolvedSound, HasValue
<1>27. ASSUME NEW hs \in Seq(Frame), NEW h \in Frame, h.index = g.index, h.next = g.next + 1,
              g.missing \subseteq h.missing, DOMAIN frames \subseteq DOMAIN hs,
              \A a \in DOMAIN frames : hs[a] = IF a = n THEN h ELSE frames[a],
              \A b \in DOMAIN hs : b \notin DOMAIN frames => hs[b].next = 1,
              \/ t \in Got(e) \cup h.missing
              \/ \E b \in DOMAIN hs : n < b /\ TypeOf(hs[b].index) = t
       PROVE  Served(hs, e)
  <2>1. frames[n] = g /\ n \in DOMAIN frames /\ Served(frames, e)
    BY <1>1, <1>2, <1>11 DEF BatchInv
  <2>2. t = Dependency(frames[n], frames[n].next)
    BY <1>4, <1>7, <1>9, <2>1 DEF Dependency
  <2>3. PICK fs \in Seq(Frame) : fs = frames
    BY <1>1
  <2>4. Onward(fs, n, h, hs, e)
    BY <1>27, <2>1, <2>2, <2>3 DEF Onward
  <2>5. Served(fs, e) /\ n \in DOMAIN fs
    BY <2>1, <2>3
  <2> QED BY <1>27, <2>4, <2>5, ServedOnward
<1>19. g = [index |-> g.index, next |-> g.next, missing |-> g.missing]
  BY DEF Frame
<1>20. PICK h \in Frame : h = [index |-> g.index, next |-> g.next + 1, missing |-> g.missing]
  <2>1. g.index \in Nat \ {0} /\ g.next + 1 \in Nat \ {0}
    BY <1>3 DEF Frame
  <2> QED BY <1>3, <2>1 DEF Frame
<1>21. up = [frames EXCEPT ![n] = h]
  <2>1. h = [g EXCEPT !.next = g.next + 1]
    BY <1>19, <1>20
  <2>2. frames[n] = g
    BY <1>1, <1>2
  <2> QED BY <1>2, <1>14, <2>1, <2>2
<1>22. /\ up \in Seq(Frame) /\ Len(up) = n /\ n \in DOMAIN up /\ up[n] = h
  BY <1>1, <1>2, <1>21
<1>23. CASE HasValue(t)
  <2>1. frames' = up /\ UNCHANGED <<evaluated, resolved, outcome>>
    BY <1>10, <1>14, <1>23 DEF Resolve
  <2>2. StackSound(up, e)
    BY <1>13, <1>17, <1>20, <1>21, <1>23
  <2>3. StackSound(frames', evaluated')
    BY <1>11, <2>1, <2>2
  <2>4. Served(up, e)
    <3>1. /\ DOMAIN up = DOMAIN frames /\ h.missing = g.missing
          /\ \A a \in DOMAIN frames : up[a] = IF a = n THEN h ELSE frames[a]
      BY <1>1, <1>2, <1>20, <1>21
    <3>2. t \in Got(e) \cup h.missing
      BY <1>17, <1>23
    <3> QED BY <1>20, <1>22, <1>27, <3>1, <3>2
  <2>5. Served(frames', evaluated')
    BY <1>11, <2>1, <2>4
  <2> QED BY <1>11, <1>16, <1>18, <1>26, <2>1, <2>3, <2>5, BatchMoves
<1>24. CASE ~HasValue(t) /\ found = {}
  <2>1. /\ frames' = [up EXCEPT ![Len(frames)].missing = @ \cup {t}]
        /\ UNCHANGED <<evaluated, resolved, outcome>>
    BY <1>10, <1>14, <1>15, <1>24 DEF Resolve
  <2>2. t \notin Present
    BY <1>15, <1>24, NotThere
  <2>3. PICK hh \in Frame :
           hh = [index |-> g.index, next |-> g.next + 1, missing |-> g.missing \cup {t}]
    <3>1. g.index \in Nat \ {0} /\ g.next + 1 \in Nat \ {0}
      BY <1>3 DEF Frame
    <3>2. g.missing \cup {t} \in SUBSET Types
      BY <1>3, <1>9
    <3>3. PICK m \in SUBSET Types : m = g.missing \cup {t}
      BY <3>2
    <3> QED BY <3>1, <3>3 DEF Frame
  <2>4. frames' = [frames EXCEPT ![n] = hh]
    <3>1. hh = [h EXCEPT !.missing = h.missing \cup {t}]
      <4>1. PICK a, b, m, mm : /\ a = g.index /\ b = g.next + 1 /\ m = g.missing
                               /\ mm = m \cup {t}
        OBVIOUS
      <4>2. /\ h = [index |-> a, next |-> b, missing |-> m]
            /\ hh = [index |-> a, next |-> b, missing |-> mm]
        BY <1>20, <2>3, <4>1
      <4>3. hh = [h EXCEPT !.missing = mm] /\ h.missing = m
        BY <4>2
      <4> QED BY <4>1, <4>3
    <3>2. frames' = [up EXCEPT ![n] = hh]
      BY <1>2, <1>22, <2>1, <3>1
    <3> QED BY <1>1, <1>2, <1>21, <3>2
  <2>5. StackSound([frames EXCEPT ![n] = hh], e)
    BY <1>13, <2>2, <2>3
  <2>6. StackSound(frames', evaluated')
    BY <1>11, <2>1, <2>4, <2>5
  <2>7. Served(frames', evaluated')
    <3>0. PICK top \in Frame : top = hh
      BY <2>3
    <3>5. PICK hs : hs = [frames EXCEPT ![n] = top]
      OBVIOUS
    <3>1. hs \in Seq(Frame)
      BY <1>1, <1>2, <3>5
    <3>2. /\ DOMAIN hs = DOMAIN frames
          /\ \A a \in DOMAIN frames : hs[a] = IF a = n THEN hh ELSE frames[a]
      BY <1>1, <1>2, <3>0, <3>5
    <3>3. /\ hh.index = g.index /\ hh.next = g.next + 1 /\ g.missing \subseteq hh.missing
          /\ t \in Got(e) \cup hh.missing
      BY <2>3
    <3>4. Served(hs, e)
      BY <1>27, <2>3, <3>1, <3>2, <3>3
    <3> QED BY <1>11, <2>1, <2>4, <3>0, <3>5, <3>4
  <2> QED BY <1>11, <1>16, <1>18, <1>26, <2>1, <2>6, <2>7, BatchMoves
<1>25. CASE ~HasValue(t) /\ found # {}
  <2>1. PICK i \in found : i = (CHOOSE j \in found : TRUE)
    BY <1>25
  <2>2. i \in Indexes \ e /\ TypeOf(i) = t
    BY <1>11, <1>15 DEF DependencyOf, Waiting
  <2>3. /\ t \in Types /\ depth[t] \in Nat /\ depth[w] \in Nat
        /\ depth[t] < depth[w]
    BY <1>5, <1>16, DependenciesAreLower
  <2>4. ASSUME NEW a \in DOMAIN frames, frames[a].index = i PROVE FALSE
    <3>1. DOMAIN frames = 1 .. n /\ TypeOf(frames[a].index) = t
      BY <1>1, <1>2, <2>2, <2>4
    <3>2. CASE a = n
      <4>1. t = w
        BY <1>1, <1>2, <1>4, <3>1, <3>2
      <4> QED BY <2>3, <4>1
    <3>3. CASE a # n
      <4>1. a < n /\ n \in DOMAIN frames
        BY <1>1, <1>2, <3>1, <3>3
      <4>2. depth[TypeOf(frames[n].index)] < depth[TypeOf(frames[a].index)]
        BY <4>1 DEF BatchInv, StackSound
      <4>3. depth[w] < depth[t]
        BY <1>1, <1>2, <1>4, <3>1, <4>2
      <4> QED BY <2>3, <4>3
    <3> QED BY <3>2, <3>3
  <2>5. /\ frames' = Append(up, Call(i))
        /\ UNCHANGED <<evaluated, resolved, outcome>>
    BY <1>10, <1>14, <1>15, <1>25, <2>1, <2>4 DEF Resolve
  <2>6. t \in Present
    BY <2>2 DEF Present
  <2>7. StackSound(up, e)
    BY <1>13, <1>20, <1>21, <2>6
  <2>8. Call(i) \in Frame /\ FrameSound(Call(i), e) /\ Call(i).index = i
    BY <2>2, CallBegins DEF PlanInv, Call
  <2>9. PICK k \in Frame : k = Call(i)
    BY <2>8
  <2>10. /\ TypeOf(k.index) = t /\ up # <<>> /\ up[Len(up)].index = g.index
    BY <1>20, <1>22, <2>2, <2>8, <2>9
  <2>11. StackSound(Append(up, k), e)
    <3>1. FrameSound(k, e) /\ PlanTyped
      BY <2>8, <2>9 DEF PlanInv
    <3>2. /\ TypeOf(k.index) \in Types /\ TypeOf(up[Len(up)].index) \in Types
          /\ depth[TypeOf(k.index)] < depth[TypeOf(up[Len(up)].index)]
      BY <1>4, <2>3, <2>10
    <3> QED BY <2>7, <2>10, <3>1, <3>2, CallPushed
  <2>12. StackSound(frames', evaluated')
    BY <1>11, <2>5, <2>9, <2>11
  <2>13. Served(frames', evaluated')
    <3>1. PICK hs : hs = Append(up, k)
      OBVIOUS
    <3>2. /\ hs \in Seq(Frame) /\ DOMAIN hs = 1 .. n + 1
          /\ \A a \in 1 .. n : hs[a] = up[a]
          /\ hs[n + 1] = k
      BY <1>22, <3>1, Appended
    <3>3. /\ DOMAIN frames = 1 .. n
          /\ \A a \in DOMAIN frames : hs[a] = IF a = n THEN h ELSE frames[a]
      BY <1>1, <1>2, <1>21, <3>2
    <3>4. k.next = 1
      BY <2>9 DEF Call
    <3>5. \A b \in DOMAIN hs : b \notin DOMAIN frames => hs[b].next = 1
      BY <3>2, <3>3, <3>4
    <3>6. \E b \in DOMAIN hs : n < b /\ TypeOf(hs[b].index) = t
      BY <2>10, <3>2
    <3>7. Served(hs, e)
      <4>1. h.index = g.index /\ h.next = g.next + 1 /\ g.missing \subseteq h.missing
        BY <1>20
      <4>2. DOMAIN frames \subseteq DOMAIN hs
        BY <3>2, <3>3
      <4> QED BY <1>27, <3>2, <3>3, <3>5, <3>6, <4>1, <4>2
    <3> QED BY <1>11, <2>5, <2>9, <3>1, <3>7
  <2> QED BY <1>11, <1>16, <1>18, <1>26, <2>5, <2>12, <2>13, BatchMoves
<1> QED BY <1>23, <1>24, <1>25

LEMMA TopEvaluated ==
    ASSUME PlanInv, BatchInv, EvaluateTop, UNCHANGED scene
    PROVE  PlanInv' /\ BatchInv'
<1>1. /\ Running /\ outcome.result = "running"
      /\ UNCHANGED <<registry, merged, queue, ordered, depth, scene>>
  BY DEF EvaluateTop, Running
<1>2. PlanTyped
  BY DEF PlanInv
<1>3. PICK g \in Frame : g = Top
  BY <1>1, TopIs
<1>4. PICK i \in Indexes \ evaluated : i = g.index
  BY <1>1, <1>3, TopIs
<1>5. PICK w \in Types \cup {Unknown} : w = TypeOf(i)
  BY <1>1, <1>3, <1>4, TopIs
<1>6. ASSUME NEW why \in {"rejected", "unknown", "missing"}, Refused(why, i), Fail(why, i)
      PROVE  PlanInv' /\ BatchInv'
  <2>1. BatchInv' /\ outcome' \in Outcomes /\ outcome'.result \in Started
    BY <1>1, <1>2, <1>6, BatchFails
  <2> QED BY <1>1, <2>1, PlanStands
<1>7. ASSUME outcome' = outcome PROVE PlanInv'
  BY <1>1, <1>2, <1>7, PlanStands DEF PlanTyped, Started
<1>8. CASE w = Unknown
  <2>1. Fail("unknown", i)
    BY <1>3, <1>4, <1>5, <1>8 DEF EvaluateTop
  <2>2. Refused("unknown", i)
    BY <1>5, <1>8 DEF Refused, Views
  <2> QED BY <1>6, <2>1, <2>2
<1>9. CASE w # Unknown /\ g.next <= Cardinality(registry[w])
  <2>1. Resolve
    BY <1>3, <1>4, <1>5, <1>9 DEF EvaluateTop
  <2>2. BatchInv' /\ outcome' = outcome
    BY <1>1, <1>3, <1>4, <1>5, <1>9, <2>1, DependencyResolved
  <2> QED BY <1>7, <2>2
<1>10. CASE w # Unknown /\ ~(g.next <= Cardinality(registry[w]))
  <2>1. FrameSound(g, evaluated) /\ w \in Types
    BY <1>1, <1>3, <1>5, <1>10, TopIs
  <2>2. PICK R \in SUBSET Types : R = registry[w]
    BY <1>2, <2>1 DEF PlanTyped, Dependencies
  <2>3. PICK c \in Nat : c = Cardinality(R)
    BY TypesAreNumbers
  <2>4. g.next \in Nat /\ c < g.next
    BY <1>10, <2>2, <2>3 DEF Frame
  <2>5. PICK q \in Seq(R) : q = Declared(w) /\ Len(q) = c /\ Range(q) = R
    BY <2>2, <2>3, TypesAreNumbers, SortedIs DEF Declared
  <2>6. /\ g.missing \cap Present = {} /\ g.missing \subseteq R
        /\ \A m \in 1 .. c : m < g.next => q[m] \in Present \cup g.missing
    BY <1>4, <1>5, <2>1, <2>2, <2>3, <2>5 DEF FrameSound
  <2>7. CASE g.missing # {}
    <3>1. Fail("missing", i)
      BY <1>3, <1>4, <1>5, <1>10, <2>7 DEF EvaluateTop
    <3>2. Refused("missing", i)
      <4>1. PICK d \in R : d \notin Present
        BY <2>6, <2>7
      <4>2. \A v \in [R -> Indexes] : TypeOf(v[d]) # d
        BY <4>1 DEF Present
      <4>3. Views(i) = {}
        BY <1>5, <1>10, <2>2, <4>1, <4>2 DEF Views
      <4> QED BY <4>3 DEF Refused
    <3> QED BY <1>6, <3>1, <3>2
  <2>8. CASE g.missing = {}
    <3>1. Judge(i)
      BY <1>3, <1>4, <1>5, <1>10, <2>8 DEF EvaluateTop
    <3>2. PICK v : v = [d \in R |-> resolved[d]]
      OBVIOUS
    <3>3. v \in Views(i) /\ Range(v) \subseteq evaluated
      <4>1. ASSUME NEW d \in R PROVE resolved[d] \in evaluated /\ TypeOf(resolved[d]) = d
        <5>1. PICK m \in 1 .. c : d = q[m]
          BY <2>5 DEF Range
        <5>2. m \in Nat \ {0} /\ m < g.next
          BY <2>3, <2>4, <5>1
        <5>3. \/ d \in Got(evaluated)
              \/ \E b \in DOMAIN frames : Len(frames) < b
          <6>1. Dependency(g, m) = d
            BY <1>4, <1>5, <2>5, <5>1 DEF Dependency
          <6>2. Len(frames) \in DOMAIN frames /\ frames[Len(frames)] = g /\ Served(frames, evaluated)
            BY <1>1, <1>3, TopIs DEF BatchInv
          <6>3. \/ Dependency(g, m) \in Got(evaluated) \cup g.missing
                \/ \E b \in DOMAIN frames : Len(frames) < b
            BY <5>2, <6>2 DEF Served
          <6> QED BY <2>8, <6>1, <6>3
        <5>4. ~\E b \in DOMAIN frames : Len(frames) < b
          <6>1. frames \in Seq(Frame)
            BY <1>1, TopIs
          <6> QED BY <6>1
        <5>5. HasValue(d) /\ d \in Types
          BY <2>2, <5>3, <5>4 DEF Got, BatchInv, ResolvedSound
        <5> QED BY <5>5 DEF BatchInv, ResolvedSound, HasValue
      <4>2. v \in [R -> Indexes] /\ Range(v) \subseteq evaluated
        BY <3>2, <4>1 DEF BatchInv, Range
      <4>3. \A d \in DOMAIN v : TypeOf(v[d]) = d
        BY <3>2, <4>1
      <4> QED BY <1>5, <1>10, <2>2, <4>2, <4>3 DEF Views
    <3>4. CASE Passes(i, v)
      <4>1. Accept(i)
        BY <1>5, <2>2, <3>1, <3>2, <3>4 DEF Judge
      <4>2. CanPass(i)
        BY <3>3, <3>4 DEF CanPass
      <4>3. StackSound(frames', evaluated') /\ Served(frames', evaluated')
        <5>1. /\ frames # <<>> /\ frames[Len(frames)].index = i /\ frames \in Seq(Frame)
              /\ StackSound(frames, evaluated) /\ Served(frames, evaluated)
          BY <1>1, <1>3, <1>4, TopIs DEF BatchInv
        <5>2. StackSound(Front(frames), evaluated \cup {frames[Len(frames)].index})
          BY <1>2, <5>1, CallReturns
        <5>3. Served(Front(frames), evaluated \cup {frames[Len(frames)].index})
          BY <5>1, ServedReturns
        <5> QED BY <4>1, <5>1, <5>2, <5>3 DEF Accept
      <4>4. /\ outcome' = outcome
            /\ \A j \in evaluated' : j \in Indexes /\ CanPass(j)
        BY <1>4, <4>1, <4>2 DEF Accept, BatchInv
      <4>5. ResolvedSound'
        <5>1. evaluated' = evaluated \cup {i} /\ resolved' = [resolved EXCEPT ![w] = i]
          BY <1>5, <4>1 DEF Accept
        <5>2. i # NoEntry
          BY <1>2, SceneIs DEF PlanTyped, NoEntry
        <5>3. /\ resolved \in [Types -> evaluated \cup {NoEntry}]
              /\ \A t \in Types : resolved[t] # NoEntry => TypeOf(resolved[t]) = t
              /\ \A j \in evaluated : resolved[TypeOf(j)] # NoEntry
          BY DEF BatchInv, ResolvedSound, HasValue
        <5>4. resolved' \in [Types -> evaluated' \cup {NoEntry}]
          BY <2>1, <5>1, <5>3
        <5>5. \A t \in Types : resolved'[t] = IF t = w THEN i ELSE resolved[t]
          BY <2>1, <5>1, <5>3
        <5>6. \A t \in Types : resolved'[t] # NoEntry => TypeOf(resolved'[t]) = t
          BY <1>5, <5>3, <5>5
        <5>7. \A j \in evaluated : TypeOf(j) \in Types
          <6>1. \A j \in evaluated : j \in Indexes /\ TypeOf(j) # Unknown
            BY DEF BatchInv, CanPass, Views
          <6> QED BY <1>2, <6>1, SceneIs DEF PlanTyped
        <5>8. \A j \in evaluated' : resolved'[TypeOf(j)] # NoEntry
          BY <1>5, <2>1, <5>1, <5>2, <5>3, <5>5, <5>7
        <5> QED BY <1>1, <5>4, <5>6, <5>8, BatchStands DEF ResolvedSound, HasValue
      <4>6. BatchInv'
        BY <1>1, <4>3, <4>4, <4>5, BatchMoves
      <4> QED BY <1>7, <4>4, <4>6
    <3>5. CASE ~Passes(i, v)
      <4>1. Fail("rejected", i)
        BY <1>5, <2>2, <3>1, <3>2, <3>5 DEF Judge
      <4>2. Refused("rejected", i)
        BY <3>3, <3>5 DEF Refused
      <4> QED BY <1>6, <4>1, <4>2
    <3> QED BY <3>4, <3>5
  <2> QED BY <2>7, <2>8
<1> QED BY <1>8, <1>9, <1>10

LEMMA ValidationStarts == ValidationInit => VerdictInv
BY PlanStarts, BatchStarts DEF VerdictInv

LEMMA ValidationKept == VerdictInv /\ [ValidationNext]_validationVars => VerdictInv'
<1> SUFFICES ASSUME VerdictInv, [ValidationNext]_validationVars PROVE VerdictInv'
  OBVIOUS
<1>1. PlanInv /\ BatchInv
  BY DEF VerdictInv
<1>2. CASE MergeOverride /\ UNCHANGED scene
  <2>1. PlanInv'
    BY <1>1, <1>2, OverrideMerged
  <2>2. BatchInv'
    BY <1>1, <1>2, BatchWaits DEF MergeOverride, Result
  <2> QED BY <2>1, <2>2 DEF VerdictInv
<1>3. CASE CheckRegistry /\ UNCHANGED scene
  <2>1. PlanInv'
    BY <1>1, <1>3, RegistryChecked
  <2>2. BatchInv'
    BY <1>1, <1>3, BatchWaits DEF CheckRegistry, Result
  <2> QED BY <2>1, <2>2 DEF VerdictInv
<1>4. CASE PlanNext /\ UNCHANGED scene
  <2>1. PlanInv'
    BY <1>1, <1>4, PlanGrows
  <2>2. BatchInv'
    BY <1>1, <1>4, BatchWaits DEF PlanNext
  <2> QED BY <2>1, <2>2 DEF VerdictInv
<1>5. CASE FinishPlan /\ UNCHANGED scene
  <2>1. PlanInv'
    BY <1>1, <1>5, PlanFinished
  <2>2. BatchInv'
    BY <1>1, <1>5, BatchWaits DEF FinishPlan, Result
  <2> QED BY <2>1, <2>2 DEF VerdictInv
<1>6. CASE (CallNext \/ EvaluateTop) /\ UNCHANGED scene
  BY <1>1, <1>6, LoopCalls, TopEvaluated DEF VerdictInv
<1>7. CASE UNCHANGED validationVars
  <2>1. PlanInv'
    <3>1. UNCHANGED <<registry, merged, queue, ordered, depth, outcome, scene>>
      BY <1>7 DEF validationVars
    <3>2. /\ PlanTyped => PlanTyped'
          /\ PlanSound => PlanSound'
          /\ Cyclic => Cyclic'
          /\ Planned' = Planned
      BY <3>1 DEF PlanTyped, PlanSound, Planned, Cyclic
    <3> QED BY <1>1, <3>1, <3>2 DEF PlanInv
  <2>2. /\ UNCHANGED <<registry, depth, scene, frames, evaluated, resolved, outcome>>
    BY <1>7 DEF validationVars
  <2>3. StackSound(frames', evaluated') /\ Served(frames', evaluated')
    BY <1>1, <2>2 DEF BatchInv
  <2>4. StackSound(frames, evaluated)' /\ Served(frames, evaluated)'
    BY <2>2, <2>3, StackStays, ServedStays
  <2>5. /\ \A j \in evaluated' : j \in Indexes' /\ CanPass(j)'
        /\ ResolvedSound'
    BY <1>1, <2>2, BatchStands DEF BatchInv, ResolvedSound, HasValue
  <2>6. VerdictIsJustified' /\ NeverReentered'
    <3>1. VerdictIsJustified /\ NeverReentered
      BY <1>1 DEF BatchInv
    <3>2. Views(outcome.at)' = Views(outcome.at) /\ \A v : Passes(outcome.at, v)' = Passes(outcome.at, v)
      BY <2>2 DEF Views, Passes, TypeOf, ValueOf, Indexes
    <3> QED BY <2>2, <3>1, <3>2, BatchStands DEF VerdictIsJustified, NeverReentered
  <2>7. BatchInv'
    BY <1>1, <2>2, <2>4, <2>5, <2>6 DEF BatchInv
  <2> QED BY <2>1, <2>7 DEF VerdictInv
<1> QED BY <1>2, <1>3, <1>4, <1>5, <1>6, <1>7 DEF ValidationNext

\* The verdict on a batch follows from the registry and the batch alone, for every
\* registry, list of overrides and batch, and whatever the rules accept: the plan is
\* refused exactly when the types depend on each other in a circle, no evaluation
\* comes back to an entry it is in the middle of, entries are judged on values that
\* were accepted themselves and, when no type depended on occurs twice, the order of
\* the entries does not decide what is accepted (dependency-graph.ts, executor.ts).
THEOREM VerdictIsAlwaysRight == ValidationSpec => []VerdictIsRight
<1>1. VerdictInv => VerdictIsRight
  <2> SUFFICES ASSUME VerdictInv PROVE VerdictIsRight
    OBVIOUS
  <2>1. PlanInv /\ BatchInv
    BY DEF VerdictInv
  <2>2. ASSUME outcome.result \in Started
        PROVE  /\ ~Cyclic
               /\ \A i \in DOMAIN ordered : \A d \in registry[ordered[i]] :
                     d \in {ordered[j] : j \in 1 .. i - 1} /\ depth[d] < depth[ordered[i]]
    <3>1. PlanTyped /\ PlanSound /\ Planned = Types
      BY <2>1, <2>2 DEF PlanInv, Started
    <3>2. ~Cyclic
      BY <3>1, NoCircle
    <3>3. \A i \in DOMAIN ordered : ordered[i] \in Planned
      BY DEF Planned, Range
    <3> QED BY <3>1, <3>2, <3>3 DEF PlanSound
  <2>3. outcome.result = "cyclic" => Cyclic
    BY <2>1 DEF PlanInv
  <2>4. PlanIsSound
    BY <2>2, <2>3 DEF PlanIsSound, Started
  <2>5. VerdictIsJustified /\ NeverReentered
    BY <2>1 DEF BatchInv
  <2>6. ASSUME Unambiguous PROVE VerdictIsOrderless
    <3>1. outcome.result = "success" => \A i \in Indexes : Acceptable(i)
      BY <2>5, <2>6 DEF VerdictIsJustified, Unambiguous, Acceptable
    <3>2. outcome.result \in {"rejected", "unknown", "missing"} => ~Acceptable(outcome.at)
      BY <2>5 DEF VerdictIsJustified, Acceptable
    <3> QED BY <3>1, <3>2 DEF VerdictIsOrderless
  <2> QED BY <2>4, <2>5, <2>6 DEF VerdictIsRight
<1> QED BY <1>1, ValidationStarts, ValidationKept, PTL DEF ValidationSpec

\* Every variable has its type, nothing is planned twice, and no entry is on the
\* stack of calls twice or after it was accepted (createExecutionPlan, evaluateState).
THEOREM ValidationTyped == ValidationSpec => []ValidationTypeOK
<1>1. VerdictInv => ValidationTypeOK
  <2> SUFFICES ASSUME VerdictInv PROVE ValidationTypeOK
    OBVIOUS
  <2>1. PlanInv /\ BatchInv /\ PlanTyped
    BY DEF VerdictInv, PlanInv
  <2>2. IsInjective(ordered \o queue)
    <3>1. CASE outcome.result \in {"merging", "refused"}
      <4>1. queue = <<>> /\ ordered = <<>>
        BY <2>1, <3>1 DEF PlanInv
      <4>2. ordered \o queue = <<>>
        BY <4>1
      <4> QED BY <4>2 DEF IsInjective
    <3>2. CASE outcome.result \notin {"merging", "refused"}
      BY <2>1, <3>2, Joined DEF PlanInv, PlanSound, PlanTyped, Planned
    <3> QED BY <3>1, <3>2
  <2>3. /\ frames \in Seq(Frame) /\ evaluated \subseteq Indexes
        /\ \A a \in DOMAIN frames : frames[a].index \notin evaluated
    BY <2>1 DEF BatchInv, StackSound, FrameSound
  <2>4. IsInjective([a \in DOMAIN frames |-> frames[a].index])
    <3>1. \A a, b \in DOMAIN frames : frames[a].index = frames[b].index => a = b
      BY <2>1, OnStackOnce DEF BatchInv
    <3> QED BY <3>1 DEF IsInjective
  <2>5. resolved \in [Types -> evaluated \cup {NoEntry}]
    BY <2>1 DEF BatchInv, ResolvedSound
  <2> QED BY <2>1, <2>2, <2>3, <2>4, <2>5 DEF PlanTyped, ValidationTypeOK
<1> QED BY <1>1, ValidationStarts, ValidationKept, PTL DEF ValidationSpec

-----------------------------------------------------------------------------
(* The lists: what is read with a cursor                                     *)

\* A cursor that stands further down the list.
Later(c, d) ==
    /\ d # NoPage
    /\ c = NoPage \/ d.time < c.time \/ (d.time = c.time /\ d.id < c.id)

\* Whether rows keep their place while they are listed.
Still == catalogueScene.list # "activity" /\ (catalogueScene.list = "contests" => catalogueSpent["move"] = 0)

\* A key that was read is a row's, as it stands or, of a participant's contests, as
\* it stood before some activity.
StillTrue(key) ==
    /\ table[key.id] # Missing
    /\ Still => key = KeyOf(key.id)
    /\ catalogueScene.list = "activity" => key.time <= table[key.id].time

\* A contest that began between the query and the answer.
Gone(wanted, id) == wanted = "registered" /\ table[id].status = "active"

\* Where a key beyond the cursor is: on the page, at its edge, beyond the next
\* cursor, or gone.
Placed(key, wanted, items, next) ==
    \/ key \in items
    \/ Gone(wanted, key.id)
    \/ /\ next # NoPage
       /\ \/ next.id = key.id
          \/ AfterCursor(key, next)
          \/ catalogueScene.list = "requests" /\ next.time = key.time

\* An answer, or a request whose rows are read.
PageRead(r) ==
    /\ r.items \subseteq r.listed /\ IsFiniteSet(r.items) /\ Cardinality(r.items) <= PageSize
    /\ r.next # NoPage => Later(r.cursor, r.next)
    /\ \A key \in r.items :
          AfterCursor(key, r.cursor) /\ (r.next # NoPage => ~AfterCursor(key, r.next))
    /\ \A key \in r.listed :
          /\ catalogueScene.list # "requests" => key.sub = 0
          /\ AfterCursor(key, r.cursor) => Placed(key, r.filter, r.items, r.next)

PageTrue(r) == PageRead(r) /\ \A key \in r.listed : StillTrue(key)

ListTyped ==
    /\ catalogueScene \in CatalogueScenarios
    /\ catalogueSpent \in [CatalogueSpending -> Nat]
    /\ table \in [Ids -> TableRow \cup {Missing}]
    /\ \A id \in Ids : catalogueScene.list # "requests" => table[id].sub = 0
    /\ filter \in Filters
    /\ trail \in Seq(Cursors) /\ trail # <<>>
    /\ answers \subseteq Answer
    /\ held \in Answer
    /\ asked \subseteq Request
    /\ \A a, b \in answers : a.filter = b.filter /\ a.cursor = b.cursor => a = b

\* Of a list under way, the pages before the current one are not asked for, and each
\* leads to the next.
TrailSound ==
    /\ trail[1] = NoPage
    /\ \A i, j \in DOMAIN trail : i < j => Later(trail[i], trail[j])
    /\ \A i \in DOMAIN trail : i < Len(trail) =>
          /\ ~IsAsked(filter, trail[i])
          /\ \A a \in answers : a.filter = filter /\ a.cursor = trail[i] => trail[i + 1] = a.next

\* No row was read newer than it was read later.
InTime(earlier, later) == \A x \in earlier, y \in later : x.id = y.id => x.time <= y.time

\* A participant's pages are read in order, each of them once.
ActivitySound ==
    catalogueScene.list = "activity" =>
        /\ \A r \in asked : r.filter = filter /\ r.cursor = Current
        /\ \A a \in answers : a.filter = filter /\ \E i \in DOMAIN trail : a.cursor = trail[i]
        /\ \A a, b \in answers : Later(a.cursor, b.cursor) => InTime(a.items, b.items)
        /\ \A a \in answers, r \in asked :
              r.step = "sync" /\ Later(a.cursor, r.cursor) => InTime(a.items, r.items)

PagesInv ==
    /\ ListTyped
    /\ \A a \in answers : PageTrue(a)
    /\ \A r \in asked : r.step = "sync" => PageTrue(r)
    /\ TrailSound
    /\ ActivitySound

LEMMA CatalogueConstants ==
    /\ Ids \subseteq Nat /\ IsFiniteSet(Ids) /\ LastTime \in Nat \ {0} /\ PageSize \in Nat \ {0}
    /\ \A key \in RowKey : key.id \in Nat /\ key.time \in Nat \ {0} /\ key.sub \in {0, 1}
    /\ \A c \in Cursors : c.id \in Nat /\ c.time \in Nat
    /\ NoPage \in Cursors /\ NoPage \notin Cursor
<1>1. Ids \subseteq Nat /\ IsFiniteSet(Ids) /\ LastTime \in Nat \ {0} /\ PageSize \in Nat \ {0}
  BY CatalogueAssumption
<1>0. \A t \in 1 .. LastTime : t \in Nat \ {0}
  BY <1>1
<1>2. ASSUME NEW key \in RowKey
      PROVE  key.id \in Nat /\ key.time \in Nat \ {0} /\ key.sub \in {0, 1}
  <2>1. key.id \in Ids /\ key.time \in 1 .. LastTime /\ key.sub \in {0, 1}
    BY DEF RowKey
  <2> QED BY <1>0, <1>1, <2>1
<1>3. ASSUME NEW c \in Cursor PROVE c.id \in Nat /\ c.time \in Nat \ {0}
  <2>1. c.id \in Ids /\ c.time \in 1 .. LastTime
    BY DEF Cursor
  <2> QED BY <1>0, <1>1, <2>1
<1>4. NoPage.id = 0 /\ NoPage.time = 0 /\ NoPage \in Cursors
  BY DEF NoPage, Cursors
<1>5. NoPage \notin Cursor
  BY <1>3, <1>4
<1> QED BY <1>1, <1>2, <1>3, <1>4, <1>5 DEF Cursors

\* What the scenario of a behaviour is.
LEMMA CatalogueSceneIs ==
    ASSUME catalogueScene \in CatalogueScenarios
    PROVE  /\ catalogueScene.list \in {"contests", "requests", "activity"}
           /\ catalogueScene.rows \in SUBSET Ids
           /\ catalogueScene.budget \in [CatalogueSpending -> Nat]
BY CatalogueAssumption DEF CatalogueScene

\* Beyond a later cursor is beyond an earlier one.
LEMMA LaterMeansBeyond ==
    ASSUME NEW c \in Cursors, NEW d \in Cursors, NEW key \in RowKey,
           Later(c, d), AfterCursor(key, d)
    PROVE  AfterCursor(key, c)
<1>1. /\ c.id \in Nat /\ c.time \in Nat /\ d.id \in Nat /\ d.time \in Nat
      /\ key.id \in Nat /\ key.time \in Nat
  BY CatalogueConstants
<1>2. d # NoPage
  BY DEF Later
<1> QED BY <1>1, <1>2 DEF Later, AfterCursor

LEMMA LaterGoesOn ==
    ASSUME NEW c \in Cursors, NEW d \in Cursors, NEW e \in Cursors, Later(c, d), Later(d, e)
    PROVE  Later(c, e)
<1>1. /\ c.id \in Nat /\ c.time \in Nat /\ d.id \in Nat /\ d.time \in Nat
      /\ e.id \in Nat /\ e.time \in Nat
  BY CatalogueConstants
<1> QED BY <1>1 DEF Later

LEMMA LaterIsOneWay ==
    ASSUME NEW c \in Cursors, NEW d \in Cursors, Later(c, d)
    PROVE  c # d /\ ~Later(d, c)
<1>1. /\ c.id \in Nat /\ c.time \in Nat /\ d.id \in Nat /\ d.time \in Nat
  BY CatalogueConstants
<1> QED BY <1>1 DEF Later

\* Rows are told apart by their ids.
OneByOne(S) == \A x, y \in S : x.id = y.id => x = y

\* Of a finite set of rows there is a last one.
LEMMA LastOfRows ==
    ASSUME NEW S, S \subseteq RowKey, OneByOne(S), IsFiniteSet(S), S # {}
    PROVE  \E m \in S : \A y \in S : y # m => Precedes(y, m)
<1> DEFINE Ends(T) == \E m \in T : \A y \in T : y # m => Precedes(y, m)
<1> DEFINE N == {n \in Nat : \A T \in SUBSET RowKey :
                    OneByOne(T) /\ IsFiniteSet(T) /\ Cardinality(T) = n /\ T # {} => Ends(T)}
<1>1. 0 \in N
  BY FS_EmptySet
<1>2. ASSUME NEW n \in Nat, n \in N PROVE n + 1 \in N
  <2> SUFFICES ASSUME NEW T \in SUBSET RowKey, OneByOne(T), IsFiniteSet(T),
                      Cardinality(T) = n + 1, T # {}
               PROVE  Ends(T)
    BY <1>2
  <2>1. PICK x \in T : TRUE
    OBVIOUS
  <2>2. PICK R : R = T \ {x}
    OBVIOUS
  <2>3. IsFiniteSet(R) /\ Cardinality(R) = n /\ OneByOne(R) /\ R \in SUBSET RowKey
    <3>1. IsFiniteSet(T \ {x}) /\ Cardinality(T \ {x}) = (n + 1) - 1
      BY <2>1, FS_RemoveElement
    <3> QED BY <2>2, <3>1 DEF OneByOne
  <2>4. CASE R = {}
    BY <2>1, <2>2, <2>4
  <2>5. CASE R # {}
    <3>1. PICK m \in R : \A y \in R : y # m => Precedes(y, m)
      BY <1>2, <2>3, <2>5
    <3>2. x \in RowKey /\ m \in RowKey /\ m \in T /\ x # m /\ x.id # m.id
      BY <2>1, <2>2 DEF OneByOne
    <3>3. \A key \in RowKey : key.id \in Nat /\ key.time \in Nat /\ key.sub \in Nat
      BY CatalogueConstants
    <3>4. Precedes(x, m) \/ Precedes(m, x)
      BY <3>2, <3>3 DEF Precedes
    <3>5. CASE Precedes(x, m)
      <4>1. \A y \in T : y # m => Precedes(y, m)
        BY <2>2, <3>1, <3>5
      <4> QED BY <3>2, <4>1
    <3>6. CASE Precedes(m, x)
      <4>1. ASSUME NEW y \in T, y # x PROVE Precedes(y, x)
        <5>1. y \in RowKey /\ (y = m \/ Precedes(y, m))
          BY <2>2, <3>1, <4>1
        <5> QED BY <3>2, <3>3, <3>6, <5>1 DEF Precedes
      <4> QED BY <2>1, <4>1
    <3> QED BY <3>4, <3>5, <3>6
  <2> QED BY <2>4, <2>5
<1>3. Cardinality(S) \in N
  <2>1. Nat \subseteq N
    <3> HIDE DEF N
    <3> QED BY <1>1, <1>2, Induction
  <2> QED BY <2>1, FS_CardinalityType
<1> QED BY <1>3

InOrderOf(s, n) == \A i, j \in 1 .. n : i < j => Precedes(s[i], s[j])

LEMMA OrderExists ==
    ASSUME NEW S, S \subseteq RowKey, OneByOne(S), IsFiniteSet(S)
    PROVE  \E s \in [1 .. Cardinality(S) -> S] : InOrderOf(s, Cardinality(S))
<1> DEFINE N == {n \in Nat : \A T \in SUBSET RowKey :
                    OneByOne(T) /\ IsFiniteSet(T) /\ Cardinality(T) = n
                        => \E s \in [1 .. n -> T] : InOrderOf(s, n)}
<1>1. 0 \in N
  <2> SUFFICES ASSUME NEW T \in SUBSET RowKey
               PROVE  \E s \in [1 .. 0 -> T] : InOrderOf(s, 0)
    OBVIOUS
  <2> DEFINE s == [i \in 1 .. 0 |-> 0]
  <2>1. s \in [1 .. 0 -> T] /\ InOrderOf(s, 0)
    BY DEF InOrderOf
  <2> QED BY <2>1
<1>2. ASSUME NEW n \in Nat, n \in N PROVE n + 1 \in N
  <2> SUFFICES ASSUME NEW T \in SUBSET RowKey, OneByOne(T), IsFiniteSet(T), Cardinality(T) = n + 1
               PROVE  \E s \in [1 .. n + 1 -> T] : InOrderOf(s, n + 1)
    BY <1>2
  <2>1. T # {}
    BY FS_EmptySet
  <2>2. PICK m \in T : \A y \in T : y # m => Precedes(y, m)
    BY <2>1, LastOfRows
  <2>3. PICK R : R = T \ {m}
    OBVIOUS
  <2>4. IsFiniteSet(R) /\ Cardinality(R) = n /\ OneByOne(R) /\ R \in SUBSET RowKey
    <3>1. IsFiniteSet(T \ {m}) /\ Cardinality(T \ {m}) = (n + 1) - 1
      BY <2>2, FS_RemoveElement
    <3> QED BY <2>3, <3>1 DEF OneByOne
  <2>5. PICK s \in [1 .. n -> R] : InOrderOf(s, n)
    BY <1>2, <2>4
  <2> DEFINE p == [i \in 1 .. n + 1 |-> IF i = n + 1 THEN m ELSE s[i]]
  <2>6. p \in [1 .. n + 1 -> T]
    BY <2>2, <2>3, <2>5
  <2>7. InOrderOf(p, n + 1)
    <3> SUFFICES ASSUME NEW i \in 1 .. n + 1, NEW j \in 1 .. n + 1, i < j
                 PROVE  Precedes(p[i], p[j])
      BY DEF InOrderOf
    <3>1. i \in 1 .. n /\ p[i] = s[i] /\ s[i] \in R
      BY <2>5
    <3>2. CASE j = n + 1
      <4>1. s[i] # m /\ s[i] \in T /\ p[j] = m
        BY <2>3, <3>1, <3>2
      <4> QED BY <2>2, <3>1, <4>1
    <3>3. CASE j # n + 1
      <4>1. j \in 1 .. n /\ p[j] = s[j]
        BY <3>3
      <4> QED BY <2>5, <3>1, <4>1 DEF InOrderOf
    <3> QED BY <3>2, <3>3
  <2> HIDE DEF p
  <2> QED BY <2>6, <2>7
<1>3. Nat \subseteq N
  <2> HIDE DEF N
  <2> QED BY <1>1, <1>2, Induction
<1> QED BY <1>3, FS_CardinalityType

\* The rows of a query in their order: each of them once.
LEMMA OrderedIs ==
    ASSUME NEW S, S \subseteq RowKey, OneByOne(S), IsFiniteSet(S)
    PROVE  \E n \in Nat :
              /\ Ordered(S) \in [1 .. n -> S] /\ Ordered(S) \in Seq(RowKey)
              /\ Len(Ordered(S)) = n /\ DOMAIN Ordered(S) = 1 .. n
              /\ InOrderOf(Ordered(S), n)
              /\ \A key \in S : \E i \in 1 .. n : key = Ordered(S)[i]
<1>1. PICK n \in Nat : n = Cardinality(S)
  BY FS_CardinalityType
<1>2. PICK s : s = Ordered(S)
  OBVIOUS
<1>3. s \in [1 .. n -> S] /\ InOrderOf(s, n)
  <2> DEFINE P(q) == q \in [1 .. n -> S] /\ InOrderOf(q, n)
  <2>1. \E q : P(q)
    BY <1>1, OrderExists
  <2>2. \A q \in [1 .. n -> S] : InOrderOf(q, n) <=> \A i, j \in DOMAIN q : i < j => Precedes(q[i], q[j])
    BY DEF InOrderOf
  <2>3. \E q \in [1 .. n -> S] : \A i, j \in DOMAIN q : i < j => Precedes(q[i], q[j])
    BY <2>1, <2>2
  <2>4. s \in [1 .. n -> S] /\ \A i, j \in DOMAIN s : i < j => Precedes(s[i], s[j])
    BY <1>1, <1>2, <2>3 DEF Ordered
  <2> QED BY <2>2, <2>4
<1>4. s \in Seq(RowKey) /\ Len(s) = n /\ DOMAIN s = 1 .. n
  BY <1>3
<1>5. IsInjective(s)
  <2> SUFFICES ASSUME NEW i \in 1 .. n, NEW j \in 1 .. n, s[i] = s[j], i # j
               PROVE  FALSE
    BY <1>4 DEF IsInjective
  <2>1. Precedes(s[i], s[i])
    BY <1>3 DEF InOrderOf
  <2>2. s[i] \in RowKey
    BY <1>3
  <2>3. s[i].id \in Nat /\ s[i].time \in Nat /\ s[i].sub \in Nat
    BY <2>2, CatalogueConstants
  <2> QED BY <2>1, <2>3 DEF Precedes
<1>6. ASSUME NEW key \in S PROVE \E i \in 1 .. n : key = s[i]
  <2>1. PICK D : D = 1 .. n
    OBVIOUS
  <2>2. IsFiniteSet(D) /\ Cardinality(D) = n
    BY <2>1, FS_Interval
  <2>3. s \in Injection(D, S)
    BY <1>3, <1>4, <1>5, <2>1 DEF Injection
  <2>4. s \in Surjection(D, S)
    BY <1>1, <2>2, <2>3, FS_Injection
  <2> QED BY <2>1, <2>4 DEF Surjection
<1> QED BY <1>2, <1>3, <1>4, <1>6

-----------------------------------------------------------------------------
(* The lists: the query                                                      *)

\* What the filter lets through are rows, told apart by their ids.
LEMMA MatchingRows ==
    ASSUME ListTyped, NEW wanted
    PROVE  /\ Matching(wanted) \subseteq RowKey /\ IsFiniteSet(Matching(wanted))
           /\ OneByOne(Matching(wanted))
           /\ \A key \in Matching(wanted) :
                 /\ key.id \in Ids /\ key = KeyOf(key.id) /\ table[key.id] # Missing
                 /\ catalogueScene.list # "requests" => key.sub = 0
<1> DEFINE I == {i \in Ids : table[i] # Missing /\ wanted \in {"any", table[i].status}}
<1>1. ASSUME NEW id \in I
      PROVE  /\ KeyOf(id) \in RowKey /\ KeyOf(id).id = id /\ KeyOf(id).sub = table[id].sub
             /\ id \in Ids /\ table[id] # Missing
  <2>1. table[id] \in TableRow
    BY DEF ListTyped
  <2> QED BY <2>1 DEF KeyOf, RowKey, TableRow
<1>2. Matching(wanted) = {KeyOf(id) : id \in I}
  BY DEF Matching
<1>3. PICK J, M : J = I /\ M = {KeyOf(id) : id \in J}
  OBVIOUS
<1>4. IsFiniteSet(M)
  <2>1. IsFiniteSet(J)
    BY <1>3, CatalogueConstants, FS_Subset
  <2>2. PICK f : f = [id \in J |-> KeyOf(id)]
    OBVIOUS
  <2>3. f \in Surjection(J, M)
    BY <1>3, <2>2 DEF Surjection
  <2> QED BY <2>1, <2>3, FS_Surjection
<1> HIDE DEF I
<1>5. M \subseteq RowKey
  BY <1>1, <1>3
<1>6. \A key \in M : key.id \in Ids /\ key = KeyOf(key.id) /\ table[key.id] # Missing
  BY <1>1, <1>3
<1>7. \A key \in M : catalogueScene.list # "requests" => key.sub = 0
  BY <1>1, <1>3 DEF ListTyped
<1>8. OneByOne(M)
  BY <1>6 DEF OneByOne
<1>9. Matching(wanted) = M
  BY <1>2, <1>3
<1> QED BY <1>4, <1>5, <1>6, <1>7, <1>8, <1>9

\* A row that precedes another is not beyond the cursor of that one, and a row that
\* follows is, unless both are of one millisecond.
LEMMA CursorCuts ==
    ASSUME NEW x \in RowKey, NEW y \in RowKey, Precedes(x, y),
           NEW c \in Cursor, NEW d \in Cursor,
           c.id = x.id, c.time = x.time, d.id = y.id, d.time = y.time
    PROVE  /\ ~AfterCursor(x, d)
           /\ AfterCursor(y, c) \/ (x.sub = 1 /\ x.time = y.time)
<1>1. /\ x.id \in Nat /\ x.time \in Nat /\ x.sub \in {0, 1}
      /\ y.id \in Nat /\ y.time \in Nat /\ y.sub \in {0, 1}
      /\ c # NoPage /\ d # NoPage
  BY CatalogueConstants
<1>2. ~AfterCursor(x, d)
  <2>1. ~(x.time < d.time)
    BY <1>1 DEF Precedes
  <2>2. ~(x.time = d.time /\ x.sub = 0 /\ x.id < d.id)
    BY <1>1 DEF Precedes
  <2> QED BY <1>1, <2>1, <2>2 DEF AfterCursor
<1>3. AfterCursor(y, c) \/ (x.sub = 1 /\ x.time = y.time)
  BY <1>1 DEF Precedes, AfterCursor
<1> QED BY <1>2, <1>3

\* A row is not beyond the cursor that names it.
LEMMA CursorIsExclusive ==
    ASSUME NEW x \in RowKey, NEW c \in Cursor, c.id = x.id, c.time = x.time
    PROVE  ~AfterCursor(x, c)
<1>1. x.id \in Nat /\ x.time \in Nat /\ c # NoPage
  BY CatalogueConstants
<1> QED BY <1>1 DEF AfterCursor

\* The first rows beyond the cursor, and the cursor of the next.
LEMMA QueryReads ==
    ASSUME ListTyped, NEW r \in Request,
           NEW rows, rows = Ordered({key \in Matching(r.filter) : AfterCursor(key, r.cursor)}),
           NEW items, items = FirstPage(rows), NEW next, next = NextCursorOf(rows)
    PROVE  /\ items \in SUBSET RowKey /\ items \subseteq Matching(r.filter) /\ next \in Cursors
           /\ IsFiniteSet(items) /\ Cardinality(items) <= PageSize
           /\ next # NoPage => Later(r.cursor, next)
           /\ \A key \in items :
                 AfterCursor(key, r.cursor) /\ (next # NoPage => ~AfterCursor(key, next))
           /\ \A key \in Matching(r.filter) :
                 AfterCursor(key, r.cursor) => Placed(key, r.filter, items, next)
<1>1. PICK S : S = {key \in Matching(r.filter) : AfterCursor(key, r.cursor)}
  OBVIOUS
<1>2. /\ S \subseteq Matching(r.filter) /\ S \subseteq RowKey /\ OneByOne(S) /\ IsFiniteSet(S)
  BY <1>1, MatchingRows, FS_Subset DEF OneByOne
<1>3. PICK n \in Nat :
         /\ rows \in [1 .. n -> S] /\ rows \in Seq(RowKey)
         /\ Len(rows) = n /\ DOMAIN rows = 1 .. n
         /\ InOrderOf(rows, n)
         /\ \A key \in S : \E i \in 1 .. n : key = rows[i]
  <2>1. rows = Ordered(S)
    BY <1>1
  <2>2. S \subseteq RowKey /\ OneByOne(S) /\ IsFiniteSet(S)
    BY <1>2
  <2>3. PICK n \in Nat :
           /\ Ordered(S) \in [1 .. n -> S] /\ Ordered(S) \in Seq(RowKey)
           /\ Len(Ordered(S)) = n /\ DOMAIN Ordered(S) = 1 .. n
           /\ InOrderOf(Ordered(S), n)
           /\ \A key \in S : \E i \in 1 .. n : key = Ordered(S)[i]
    BY ONLY <2>2, OrderedIs
  <2> QED BY ONLY <2>1, <2>3
<1>4. PICK p \in Nat \ {0} : p = PageSize
  BY CatalogueConstants
<1>5. \A key : key \in items <=> \E i \in 1 .. n : i <= p /\ key = rows[i]
  <2>1. PICK D : D = DOMAIN rows \cap 1 .. PageSize
    OBVIOUS
  <2>2. \A i : i \in D <=> i \in 1 .. n /\ i <= p
    BY <1>3, <1>4, <2>1
  <2>3. items = {rows[i] : i \in D}
    BY <2>1 DEF FirstPage
  <2> QED BY <2>2, <2>3
<1>6. items \subseteq S
  <2> SUFFICES ASSUME NEW key \in items PROVE key \in S
    OBVIOUS
  <2>1. PICK i \in 1 .. n : key = rows[i]
    BY <1>5
  <2> QED BY <1>3, <2>1
<1>7. IsFiniteSet(items) /\ Cardinality(items) <= PageSize
  <2>1. PICK D : D = {i \in 1 .. n : i <= p}
    OBVIOUS
  <2>2. IsFiniteSet(1 .. p) /\ Cardinality(1 .. p) = p
    BY <1>4, FS_Interval
  <2>3. PICK E : E = 1 .. p
    OBVIOUS
  <2>4. IsFiniteSet(D) /\ Cardinality(D) <= p
    BY <2>1, <2>2, <2>3, FS_Subset
  <2>5. PICK f : f = [i \in D |-> rows[i]]
    OBVIOUS
  <2>6. f \in Surjection(D, items)
    <3>1. \A i \in D : f[i] \in items
      BY <1>5, <2>1, <2>5
    <3>2. \A key \in items : \E i \in D : f[i] = key
      BY <1>5, <2>1, <2>5
    <3> QED BY <2>5, <3>1, <3>2 DEF Surjection
  <2>7. IsFiniteSet(items) /\ Cardinality(items) <= Cardinality(D)
    BY <2>4, <2>6, FS_Surjection
  <2>8. Cardinality(items) \in Nat /\ Cardinality(D) \in Nat
    BY <2>4, <2>7, FS_CardinalityType
  <2> QED BY <1>4, <2>4, <2>7, <2>8
<1>8. CASE n <= p
  <2>1. next = NoPage
    BY <1>3, <1>4, <1>8 DEF NextCursorOf
  <2>2. ASSUME NEW key \in S PROVE key \in items
    <3>1. PICK i \in 1 .. n : key = rows[i]
      BY <1>3
    <3>2. i <= p
      BY <1>8
    <3> QED BY <1>5, <3>1, <3>2
  <2> QED BY <1>1, <1>2, <1>6, <1>7, <2>1, <2>2, CatalogueConstants DEF Placed
<1>9. CASE ~(n <= p)
  <2>1. p + 1 \in 1 .. n
    BY <1>9
  <2>2. PICK x \in S : x = rows[p + 1]
    BY <1>3, <2>1
  <2>3. next = [id |-> x.id, time |-> x.time]
    BY <1>3, <1>4, <1>9, <2>2 DEF NextCursorOf
  <2>4. x \in RowKey
    BY <1>2
  <2>5. next \in Cursor /\ next.id = x.id /\ next.time = x.time /\ next # NoPage /\ next \in Cursors
    <3>1. x.id \in Ids /\ x.time \in 1 .. LastTime
      BY <2>4 DEF RowKey
    <3>2. next \in Cursor
      BY <2>3, <3>1 DEF Cursor
    <3> QED BY <2>3, <3>2, CatalogueConstants DEF Cursors
  <2>6. Later(r.cursor, next)
    <3>1. AfterCursor(x, r.cursor)
      BY <1>1
    <3> QED BY <2>5, <3>1 DEF AfterCursor, Later
  <2>7. ASSUME NEW key \in items PROVE ~AfterCursor(key, next)
    <3>1. PICK i \in 1 .. n : i <= p /\ key = rows[i]
      BY <1>5
    <3>2. Precedes(key, x)
      BY <1>3, <2>1, <2>2, <3>1 DEF InOrderOf
    <3>3. key \in RowKey
      BY <1>2, <1>6
    <3>4. key.id \in Ids /\ key.time \in 1 .. LastTime
      BY <3>3 DEF RowKey
    <3>5. PICK c \in Cursor : c.id = key.id /\ c.time = key.time
      <4>1. [id |-> key.id, time |-> key.time] \in Cursor
        BY <3>4 DEF Cursor
      <4> QED BY <4>1
    <3> QED BY <2>4, <2>5, <3>2, <3>3, <3>5, CursorCuts
  <2>8. ASSUME NEW key \in S PROVE Placed(key, r.filter, items, next)
    <3>1. PICK i \in 1 .. n : key = rows[i]
      BY <1>3
    <3>2. key \in RowKey
      BY <1>2
    <3>3. CASE i <= p
      BY <1>5, <3>1, <3>3 DEF Placed
    <3>4. CASE i = p + 1
      BY <2>2, <2>5, <3>1, <3>4 DEF Placed
    <3>5. CASE p + 1 < i
      <4>1. Precedes(x, key)
        BY <1>3, <2>1, <2>2, <3>1, <3>5 DEF InOrderOf
      <4>2. key.id \in Ids /\ key.time \in 1 .. LastTime
        BY <3>2 DEF RowKey
      <4>3. PICK d \in Cursor : d.id = key.id /\ d.time = key.time
        <5>1. [id |-> key.id, time |-> key.time] \in Cursor
          BY <4>2 DEF Cursor
        <5> QED BY <5>1
      <4>4. AfterCursor(key, next) \/ (x.sub = 1 /\ x.time = key.time)
        BY <2>4, <2>5, <3>2, <4>1, <4>3, CursorCuts
      <4>5. x.sub = 1 => catalogueScene.list = "requests"
        BY <1>2, MatchingRows
      <4> QED BY <2>5, <4>4, <4>5 DEF Placed
    <3> QED BY <3>3, <3>4, <3>5
  <2>9. \A key \in items : AfterCursor(key, r.cursor)
    BY <1>1, <1>6
  <2>10. \A key \in Matching(r.filter) :
            AfterCursor(key, r.cursor) => Placed(key, r.filter, items, next)
    BY <1>1, <2>8
  <2> QED BY <1>2, <1>6, <1>7, <2>5, <2>6, <2>7, <2>9, <2>10
<1> QED BY <1>8, <1>9

\* A request whose rows are read.
LEMMA QueriedIs ==
    ASSUME ListTyped, NEW r \in Request
    PROVE  /\ Queried(r) \in Request /\ Queried(r).step = "sync"
           /\ Queried(r).filter = r.filter /\ Queried(r).cursor = r.cursor
           /\ Queried(r).items \subseteq Matching(r.filter)
           /\ PageTrue(Queried(r))
<1>1. PICK rows : rows = Ordered({key \in Matching(r.filter) : AfterCursor(key, r.cursor)})
  OBVIOUS
<1>2. PICK items, next, lot :
         items = FirstPage(rows) /\ next = NextCursorOf(rows) /\ lot = Matching(r.filter)
  OBVIOUS
<1>3. /\ items \in SUBSET RowKey /\ items \subseteq lot /\ next \in Cursors
      /\ IsFiniteSet(items) /\ Cardinality(items) <= PageSize
      /\ next # NoPage => Later(r.cursor, next)
      /\ \A key \in items :
            AfterCursor(key, r.cursor) /\ (next # NoPage => ~AfterCursor(key, next))
      /\ \A key \in lot :
            AfterCursor(key, r.cursor) => Placed(key, r.filter, items, next)
  BY <1>1, <1>2, QueryReads
<1>4. PICK q : q = Queried(r)
  OBVIOUS
<1>5. q = [r EXCEPT !.step = "sync", !.items = items, !.next = next, !.listed = lot]
  BY <1>1, <1>2, <1>4 DEF Queried
<1>6. /\ lot \in SUBSET RowKey
      /\ \A key \in lot :
            /\ key.id \in Ids /\ key = KeyOf(key.id) /\ table[key.id] # Missing
            /\ catalogueScene.list # "requests" => key.sub = 0
  BY <1>2, MatchingRows
<1>7. /\ q \in Request /\ q.step = "sync" /\ q.filter = r.filter /\ q.cursor = r.cursor
      /\ q.items = items /\ q.next = next /\ q.listed = lot
  BY <1>3, <1>5, <1>6 DEF Request
<1>8. PageRead(q)
  BY <1>3, <1>6, <1>7 DEF PageRead
<1>9. \A key \in lot : StillTrue(key)
  <2> SUFFICES ASSUME NEW key \in lot PROVE StillTrue(key)
    OBVIOUS
  <2>1. key.time = table[key.id].time /\ key.time \in Nat
    BY <1>6, CatalogueConstants DEF KeyOf
  <2> QED BY <1>6, <2>1 DEF StillTrue
<1> QED BY <1>2, <1>3, <1>4, <1>7, <1>8, <1>9 DEF PageTrue

-----------------------------------------------------------------------------
(* The lists: what is kept, and what is shown                                *)

\* The answer kept for a key.
LEMMA KeptIs ==
    ASSUME ListTyped, NEW wanted, NEW cursor
    PROVE  /\ KeptFor(wanted, cursor) = {} => Kept(wanted, cursor) = NoAnswer
           /\ KeptFor(wanted, cursor) # {} =>
                 /\ Kept(wanted, cursor) \in answers
                 /\ Kept(wanted, cursor).filter = wanted /\ Kept(wanted, cursor).cursor = cursor
           /\ \A a \in answers : a.filter = wanted /\ a.cursor = cursor =>
                 /\ Kept(wanted, cursor) = a /\ KeptFor(wanted, cursor) = {a}
<1>1. PICK K : K = KeptFor(wanted, cursor)
  OBVIOUS
<1>2. \A a : a \in K <=> a \in answers /\ a.filter = wanted /\ a.cursor = cursor
  BY <1>1 DEF KeptFor
<1>3. K = {} => Kept(wanted, cursor) = NoAnswer
  BY <1>1 DEF Kept
<1>4. K # {} => Kept(wanted, cursor) \in K
  <2> SUFFICES ASSUME K # {} PROVE Kept(wanted, cursor) \in K
    OBVIOUS
  <2>1. PICK a : a = CHOOSE b \in K : TRUE
    OBVIOUS
  <2>2. a \in K
    BY <2>1
  <2>3. Kept(wanted, cursor) = a
    BY <1>1, <2>1 DEF Kept
  <2> QED BY <2>2, <2>3
<1>5. \A a, b \in K : a = b
  BY <1>2 DEF ListTyped
<1>6. ASSUME NEW a \in answers, a.filter = wanted, a.cursor = cursor
      PROVE  Kept(wanted, cursor) = a /\ K = {a}
  BY <1>2, <1>4, <1>5, <1>6
<1> QED BY <1>1, <1>2, <1>3, <1>4, <1>6

LEMMA CurrentIs ==
    ASSUME ListTyped
    PROVE  \E n \in Nat \ {0} :
              /\ n = Len(trail) /\ DOMAIN trail = 1 .. n /\ Current = trail[n]
              /\ Current \in Cursors /\ \A i \in 1 .. n : trail[i] \in Cursors
<1>1. trail \in Seq(Cursors) /\ trail # <<>>
  BY DEF ListTyped
<1> QED BY <1>1 DEF Current

\* The next page's cursor is of the answer to the current one.
LEMMA OnScreenIs ==
    ASSUME ListTyped, ~Busy, OnScreen.next # NoPage
    PROVE  /\ OnScreen \in answers /\ OnScreen.filter = filter /\ OnScreen.cursor = Current
           /\ OnScreen.next \in Cursors
<1>1. NoAnswer.next = NoPage
  BY DEF NoAnswer
<1>2. KeptFor(filter, Current) # {} /\ OnScreen = Kept(filter, Current)
  BY <1>1 DEF OnScreen, Busy
<1>3. PICK a : a = OnScreen
  OBVIOUS
<1>4. a \in answers /\ a.filter = filter /\ a.cursor = Current
  BY <1>2, <1>3, KeptIs
<1>5. a \in Answer
  BY <1>4 DEF ListTyped
<1>6. a.next \in Cursors
  BY <1>5 DEF Answer
<1> QED BY <1>3, <1>4, <1>6

LEMMA NewRequestIs ==
    ASSUME NEW wanted \in Filters, NEW cursor \in Cursors
    PROVE  /\ NewRequest(wanted, cursor) \in Request /\ NewRequest(wanted, cursor).step = "query"
           /\ NewRequest(wanted, cursor).filter = wanted
           /\ NewRequest(wanted, cursor).cursor = cursor
<1>1. NoPage \in Cursors
  BY CatalogueConstants
<1> QED BY <1>1 DEF NewRequest, Request

\* A key that is shown is asked for, or not.
LEMMA ShowIs ==
    ASSUME ListTyped, NEW wanted \in Filters, NEW cursor \in Cursors, Show(wanted, cursor)
    PROVE  /\ held' \in Answer /\ asked' \subseteq Request
           /\ \A r \in asked' : \/ r \in asked
                                \/ r.step = "query" /\ r.filter = wanted /\ r.cursor = cursor
<1>1. held' \in Answer
  <2>1. held \in Answer
    BY DEF ListTyped
  <2>2. KeptFor(filter, Current) # {} => Kept(filter, Current) \in Answer
    BY KeptIs DEF ListTyped
  <2> QED BY <2>1, <2>2 DEF Show
<1>2. PICK r : r = NewRequest(wanted, cursor)
  OBVIOUS
<1>3. r \in Request /\ r.step = "query" /\ r.filter = wanted /\ r.cursor = cursor
  BY <1>2, NewRequestIs
<1>4. asked' = asked \/ asked' = asked \cup {r}
  BY <1>2 DEF Show
<1>5. asked \subseteq Request
  BY DEF ListTyped
<1> QED BY <1>1, <1>3, <1>4, <1>5

LEMMA BuyCounts ==
    ASSUME catalogueSpent \in [CatalogueSpending -> Nat], NEW what \in CatalogueSpending, Buy(what)
    PROVE  /\ catalogueSpent' \in [CatalogueSpending -> Nat]
           /\ what # "move" => catalogueSpent'["move"] = catalogueSpent["move"]
           /\ what = "move" => catalogueSpent'["move"] # 0
<1>1. "move" \in CatalogueSpending
  BY DEF CatalogueSpending
<1>2. catalogueSpent' = [catalogueSpent EXCEPT ![what] = @ + 1]
  BY DEF Buy
<1>3. \A n \in Nat : n + 1 \in Nat \ {0}
  OBVIOUS
<1> QED BY <1>1, <1>2, <1>3

-----------------------------------------------------------------------------
(* The lists: what was read stays true                                       *)

\* What may happen to the rows.
TableGoesOn ==
    /\ catalogueScene' = catalogueScene
    /\ table' \in [Ids -> TableRow \cup {Missing}]
    /\ catalogueSpent["move"] # 0 => catalogueSpent'["move"] # 0
    /\ \A id \in Ids :
          /\ table[id] # Missing =>
                /\ table'[id] # Missing
                /\ Still' => table'[id].time = table[id].time /\ table'[id].sub = table[id].sub
                /\ catalogueScene.list = "activity" => table[id].time <= table'[id].time
          /\ table[id].status = "active" => table'[id].status = "active"

\* Rows that stay where they are.
LEMMA TableStays ==
    ASSUME ListTyped, table' = table, catalogueScene' = catalogueScene,
           catalogueSpent'["move"] = catalogueSpent["move"]
    PROVE  TableGoesOn
<1>1. ASSUME NEW id \in Ids, table[id] # Missing PROVE table[id].time <= table[id].time
  <2>1. table[id] \in TableRow
    BY <1>1 DEF ListTyped
  <2>2. table[id].time \in 1 .. LastTime /\ LastTime \in Nat
    BY <2>1, CatalogueConstants DEF TableRow
  <2> QED BY <2>2
<1>2. table \in [Ids -> TableRow \cup {Missing}]
  BY DEF ListTyped
<1> QED BY <1>1, <1>2 DEF TableGoesOn

LEMMA PageStaysTrue ==
    ASSUME ListTyped, TableGoesOn, NEW r, r.listed \subseteq RowKey, PageTrue(r)
    PROVE  PageTrue(r)'
<1>0. \A key \in r.listed : key.id \in Ids /\ key.time \in Nat
  BY CatalogueConstants DEF RowKey
<1>1. Still' => Still
  BY DEF Still, TableGoesOn
<1>2. ASSUME NEW key \in r.listed PROVE StillTrue(key)'
  <2>1. StillTrue(key) /\ key.id \in Ids /\ table[key.id] # Missing /\ table'[key.id] # Missing
    BY <1>0 DEF PageTrue, StillTrue, TableGoesOn
  <2>2. Still' => key = KeyOf(key.id)'
    <3> SUFFICES ASSUME Still' PROVE key = KeyOf(key.id)'
      OBVIOUS
    <3>1. key = KeyOf(key.id)
      BY <1>1, <2>1 DEF StillTrue
    <3>2. table'[key.id].time = table[key.id].time /\ table'[key.id].sub = table[key.id].sub
      BY <2>1 DEF TableGoesOn
    <3>3. KeyOf(key.id)' = KeyOf(key.id)
      BY <3>2 DEF KeyOf
    <3> QED BY <3>1, <3>3
  <2>3. catalogueScene'.list = "activity" => key.time <= table'[key.id].time
    <3> SUFFICES ASSUME catalogueScene.list = "activity" PROVE key.time <= table'[key.id].time
      BY DEF TableGoesOn
    <3>1. key.time <= table[key.id].time /\ table[key.id].time <= table'[key.id].time
      BY <2>1 DEF StillTrue, TableGoesOn
    <3>2. table[key.id] \in TableRow /\ table'[key.id] \in TableRow
      BY <2>1 DEF ListTyped, TableGoesOn
    <3>3. table[key.id].time \in Nat /\ table'[key.id].time \in Nat
      BY <3>2, CatalogueConstants DEF TableRow
    <3> QED BY <1>0, <3>1, <3>3
  <2> QED BY <2>1, <2>2, <2>3 DEF StillTrue
<1>3. PageRead(r)'
  <2>1. /\ r.items \subseteq r.listed /\ IsFiniteSet(r.items) /\ Cardinality(r.items) <= PageSize
        /\ r.next # NoPage => Later(r.cursor, r.next)
        /\ \A key \in r.items :
              AfterCursor(key, r.cursor) /\ (r.next # NoPage => ~AfterCursor(key, r.next))
    BY DEF PageTrue, PageRead
  <2>2. ASSUME NEW key \in r.listed
        PROVE  /\ catalogueScene'.list # "requests" => key.sub = 0
               /\ AfterCursor(key, r.cursor) => Placed(key, r.filter, r.items, r.next)'
    <3>1. catalogueScene' = catalogueScene
      BY DEF TableGoesOn
    <3>2. Gone(r.filter, key.id) => Gone(r.filter, key.id)'
      BY <1>0 DEF Gone, TableGoesOn
    <3>3. Placed(key, r.filter, r.items, r.next) => Placed(key, r.filter, r.items, r.next)'
      BY <3>1, <3>2 DEF Placed
    <3> QED BY <3>1, <3>3 DEF PageTrue, PageRead
  <2> QED BY <2>1, <2>2 DEF PageRead
<1> QED BY <1>2, <1>3 DEF PageTrue

LEMMA ListedAreRows ==
    ASSUME ListTyped
    PROVE  /\ \A a \in answers : a.listed \subseteq RowKey /\ a.items \subseteq RowKey
                                 /\ a.next \in Cursors /\ a.cursor \in Cursors /\ a.filter \in Filters
           /\ \A r \in asked : r.listed \subseteq RowKey /\ r.items \subseteq RowKey
                               /\ r.next \in Cursors /\ r.cursor \in Cursors /\ r.filter \in Filters
<1>1. \A a \in Answer : a.listed \subseteq RowKey /\ a.items \subseteq RowKey
                        /\ a.next \in Cursors /\ a.cursor \in Cursors /\ a.filter \in Filters
  BY DEF Answer
<1>2. \A r \in Request : r.listed \subseteq RowKey /\ r.items \subseteq RowKey
                         /\ r.next \in Cursors /\ r.cursor \in Cursors /\ r.filter \in Filters
  BY DEF Request
<1> QED BY <1>1, <1>2 DEF ListTyped

\* No answer but those that are kept, no request read but those that were.
LEMMA PagesStayTrue ==
    ASSUME PagesInv, TableGoesOn, answers' \subseteq answers,
           \A r \in asked' : r \in asked \/ r.step = "query"
    PROVE  /\ \A a \in answers' : PageTrue(a)'
           /\ \A r \in asked' : r.step = "sync" => PageTrue(r)'
<1>1. ListTyped
  BY DEF PagesInv
<1>2. ASSUME NEW a \in answers' PROVE PageTrue(a)'
  BY <1>1, ListedAreRows, PageStaysTrue DEF PagesInv
<1>3. ASSUME NEW r \in asked', r.step = "sync" PROVE PageTrue(r)'
  <2>1. r \in asked
    BY <1>3
  <2> QED BY <1>1, <1>3, <2>1, ListedAreRows, PageStaysTrue DEF PagesInv
<1> QED BY <1>2, <1>3

-----------------------------------------------------------------------------
(* The lists: the view's steps                                               *)

LEMMA PagesAtFirst == CatalogueInit => PagesInv
<1> SUFFICES ASSUME CatalogueInit PROVE PagesInv
  OBVIOUS
<1>1. catalogueScene \in CatalogueScenarios /\ catalogueScene.rows \in SUBSET Ids
  BY CatalogueSceneIs DEF CatalogueInit
<1>2. PICK rows \in [catalogueScene.rows -> Possible] :
         table = [id \in Ids |-> IF id \in catalogueScene.rows THEN rows[id] ELSE Missing]
  BY DEF CatalogueInit
<1>3. \A row \in Possible : row \in TableRow /\ (catalogueScene.list # "requests" => row.sub = 0)
  BY DEF Possible
<1>4. table \in [Ids -> TableRow \cup {Missing}]
  BY <1>1, <1>2, <1>3
<1>5. \A id \in Ids : catalogueScene.list # "requests" => table[id].sub = 0
  <2>1. Missing.sub = 0
    BY DEF Missing
  <2> QED BY <1>1, <1>2, <1>3, <2>1
<1>6. \E c \in Cursors : (trail = <<NoPage, c>> /\ c # NoPage) \/ trail = <<NoPage>>
  <2>1. NoPage \in Cursors /\ NoPage \notin Cursor
    BY CatalogueConstants
  <2>2. CASE catalogueScene.linked
    <3>1. PICK id \in catalogueScene.rows : trail = <<NoPage, [id |-> id, time |-> table[id].time]>>
      BY <2>2 DEF CatalogueInit
    <3>2. table[id] \in TableRow /\ id \in Ids
      BY <1>1, <1>2, <1>3, <3>1
    <3>3. [id |-> id, time |-> table[id].time] \in Cursor
      BY <3>2 DEF Cursor, TableRow
    <3>4. PICK c : c = [id |-> id, time |-> table[id].time]
      OBVIOUS
    <3>5. c \in Cursors /\ c # NoPage
      BY <2>1, <3>3, <3>4 DEF Cursors
    <3> QED BY <3>1, <3>4, <3>5
  <2>3. CASE ~catalogueScene.linked
    BY <2>1, <2>3 DEF CatalogueInit
  <2> QED BY <2>2, <2>3
<1>7. /\ trail \in Seq(Cursors) /\ trail # <<>> /\ trail[1] = NoPage
      /\ Len(trail) = 1 \/ (Len(trail) = 2 /\ Later(trail[1], trail[2]))
  <2>1. NoPage \in Cursors
    BY CatalogueConstants
  <2>2. PICK c \in Cursors : (trail = <<NoPage, c>> /\ c # NoPage) \/ trail = <<NoPage>>
    BY <1>6
  <2>3. CASE trail = <<NoPage>>
    BY <2>1, <2>3
  <2>4. CASE trail = <<NoPage, c>> /\ c # NoPage
    <3>1. Later(NoPage, c)
      BY <2>4 DEF Later
    <3> QED BY <2>1, <2>4, <3>1
  <2> QED BY <2>2, <2>3, <2>4
<1>8. PICK n \in Nat \ {0}, last \in Cursors : n = Len(trail) /\ last = trail[n] /\ DOMAIN trail = 1 .. n
  BY <1>7
<1>9. asked = {NewRequest("any", last)} /\ "any" \in Filters
  BY <1>8 DEF CatalogueInit, Filters
<1>10. PICK r : r = NewRequest("any", last)
  OBVIOUS
<1>11. r \in Request /\ r.step = "query" /\ r.filter = "any" /\ r.cursor = last
  BY <1>9, <1>10, NewRequestIs
<1>12. ListTyped
  <2>1. NoAnswer \in Answer
    <3>1. NoPage \in Cursors
      BY CatalogueConstants
    <3> QED BY <3>1, <1>9 DEF NoAnswer, Answer
  <2>2. catalogueSpent \in [CatalogueSpending -> Nat]
    BY DEF CatalogueInit
  <2> QED BY <1>1, <1>4, <1>5, <1>7, <1>9, <1>10, <1>11, <2>1, <2>2 DEF CatalogueInit, ListTyped
<1>13. TrailSound
  <2>1. \A i, j \in DOMAIN trail : i < j => Later(trail[i], trail[j])
    <3>1. \A i, j \in 1 .. n : i < j => i = 1 /\ j = 2 /\ n = 2
      BY <1>7, <1>8
    <3> QED BY <1>7, <1>8, <3>1
  <2>2. \A i \in DOMAIN trail : i < Len(trail) => i = 1 /\ n = 2
    BY <1>7, <1>8
  <2>3. \A i \in DOMAIN trail : i < Len(trail) => ~IsAsked(filter, trail[i])
    <3> SUFFICES ASSUME NEW i \in DOMAIN trail, i < Len(trail), IsAsked(filter, trail[i])
                 PROVE  FALSE
      OBVIOUS
    <3>1. trail[i] = last
      BY <1>9, <1>10, <1>11 DEF IsAsked
    <3>2. Later(trail[1], last) /\ i = 1
      BY <1>7, <1>8, <2>2
    <3> QED BY <1>7, <1>8, <3>1, <3>2, CatalogueConstants, LaterIsOneWay
  <2> QED BY <1>7, <2>1, <2>3 DEF TrailSound, CatalogueInit
<1>14. ActivitySound
  <2>1. Current = last
    BY <1>8 DEF Current
  <2> QED BY <1>9, <1>10, <1>11, <2>1 DEF ActivitySound, CatalogueInit
<1> QED BY <1>9, <1>10, <1>11, <1>12, <1>13, <1>14 DEF PagesInv, CatalogueInit

LEMMA NextPageKeeps ==
    ASSUME PagesInv, NextPage, UNCHANGED catalogueScene
    PROVE  PagesInv'
<1>1. ListTyped /\ TrailSound /\ ActivitySound
  BY DEF PagesInv
<1>2. PICK a : a = OnScreen
  OBVIOUS
<1>3. a \in answers /\ a.filter = filter /\ a.cursor = Current /\ a.next \in Cursors /\ a.next # NoPage
  BY <1>1, <1>2, OnScreenIs DEF NextPage
<1>4. Later(Current, a.next)
  BY <1>3 DEF PagesInv, PageTrue, PageRead
<1>5. PICK n \in Nat \ {0} :
         /\ n = Len(trail) /\ DOMAIN trail = 1 .. n /\ Current = trail[n]
         /\ Current \in Cursors /\ \A i \in 1 .. n : trail[i] \in Cursors
  BY <1>1, CurrentIs
<1>6. PICK t : t = trail'
  OBVIOUS
<1>7. /\ t \in Seq(Cursors) /\ t # <<>> /\ Len(t) = n + 1 /\ DOMAIN t = 1 .. n + 1
      /\ \A i \in 1 .. n : t[i] = trail[i]
      /\ t[n + 1] = a.next
  <2>1. t = Append(trail, a.next) /\ trail \in Seq(Cursors)
    BY <1>1, <1>2, <1>6 DEF NextPage, ListTyped
  <2> QED BY <1>3, <1>5, <2>1, Appended
<1>8. /\ held' \in Answer /\ asked' \subseteq Request
      /\ \A r \in asked' : \/ r \in asked
                           \/ r.step = "query" /\ r.filter = filter /\ r.cursor = a.next
  <2>1. filter \in Filters /\ Show(filter, a.next)
    BY <1>1, <1>2 DEF ListTyped, NextPage
  <2> QED BY <1>1, <1>3, <2>1, ShowIs
<1>9. /\ catalogueSpent' \in [CatalogueSpending -> Nat]
      /\ catalogueSpent'["move"] = catalogueSpent["move"]
  <2>1. "turn" \in CatalogueSpending /\ "turn" # "move"
    BY DEF CatalogueSpending
  <2> QED BY <1>1, <2>1, BuyCounts DEF NextPage, ListTyped
<1>10. UNCHANGED <<table, filter, answers>>
  BY DEF NextPage
<1>11. ListTyped'
  BY <1>1, <1>6, <1>7, <1>8, <1>9, <1>10 DEF ListTyped
<1>12. /\ \A b \in answers' : PageTrue(b)'
       /\ \A r \in asked' : r.step = "sync" => PageTrue(r)'
  BY <1>1, <1>8, <1>9, <1>10, TableStays, PagesStayTrue
<1>13. \A i \in 1 .. n : Later(trail[i], a.next)
  <2> SUFFICES ASSUME NEW i \in 1 .. n PROVE Later(trail[i], a.next)
    OBVIOUS
  <2>1. i = n \/ Later(trail[i], Current)
    BY <1>1, <1>5 DEF TrailSound
  <2> QED BY <1>3, <1>4, <1>5, <2>1, LaterGoesOn
<1>14. TrailSound'
  <2>1. \A i, j \in DOMAIN t : i < j => Later(t[i], t[j])
    <3> SUFFICES ASSUME NEW i \in DOMAIN t, NEW j \in DOMAIN t, i < j PROVE Later(t[i], t[j])
      OBVIOUS
    <3>1. i \in 1 .. n /\ (j \in 1 .. n \/ j = n + 1)
      BY <1>7
    <3> QED BY <1>1, <1>5, <1>7, <1>13, <3>1 DEF TrailSound
  <2>2. ASSUME NEW i \in DOMAIN t, i < Len(t)
        PROVE  /\ ~IsAsked(filter, t[i])'
               /\ \A b \in answers : b.filter = filter /\ b.cursor = t[i] => t[i + 1] = b.next
    <3>1. i \in 1 .. n /\ t[i] = trail[i]
      BY <1>7, <2>2
    <3>2. trail[i] # a.next
      BY <1>3, <1>5, <1>13, <3>1, LaterIsOneWay
    <3>3. ~IsAsked(filter, trail[i])
      <4>1. CASE i = n
        BY <1>5, <4>1 DEF NextPage, Busy
      <4>2. CASE i # n
        BY <1>1, <1>5, <3>1, <4>2 DEF TrailSound
      <4> QED BY <4>1, <4>2
    <3>4. ~IsAsked(filter, t[i])'
      BY <1>8, <1>10, <3>1, <3>2, <3>3 DEF IsAsked
    <3>5. ASSUME NEW b \in answers, b.filter = filter, b.cursor = t[i]
          PROVE  t[i + 1] = b.next
      <4>1. CASE i = n
        <5>1. b = a
          BY <1>1, <1>3, <1>5, <3>1, <3>5, <4>1 DEF ListTyped
        <5> QED BY <1>7, <4>1, <5>1
      <4>2. CASE i # n
        <5>1. i + 1 \in 1 .. n /\ i < n
          BY <3>1, <4>2
        <5>2. trail[i + 1] = b.next
          BY <1>1, <1>5, <3>1, <3>5, <5>1 DEF TrailSound
        <5> QED BY <1>7, <5>1, <5>2
      <4> QED BY <4>1, <4>2
    <3> QED BY <3>4, <3>5
  <2>3. t[1] = NoPage
    BY <1>1, <1>5, <1>7 DEF TrailSound
  <2> QED BY <1>6, <1>7, <1>10, <2>1, <2>2, <2>3 DEF TrailSound
<1>15. ActivitySound'
  <2> SUFFICES ASSUME catalogueScene.list = "activity" PROVE ActivitySound'
    BY DEF ActivitySound
  <2>1. asked = {}
    BY <1>1 DEF ActivitySound, NextPage, Busy, IsAsked
  <2>2. \A r \in asked' : r.step = "query" /\ r.filter = filter /\ r.cursor = a.next
    BY <1>8, <2>1
  <2>3. Current' = a.next
    BY <1>6, <1>7 DEF Current
  <2>4. ASSUME NEW b \in answers PROVE b.filter = filter /\ \E i \in DOMAIN t : b.cursor = t[i]
    <3>1. b.filter = filter
      BY <1>1 DEF ActivitySound
    <3>2. PICK i \in 1 .. n : b.cursor = trail[i]
      BY <1>1, <1>5 DEF ActivitySound
    <3> QED BY <1>7, <3>1, <3>2
  <2>5. \A r \in asked' : r.step # "sync"
    BY <2>2
  <2>6. \A b, c \in answers : Later(b.cursor, c.cursor) => InTime(b.items, c.items)
    BY <1>1 DEF ActivitySound
  <2> QED BY <1>6, <1>10, <2>2, <2>3, <2>4, <2>5, <2>6 DEF ActivitySound
<1> QED BY <1>11, <1>12, <1>14, <1>15 DEF PagesInv

LEMMA PreviousPageKeeps ==
    ASSUME PagesInv, PreviousPage, UNCHANGED catalogueScene
    PROVE  PagesInv'
<1>1. ListTyped /\ TrailSound /\ ActivitySound
  BY DEF PagesInv
<1>2. PICK n \in Nat \ {0} :
         /\ n = Len(trail) /\ DOMAIN trail = 1 .. n /\ Current = trail[n]
         /\ Current \in Cursors /\ \A i \in 1 .. n : trail[i] \in Cursors
  BY <1>1, CurrentIs
<1>3. PICK t : t = trail'
  OBVIOUS
<1>4. n > 1 /\ n - 1 \in Nat \ {0}
  BY <1>2 DEF PreviousPage
<1>5. /\ t \in Seq(Cursors) /\ t # <<>> /\ Len(t) = n - 1 /\ DOMAIN t = 1 .. n - 1
      /\ \A i \in 1 .. n - 1 : t[i] = trail[i]
  <2>1. t = SubSeq(trail, 1, n - 1) /\ trail \in Seq(Cursors)
    BY <1>1, <1>2, <1>3 DEF PreviousPage, ListTyped
  <2>2. PICK m \in Nat \ {0} : m = n - 1 /\ m <= n
    BY <1>4
  <2>3. \A i \in 1 .. m : trail[i] \in Cursors
    BY <1>2, <2>2
  <2>4. t = [i \in 1 .. m |-> trail[i]]
    BY <2>1, <2>2
  <2>5. t \in Seq(Cursors) /\ Len(t) = m /\ DOMAIN t = 1 .. m /\ t # <<>>
    BY <2>2, <2>3, <2>4
  <2> QED BY <2>2, <2>4, <2>5
<1>6. PICK c \in Cursors : c = trail[n - 1]
  BY <1>2, <1>4
<1>7. /\ held' \in Answer /\ asked' \subseteq Request
      /\ \A r \in asked' : r \in asked \/ (r.step = "query" /\ r.filter = filter /\ r.cursor = c)
  <2>1. t[Len(t)] = c
    BY <1>4, <1>5, <1>6
  <2>2. filter \in Filters /\ Show(filter, c)
    BY <1>1, <1>3, <2>1 DEF ListTyped, PreviousPage
  <2> QED BY <1>1, <2>2, ShowIs
<1>8. /\ catalogueSpent' \in [CatalogueSpending -> Nat]
      /\ catalogueSpent'["move"] = catalogueSpent["move"]
  <2>1. "back" \in CatalogueSpending /\ "back" # "move"
    BY DEF CatalogueSpending
  <2> QED BY <1>1, <2>1, BuyCounts DEF PreviousPage, ListTyped
<1>9. UNCHANGED <<table, filter, answers>> /\ catalogueScene.list # "activity"
  BY DEF PreviousPage
<1>10. ListTyped'
  BY <1>1, <1>3, <1>5, <1>7, <1>8, <1>9 DEF ListTyped
<1>11. /\ \A b \in answers' : PageTrue(b)'
       /\ \A r \in asked' : r.step = "sync" => PageTrue(r)'
  BY <1>1, <1>7, <1>8, <1>9, TableStays, PagesStayTrue
<1>12. TrailSound'
  <2>1. \A i, j \in DOMAIN t : i < j => Later(t[i], t[j])
    BY <1>1, <1>2, <1>5 DEF TrailSound
  <2>2. ASSUME NEW i \in DOMAIN t, i < Len(t)
        PROVE  /\ ~IsAsked(filter, t[i])'
               /\ \A b \in answers : b.filter = filter /\ b.cursor = t[i] => t[i + 1] = b.next
    <3>1. /\ i \in 1 .. n /\ i + 1 \in 1 .. n - 1 /\ i < n - 1 /\ n - 1 \in 1 .. n
          /\ t[i] = trail[i] /\ t[i + 1] = trail[i + 1]
      BY <1>2, <1>4, <1>5, <2>2
    <3>2. Later(trail[i], c)
      BY <1>1, <1>2, <1>6, <3>1 DEF TrailSound
    <3>3. trail[i] # c
      BY <1>2, <3>1, <3>2, LaterIsOneWay
    <3>4. /\ ~IsAsked(filter, trail[i])
          /\ \A b \in answers : b.filter = filter /\ b.cursor = trail[i] => trail[i + 1] = b.next
      BY <1>1, <1>2, <3>1 DEF TrailSound
    <3>5. ~IsAsked(filter, t[i])'
      BY <1>7, <1>9, <3>1, <3>3, <3>4 DEF IsAsked
    <3> QED BY <3>1, <3>4, <3>5
  <2>3. t[1] = NoPage
    BY <1>1, <1>4, <1>5 DEF TrailSound
  <2> QED BY <1>3, <1>9, <2>1, <2>2, <2>3 DEF TrailSound
<1>13. ActivitySound'
  BY <1>9 DEF ActivitySound
<1> QED BY <1>10, <1>11, <1>12, <1>13 DEF PagesInv

\* A list that begins again.
LEMMA FreshTrail ==
    ASSUME trail' = <<NoPage>>
    PROVE  /\ trail' \in Seq(Cursors) /\ trail' # <<>> /\ TrailSound' /\ Current' = NoPage
<1>1. PICK t : t = trail'
  OBVIOUS
<1>2. t \in Seq(Cursors) /\ t # <<>> /\ Len(t) = 1 /\ DOMAIN t = 1 .. 1 /\ t[1] = NoPage
  BY <1>1, CatalogueConstants
<1>3. \A i, j \in DOMAIN t : ~(i < j)
  BY <1>2
<1>4. \A i \in DOMAIN t : ~(i < Len(t))
  BY <1>2
<1> QED BY <1>1, <1>2, <1>3, <1>4 DEF TrailSound, Current

LEMMA ChangeFilterKeeps ==
    ASSUME PagesInv, NEW wanted \in Filters, ChangeFilter(wanted), UNCHANGED catalogueScene
    PROVE  PagesInv'
<1>1. ListTyped
  BY DEF PagesInv
<1>2. /\ held' \in Answer /\ asked' \subseteq Request
      /\ \A r \in asked' : r \in asked \/ r.step = "query"
  BY <1>1, ShowIs, CatalogueConstants DEF ChangeFilter
<1>3. /\ catalogueSpent' \in [CatalogueSpending -> Nat]
      /\ catalogueSpent'["move"] = catalogueSpent["move"]
  <2>1. "filter" \in CatalogueSpending /\ "filter" # "move"
    BY DEF CatalogueSpending
  <2> QED BY <1>1, <2>1, BuyCounts DEF ChangeFilter, ListTyped
<1>4. UNCHANGED <<table, answers>> /\ catalogueScene.list # "activity" /\ filter' = wanted
  BY DEF ChangeFilter
<1>5. trail' \in Seq(Cursors) /\ trail' # <<>> /\ TrailSound'
  BY FreshTrail DEF ChangeFilter
<1>6. ListTyped'
  BY <1>1, <1>2, <1>3, <1>4, <1>5 DEF ListTyped
<1>7. /\ \A b \in answers' : PageTrue(b)'
      /\ \A r \in asked' : r.step = "sync" => PageTrue(r)'
  BY <1>1, <1>2, <1>3, <1>4, TableStays, PagesStayTrue
<1>8. ActivitySound'
  BY <1>4 DEF ActivitySound
<1> QED BY <1>5, <1>6, <1>7, <1>8 DEF PagesInv

LEMMA RefreshKeeps ==
    ASSUME PagesInv, Refresh, UNCHANGED catalogueScene
    PROVE  PagesInv'
<1>1. ListTyped /\ TrailSound
  BY DEF PagesInv
<1>2. PICK n \in Nat \ {0} :
         /\ n = Len(trail) /\ DOMAIN trail = 1 .. n /\ Current = trail[n]
         /\ Current \in Cursors /\ \A i \in 1 .. n : trail[i] \in Cursors
  BY <1>1, CurrentIs
<1>3. /\ catalogueSpent' \in [CatalogueSpending -> Nat]
      /\ catalogueSpent'["move"] = catalogueSpent["move"]
  <2>1. "refresh" \in CatalogueSpending /\ "refresh" # "move"
    BY DEF CatalogueSpending
  <2> QED BY <1>1, <2>1, BuyCounts DEF Refresh, ListTyped
<1>4. UNCHANGED <<table, filter, held>>
  BY DEF Refresh
<1>5. CASE catalogueScene.list = "activity"
  <2>1. PICK r : r = NewRequest(filter, NoPage)
    OBVIOUS
  <2>2. r \in Request /\ r.step = "query" /\ r.filter = filter /\ r.cursor = NoPage
    BY <1>1, <2>1, NewRequestIs, CatalogueConstants DEF ListTyped
  <2>3. asked' = {r} /\ answers' = {} /\ trail' = <<NoPage>>
    BY <1>5, <2>1 DEF Refresh
  <2>4. trail' \in Seq(Cursors) /\ trail' # <<>> /\ TrailSound' /\ Current' = NoPage
    BY <2>3, FreshTrail
  <2>5. ListTyped'
    BY <1>1, <1>3, <1>4, <2>2, <2>3, <2>4 DEF ListTyped
  <2>6. ActivitySound'
    BY <1>4, <2>2, <2>3, <2>4 DEF ActivitySound
  <2> QED BY <2>2, <2>3, <2>4, <2>5, <2>6 DEF PagesInv
<1>6. CASE catalogueScene.list # "activity"
  <2>1. PICK r : r = NewRequest(filter, Current)
    OBVIOUS
  <2>2. r \in Request /\ r.step = "query" /\ r.filter = filter /\ r.cursor = Current
    BY <1>1, <1>2, <2>1, NewRequestIs DEF ListTyped
  <2>3. asked' = asked \cup {r} /\ answers' = answers /\ trail' = trail
    BY <1>6, <2>1 DEF Refresh
  <2>4. ListTyped'
    BY <1>1, <1>3, <1>4, <2>2, <2>3 DEF ListTyped
  <2>5. /\ \A b \in answers' : PageTrue(b)'
        /\ \A q \in asked' : q.step = "sync" => PageTrue(q)'
    BY <1>1, <1>3, <1>4, <2>2, <2>3, TableStays, PagesStayTrue
  <2>6. ASSUME NEW i \in DOMAIN trail, i < Len(trail) PROVE ~IsAsked(filter, trail[i])'
    <3>1. Later(trail[i], Current) /\ ~IsAsked(filter, trail[i])
      BY <1>1, <1>2, <2>6 DEF TrailSound
    <3>2. trail[i] # Current
      BY <1>2, <3>1, LaterIsOneWay
    <3> QED BY <1>4, <2>2, <2>3, <3>1, <3>2 DEF IsAsked
  <2>7. TrailSound'
    BY <1>1, <1>4, <2>3, <2>6 DEF TrailSound
  <2>8. ActivitySound'
    BY <1>6 DEF ActivitySound
  <2> QED BY <2>4, <2>5, <2>7, <2>8 DEF PagesInv
<1> QED BY <1>5, <1>6

-----------------------------------------------------------------------------
(* The lists: the server's steps, and the others'                            *)

LEMMA QueryKeeps ==
    ASSUME PagesInv, NEW r \in asked, Query(r), UNCHANGED catalogueScene
    PROVE  PagesInv'
<1>1. ListTyped /\ TrailSound /\ ActivitySound
  BY DEF PagesInv
<1>2. PICK q : q = Queried(r)
  OBVIOUS
<1>3. /\ q \in Request /\ q.step = "sync" /\ q.filter = r.filter /\ q.cursor = r.cursor
      /\ q.items \subseteq Matching(r.filter) /\ PageTrue(q)
  <2>1. r \in Request
    BY <1>1 DEF ListTyped
  <2> QED BY <1>1, <1>2, <2>1, QueriedIs
<1>4. /\ asked' = (asked \ {r}) \cup {q}
      /\ UNCHANGED <<table, filter, trail, answers, held, catalogueSpent>>
  BY <1>2 DEF Query
<1>5. ListTyped'
  BY <1>1, <1>3, <1>4 DEF ListTyped
<1>6. TableGoesOn
  BY <1>1, <1>4, TableStays
<1>7. \A b \in answers' : PageTrue(b)'
  <2>1. ASSUME NEW b \in answers PROVE PageTrue(b)'
    BY <1>1, <1>6, ListedAreRows, PageStaysTrue DEF PagesInv
  <2> QED BY <1>4, <2>1
<1>8. \A p \in asked' : p.step = "sync" => PageTrue(p)'
  <2>1. ASSUME NEW p \in asked, p.step = "sync" PROVE PageTrue(p)'
    BY <1>1, <1>6, <2>1, ListedAreRows, PageStaysTrue DEF PagesInv
  <2>2. q.listed \subseteq RowKey
    BY <1>3 DEF Request
  <2>3. PageTrue(q)'
    BY <1>1, <1>3, <1>6, <2>2, PageStaysTrue
  <2> QED BY <1>4, <2>1, <2>3
<1>9. \A wanted, c : IsAsked(wanted, c)' <=> IsAsked(wanted, c)
  BY <1>3, <1>4 DEF IsAsked
<1>10. TrailSound'
  BY <1>1, <1>4, <1>9 DEF TrailSound
<1>11. ActivitySound'
  <2> SUFFICES ASSUME catalogueScene.list = "activity" PROVE ActivitySound'
    BY DEF ActivitySound
  <2>1. Current' = Current
    BY <1>4 DEF Current
  <2>2. \A p \in asked' : p.filter = filter /\ p.cursor = Current
    BY <1>1, <1>3, <1>4 DEF ActivitySound
  <2>3. ASSUME NEW a \in answers PROVE InTime(a.items, q.items)
    <3> SUFFICES ASSUME NEW x \in a.items, NEW y \in q.items, x.id = y.id
                 PROVE  x.time <= y.time
      BY DEF InTime
    <3>1. StillTrue(x)
      BY DEF PagesInv, PageTrue, PageRead
    <3>2. y = KeyOf(y.id)
      BY <1>1, <1>3, MatchingRows
    <3>3. y.time = table[y.id].time
      BY <3>2 DEF KeyOf
    <3> QED BY <3>1, <3>3 DEF StillTrue
  <2>4. \A a \in answers, p \in asked' :
           p.step = "sync" /\ Later(a.cursor, p.cursor) => InTime(a.items, p.items)
    BY <1>1, <1>4, <2>3 DEF ActivitySound
  <2> QED BY <1>1, <1>4, <2>1, <2>2, <2>4 DEF ActivitySound
<1> QED BY <1>5, <1>7, <1>8, <1>10, <1>11 DEF PagesInv

LEMMA LoseRequestKeeps ==
    ASSUME PagesInv, NEW r \in asked, LoseRequest(r), UNCHANGED catalogueScene
    PROVE  PagesInv'
<1>1. ListTyped /\ TrailSound /\ ActivitySound
  BY DEF PagesInv
<1>2. asked' = asked \ {r} /\ UNCHANGED <<table, filter, trail, answers, held>>
  BY DEF LoseRequest
<1>3. /\ catalogueSpent' \in [CatalogueSpending -> Nat]
      /\ catalogueSpent'["move"] = catalogueSpent["move"]
  <2>1. "fault" \in CatalogueSpending /\ "fault" # "move"
    BY DEF CatalogueSpending
  <2> QED BY <1>1, <2>1, BuyCounts DEF LoseRequest, ListTyped
<1>4. ListTyped'
  BY <1>1, <1>2, <1>3 DEF ListTyped
<1>5. /\ \A b \in answers' : PageTrue(b)'
      /\ \A p \in asked' : p.step = "sync" => PageTrue(p)'
  BY <1>1, <1>2, <1>3, TableStays, PagesStayTrue
<1>6. TrailSound'
  BY <1>1, <1>2 DEF TrailSound, IsAsked
<1>7. ActivitySound'
  BY <1>1, <1>2 DEF ActivitySound, Current
<1> QED BY <1>4, <1>5, <1>6, <1>7 DEF PagesInv

\* The answer that is kept of a request.
AnswerTo(r, moved) ==
    [filter |-> r.filter, cursor |-> r.cursor, items |-> StillAsked(r, moved), next |-> r.next,
     listed |-> r.listed]

LEMMA AnswerIs ==
    ASSUME ListTyped, NEW r \in asked, PageTrue(r), NEW moved \in SUBSET Due(r),
           TableGoesOn, \A id \in moved : table'[id].status = "active"
    PROVE  /\ AnswerTo(r, moved) \in Answer /\ AnswerTo(r, moved).filter = r.filter
           /\ AnswerTo(r, moved).cursor = r.cursor /\ AnswerTo(r, moved).items \subseteq r.items
           /\ PageTrue(AnswerTo(r, moved))'
<1>1. r \in Request
  BY DEF ListTyped
<1>2. PICK a : a = AnswerTo(r, moved)
  OBVIOUS
<1>3. PICK items : items = StillAsked(r, moved)
  OBVIOUS
<1>4. a = [filter |-> r.filter, cursor |-> r.cursor, items |-> items, next |-> r.next,
           listed |-> r.listed]
  BY <1>2, <1>3 DEF AnswerTo
<1>5. /\ items \subseteq r.items
      /\ \A key \in r.items : key \in items \/ (r.filter = "registered" /\ key.id \in moved)
  BY <1>3 DEF StillAsked
<1>6. /\ r.filter \in Filters /\ r.cursor \in Cursors /\ r.items \in SUBSET RowKey
      /\ r.next \in Cursors /\ r.listed \in SUBSET RowKey
  BY <1>1 DEF Request
<1>7. /\ a \in Answer /\ a.filter = r.filter /\ a.cursor = r.cursor
      /\ a.items = items /\ a.next = r.next /\ a.listed = r.listed
  BY <1>4, <1>5, <1>6 DEF Answer
<1>8. PageTrue(r)'
  BY <1>6, PageStaysTrue
<1>9. IsFiniteSet(items) /\ Cardinality(items) <= PageSize
  <2>1. IsFiniteSet(r.items) /\ Cardinality(r.items) <= PageSize
    BY DEF PageTrue, PageRead
  <2>2. IsFiniteSet(items) /\ Cardinality(items) <= Cardinality(r.items)
    BY <1>5, <2>1, FS_Subset
  <2>3. Cardinality(items) \in Nat /\ Cardinality(r.items) \in Nat /\ PageSize \in Nat
    BY <2>1, <2>2, FS_CardinalityType, CatalogueConstants
  <2> QED BY <2>1, <2>2, <2>3
<1>10. ASSUME NEW key \in r.listed, AfterCursor(key, r.cursor)
       PROVE  Placed(key, r.filter, items, r.next)'
  <2>1. Placed(key, r.filter, r.items, r.next)'
    BY <1>8, <1>10 DEF PageTrue, PageRead
  <2>2. key \in r.items => key \in items \/ Gone(r.filter, key.id)'
    BY <1>5 DEF Gone
  <2> QED BY <2>1, <2>2 DEF Placed
<1>11. PageRead(a)'
  <2>1. /\ items \subseteq r.listed
        /\ r.next # NoPage => Later(r.cursor, r.next)
        /\ \A key \in items :
              AfterCursor(key, r.cursor) /\ (r.next # NoPage => ~AfterCursor(key, r.next))
    BY <1>5 DEF PageTrue, PageRead
  <2>2. \A key \in r.listed : catalogueScene'.list # "requests" => key.sub = 0
    BY <1>8 DEF PageTrue, PageRead
  <2> QED BY <1>7, <1>9, <1>10, <2>1, <2>2 DEF PageRead
<1>12. \A key \in a.listed : StillTrue(key)'
  BY <1>7, <1>8 DEF PageTrue
<1> QED BY <1>2, <1>5, <1>7, <1>11, <1>12 DEF PageTrue

LEMMA SynchronizeKeeps ==
    ASSUME PagesInv, NEW r \in asked, Synchronize(r), UNCHANGED catalogueScene
    PROVE  PagesInv'
<1>1. ListTyped /\ TrailSound /\ ActivitySound
  BY DEF PagesInv
<1>2. PICK moved \in SUBSET Due(r) :
         /\ table' = [id \in Ids |-> IF id \in moved
                                     THEN [table[id] EXCEPT !.status = "active"] ELSE table[id]]
         /\ answers' = (answers \ KeptFor(r.filter, r.cursor)) \cup {AnswerTo(r, moved)}
  BY DEF Synchronize, AnswerTo
<1>3. asked' = asked \ {r} /\ UNCHANGED <<filter, trail, held, catalogueSpent>> /\ r.step = "sync"
  BY DEF Synchronize
<1>4. \A id \in moved : id \in Ids /\ table[id].status = "registered" /\ catalogueScene.list = "contests"
  BY <1>2 DEF Due
<1>5. ASSUME NEW id \in Ids
      PROVE  /\ id \notin moved => table'[id] = table[id]
             /\ id \in moved => /\ table[id] \in TableRow /\ table'[id] \in TableRow
                                /\ table'[id].time = table[id].time
                                /\ table'[id].sub = table[id].sub
                                /\ table'[id].status = "active"
  <2>1. id \notin moved => table'[id] = table[id]
    BY <1>2
  <2>2. ASSUME id \in moved
        PROVE  /\ table[id] \in TableRow /\ table'[id] \in TableRow
               /\ table'[id].time = table[id].time
               /\ table'[id].sub = table[id].sub
               /\ table'[id].status = "active"
    <3>1. table[id].status # "none"
      BY <1>4, <2>2
    <3>2. table[id] \in TableRow
      BY <1>1, <3>1 DEF ListTyped, Missing
    <3>3. table'[id] = [table[id] EXCEPT !.status = "active"]
      BY <1>2, <2>2
    <3>4. "active" \in ListStatuses
      BY DEF ListStatuses
    <3> QED BY <3>2, <3>3, <3>4 DEF TableRow
  <2> QED BY <2>1, <2>2
<1>6. table' \in [Ids -> TableRow \cup {Missing}]
  <2>1. \A id \in Ids : table'[id] \in TableRow \cup {Missing}
    BY <1>1, <1>5 DEF ListTyped
  <2>2. table' = [id \in Ids |-> table'[id]]
    BY <1>2
  <2> QED BY <2>1, <2>2
<1>7. TableGoesOn
  <2>1. ASSUME NEW id \in Ids
        PROVE  /\ table[id] # Missing => table'[id] # Missing
               /\ table'[id].time = table[id].time /\ table'[id].sub = table[id].sub
               /\ table[id].status = "active" => table'[id].status = "active"
    <3>1. Missing \notin TableRow
      BY CatalogueConstants DEF TableRow, Missing
    <3> QED BY <1>5, <3>1
  <2>2. ASSUME NEW id \in Ids, table[id] # Missing PROVE table[id].time <= table'[id].time
    <3>1. table[id] \in TableRow
      BY <1>1, <2>2 DEF ListTyped
    <3>2. table[id].time \in Nat
      BY <3>1, CatalogueConstants DEF TableRow
    <3> QED BY <2>1, <3>2
  <2> QED BY <1>3, <1>6, <2>1, <2>2 DEF TableGoesOn
<1>8. PICK n : n = AnswerTo(r, moved)
  OBVIOUS
<1>9. n \in Answer /\ n.filter = r.filter /\ n.cursor = r.cursor /\ n.items \subseteq r.items /\ PageTrue(n)'
  <2>1. \A id \in moved : table'[id].status = "active"
    BY <1>4, <1>5
  <2> QED BY <1>1, <1>2, <1>3, <1>7, <1>8, <2>1, AnswerIs DEF PagesInv
<1>10. /\ n \in answers' /\ \A a \in answers' : a = n \/ a \in answers
       /\ \A a \in answers' : a # n => ~(a.filter = n.filter /\ a.cursor = n.cursor)
  <2>1. KeptFor(r.filter, r.cursor) = {a \in answers : a.filter = r.filter /\ a.cursor = r.cursor}
    BY DEF KeptFor
  <2> QED BY <1>2, <1>8, <1>9, <2>1
<1>11. ListTyped'
  <2>1. \A id \in Ids : catalogueScene.list # "requests" => table'[id].sub = 0
    BY <1>1, <1>5 DEF ListTyped
  <2>2. \A a, b \in answers' : a.filter = b.filter /\ a.cursor = b.cursor => a = b
    BY <1>1, <1>10 DEF ListTyped
  <2> QED BY <1>1, <1>3, <1>6, <1>9, <1>10, <2>1, <2>2 DEF ListTyped
<1>12. \A a \in answers' : PageTrue(a)'
  <2>1. ASSUME NEW a \in answers PROVE PageTrue(a)'
    BY <1>1, <1>7, ListedAreRows, PageStaysTrue DEF PagesInv
  <2> QED BY <1>9, <1>10, <2>1
<1>13. \A p \in asked' : p.step = "sync" => PageTrue(p)'
  <2>1. ASSUME NEW p \in asked, p.step = "sync" PROVE PageTrue(p)'
    BY <1>1, <1>7, <2>1, ListedAreRows, PageStaysTrue DEF PagesInv
  <2> QED BY <1>3, <2>1
<1>14. TrailSound'
  <2>1. ASSUME NEW i \in DOMAIN trail, i < Len(trail)
        PROVE  /\ ~IsAsked(filter, trail[i])'
               /\ \A a \in answers' : a.filter = filter /\ a.cursor = trail[i] => trail[i + 1] = a.next
    <3>1. ~IsAsked(filter, trail[i])
      BY <1>1, <2>1 DEF TrailSound
    <3>2. ~(n.filter = filter /\ n.cursor = trail[i])
      BY <1>9, <3>1 DEF IsAsked
    <3>3. ~IsAsked(filter, trail[i])'
      BY <1>3, <3>1 DEF IsAsked
    <3> QED BY <1>1, <1>10, <2>1, <3>2, <3>3 DEF TrailSound
  <2> QED BY <1>1, <1>3, <2>1 DEF TrailSound
<1>15. ActivitySound'
  <2> SUFFICES ASSUME catalogueScene.list = "activity" PROVE ActivitySound'
    BY DEF ActivitySound
  <2>1. Current' = Current
    BY <1>3 DEF Current
  <2>2. PICK m \in Nat \ {0} :
           /\ m = Len(trail) /\ DOMAIN trail = 1 .. m /\ Current = trail[m]
           /\ Current \in Cursors /\ \A i \in 1 .. m : trail[i] \in Cursors
    BY <1>1, CurrentIs
  <2>3. r.filter = filter /\ r.cursor = Current
    BY <1>1 DEF ActivitySound
  <2>4. \A a \in answers' : a.filter = filter /\ \E i \in DOMAIN trail : a.cursor = trail[i]
    BY <1>1, <1>9, <1>10, <2>2, <2>3 DEF ActivitySound
  <2>5. \A a \in answers' : ~Later(Current, a.cursor)
    <3> SUFFICES ASSUME NEW a \in answers' PROVE ~Later(Current, a.cursor)
      OBVIOUS
    <3>1. PICK i \in 1 .. m : a.cursor = trail[i]
      BY <2>2, <2>4
    <3>2. i = m \/ Later(trail[i], Current)
      BY <1>1, <2>2 DEF TrailSound
    <3> QED BY <2>2, <3>1, <3>2, LaterIsOneWay
  <2>6. \A a, b \in answers' : Later(a.cursor, b.cursor) => InTime(a.items, b.items)
    <3> SUFFICES ASSUME NEW a \in answers', NEW b \in answers', Later(a.cursor, b.cursor)
                 PROVE  InTime(a.items, b.items)
      OBVIOUS
    <3>1. a # n /\ a \in answers
      BY <1>9, <1>10, <2>3, <2>5
    <3>2. CASE b = n
      <4>1. InTime(a.items, r.items)
        BY <1>1, <1>3, <1>9, <3>1, <3>2 DEF ActivitySound
      <4> QED BY <1>9, <3>2, <4>1 DEF InTime
    <3>3. CASE b # n
      BY <1>1, <1>10, <3>1, <3>3 DEF ActivitySound
    <3> QED BY <3>2, <3>3
  <2>7. \A a \in answers', p \in asked' :
           p.step = "sync" /\ Later(a.cursor, p.cursor) => InTime(a.items, p.items)
    <3> SUFFICES ASSUME NEW a \in answers', NEW p \in asked', p.step = "sync", Later(a.cursor, p.cursor)
                 PROVE  InTime(a.items, p.items)
      OBVIOUS
    <3>1. p \in asked /\ p.cursor = Current
      BY <1>1, <1>3 DEF ActivitySound
    <3>2. a # n
      BY <1>9, <2>2, <2>3, <3>1, LaterIsOneWay
    <3> QED BY <1>1, <1>10, <3>1, <3>2 DEF ActivitySound
  <2>8. \A p \in asked' : p.filter = filter /\ p.cursor = Current
    BY <1>1, <1>3 DEF ActivitySound
  <2> QED BY <1>3, <2>1, <2>4, <2>6, <2>7, <2>8 DEF ActivitySound
<1> QED BY <1>11, <1>12, <1>13, <1>14, <1>15 DEF PagesInv

\* The others' steps leave the view alone.
LEMMA OthersKeep ==
    ASSUME PagesInv, TableGoesOn, UNCHANGED <<filter, trail, answers, held, asked>>,
           catalogueSpent' \in [CatalogueSpending -> Nat],
           \A id \in Ids : catalogueScene.list # "requests" => table'[id].sub = 0
    PROVE  PagesInv'
<1>1. ListTyped /\ TrailSound /\ ActivitySound
  BY DEF PagesInv
<1>2. ListTyped'
  BY <1>1 DEF ListTyped, TableGoesOn
<1>3. /\ \A b \in answers' : PageTrue(b)'
      /\ \A p \in asked' : p.step = "sync" => PageTrue(p)'
  BY PagesStayTrue
<1>4. TrailSound'
  BY <1>1 DEF TrailSound, IsAsked
<1>5. ActivitySound'
  BY <1>1 DEF ActivitySound, Current, TableGoesOn
<1> QED BY <1>2, <1>3, <1>4, <1>5 DEF PagesInv

LEMMA InsertKeeps ==
    ASSUME PagesInv, NEW id \in Ids, NEW row \in Possible, Insert(id, row), UNCHANGED catalogueScene
    PROVE  PagesInv'
<1>1. ListTyped
  BY DEF PagesInv
<1>2. /\ catalogueSpent' \in [CatalogueSpending -> Nat]
      /\ catalogueSpent'["move"] = catalogueSpent["move"]
  <2>1. "insert" \in CatalogueSpending /\ "insert" # "move"
    BY DEF CatalogueSpending
  <2> QED BY <1>1, <2>1, BuyCounts DEF Insert, ListTyped
<1>3. row \in TableRow /\ (catalogueScene.list # "requests" => row.sub = 0)
  BY DEF Possible
<1>4. /\ table[id] = Missing /\ table' = [table EXCEPT ![id] = row]
      /\ UNCHANGED <<filter, trail, answers, held, asked>>
  BY DEF Insert
<1>5. /\ table' \in [Ids -> TableRow \cup {Missing}] /\ table'[id] = row
      /\ \A other \in Ids : other # id => table'[other] = table[other]
  BY <1>1, <1>3, <1>4 DEF ListTyped
<1>6. \A other \in Ids : catalogueScene.list # "requests" => table'[other].sub = 0
  BY <1>1, <1>3, <1>5 DEF ListTyped
<1>7. TableGoesOn
  <2>1. ASSUME NEW other \in Ids, table[other] # Missing
        PROVE  table'[other] = table[other] /\ table[other].time <= table[other].time
    <3>1. table[other] \in TableRow
      BY <1>1, <2>1 DEF ListTyped
    <3>2. table[other].time \in Nat
      BY <3>1, CatalogueConstants DEF TableRow
    <3> QED BY <1>4, <1>5, <2>1, <3>2
  <2>2. \A other \in Ids : table[other].status = "active" => table[other] # Missing
    BY DEF Missing
  <2> QED BY <1>2, <1>5, <2>1, <2>2 DEF TableGoesOn
<1> QED BY <1>2, <1>4, <1>6, <1>7, OthersKeep

LEMMA MoveRowKeeps ==
    ASSUME PagesInv, NEW id \in Ids, NEW time \in 1 .. LastTime, MoveRow(id, time),
           UNCHANGED catalogueScene
    PROVE  PagesInv'
<1>1. ListTyped
  BY DEF PagesInv
<1>2. /\ catalogueSpent' \in [CatalogueSpending -> Nat]
      /\ catalogueSpent'["move"] # 0
  <2>1. "move" \in CatalogueSpending
    BY DEF CatalogueSpending
  <2> QED BY <1>1, <2>1, BuyCounts DEF MoveRow, ListTyped
<1>3. /\ table[id] # Missing /\ catalogueScene.list # "requests"
      /\ catalogueScene.list = "activity" => time > table[id].time
      /\ table' = [table EXCEPT ![id].time = time]
      /\ UNCHANGED <<filter, trail, answers, held, asked>>
  BY DEF MoveRow
<1>4. table[id] \in TableRow
  BY <1>1, <1>3 DEF ListTyped
<1>5. PICK row : row = [table[id] EXCEPT !.time = time]
  OBVIOUS
<1>6. /\ row \in TableRow /\ row.time = time /\ row.sub = table[id].sub
      /\ row.status = table[id].status
  BY <1>4, <1>5 DEF TableRow
<1>7. /\ table' \in [Ids -> TableRow \cup {Missing}] /\ table'[id] = row
      /\ \A other \in Ids : other # id => table'[other] = table[other]
  BY <1>1, <1>3, <1>5, <1>6 DEF ListTyped
<1>8. \A other \in Ids : catalogueScene.list # "requests" => table'[other].sub = 0
  BY <1>1, <1>6, <1>7 DEF ListTyped
<1>9. TableGoesOn
  <2>1. ~Still'
    <3>1. catalogueScene.list \in {"contests", "activity"}
      BY <1>1, <1>3, CatalogueSceneIs DEF ListTyped
    <3> QED BY <1>2, <3>1 DEF Still
  <2>2. ASSUME NEW other \in Ids, table[other] # Missing
        PROVE  /\ table'[other] # Missing
               /\ catalogueScene.list = "activity" => table[other].time <= table'[other].time
    <3>1. table[other] \in TableRow /\ Missing \notin TableRow
      BY <1>1, <2>2, CatalogueConstants DEF ListTyped, TableRow, Missing
    <3>2. table[other].time \in Nat /\ time \in Nat
      BY <3>1, CatalogueConstants DEF TableRow
    <3> QED BY <1>3, <1>6, <1>7, <2>2, <3>1, <3>2
  <2>3. \A other \in Ids : table[other].status = "active" => table'[other].status = "active"
    BY <1>6, <1>7
  <2> QED BY <1>2, <1>7, <2>1, <2>2, <2>3 DEF TableGoesOn
<1> QED BY <1>2, <1>3, <1>8, <1>9, OthersKeep

LEMMA PagesGoOn == PagesInv /\ [CatalogueNext]_catalogueVars => PagesInv'
<1> SUFFICES ASSUME PagesInv, [CatalogueNext]_catalogueVars PROVE PagesInv'
  OBVIOUS
<1>1. CASE UNCHANGED catalogueVars
  BY <1>1 DEF catalogueVars, PagesInv, ListTyped, PageTrue, PageRead, StillTrue, Still, KeyOf,
     Placed, Gone, TrailSound, IsAsked, ActivitySound, Current
<1>2. CASE CatalogueNext
  <2>0. UNCHANGED catalogueScene
    BY <1>2 DEF CatalogueNext
  <2>1. CASE NextPage
    BY <2>0, <2>1, NextPageKeeps
  <2>2. CASE PreviousPage
    BY <2>0, <2>2, PreviousPageKeeps
  <2>3. CASE Refresh
    BY <2>0, <2>3, RefreshKeeps
  <2>4. ASSUME NEW wanted \in Filters, ChangeFilter(wanted) PROVE PagesInv'
    BY <2>0, <2>4, ChangeFilterKeeps
  <2>5. ASSUME NEW r \in asked, Query(r) PROVE PagesInv'
    BY <2>0, <2>5, QueryKeeps
  <2>6. ASSUME NEW r \in asked, Synchronize(r) PROVE PagesInv'
    BY <2>0, <2>6, SynchronizeKeeps
  <2>7. ASSUME NEW r \in asked, LoseRequest(r) PROVE PagesInv'
    BY <2>0, <2>7, LoseRequestKeeps
  <2>8. ASSUME NEW id \in Ids, NEW row \in Possible, Insert(id, row) PROVE PagesInv'
    BY <2>0, <2>8, InsertKeeps
  <2>9. ASSUME NEW id \in Ids, NEW time \in 1 .. LastTime, MoveRow(id, time) PROVE PagesInv'
    BY <2>0, <2>9, MoveRowKeeps
  <2> QED BY <1>2, <2>1, <2>2, <2>3, <2>4, <2>5, <2>6, <2>7, <2>8, <2>9 DEF CatalogueNext
<1> QED BY <1>1, <1>2

LEMMA PagesAlways == CatalogueSpec => []PagesInv
BY PagesAtFirst, PagesGoOn, PTL DEF CatalogueSpec

-----------------------------------------------------------------------------
(* The lists: a walk over them                                               *)

\* The page a cursor of the trail was answered with.
LEMMA PageIs ==
    ASSUME PagesInv, NEW i \in Pages
    PROVE  /\ Page(i) \in answers /\ Page(i).filter = filter /\ Page(i).cursor = trail[i]
           /\ PageTrue(Page(i))
           /\ Page(i).items \subseteq RowKey /\ Page(i).listed \subseteq RowKey
<1>1. ListTyped
  BY DEF PagesInv
<1>2. PICK p : p = Page(i)
  OBVIOUS
<1>3. p \in answers /\ p.filter = filter /\ p.cursor = trail[i]
  BY <1>1, <1>2, KeptIs DEF Pages, Page
<1>4. PageTrue(p)
  BY <1>3 DEF PagesInv
<1> QED BY <1>1, <1>2, <1>3, <1>4, ListedAreRows

LEMMA PagesLead ==
    ASSUME PagesInv, NEW i \in Pages, i < Len(trail)
    PROVE  trail[i + 1] = Page(i).next /\ Page(i).next # NoPage /\ Page(i).next \in Cursors
<1>1. ListTyped /\ TrailSound
  BY DEF PagesInv
<1>2. PICK n \in Nat \ {0} :
         n = Len(trail) /\ DOMAIN trail = 1 .. n /\ \A j \in 1 .. n : trail[j] \in Cursors
  BY <1>1, CurrentIs
<1>3. i \in 1 .. n /\ i + 1 \in 1 .. n /\ i < i + 1
  BY <1>2 DEF Pages
<1>4. trail[i + 1] = Page(i).next
  BY <1>1, <1>2, <1>3, PageIs DEF TrailSound
<1>5. Later(trail[i], trail[i + 1])
  BY <1>1, <1>2, <1>3 DEF TrailSound
<1> QED BY <1>2, <1>3, <1>4, <1>5 DEF Later

\* What one page shows is before the next page's cursor, what a later one shows
\* beyond it.
LEMMA NotOnBoth ==
    ASSUME PagesInv, catalogueScene.list = "contests" => catalogueSpent["move"] = 0,
           NEW i \in Pages, NEW j \in Pages, i < j,
           NEW x \in Page(i).items, NEW y \in Page(j).items, x.id = y.id
    PROVE  FALSE
<1>1. ListTyped /\ TrailSound /\ ActivitySound
  BY DEF PagesInv
<1>2. PICK n \in Nat \ {0} :
         n = Len(trail) /\ DOMAIN trail = 1 .. n /\ \A l \in 1 .. n : trail[l] \in Cursors
  BY <1>1, CurrentIs
<1>3. i \in 1 .. n /\ j \in 1 .. n /\ i + 1 \in 1 .. n /\ i < n
  BY <1>2 DEF Pages
<1>4. PICK p, q : p = Page(i) /\ q = Page(j)
  OBVIOUS
<1>5. /\ p \in answers /\ p.cursor = trail[i] /\ PageTrue(p)
      /\ q \in answers /\ q.cursor = trail[j] /\ PageTrue(q)
      /\ x \in p.items /\ y \in q.items /\ x \in RowKey /\ y \in RowKey
  BY <1>4, PageIs
<1>6. PICK c \in Cursors : c = trail[i + 1] /\ c = p.next /\ c # NoPage
  BY <1>2, <1>3, <1>4, PagesLead
<1>7. ~AfterCursor(x, c)
  BY <1>5, <1>6 DEF PageTrue, PageRead
<1>8. AfterCursor(y, trail[j])
  BY <1>5 DEF PageTrue, PageRead
<1>9. AfterCursor(y, c)
  <2>1. CASE j = i + 1
    BY <1>6, <1>8, <2>1
  <2>2. CASE j # i + 1
    <3>1. i + 1 < j
      BY <1>3, <2>2
    <3>2. Later(c, trail[j])
      BY <1>1, <1>2, <1>3, <1>6, <3>1 DEF TrailSound
    <3> QED BY <1>2, <1>3, <1>5, <1>8, <3>2, LaterMeansBeyond
  <2> QED BY <2>1, <2>2
<1>10. StillTrue(x) /\ StillTrue(y)
  BY <1>5 DEF PageTrue, PageRead
<1>11. CASE catalogueScene.list # "activity"
  <2>1. Still
    BY <1>11 DEF Still
  <2>2. x = y
    BY <1>10, <2>1 DEF StillTrue
  <2> QED BY <1>7, <1>9, <2>2
<1>12. CASE catalogueScene.list = "activity"
  <2>1. Later(p.cursor, q.cursor)
    BY <1>1, <1>2, <1>3, <1>5 DEF TrailSound
  <2>2. x.time <= y.time
    BY <1>1, <1>5, <1>12, <2>1 DEF ActivitySound, InTime
  <2>3. x.sub = 0
    BY <1>5, <1>12 DEF PageTrue, PageRead
  <2>4. /\ x.id \in Nat /\ x.time \in Nat /\ y.time \in Nat /\ c.time \in Nat /\ c.id \in Nat
    BY <1>5, CatalogueConstants
  <2> QED BY <1>6, <1>7, <1>9, <2>2, <2>3, <2>4 DEF AfterCursor
<1> QED BY <1>11, <1>12

\* The last cursor before a row leads to the page that shows it, if it is no edge.
LEMMA FoundOrAtAnEdge ==
    ASSUME PagesInv, WalkedThrough, NEW key \in Steady
    PROVE  \/ key.id \in Shown
           \/ \E i \in DOMAIN trail :
                 \/ trail[i].id = key.id
                 \/ catalogueScene.list = "requests" /\ trail[i].time = key.time
           \/ filter = "registered" /\ table[key.id].status = "active"
<1>1. ListTyped /\ TrailSound
  BY DEF PagesInv
<1>2. PICK n \in Nat \ {0} :
         n = Len(trail) /\ DOMAIN trail = 1 .. n /\ \A j \in 1 .. n : trail[j] \in Cursors
  BY <1>1, CurrentIs
<1>3. Pages = 1 .. n /\ Page(n).next = NoPage
  BY <1>2 DEF WalkedThrough
<1>4. \A i \in 1 .. n : key \in Page(i).listed
  BY <1>3 DEF Steady
<1>5. PICK T : T = {i \in 1 .. n : AfterCursor(key, trail[i])}
  OBVIOUS
<1>6. 1 \in T
  BY <1>1, <1>2, <1>5 DEF TrailSound, AfterCursor
<1>7. T \subseteq Nat /\ T # {} /\ \A t \in T : t <= n
  BY <1>2, <1>5, <1>6
<1>8. PICK m \in T : \A y \in T : y <= m
  <2>1. PICK D : D = 1 .. n
    OBVIOUS
  <2>2. IsFiniteSet(D) /\ T \subseteq D
    BY <1>5, <2>1, FS_Interval
  <2>3. IsFiniteSet(T)
    BY <2>2, FS_Subset
  <2>4. Max(T) \in T /\ \A y \in T : y <= Max(T)
    BY <1>7, <2>3, LargestOf
  <2> QED BY <2>4
<1>9. m \in 1 .. n /\ m \in Nat /\ AfterCursor(key, trail[m])
  BY <1>5, <1>7
<1>10. PICK p : p = Page(m)
  OBVIOUS
<1>11. p.filter = filter /\ p.cursor = trail[m] /\ PageTrue(p) /\ key \in p.listed
  BY <1>3, <1>4, <1>9, <1>10, PageIs
<1>12. Placed(key, filter, p.items, p.next)
  BY <1>9, <1>11 DEF PageTrue, PageRead
<1>13. CASE key \in p.items
  <2>1. key.id \in IdsOn(m)
    BY <1>10, <1>13 DEF IdsOn
  <2> QED BY <1>3, <1>9, <2>1 DEF Shown
<1>14. CASE Gone(filter, key.id)
  BY <1>14 DEF Gone
<1>15. CASE p.next # NoPage /\ (\/ p.next.id = key.id
                                \/ AfterCursor(key, p.next)
                                \/ catalogueScene.list = "requests" /\ p.next.time = key.time)
  <2>1. m # n /\ m < n /\ m + 1 \in 1 .. n
    BY <1>2, <1>3, <1>9, <1>10, <1>15
  <2>2. trail[m + 1] = p.next
    BY <1>2, <1>3, <1>9, <1>10, <2>1, PagesLead
  <2>3. ~AfterCursor(key, p.next)
    <3> SUFFICES ASSUME AfterCursor(key, p.next) PROVE FALSE
      OBVIOUS
    <3>1. m + 1 \in T
      BY <1>5, <2>1, <2>2
    <3> QED BY <1>8, <1>9, <3>1
  <2> QED BY <1>2, <1>15, <2>1, <2>2, <2>3
<1> QED BY <1>12, <1>13, <1>14, <1>15 DEF Placed

LEMMA PagesMeanWhole == PagesInv => WalkIsWhole
<1> SUFFICES ASSUME PagesInv PROVE WalkIsWhole
  OBVIOUS
<1>1. PICK n \in Nat \ {0} : n = Len(trail) /\ DOMAIN trail = 1 .. n
  BY CurrentIs DEF PagesInv
<1>2. \A i \in Pages : i \in 1 .. n
  BY <1>1 DEF Pages
<1>3. PagesAreAChain
  <2> SUFFICES ASSUME NEW i \in Pages, i + 1 \in DOMAIN trail PROVE trail[i + 1] = Page(i).next
    BY DEF PagesAreAChain
  <2>1. i < Len(trail)
    BY <1>1, <1>2
  <2> QED BY <2>1, PagesLead
<1>4. NothingTwice
  <2> SUFFICES ASSUME catalogueScene.list = "contests" => catalogueSpent["move"] = 0,
                      NEW i \in Pages, NEW j \in Pages, i # j, NEW id \in IdsOn(i), id \in IdsOn(j)
               PROVE  FALSE
    BY DEF NothingTwice
  <2>1. PICK x \in Page(i).items : id = x.id
    BY DEF IdsOn
  <2>2. PICK y \in Page(j).items : id = y.id
    BY DEF IdsOn
  <2>3. i < j \/ j < i
    BY <1>2
  <2> QED BY <2>1, <2>2, <2>3, NotOnBoth
<1>5. OnlyEdgesAreLost
  BY FoundOrAtAnEdge DEF OnlyEdgesAreLost
<1> QED BY <1>3, <1>4, <1>5 DEF WalkIsWhole

\* Whatever is inserted, moves or begins, is lost or answered late, the pages of a
\* list fit together, no row comes twice and none is left out but at an edge
\* (contestQueries.ts, the lists of the web application).
THEOREM WalksAreWhole == CatalogueSpec => []WalkIsWhole
BY PagesAlways, PagesMeanWhole, PTL

\* Every variable of the lists has its type, one answer is kept for a key, and no
\* page has more rows than the page size.
THEOREM CatalogueTyped == CatalogueSpec => []CatalogueTypeOK
<1>1. PagesInv => CatalogueTypeOK
  <2> SUFFICES ASSUME PagesInv PROVE CatalogueTypeOK
    OBVIOUS
  <2>1. ListTyped
    BY DEF PagesInv
  <2>2. ASSUME NEW a \in answers
        PROVE  KeptFor(a.filter, a.cursor) = {a} /\ Cardinality(a.items) <= PageSize
    BY <2>1, KeptIs DEF PagesInv, PageTrue, PageRead
  <2> QED BY <2>1, <2>2 DEF CatalogueTypeOK, ListTyped
<1> QED BY <1>1, PagesAlways, PTL
===============================================================================
