---------------------------- MODULE IngestionProofs ----------------------------
(***************************************************************************)
(* Theorems about the event indexer: about Ingestion for every number of   *)
(* overlapping cycles, every history, batch limit and lag of the endpoint, *)
(* and about Endpoints for every number of endpoints and calls under way.  *)
(*                                                                         *)
(* That the cursor never passes an event over is not inductive: a cycle    *)
(* writes a cursor it computed several steps ago, over a row other cycles  *)
(* have moved since.  It is safe because of what each cycle carries: every *)
(* event up to its next cursor is in its batch or behind the cursor it     *)
(* read, and what is behind a cursor once read stays dealt with, for the   *)
(* chain only grows past it.  A reorganisation breaks the last of these.   *)
(*                                                                         *)
(* That the phase of the contest's row is never behind the cursor rests on *)
(* that, and on the order in which the lone cycle writes: what it has      *)
(* written of its batch comes after all the cursor covers and before what  *)
(* it has still to write.                                                  *)
(*                                                                         *)
(* The types take one thing more: a worker in the middle of an event still *)
(* has it to do, so that what it writes is an event of the history.        *)
(*                                                                         *)
(* The endpoints share no variable with the cycles.  A stream has failed   *)
(* no more often than the endpoints that are down count, or can still be   *)
(* asked for (EndpointsInv).                                               *)
(***************************************************************************)
EXTENDS Ingestion, Endpoints, FiniteSetTheorems, SequenceTheorems, TLAPS

\* The milestone is in the queue, or in the hands of a cycle that sends it.
Handled(k) ==
    \/ k \in sent
    \/ \E c \in Cycles : At(c, "dispatch") /\ k \in runs[c].todo

NothingLost == spent["crash"] = 0 /\ spent["send"] = 0

\* Nothing is left to do about the event.
Passed(k) == k \in recorded /\ (NothingLost /\ IsMilestone(k) => Handled(k))

AllPassed(p) == \A k \in DOMAIN log : Covered(k, p) => Passed(k)

Spans == [from : Nat, to : Nat, first : BOOLEAN, seen : SUBSET (1..Len(History))]

Types ==
    /\ head \in Nat \ {0}
    /\ log \in Seq(Position) /\ Len(log) <= Len(History)
    /\ cursor \in Position
    /\ runs \in [Workers -> Run]
    /\ span \in Spans

\* The chain: its events stand in order, in blocks that have been mined.
Ordered ==
    /\ \A k \in DOMAIN log : log[k].block \in 1..head
    /\ \A i, j \in DOMAIN log : i < j => Before(log[i], log[j])

\* What a cycle that has pulled knows about the cursor it is going to write.
Carried(r) ==
    /\ r.next.block <= head
    /\ \A k \in DOMAIN log : Covered(k, r.next) => Covered(k, r.cursor) \/ k \in r.batch
    /\ r.batch \ r.todo \subseteq recorded

RunSound(r) ==
    /\ r.cursor.block <= head /\ AllPassed(r.cursor)
    /\ r.step \in {"write", "apply", "advance", "insert", "update"} => Carried(r)
    /\ r.step = "apply" => Oldest(r.todo) \in recorded
    /\ r.step \in {"advance", "insert", "update"} => r.batch \subseteq recorded

Sound ==
    /\ Types /\ Ordered
    /\ cursor.block <= head /\ AllPassed(cursor)
    /\ \A c \in Cycles : RunSound(runs[c])

Inv ==
    /\ spent \in [Spending -> Nat]
    /\ spent["reorg"] = 0 => Sound
----------------------------------------------------------------------------
(* The oldest and the newest of a set of events                              *)

LEMMA OldestOf ==
    ASSUME NEW S \in SUBSET Nat, S # {}
    PROVE  Oldest(S) \in S /\ \A i \in S : Oldest(S) <= i
<1> DEFINE less == {ss \in Nat \X Nat : ss[1] < ss[2]}
<1>1. IsWellFoundedOn(less, Nat)
    BY NatLessThanWellFounded DEF OpToRel
<1> HIDE DEF less
<1>2. PICK k \in S : \A i \in S : <<i, k>> \notin less
    BY <1>1, WFMin
<1>3. \A i \in S : ~(i < k)
    BY <1>2 DEF less
<1>4. \A i \in S : k <= i
    BY <1>3
<1> QED
    BY <1>4 DEF Oldest

LEMMA NewestOf ==
    ASSUME NEW n \in Nat, NEW S \in SUBSET (1..n), S # {}
    PROVE  Newest(S) \in S /\ \A i \in S : i <= Newest(S)
<1> DEFINE below == {n - i : i \in S}
<1>1. below \in SUBSET Nat
    OBVIOUS
<1>2. below # {}
  <2>1. PICK i \in S : TRUE
    OBVIOUS
  <2>2. n - i \in below
    OBVIOUS
  <2> QED
    BY <2>2
<1>3. Oldest(below) \in below /\ \A d \in below : Oldest(below) <= d
  <2> HIDE DEF below
  <2> QED
    BY <1>1, <1>2, OldestOf
<1>4. PICK k \in S : Oldest(below) = n - k
    BY <1>3
<1>5. ASSUME NEW i \in S PROVE i <= k
  <2>1. n - i \in below
    OBVIOUS
  <2>2. n - k <= n - i
    BY <1>3, <1>4, <2>1
  <2> QED
    BY <2>2
<1> QED
    BY <1>5 DEF Newest

\* A limited set begins like the set, and is empty only when the set is.
LEMMA LimitedPrefix ==
    ASSUME NEW n \in Nat, NEW S \in SUBSET (1..n)
    PROVE  /\ Limited(S) \in SUBSET S
           /\ \A i \in S, j \in Limited(S) : i <= j => i \in Limited(S)
           /\ S # {} => Limited(S) # {}
<1> DEFINE before(k) == {i \in S : i < k}
<1>0. \A m \in S : m \in Nat
    OBVIOUS
<1>1. BatchLimit \in Nat \ {0}
    BY ConstantsAssumption
<1>2. IsFiniteSet(S)
  <2>1. IsFiniteSet(1..n)
    BY FS_Interval
  <2> QED
    BY <2>1, FS_Subset
<1>3. ASSUME NEW k \in S PROVE IsFiniteSet(before(k)) /\ Cardinality(before(k)) \in Nat
  <2>1. IsFiniteSet(before(k))
    BY <1>2, FS_Subset
  <2> QED
    BY <2>1, FS_CardinalityType
<1>4. ASSUME NEW i \in S, NEW j \in Limited(S), i <= j PROVE i \in Limited(S)
  <2>1. j \in S /\ Cardinality(before(j)) < BatchLimit
    BY <1>4 DEF Limited
  <2>2. before(i) \subseteq before(j)
    <3>1. ASSUME NEW m \in S, m < i PROVE m < j
      BY <1>0, <1>4, <2>1, <3>1
    <3> QED
      BY <3>1
  <2>3. /\ IsFiniteSet(before(j))
        /\ Cardinality(before(i)) \in Nat /\ Cardinality(before(j)) \in Nat
    BY <1>3, <2>1
  <2>4. Cardinality(before(i)) <= Cardinality(before(j))
    BY <2>2, <2>3, FS_Subset
  <2>5. Cardinality(before(i)) < BatchLimit
    BY <1>1, <2>1, <2>3, <2>4
  <2> QED
    BY <2>5 DEF Limited
<1>5. ASSUME S # {} PROVE Limited(S) # {}
  <2>1. Oldest(S) \in S /\ \A i \in S : Oldest(S) <= i
    BY <1>5, OldestOf
  <2>2. before(Oldest(S)) = {}
    <3>1. ASSUME NEW m \in S PROVE ~(m < Oldest(S))
      <4>1. Oldest(S) \in Nat /\ m \in Nat
        BY <1>0, <2>1
      <4>2. Oldest(S) <= m
        BY <2>1
      <4> QED
        BY <4>1, <4>2
    <3> QED
      BY <3>1
  <2>3. Cardinality(before(Oldest(S))) = 0
    BY <2>2, FS_EmptySet
  <2> QED
    BY <1>1, <2>1, <2>3 DEF Limited
<1> QED
    BY <1>4, <1>5 DEF Limited
----------------------------------------------------------------------------
(* What a pull brings                                                        *)

LEMMA PullCarries ==
    ASSUME Sound, NEW c \in Cycles, At(c, "pull"), NEW to \in 1..head
    PROVE  LET r == Pulled(runs[c], LogsIn(0, to), runs[c].cursor, 0, to)
           IN  r \in Run /\ r.cursor = runs[c].cursor /\ r.step = "write" /\ Carried(r)
<1> DEFINE p == runs[c].cursor
           events == LogsIn(0, to)
           filtered == {k \in events : IsAfterCursor(k, p) /\ log[k].block >= 0}
           batch == Limited(filtered)
           next == NextCursor(events, filtered, batch, p, to)
           early == {k \in batch : SealedEarly(k)}
           r == Pulled(runs[c], events, p, 0, to)
<1> SUFFICES r \in Run /\ r.cursor = p /\ r.step = "write" /\ Carried(r)
    OBVIOUS
<1>0. /\ log \in Seq(Position) /\ DOMAIN log = 1..Len(log) /\ Len(log) \in Nat
      /\ Len(log) <= Len(History) /\ Len(History) \in Nat
      /\ runs[c] \in Run /\ p \in Position /\ p.block <= head
      /\ head \in Nat \ {0} /\ to \in Nat
    BY ConstantsAssumption DEF Sound, Types, Workers, Run, RunSound
<1>1. \A k \in DOMAIN log : log[k] \in Position /\ log[k].block \in 1..head
    BY <1>0 DEF Sound, Ordered
<1>2. events = {k \in DOMAIN log : log[k].block <= to}
    BY <1>0, <1>1 DEF LogsIn, Position
<1>3. filtered = {k \in events : Before(p, log[k])}
    BY <1>1, <1>2 DEF IsAfterCursor, Position
<1>4. filtered \in SUBSET (1..Len(log)) /\ batch \in SUBSET filtered
    BY <1>0, <1>2, LimitedPrefix
<1>5. /\ r = [runs[c] EXCEPT !.step = "write", !.batch = batch, !.todo = batch, !.next = next,
                              !.early = early]
    BY DEF Pulled
<1> HIDE DEF r
<1>6. CASE batch # {}
  <2> DEFINE k0 == Newest(batch)
  <2>1. k0 \in batch /\ \A i \in batch : i <= k0
    BY <1>0, <1>4, <1>6, NewestOf
  <2>2. next = log[k0]
    <3> HIDE DEF batch
    <3> QED
      BY <1>6 DEF NextCursor
  <2>3. k0 \in DOMAIN log /\ log[k0].block <= to
    BY <1>2, <1>4, <2>1
  <2>4. ASSUME NEW k \in DOMAIN log, Covered(k, next), ~Covered(k, p) PROVE k \in batch
    <3>1. ~Before(log[k0], log[k]) /\ Before(p, log[k])
      BY <2>2, <2>4 DEF Covered
    <3>2. k <= k0
      BY <1>0, <2>3, <3>1 DEF Sound, Ordered
    <3>3. log[k].block <= to
      BY <1>0, <1>1, <2>3, <3>1 DEF Before, Position
    <3>4. k \in filtered
      BY <1>2, <1>3, <3>1, <3>3
    <3> QED
      BY <1>0, <1>4, <2>1, <3>2, <3>4, LimitedPrefix
  <2>5. next \in Position /\ next.block <= head
    BY <1>0, <1>1, <2>2, <2>3 DEF Position
  <2>6. batch \subseteq 1..Len(History)
    BY <1>0, <1>4
  <2> HIDE DEF next, batch
  <2> QED
    BY <1>0, <1>5, <2>4, <2>5, <2>6 DEF Run, Carried
<1>7. CASE batch = {}
  <2>1. filtered = {}
    BY <1>0, <1>4, <1>7, LimitedPrefix
  <2>2. CASE p # NoCursor
    <3>1. next = p
      BY <1>7, <2>2 DEF NextCursor
    <3> HIDE DEF next, batch
    <3> QED
      BY <1>0, <1>5, <1>7, <3>1 DEF Run, Carried
  <2>3. CASE p = NoCursor
    <3>1. \A k \in DOMAIN log : Before(p, log[k])
      BY <1>1, <2>3 DEF Before, NoCursor, Position
    <3>2. events = {}
      BY <1>2, <1>3, <2>1, <3>1
    <3>3. next = [block |-> to, index |-> 0]
      BY <1>7, <2>3, <3>2 DEF NextCursor
    <3>4. \A k \in DOMAIN log : ~Covered(k, next)
      BY <1>0, <1>1, <1>2, <3>2, <3>3 DEF Covered, Before, Position
    <3>5. next \in Position /\ next.block <= head
      BY <1>0, <3>3 DEF Position
    <3> HIDE DEF next, batch
    <3> QED
      BY <1>0, <1>5, <1>7, <3>4, <3>5 DEF Run, Carried
  <2> QED
    BY <2>2, <2>3
<1> QED
    BY <1>6, <1>7 DEF r

\* Whatever a replay is asked for, its pull yields a run.
LEMMA PulledType ==
    ASSUME Types, NEW run \in Run, NEW events \in SUBSET (DOMAIN log),
           NEW p \in Position, NEW from \in Nat, NEW to \in Nat
    PROVE  Pulled(run, events, p, from, to) \in Run
<1> DEFINE filtered == {k \in events : IsAfterCursor(k, p) /\ log[k].block >= from}
           batch == Limited(filtered)
           next == NextCursor(events, filtered, batch, p, to)
           early == {k \in batch : SealedEarly(k)}
<1>0. /\ DOMAIN log = 1..Len(log) /\ Len(log) \in Nat /\ Len(log) <= Len(History)
      /\ \A k \in DOMAIN log : log[k] \in Position
      /\ Len(History) \in Nat
    BY ConstantsAssumption DEF Types
<1>1. events \in SUBSET (1..Len(log)) /\ filtered \in SUBSET (1..Len(log))
    BY <1>0
<1>2. batch \in SUBSET filtered
    BY <1>0, <1>1, LimitedPrefix
<1>3. batch # {} => Newest(batch) \in DOMAIN log
    BY <1>0, <1>1, <1>2, NewestOf
<1>4. events # {} => Newest(events) \in DOMAIN log
    BY <1>0, <1>1, NewestOf
<1>5. next \in Position
  <2> HIDE DEF batch
  <2> QED
    BY <1>0, <1>3, <1>4 DEF NextCursor, Position
<1>6. batch \in SUBSET (1..Len(History))
    BY <1>0, <1>1, <1>2
<1>7. Pulled(run, events, p, from, to)
        = [run EXCEPT !.step = "write", !.batch = batch, !.todo = batch, !.next = next,
                      !.early = early]
    BY DEF Pulled
<1>8. early \in SUBSET (1..Len(History))
    BY <1>6
<1> HIDE DEF batch, next, early
<1> QED
    BY <1>5, <1>6, <1>7, <1>8 DEF Run
----------------------------------------------------------------------------
(* What every step keeps while nothing is reorganised                        *)

Grows ==
    /\ head' \in Nat /\ head <= head'
    /\ log' \in Seq(Position) /\ DOMAIN log \subseteq DOMAIN log'
    /\ \A k \in DOMAIN log' :
          IF k \in DOMAIN log THEN log'[k] = log[k] ELSE log'[k].block > head
    /\ recorded \subseteq recorded'
    /\ NothingLost' => NothingLost
    /\ \A k \in DOMAIN log : NothingLost' /\ IsMilestone(k) /\ Handled(k) => Handled(k)'

\* What is behind a cursor stays dealt with: new events land past the head.
LEMMA PassedKept ==
    ASSUME Sound, Grows, NEW p \in Position, p.block <= head, AllPassed(p)
    PROVE  p.block <= head' /\ AllPassed(p)'
<1>1. p.block <= head'
    BY DEF Grows, Sound, Types, Position
<1>2. ASSUME NEW k \in DOMAIN log', Covered(k, p)' PROVE Passed(k)'
  <2>1. k \in DOMAIN log
    <3>1. ASSUME k \notin DOMAIN log PROVE FALSE
      <4>0. log'[k].block > head /\ log'[k] \in Position
        BY <1>2, <3>1 DEF Grows
      <4>1. log'[k].block > head /\ log'[k].block \in Nat
        BY <4>0 DEF Position
      <4>2. p.block < log'[k].block
        BY <4>1 DEF Sound, Types, Position
      <4> QED
        BY <1>2, <4>2 DEF Covered, Before
    <3> QED
      BY <3>1
  <2>2. log'[k] = log[k]
    BY <1>2, <2>1 DEF Grows
  <2>3. Covered(k, p)
    BY <1>2, <2>2 DEF Covered
  <2>4. Passed(k)
    BY <2>1, <2>3 DEF AllPassed
  <2> QED
    BY <2>1, <2>4 DEF Passed, Grows
<1> QED
    BY <1>1, <1>2 DEF AllPassed

\* What a cycle carries stays true of it.
LEMMA CarriedKept ==
    ASSUME Sound, Grows, NEW r \in Run, Carried(r)
    PROVE  Carried(r)'
<1>0. r.next \in Position /\ r.next.block \in Nat /\ head \in Nat /\ head' \in Nat
    BY DEF Run, Position, Sound, Types, Grows
<1>1. r.next.block <= head' /\ r.batch \ r.todo \subseteq recorded'
    BY <1>0 DEF Carried, Grows
<1>2. ASSUME NEW k \in DOMAIN log', Covered(k, r.next)'
      PROVE  Covered(k, r.cursor)' \/ k \in r.batch
  <2>1. k \in DOMAIN log
    <3>1. ASSUME k \notin DOMAIN log PROVE FALSE
      <4>0. log'[k].block > head /\ log'[k] \in Position
        BY <1>2, <3>1 DEF Grows
      <4>1. log'[k].block > head /\ log'[k].block \in Nat
        BY <4>0 DEF Position
      <4>2. r.next.block < log'[k].block
        BY <1>0, <4>1 DEF Carried
      <4> QED
        BY <1>2, <4>2 DEF Covered, Before
    <3> QED
      BY <3>1
  <2>2. log'[k] = log[k]
    BY <1>2, <2>1 DEF Grows
  <2> QED
    BY <1>2, <2>1, <2>2 DEF Covered, Carried
<1> QED
    BY <1>1, <1>2 DEF Carried

\* So what is known of a run stays known of it.
LEMMA RunKept ==
    ASSUME Sound, Grows, NEW r \in Run, RunSound(r)
    PROVE  RunSound(r)'
<1>1. r.cursor \in Position
    BY DEF Run
<1>2. r.cursor.block <= head' /\ AllPassed(r.cursor)'
    BY <1>1, PassedKept DEF RunSound
<1>3. Carried(r) => Carried(r)'
    BY CarriedKept
<1> QED
    BY <1>2, <1>3 DEF RunSound, Grows

\* No event is behind the cursor of a stream that has no row.
LEMMA NoCursorPasses ==
    ASSUME Types, Ordered
    PROVE  NoCursor \in Position /\ NoCursor.block <= head /\ AllPassed(NoCursor)
<1>1. \A k \in DOMAIN log : log[k].block \in Nat /\ 0 < log[k].block
    BY DEF Types, Ordered
<1> QED
    BY <1>1 DEF NoCursor, Position, AllPassed, Covered, Before, Types
----------------------------------------------------------------------------
(* A worker moves and the chain does not                                     *)

Moves(w, r) ==
    /\ runs' = [runs EXCEPT ![w] = r]
    /\ span' \in Spans /\ cursor' \in Position /\ UNCHANGED chain
    /\ recorded \subseteq recorded'
    /\ NothingLost' => NothingLost
    /\ \A k \in DOMAIN log : NothingLost' /\ IsMilestone(k) /\ Handled(k) => Handled(k)'

LEMMA MovesGrows ==
    ASSUME Sound, NEW w \in Workers, NEW r \in Run, Moves(w, r)
    PROVE  Grows /\ Types' /\ Ordered'
<1>1. Grows
    BY DEF Grows, Moves, chain, Sound, Types
<1>2. Types'
    BY DEF Sound, Types, Moves, chain
<1>3. Ordered'
    BY DEF Sound, Ordered, Moves, chain
<1> QED
    BY <1>1, <1>2, <1>3

\* A worker that sends nothing, or has nothing left to send, drops no milestone.
LEMMA MovesOf ==
    ASSUME Sound, NEW w \in Workers, NEW r \in Run, runs' = [runs EXCEPT ![w] = r],
           UNCHANGED chain, cursor' \in Position, span' \in Spans,
           recorded \subseteq recorded', sent \subseteq sent', NothingLost' => NothingLost,
           At(w, "dispatch") => runs[w].todo = {}
    PROVE  Moves(w, r)
<1>1. ASSUME NEW k, Handled(k) PROVE Handled(k)'
  <2>1. CASE k \in sent
    BY <2>1 DEF Handled
  <2>2. ASSUME NEW c \in Cycles, At(c, "dispatch"), k \in runs[c].todo PROVE Handled(k)'
    <3>1. c # w
      BY <2>2
    <3>2. runs'[c] = runs[c]
      BY <3>1 DEF Sound, Types, Workers
    <3> QED
      BY <2>2, <3>2 DEF Handled, At
  <2> QED
    BY <1>1, <2>1, <2>2 DEF Handled
<1> QED
    BY <1>1 DEF Moves

\* It is enough to look at the worker that moved, and at the row.
LEMMA OneMoves ==
    ASSUME Sound, NEW w \in Workers, NEW r \in Run, Moves(w, r),
           cursor' = cursor \/ (cursor'.block <= head' /\ AllPassed(cursor)'),
           w \in Cycles => RunSound(r) \/ RunSound(r)'
    PROVE  Sound'
<1>1. Grows /\ Ordered' /\ Types'
    BY MovesGrows
<1>2. cursor'.block <= head' /\ AllPassed(cursor)'
  <2>1. CASE cursor' = cursor
    <3>1. PICK p \in Position : p = cursor
      BY DEF Sound, Types
    <3>2. p.block <= head' /\ AllPassed(p)'
      BY <1>1, <3>1, PassedKept DEF Sound
    <3> QED
      BY <2>1, <3>1, <3>2 DEF AllPassed, Covered
  <2> QED
    BY <2>1
<1>3. ASSUME NEW c \in Cycles PROVE RunSound(runs[c])'
  <2>1. PICK s \in Run : s = runs'[c]
    BY <1>1 DEF Types, Workers
  <2>2. RunSound(s)'
    <3>1. CASE c = w
      <4>1. s = r
        BY <2>1, <3>1 DEF Moves, Sound, Types
      <4> QED
        BY <1>1, <3>1, <4>1, RunKept
    <3>2. CASE c # w
      <4>1. s = runs[c]
        BY <2>1, <3>2 DEF Moves, Sound, Types, Workers
      <4> QED
        BY <1>1, <4>1, RunKept DEF Sound
    <3> QED
      BY <3>1, <3>2
  <2> QED
    BY <2>1, <2>2 DEF RunSound, AllPassed, Covered, Carried
<1> QED
    BY <1>1, <1>2, <1>3 DEF Sound
----------------------------------------------------------------------------
(* Each step of a cycle or of the replay                                     *)

LEMMA SpendKeeps ==
    ASSUME spent \in [Spending -> Nat], NEW what \in Spending, Spend(what)
    PROVE  /\ spent' \in [Spending -> Nat] /\ spent'[what] # 0
           /\ NothingLost' => NothingLost
BY DEF Spend, Spending, NothingLost

LEMMA RecordStep ==
    ASSUME Sound, NEW w \in Workers, RecordEvent(w)
    PROVE  Sound'
<1>0. PICK q \in Run : q = runs[w] /\ q.step = "write"
    BY DEF Sound, Types, RecordEvent, At
<1> DEFINE r == [q EXCEPT !.step = "apply"]
<1>1. r \in Run /\ runs' = [runs EXCEPT ![w] = r]
    BY <1>0 DEF Run, RecordEvent, Goto
<1>2. Moves(w, r)
  <2>1. ~At(w, "dispatch")
    BY <1>0 DEF At
  <2> HIDE DEF r
  <2> QED
    BY <1>1, <2>1, MovesOf DEF RecordEvent, chain, NothingLost, Sound, Types
<1>3. Grows /\ cursor' = cursor /\ Oldest(q.todo) \in recorded'
    BY <1>0, <1>1, <1>2, MovesGrows DEF RecordEvent
<1>4. ASSUME w \in Cycles PROVE RunSound(r)'
  <2>1. RunSound(q)'
    BY <1>0, <1>3, <1>4, RunKept DEF Sound
  <2>2. Carried(q)' => Carried(r)'
    BY DEF Carried, Run
  <2> QED
    BY <1>0, <1>3, <2>1, <2>2 DEF RunSound, Run
<1> HIDE DEF r
<1> QED
    BY <1>1, <1>2, <1>3, <1>4, OneMoves

LEMMA ApplyStep ==
    ASSUME Sound, spent \in [Spending -> Nat], NEW w \in Workers, ApplyEvent(w)
    PROVE  Sound'
<1>0. PICK q \in Run : q = runs[w] /\ q.step = "apply"
    BY DEF Sound, Types, ApplyEvent, At
<1> DEFINE r == [q EXCEPT !.step = "write", !.todo = @ \ {Oldest(q.todo)}]
<1>1. r \in Run /\ runs' = [runs EXCEPT ![w] = r]
    BY <1>0 DEF Run, ApplyEvent
<1>2. NothingLost' => NothingLost
    BY SpendKeeps DEF ApplyEvent, Spending, NothingLost
<1>3. Moves(w, r)
  <2>1. ~At(w, "dispatch")
    BY <1>0 DEF At
  <2> HIDE DEF r
  <2> QED
    BY <1>1, <1>2, <2>1, MovesOf DEF ApplyEvent, chain, Sound, Types
<1>4. ASSUME w \in Cycles PROVE RunSound(r)
    BY <1>0, <1>4 DEF Sound, RunSound, Carried, Run
<1> HIDE DEF r
<1> QED
    BY <1>1, <1>3, <1>4, OneMoves DEF ApplyEvent

\* Starting, reading the row, deciding to advance and finishing change nothing
\* but the run.
LEMMA QuietStep ==
    ASSUME Sound, NEW w \in Workers, NEW r \in Run, runs' = [runs EXCEPT ![w] = r],
           UNCHANGED <<chain, store, span, spent>>,
           At(w, "dispatch") => runs[w].todo = {},
           w \in Cycles => RunSound(r)
    PROVE  Sound'
<1>1. Moves(w, r)
    BY MovesOf DEF store, Sound, Types, NothingLost
<1> QED
    BY <1>1, OneMoves DEF store

LEMMA IdleSound ==
    ASSUME Sound
    PROVE  Idle \in Run /\ RunSound(Idle)
<1>1. Idle \in Run
    BY NoCursorPasses DEF Sound, Idle, Run
<1> QED
    BY <1>1, NoCursorPasses DEF Sound, Idle, RunSound

LEMMA CycleStep ==
    ASSUME KnowsStart, Sound, NEW c \in Cycles,
           StartCycle(c) \/ ReadCursor(c) \/ PullLive(c) \/ BatchWritten(c)
              \/ CheckAdvance(c) \/ FinishCycle(c)
    PROVE  Sound'
<1>0. PICK q \in Run : q = runs[c] /\ c \in Workers /\ RunSound(q)
    BY DEF Sound, Types, Workers
<1>1. CASE StartCycle(c)
  <2> DEFINE r == [q EXCEPT !.step = "read"]
  <2>1. r \in Run /\ runs' = [runs EXCEPT ![c] = r] /\ RunSound(r)
    BY <1>0, <1>1 DEF StartCycle, Goto, Run, RunSound
  <2> HIDE DEF r
  <2> QED
    BY <1>0, <1>1, <2>1, QuietStep DEF StartCycle, At
<1>2. CASE ReadCursor(c)
  <2> DEFINE r == [q EXCEPT !.step = "pull", !.cursor = cursor]
  <2>1. r \in Run /\ runs' = [runs EXCEPT ![c] = r] /\ RunSound(r)
    BY <1>0, <1>2 DEF ReadCursor, Run, RunSound, Sound, Types
  <2> HIDE DEF r
  <2> QED
    BY <1>0, <1>2, <2>1, QuietStep DEF ReadCursor, At
<1>3. CASE PullLive(c)
  <2>1. PICK to \in 1..head : \E from \in FromBlocks(to) :
            runs' = [runs EXCEPT ![c] = Pulled(@, LogsIn(from, to), @.cursor, 0, to)]
    BY <1>3 DEF PullLive
  <2>2. FromBlocks(to) = {0}
    BY DEF FromBlocks
  <2> DEFINE r == Pulled(runs[c], LogsIn(0, to), runs[c].cursor, 0, to)
  <2>3. runs' = [runs EXCEPT ![c] = r]
    BY <2>1, <2>2
  <2>4. r \in Run /\ r.cursor = q.cursor /\ r.step = "write" /\ Carried(r)
    BY <1>0, <1>3, PullCarries DEF PullLive
  <2> HIDE DEF r
  <2>5. RunSound(r)
    BY <1>0, <2>4 DEF RunSound
  <2>6. PICK s \in Run : s = r
    BY <2>4
  <2> QED
    BY <1>0, <1>3, <2>3, <2>5, <2>6, QuietStep DEF PullLive, At
<1>4. CASE BatchWritten(c)
  <2> DEFINE r == IF Before(q.cursor, q.next)
                  THEN [q EXCEPT !.step = "advance"]
                  ELSE [q EXCEPT !.step = "dispatch", !.todo = MilestonesOf(q.batch)]
  <2>1. MilestonesOf(q.batch) \in SUBSET (1..Len(History))
    BY DEF MilestonesOf, Run
  <2>2. r \in Run /\ runs' = [runs EXCEPT ![c] = r]
    BY <1>0, <1>4, <2>1 DEF BatchWritten, Run
  <2>3. RunSound(r)
    BY <1>0, <1>4 DEF BatchWritten, At, RunSound, Carried, Run
  <2> HIDE DEF r
  <2> QED
    BY <1>0, <1>4, <2>2, <2>3, QuietStep DEF BatchWritten, At
<1>5. CASE CheckAdvance(c)
  <2>1. CASE Stop(c)
    BY <1>0, <1>5, <2>1, IdleSound, QuietStep DEF CheckAdvance, At, Stop
  <2>2. ASSUME NEW step \in {"insert", "update"}, Goto(c, step) PROVE Sound'
    <3> DEFINE r == [q EXCEPT !.step = step]
    <3>1. r \in Run /\ runs' = [runs EXCEPT ![c] = r]
      BY <1>0, <2>2 DEF Goto, Run
    <3>2. RunSound(r)
      BY <1>0, <1>5, <2>2 DEF CheckAdvance, At, RunSound, Carried, Run
    <3> HIDE DEF r
    <3> QED
      BY <1>0, <1>5, <3>1, <3>2, QuietStep DEF CheckAdvance, At
  <2> QED
    BY <1>5, <2>1, <2>2 DEF CheckAdvance
<1>6. CASE FinishCycle(c)
    BY <1>0, <1>6, IdleSound, QuietStep DEF FinishCycle, Stop
<1> QED
    BY <1>1, <1>2, <1>3, <1>4, <1>5, <1>6

\* The cursor moves to where the cycle meant to put it, however old that is.
LEMMA WriteStep ==
    ASSUME Sound, NEW c \in Cycles, WriteCursor(c)
    PROVE  Sound'
<1>0. PICK q \in Run : /\ q = runs[c] /\ c \in Workers /\ RunSound(q)
                       /\ q.step \in {"insert", "update"}
    BY DEF Sound, Types, Workers, WriteCursor, At
<1>1. CASE Stop(c) /\ UNCHANGED cursor
  <2>1. Idle \in Run /\ RunSound(Idle)
    BY IdleSound
  <2>2. Moves(c, Idle)
    BY <1>0, <1>1, <2>1, MovesOf
       DEF WriteCursor, Stop, At, chain, Sound, Types, NothingLost
  <2> QED
    BY <1>0, <1>1, <2>1, <2>2, OneMoves
<1>2. CASE Advanced(c)
  <2> DEFINE r == [q EXCEPT !.step = "dispatch", !.todo = MilestonesOf(q.batch)]
  <2>1. MilestonesOf(q.batch) \in SUBSET (1..Len(History))
    BY DEF MilestonesOf, Run
  <2>2. r \in Run /\ runs' = [runs EXCEPT ![c] = r]
    BY <1>0, <1>2, <2>1 DEF Advanced, Run
  <2>3. RunSound(r)
    BY <1>0 DEF RunSound, Run
  <2>4. cursor' = q.next /\ q.next \in Position
    BY <1>0, <1>2 DEF Advanced, Run
  <2>5. Moves(c, r)
    <3>1. ~At(c, "dispatch")
      BY <1>0 DEF At
    <3> HIDE DEF r
    <3> QED
      BY <1>0, <2>2, <2>4, <3>1, MovesOf DEF WriteCursor, chain, NothingLost, Sound, Types
  <2>6. ASSUME NEW k \in DOMAIN log, Covered(k, q.next) PROVE Passed(k)'
    <3>1. Carried(q) /\ q.batch \subseteq recorded /\ AllPassed(q.cursor)
      BY <1>0 DEF RunSound
    <3>2. CASE Covered(k, q.cursor)
      <4>1. Passed(k)
        BY <3>1, <3>2 DEF AllPassed
      <4> QED
        BY <2>5, <4>1 DEF Passed, Moves
    <3>3. CASE k \in q.batch
      <4>1. k \in recorded'
        BY <3>1, <3>3 DEF WriteCursor
      <4>2. IsMilestone(k) => Handled(k)'
        <5>1. runs'[c].step = "dispatch" /\ runs'[c].todo = MilestonesOf(q.batch)
          BY <1>0, <2>2 DEF Sound, Types, Run
        <5> QED
          BY <3>3, <5>1 DEF Handled, At, MilestonesOf
      <4> QED
        BY <4>1, <4>2 DEF Passed
    <3> QED
      BY <2>6, <3>1, <3>2, <3>3 DEF Carried
  <2>7. cursor'.block <= head' /\ AllPassed(cursor)'
    <3>1. head' = head /\ log' = log /\ q.next.block <= head
      BY <1>0, <2>5 DEF Moves, chain, RunSound, Carried
    <3> QED
      BY <2>4, <2>6, <3>1 DEF AllPassed, Covered
  <2> HIDE DEF r
  <2> QED
    BY <1>0, <2>2, <2>3, <2>5, <2>7, OneMoves
<1> QED
    BY <1>1, <1>2 DEF WriteCursor

LEMMA DispatchStep ==
    ASSUME Sound, spent \in [Spending -> Nat], NEW c \in Cycles, DispatchMilestone(c)
    PROVE  Sound'
<1>0. PICK q \in Run : q = runs[c] /\ c \in Workers /\ RunSound(q) /\ q.step = "dispatch"
    BY DEF Sound, Types, Workers, DispatchMilestone, At
<1> DEFINE first == Oldest(q.todo)
           r == [q EXCEPT !.todo = @ \ {first}]
<1>1. r \in Run /\ runs' = [runs EXCEPT ![c] = r] /\ RunSound(r)
    BY <1>0 DEF DispatchMilestone, Run, RunSound
<1>2. NothingLost' => NothingLost /\ sent' = sent \cup {first}
    BY <1>0, SpendKeeps DEF DispatchMilestone, Spending, NothingLost
<1>3. ASSUME NEW k, NothingLost', Handled(k) PROVE Handled(k)'
  <2>1. CASE k \in sent'
    BY <2>1 DEF Handled
  <2>2. CASE k \notin sent'
    <3>1. k \notin sent /\ k # first
      BY <1>2, <1>3, <2>2
    <3>2. PICK d \in Cycles : At(d, "dispatch") /\ k \in runs[d].todo
      BY <1>3, <3>1 DEF Handled
    <3>3. runs'[d].step = "dispatch" /\ k \in runs'[d].todo
      BY <1>0, <1>1, <3>1, <3>2 DEF At, Sound, Types, Workers, Run
    <3> QED
      BY <3>3 DEF Handled, At
  <2> QED
    BY <2>1, <2>2
<1>4. Moves(c, r)
  <2> HIDE DEF r
  <2> QED
    BY <1>1, <1>2, <1>3 DEF Moves, DispatchMilestone, chain, Sound, Types
<1> HIDE DEF r
<1> QED
    BY <1>0, <1>1, <1>4, OneMoves DEF DispatchMilestone
----------------------------------------------------------------------------
(* The replay writes the same tables but never the row                       *)

LEMMA ReplayStep ==
    ASSUME KnowsStart, Sound, BeginReplay \/ PullReplay \/ ReplayWritten \/ ReportReplay
    PROVE  Sound'
<1>0. PICK q \in Run : q = runs[Replay] /\ Replay \in Workers /\ Replay \notin Cycles
    BY ReplayIsNoCycle DEF Sound, Types, Workers
<1>1. /\ runs[Replay].step # "dispatch"
      /\ UNCHANGED <<chain, cursor, recorded, sent>>
      /\ NothingLost' => NothingLost
    BY DEF BeginReplay, PullReplay, ReplayWritten, ReportReplay, At, store, NothingLost
<1>2. PICK r \in Run : runs' = [runs EXCEPT ![Replay] = r]
  <2>1. CASE BeginReplay
    <3> DEFINE s == [q EXCEPT !.step = "pull", !.cursor = [block |-> span.from, index |-> 0]]
    <3>1. s \in Run
      BY DEF Sound, Types, Spans, Run, Position
    <3>2. runs' = [runs EXCEPT ![Replay] = s]
      BY <1>0, <2>1 DEF BeginReplay
    <3> QED
      BY <3>1, <3>2
  <2>2. CASE PullReplay
    <3>1. PICK from \in FromBlocks(span.to) :
            runs' = [runs EXCEPT ![Replay] =
                     Pulled(@, LogsIn(from, span.to),
                            IF span.first THEN NoCursor ELSE @.cursor,
                            IF span.first THEN span.from ELSE 0, span.to)]
      BY <2>2 DEF PullReplay
    <3> DEFINE p == IF span.first THEN NoCursor ELSE q.cursor
               start == IF span.first THEN span.from ELSE 0
               s == Pulled(q, LogsIn(from, span.to), p, start, span.to)
    <3>2. runs' = [runs EXCEPT ![Replay] = s]
      BY <1>0, <3>1
    <3>3. p \in Position /\ start \in Nat /\ span.to \in Nat
      BY NoCursorPasses DEF Sound, Types, Spans, Run
    <3>4. LogsIn(from, span.to) \in SUBSET (DOMAIN log)
      BY DEF LogsIn
    <3>5. s \in Run
      BY <3>3, <3>4, PulledType DEF Sound
    <3> QED
      BY <3>2, <3>5
  <2>3. CASE ReplayWritten
    <3> DEFINE s == IF ReachedEnd(q) \/ q.cursor = q.next
                    THEN [q EXCEPT !.step = "report"]
                    ELSE [q EXCEPT !.step = "pull", !.cursor = q.next]
    <3>1. s \in Run
      BY DEF Run
    <3>2. runs' = [runs EXCEPT ![Replay] = s]
      BY <1>0, <2>3 DEF ReplayWritten
    <3> QED
      BY <3>1, <3>2
  <2>4. CASE ReportReplay
    BY <2>4, IdleSound DEF ReportReplay, Stop
  <2> QED
    BY <2>1, <2>2, <2>3, <2>4
<1>3. span' \in Spans
  <2>1. span \in Spans /\ q.batch \in SUBSET (1..Len(History))
    BY DEF Sound, Types, Run
  <2>2. CASE ReplayWritten
    <3>1. span' = [span EXCEPT !.seen = @ \cup q.batch, !.first = FALSE]
      BY <1>0, <2>2 DEF ReplayWritten
    <3> QED
      BY <2>1, <3>1 DEF Spans
  <2> QED
    BY <2>1, <2>2 DEF BeginReplay, PullReplay, ReportReplay
<1>4. Moves(Replay, r)
    BY <1>0, <1>1, <1>2, <1>3, MovesOf DEF At, Sound, Types
<1> QED
    BY <1>0, <1>1, <1>4, OneMoves

LEMMA RequestStep ==
    ASSUME Sound, spent \in [Spending -> Nat], NEW from \in Nat, NEW to \in Nat,
           RequestReplay(from, to)
    PROVE  Sound'
<1>0. PICK q \in Run : q = runs[Replay] /\ Replay \in Workers /\ Replay \notin Cycles
    BY ReplayIsNoCycle DEF Sound, Types, Workers
<1> DEFINE r == [q EXCEPT !.step = "request"]
<1>1. r \in Run /\ runs' = [runs EXCEPT ![Replay] = r]
    BY <1>0 DEF RequestReplay, Goto, Run
<1>2. span' \in Spans
    BY DEF RequestReplay, Spans
<1>3. NothingLost' => NothingLost
    BY SpendKeeps DEF RequestReplay, Spending
<1> HIDE DEF r
<1>4. Moves(Replay, r)
    BY <1>0, <1>1, <1>2, <1>3, MovesOf DEF RequestReplay, At, store, Sound, Types
<1> QED
    BY <1>0, <1>1, <1>4, OneMoves DEF RequestReplay, store
----------------------------------------------------------------------------
(* Faults, and the chain                                                     *)

LEMMA FailStep ==
    ASSUME Sound, spent \in [Spending -> Nat], NEW w \in Workers, Fail(w)
    PROVE  Sound'
<1>1. Idle \in Run /\ RunSound(Idle) /\ runs' = [runs EXCEPT ![w] = Idle]
    BY IdleSound DEF Fail, Stop
<1>2. NothingLost' => NothingLost
    BY SpendKeeps DEF Fail, Spending
<1>3. Moves(w, Idle)
    BY <1>1, <1>2, MovesOf DEF Fail, At, store, Sound, Types
<1> QED
    BY <1>1, <1>3, OneMoves DEF Fail, store

\* A restart forgets the cycles; what they had not sent is lost, and known to be.
LEMMA CrashStep ==
    ASSUME Sound, spent \in [Spending -> Nat], Crash
    PROVE  Sound'
<1>1. ~NothingLost'
    BY SpendKeeps DEF Crash, Spending, NothingLost
<1>2. Types' /\ Grows
    BY <1>1, IdleSound DEF Crash, store, chain, Sound, Types, Grows, Ordered
<1>3. Ordered'
    BY DEF Crash, chain, Sound, Ordered
<1>4. cursor'.block <= head' /\ AllPassed(cursor)'
  <2>1. PICK p \in Position : p = cursor /\ p.block <= head /\ AllPassed(p)
    BY DEF Sound, Types
  <2>2. p.block <= head' /\ AllPassed(p)'
    BY <1>2, <2>1, PassedKept
  <2> QED
    BY <2>1, <2>2 DEF Crash, store, AllPassed, Covered
<1>5. \A c \in Cycles : RunSound(runs[c])'
  <2>1. RunSound(Idle)'
    BY <1>2, IdleSound, RunKept
  <2>2. \A c \in Cycles : runs'[c] = Idle
    BY DEF Crash, Workers
  <2> QED
    BY <2>1, <2>2 DEF RunSound, AllPassed, Covered, Carried
<1> QED
    BY <1>2, <1>3, <1>4, <1>5 DEF Sound

\* The cycles and the row stay, and the chain grows or does not.
LEMMA AroundStep ==
    ASSUME Sound, Types', Ordered', Grows, UNCHANGED <<cursor, runs>>
    PROVE  Sound'
<1>1. cursor'.block <= head' /\ AllPassed(cursor)'
  <2>1. PICK p \in Position : p = cursor /\ p.block <= head /\ AllPassed(p)
    BY DEF Sound, Types
  <2>2. p.block <= head' /\ AllPassed(p)'
    BY <2>1, PassedKept
  <2> QED
    BY <2>1, <2>2 DEF AllPassed, Covered
<1>2. ASSUME NEW c \in Cycles PROVE RunSound(runs[c])'
  <2>1. PICK q \in Run : q = runs[c] /\ RunSound(q)
    BY DEF Sound, Types, Workers
  <2>2. RunSound(q)'
    BY <2>1, RunKept
  <2> QED
    BY <2>1, <2>2 DEF RunSound, AllPassed, Covered, Carried
<1> QED
    BY <1>1, <1>2 DEF Sound

LEMMA ReloadStep ==
    ASSUME Sound, spent \in [Spending -> Nat], Reload
    PROVE  Sound'
<1>1. NothingLost' => NothingLost
    BY SpendKeeps DEF Reload, Spending, NothingLost
<1>2. Types' /\ Ordered' /\ Grows
    BY <1>1 DEF Reload, chain, store, Sound, Types, Ordered, Grows, Handled, At
<1> QED
    BY <1>2, AroundStep DEF Reload, store

\* New events land past the head, in order.
LEMMA MineGrows ==
    ASSUME Sound, NEW n \in Nat, NEW gap \in Nat, Mine(n, gap)
    PROVE  Grows /\ Types' /\ Ordered'
<1> DEFINE new == [i \in 1..n |-> [block |-> head + 1, index |-> gap + i - 1]]
<1>0. head \in Nat \ {0} /\ log \in Seq(Position) /\ Len(log) \in Nat
    BY DEF Sound, Types
<1>1. \A i \in 1..n : [block |-> head + 1, index |-> gap + i - 1] \in Position
    BY <1>0 DEF Position
<1>2. new \in Seq(Position) /\ Len(new) = n
    BY <1>1
<1>3. log' = log \o new /\ head' = head + 1 /\ Len(log) + n <= Len(History)
    BY DEF Mine
<1>4. log' \in Seq(Position) /\ Len(log') = Len(log) + n
  <2> HIDE DEF new
  <2>1. log' = log \o new
    BY <1>3
  <2> QED
    BY <1>0, <1>2, <2>1, ConcatProperties
<1>4a. DOMAIN log' = 1..(Len(log) + n) /\ DOMAIN log = 1..Len(log)
    BY <1>0, <1>4
<1>4b. ASSUME NEW k \in DOMAIN log' PROVE log'[k] = IF k <= Len(log) THEN log[k] ELSE new[k - Len(log)]
  <2> HIDE DEF new
  <2> QED
    BY <1>0, <1>2, <1>3, <1>4a
<1>5. \A k \in DOMAIN log' \ DOMAIN log :
         /\ log'[k].block = head + 1
         /\ log'[k].index = gap + k - Len(log) - 1
  <2>1. ASSUME NEW k \in DOMAIN log' \ DOMAIN log
        PROVE  log'[k] = [block |-> head + 1, index |-> gap + (k - Len(log)) - 1]
    <3>1. k - Len(log) \in 1..n /\ ~(k <= Len(log))
      BY <1>0, <1>4a
    <3> QED
      BY <1>4b, <3>1
  <2> QED
    BY <1>0, <1>4a, <2>1
<1>5a. ASSUME NEW k \in DOMAIN log PROVE log'[k] = log[k]
  <2>1. k \in DOMAIN log' /\ k <= Len(log)
    BY <1>0, <1>4a
  <2> QED
    BY <1>4b, <2>1
<1>6. Types'
  <2>1. head' \in Nat \ {0} /\ Len(log') <= Len(History)
    BY <1>0, <1>3, <1>4
  <2> QED
    BY <1>4, <2>1 DEF Mine, store, Sound, Types
<1>7. Grows
  <2>1. head' \in Nat /\ head <= head' /\ DOMAIN log \subseteq DOMAIN log'
    BY <1>0, <1>3, <1>4a
  <2>2. \A k \in DOMAIN log' \ DOMAIN log : log'[k].block > head
    BY <1>0, <1>5
  <2> QED
    BY <1>4, <1>5a, <2>1, <2>2 DEF Mine, store, Grows, NothingLost, Handled, At
<1>8. Ordered'
  <2>1. \A k \in DOMAIN log : log[k].block \in 1..head
    BY DEF Sound, Ordered
  <2>2. \A k \in DOMAIN log' : log'[k].block \in 1..head'
    BY <1>0, <1>3, <1>4a, <1>5, <1>5a, <2>1
  <2>3. ASSUME NEW i \in DOMAIN log', NEW j \in DOMAIN log', i < j
        PROVE  Before(log'[i], log'[j])
    <3>1. CASE j \in DOMAIN log
      <4>1. i \in DOMAIN log
        BY <1>0, <1>4a, <2>3, <3>1
      <4> QED
        BY <1>5a, <2>3, <3>1, <4>1 DEF Sound, Ordered
    <3>2. CASE j \notin DOMAIN log /\ i \in DOMAIN log
      <4>1. log'[i].block <= head /\ log'[i].block \in Nat /\ log'[j].block = head + 1
        BY <1>4a, <1>5, <1>5a, <2>1, <3>2
      <4> QED
        BY <1>0, <4>1 DEF Before
    <3>3. CASE j \notin DOMAIN log /\ i \notin DOMAIN log
      <4>1. /\ log'[i].block = log'[j].block
            /\ log'[i].index = gap + i - Len(log) - 1
            /\ log'[j].index = gap + j - Len(log) - 1
        BY <1>5, <2>3, <3>3
      <4>2. i \in Nat /\ j \in Nat
        BY <1>0, <1>4a
      <4> QED
        BY <1>0, <2>3, <4>1, <4>2 DEF Before
    <3> QED
      BY <3>1, <3>2, <3>3
  <2> QED
    BY <2>2, <2>3 DEF Ordered, Before
<1> QED
    BY <1>6, <1>7, <1>8

LEMMA MineStep ==
    ASSUME Sound, NEW n \in Nat, NEW gap \in Nat, Mine(n, gap)
    PROVE  Sound'
BY MineGrows, AroundStep DEF Mine, store
----------------------------------------------------------------------------
(* The theorem                                                               *)

\* What was spent stays spent.
LEMMA SpentStep ==
    ASSUME spent \in [Spending -> Nat], [Next]_vars
    PROVE  /\ spent' \in [Spending -> Nat]
           /\ \A what \in Spending : spent'[what] = 0 => spent[what] = 0
<1>1. CASE UNCHANGED spent
    BY <1>1
<1>2. ASSUME NEW what \in Spending, Spend(what)
      PROVE  /\ spent' \in [Spending -> Nat]
             /\ \A other \in Spending : spent'[other] = 0 => spent[other] = 0
    BY <1>2 DEF Spend
<1>3. UNCHANGED spent \/ \E what \in Spending : Spend(what)
  <2>1. CASE UNCHANGED vars
    BY <2>1 DEF vars
  <2>2. CASE Reload \/ Crash \/ Reorg \/ Replaying
    BY <2>2 DEF Reload, Crash, Reorg, Replaying, BeginReplay, PullReplay, ReplayWritten,
                ReportReplay, Spending
  <2>3. ASSUME NEW c \in Cycles, Live(c) PROVE UNCHANGED spent \/ Spend("send")
    BY <2>3 DEF Live, StartCycle, ReadCursor, PullLive, BatchWritten, CheckAdvance,
                WriteCursor, DispatchMilestone, FinishCycle
  <2>4. ASSUME NEW w \in Workers, Write(w) \/ Fail(w)
        PROVE  UNCHANGED spent \/ Spend("domain") \/ Spend("fault")
    BY <2>4 DEF Write, RecordEvent, ApplyEvent, Fail
  <2>5. ASSUME NEW n, NEW gap, Mine(n, gap) PROVE UNCHANGED spent
    BY <2>5 DEF Mine
  <2>6. ASSUME NEW from, NEW to, RequestReplay(from, to) PROVE Spend("replay")
    BY <2>6 DEF RequestReplay
  <2> QED
    BY <2>1, <2>2, <2>3, <2>4, <2>5, <2>6 DEF Next, Step, Spending
<1> QED
    BY <1>1, <1>2, <1>3

LEMMA InitSound ==
    ASSUME Init
    PROVE  Inv
<1>1. spent \in [Spending -> Nat]
    BY DEF Init
<1>2. Types /\ Ordered
  <2>1. Idle \in Run
    BY DEF Idle, Run, NoCursor, Position
  <2> QED
    BY <2>1, ConstantsAssumption DEF Init, Types, Ordered, NoCursor, Position, Spans
<1>3. cursor.block <= head /\ AllPassed(cursor)
    BY <1>2, NoCursorPasses DEF Init
<1>4. \A c \in Cycles : runs[c] = Idle
    BY DEF Init, Workers
<1>5. RunSound(Idle)
    BY <1>2, NoCursorPasses DEF RunSound, Idle
<1> QED
    BY <1>1, <1>2, <1>3, <1>4, <1>5 DEF Inv, Sound

LEMMA StepSound ==
    ASSUME KnowsStart, Inv, [Next]_vars
    PROVE  Inv'
<1>1. spent \in [Spending -> Nat] /\ spent' \in [Spending -> Nat]
    BY SpentStep DEF Inv
<1> SUFFICES ASSUME spent'["reorg"] = 0 PROVE Sound'
    BY <1>1 DEF Inv
<1>2. Sound
    BY SpentStep DEF Inv, Spending
<1>3. CASE UNCHANGED vars
  <2>1. Grows /\ Types' /\ Ordered'
    BY <1>2, <1>3 DEF vars, Sound, Types, Ordered, Grows, NothingLost, Handled, At
  <2> QED
    BY <1>2, <1>3, <2>1, AroundStep DEF vars
<1>4. CASE Next
  <2>1. ASSUME NEW n \in 0..MaxPerBlock, NEW gap \in Gaps, Mine(n, gap) PROVE Sound'
    <3>1. n \in Nat /\ gap \in Nat
      BY ConstantsAssumption
    <3> QED
      BY <1>2, <2>1, <3>1, MineStep
  <2>2. CASE Reorg
    BY <1>1, <2>2, SpendKeeps DEF Reorg, Spending
  <2>3. CASE Reload
    BY <1>1, <1>2, <2>3, ReloadStep
  <2>4. ASSUME NEW c \in Cycles, Live(c) PROVE Sound'
    BY <1>1, <1>2, <2>4, CycleStep, WriteStep, DispatchStep DEF Live
  <2>5. ASSUME NEW from \in 1..MaxBlocks, NEW to \in 1..MaxBlocks, RequestReplay(from, to)
        PROVE  Sound'
    <3>1. from \in Nat /\ to \in Nat
      BY ConstantsAssumption
    <3> QED
      BY <1>1, <1>2, <2>5, <3>1, RequestStep
  <2>6. CASE Replaying
    BY <1>2, <2>6, ReplayStep DEF Replaying
  <2>7. ASSUME NEW w \in Workers, Write(w) \/ Fail(w) PROVE Sound'
    BY <1>1, <1>2, <2>7, RecordStep, ApplyStep, FailStep DEF Write
  <2>8. CASE Crash
    BY <1>1, <1>2, <2>8, CrashStep
  <2> QED
    BY <1>4, <2>1, <2>2, <2>3, <2>4, <2>5, <2>6, <2>7, <2>8 DEF Next, Step
<1> QED
    BY <1>3, <1>4

\* Whatever overlaps, fails or is restarted, and for any number of cycles, any
\* history, batch limit and lag: an event at or before the row of
\* ingestion_cursors is in ingestion_events, and its milestone is sent or in the
\* hands of a cycle that sends it, while no restart or failed send lost one.
\* The stream's start block is known, and no block has been reorganised: past
\* the first log found in the look-back, or where a block was mined again, an
\* event may stand behind the cursor that no pull has seen.
THEOREM NothingIsPassedOver ==
    ASSUME KnowsStart
    PROVE  Spec => [](spent["reorg"] = 0 => NothingPassedOver)
<1>1. Init => Inv
    BY InitSound
<1>2. Inv /\ [Next]_vars => Inv'
    BY StepSound
<1>3. Inv => (spent["reorg"] = 0 => NothingPassedOver)
    BY DEF Inv, Sound, AllPassed, Passed, NothingLost, Handled, NothingPassedOver,
           CursorCovers, MilestonesSent
<1> QED
    BY <1>1, <1>2, <1>3, PTL DEF Spec
----------------------------------------------------------------------------
(* The phase of the contest's row                                            *)

\* What the row is to show of the events at or before a cursor.
Shown(k) == ~SealedEarly(k) => Rank(phase) >= Rank(History[k])

PhaseUpTo(p) == \A k \in DOMAIN log : Covered(k, p) => Shown(k)

Unsettled == {"write", "apply", "advance", "insert", "update"}

\* The lone cycle works on what lies behind the row's cursor, in order: what it
\* has written of its batch comes before what it has not, and the phase shows it.
PhaseRun(r) ==
    /\ r.step \in Unsettled \cup {"pull"} => r.cursor = cursor
    /\ r.step \in Unsettled =>
          /\ r.todo \subseteq r.batch /\ r.batch \subseteq DOMAIN log
          /\ \A k \in r.batch : ~Covered(k, r.cursor)
          /\ \A i \in r.batch \ r.todo, j \in r.todo : i < j
          /\ \A i \in r.batch \ r.todo : Shown(i)
          /\ r.early = {k \in r.batch : SealedEarly(k)}
    /\ r.step = "apply" => r.todo # {}
    /\ r.step \in {"advance", "insert", "update"} => r.todo = {}

PhaseSound ==
    /\ runs[Replay].step = "idle"
    /\ PhaseUpTo(cursor)
    /\ \A c \in Cycles : PhaseRun(runs[c])

Undisturbed == \A what \in {"replay", "domain", "reorg"} : spent[what] = 0

PhaseInv ==
    /\ phase \in Kinds
    /\ Undisturbed => PhaseSound

\* The contest freezes before it is sealed (Contest.tla), and so do its events.
InOrder ==
    \A i, j \in DOMAIN History :
        (i < j /\ IsMilestone(i) /\ IsMilestone(j)) => Rank(History[i]) <= Rank(History[j])

LoneCycle == \A c, d \in Cycles : c = d

LEMMA RankOf ==
    ASSUME NEW p \in Kinds
    PROVE  Rank(p) \in 0..2 /\ (p = "registration" => Rank(p) = 0)
BY DEF Rank, Kinds

LEMMA KindOf ==
    ASSUME NEW k \in DOMAIN History
    PROVE  History[k] \in Kinds /\ Rank(History[k]) \in 0..2
<1>1. History[k] \in Kinds
    BY ConstantsAssumption
<1> QED
    BY <1>1, RankOf

\* An event the cursor covers comes before one it does not.
LEMMA CoveredFirst ==
    ASSUME Types, Ordered, NEW p \in Position, NEW i \in DOMAIN log, NEW k \in DOMAIN log,
           Covered(i, p), ~Covered(k, p)
    PROVE  i < k
<1>0. /\ DOMAIN log = 1..Len(log) /\ Len(log) \in Nat
      /\ log[i] \in Position /\ log[k] \in Position
    BY DEF Types
<1>1. CASE i = k
    BY <1>1
<1>2. CASE k < i
  <2>1. Before(log[k], log[i])
    BY <1>2 DEF Ordered
  <2>2. /\ p.block \in Nat /\ p.index \in Nat
        /\ log[i].block \in Nat /\ log[i].index \in Nat
        /\ log[k].block \in Nat /\ log[k].index \in Nat
    BY <1>0 DEF Position
  <2>3. Before(p, log[k]) /\ ~Before(p, log[i])
    BY DEF Covered
  <2> QED
    BY <2>1, <2>2, <2>3 DEF Before
<1> QED
    BY <1>0, <1>1, <1>2

\* What a pull brings lies behind the cursor it was asked from.
LEMMA PullAhead ==
    ASSUME Types, NEW q \in Run, NEW to \in Nat
    PROVE  LET r == Pulled(q, LogsIn(0, to), q.cursor, 0, to)
           IN  /\ r.todo = r.batch /\ r.batch \subseteq DOMAIN log
               /\ \A k \in r.batch : ~Covered(k, q.cursor)
               /\ r.early = {k \in r.batch : SealedEarly(k)}
<1> DEFINE events == LogsIn(0, to)
           filtered == {k \in events : IsAfterCursor(k, q.cursor) /\ log[k].block >= 0}
           batch == Limited(filtered)
           next == NextCursor(events, filtered, batch, q.cursor, to)
           early == {k \in batch : SealedEarly(k)}
           r == Pulled(q, events, q.cursor, 0, to)
<1>1. r = [q EXCEPT !.step = "write", !.batch = batch, !.todo = batch, !.next = next,
                   !.early = early]
    BY DEF Pulled
<1>2. filtered \in SUBSET (1..Len(log)) /\ Len(log) \in Nat /\ DOMAIN log = 1..Len(log)
    BY DEF Types, LogsIn
<1>3. batch \in SUBSET filtered
    BY <1>2, LimitedPrefix
<1>4. \A k \in batch : ~Covered(k, q.cursor)
    BY <1>3 DEF IsAfterCursor, Covered
<1>5. PICK e : e = early
    OBVIOUS
<1>6. r.batch = batch /\ r.todo = batch /\ r.early = e
  <2> HIDE DEF batch, next, early
  <2> QED
    BY <1>1, <1>5 DEF Run
<1>7. r.early = {k \in r.batch : SealedEarly(k)}
    BY <1>5, <1>6
<1> HIDE DEF batch, next, early
<1> QED
    BY <1>2, <1>3, <1>4, <1>6, <1>7

\* Only the lone cycle moves.
LEMMA LoneMoves ==
    ASSUME LoneCycle, Sound, NEW c \in Cycles, NEW r \in Run, runs' = [runs EXCEPT ![c] = r],
           runs[Replay].step = "idle", PhaseUpTo(cursor)', PhaseRun(r)'
    PROVE  PhaseSound'
<1>1. runs'[Replay] = runs[Replay]
    BY ReplayIsNoCycle DEF Sound, Types, Workers
<1>2. \A d \in Cycles : runs'[d] = r
    BY DEF LoneCycle, Sound, Types, Workers
<1>3. \A d \in Cycles : PhaseRun(runs[d])'
    BY <1>2 DEF PhaseRun
<1> QED
    BY <1>1, <1>3 DEF PhaseSound

\* It moves and neither the chain nor the contest's row nor the cursor does.
LEMMA LoneQuiet ==
    ASSUME LoneCycle, Sound, PhaseSound, NEW c \in Cycles, NEW r \in Run,
           runs' = [runs EXCEPT ![c] = r], UNCHANGED <<log, cursor, phase>>, PhaseRun(r)
    PROVE  PhaseSound'
<1>1. PhaseUpTo(cursor)'
    BY DEF PhaseSound, PhaseUpTo, Covered, Shown, SealedEarly
<1>2. PhaseRun(r)'
    BY DEF PhaseRun, Covered, Shown, SealedEarly
<1> QED
    BY <1>1, <1>2, LoneMoves DEF PhaseSound

LEMMA ApplyPhase ==
    ASSUME LoneCycle, InOrder, Sound, PhaseSound, phase \in Kinds, spent \in [Spending -> Nat],
           NEW c \in Cycles, ApplyEvent(c), spent'["domain"] = 0
    PROVE  phase' \in Kinds /\ PhaseSound'
<1>0. PICK q \in Run : /\ q = runs[c] /\ c \in Workers /\ q.step = "apply"
                       /\ PhaseRun(q)
    BY DEF Sound, Types, Workers, ApplyEvent, At, PhaseSound
<1>1. /\ q.todo # {} /\ q.todo \subseteq q.batch /\ q.batch \subseteq DOMAIN log
      /\ q.cursor = cursor
      /\ \A i \in q.batch : ~Covered(i, q.cursor)
      /\ \A i \in q.batch \ q.todo, j \in q.todo : i < j
      /\ \A i \in q.batch \ q.todo : Shown(i)
      /\ q.early = {i \in q.batch : SealedEarly(i)}
    BY <1>0 DEF PhaseRun, Unsettled
<1>2. /\ DOMAIN log = 1..Len(log) /\ Len(log) \in Nat /\ Len(log) <= Len(History)
      /\ DOMAIN History = 1..Len(History) /\ Len(History) \in Nat /\ cursor \in Position
    BY ConstantsAssumption DEF Sound, Types
<1>3. PICK k \in q.todo : k = Oldest(q.todo) /\ \A i \in q.todo : k <= i
  <2>1. q.todo \in SUBSET Nat
    BY <1>1, <1>2
  <2> QED
    BY <1>1, <2>1, OldestOf
<1>4. k \in DOMAIN log /\ k \in DOMAIN History
    BY <1>1, <1>2, <1>3
<1>5. /\ IF SealedEarly(k) THEN phase' = phase
         ELSE phase' = IF History[k] \in {"frozen", "sealed"} THEN History[k] ELSE phase
      /\ runs' = [runs EXCEPT ![c].step = "write", ![c].todo = @ \ {k}]
      /\ UNCHANGED <<log, cursor>>
  <2>1. ~Spend("domain")
    BY SpendKeeps DEF Spending
  <2>2. k \in q.early <=> SealedEarly(k)
    BY <1>1, <1>3
  <2> QED
    BY <1>0, <1>3, <2>1, <2>2 DEF ApplyEvent, chain
<1>6. phase' \in Kinds
    BY <1>5 DEF Kinds
<1>7. ASSUME ~SealedEarly(k) PROVE Rank(phase') >= Rank(History[k])
  <2>1. History[k] \in Kinds /\ Rank(History[k]) \in 0..2 /\ Rank(phase') \in 0..2
    BY <1>4, <1>6, KindOf, RankOf
  <2>2. CASE History[k] \in {"frozen", "sealed"}
    BY <1>5, <1>7, <2>1, <2>2
  <2>3. CASE History[k] = "registration"
    BY <2>1, <2>3, RankOf
  <2> QED
    BY <2>1, <2>2, <2>3 DEF Kinds
\* An event that comes before k and shows now, shows after k.
<1>8. ASSUME NEW i \in DOMAIN log, i < k, Shown(i), ~SealedEarly(i)
      PROVE  Rank(phase') >= Rank(History[i])
  <2>0. i \in DOMAIN History /\ Rank(phase) >= Rank(History[i])
    BY <1>2, <1>8 DEF Shown
  <2>1. /\ History[i] \in Kinds /\ Rank(History[i]) \in 0..2
        /\ History[k] \in Kinds /\ Rank(History[k]) \in 0..2
        /\ Rank(phase') \in 0..2
    BY <1>4, <1>6, <2>0, KindOf, RankOf
  <2>2. CASE History[k] = "registration" \/ SealedEarly(k)
    <3>1. phase' = phase
      BY <1>5, <2>2
    <3> QED
      BY <2>0, <3>1
  <2>3. CASE History[i] = "registration"
    BY <2>1, <2>3, RankOf
  <2>4. CASE History[i] # "registration" /\ History[k] # "registration" /\ ~SealedEarly(k)
    <3>1. Rank(History[i]) <= Rank(History[k])
      BY <1>4, <1>8, <2>0, <2>4 DEF InOrder, IsMilestone
    <3> QED
      BY <1>7, <2>1, <2>4, <3>1
  <2> QED
    BY <2>2, <2>3, <2>4
<1>9. PhaseUpTo(cursor)'
  <2>1. ASSUME NEW i \in DOMAIN log, Covered(i, cursor), ~SealedEarly(i)
        PROVE  Rank(phase') >= Rank(History[i])
    <3>1. Shown(i)
      BY <2>1 DEF PhaseSound, PhaseUpTo
    <3>2. i < k
      <4>1. ~Covered(k, cursor)
        BY <1>1, <1>3
      <4> QED
        BY <1>2, <1>4, <2>1, <4>1, CoveredFirst DEF Sound
    <3> QED
      BY <1>8, <2>1, <3>1, <3>2
  <2> QED
    BY <1>5, <2>1 DEF PhaseUpTo, Covered, Shown, SealedEarly
<1> DEFINE r == [q EXCEPT !.step = "write", !.todo = @ \ {k}]
<1>10. r \in Run /\ runs' = [runs EXCEPT ![c] = r]
    BY <1>0, <1>5 DEF Run, Sound, Types
<1>11. PhaseRun(r)'
  <2>1. /\ r.step = "write" /\ r.cursor = q.cursor /\ r.batch = q.batch
        /\ r.todo = q.todo \ {k} /\ r.early = q.early
    BY DEF Run
  <2> HIDE DEF r
  <2>2. r.todo \subseteq r.batch /\ r.batch \subseteq DOMAIN log'
    BY <1>1, <1>5, <2>1
  <2>3. \A i \in r.batch : ~Covered(i, r.cursor)'
    BY <1>1, <1>5, <2>1 DEF Covered
  <2>4. \A i \in r.batch \ r.todo, j \in r.todo : i < j
    BY <1>1, <1>2, <1>3, <2>1
  <2>5. ASSUME NEW i \in r.batch \ r.todo PROVE Shown(i)'
    <3>1. SealedEarly(i)' <=> SealedEarly(i)
      BY <1>5 DEF SealedEarly
    <3>2. CASE i = k
      BY <1>7, <3>1, <3>2 DEF Shown
    <3>3. CASE i \in q.batch \ q.todo
      BY <1>1, <1>3, <1>8, <3>1, <3>3 DEF Shown
    <3> QED
      BY <2>1, <3>2, <3>3
  <2>6. r.early = {i \in r.batch : SealedEarly(i)}'
    BY <1>1, <1>5, <2>1 DEF SealedEarly
  <2> QED
    BY <1>1, <1>5, <2>1, <2>2, <2>3, <2>4, <2>5, <2>6 DEF PhaseRun, Unsettled
<1> HIDE DEF r
<1> QED
    BY <1>6, <1>9, <1>10, <1>11, LoneMoves DEF PhaseSound

\* What the cycle has written is what the cursor comes to cover.
LEMMA WritePhase ==
    ASSUME LoneCycle, Sound, PhaseSound, NEW c \in Cycles, WriteCursor(c)
    PROVE  PhaseSound'
<1>0. PICK q \in Run : /\ q = runs[c] /\ c \in Workers /\ q.step \in {"insert", "update"}
                       /\ PhaseRun(q) /\ RunSound(q)
    BY DEF Sound, Types, Workers, WriteCursor, At, PhaseSound
<1>1. CASE Stop(c) /\ UNCHANGED cursor
  <2>1. Idle \in Run /\ PhaseRun(Idle)
    BY IdleSound DEF Idle, PhaseRun, Unsettled
  <2> QED
    BY <1>1, <2>1, LoneQuiet DEF WriteCursor, Stop, chain
<1>2. CASE Advanced(c)
  <2> DEFINE r == [q EXCEPT !.step = "dispatch", !.todo = MilestonesOf(q.batch)]
  <2>1. MilestonesOf(q.batch) \in SUBSET (1..Len(History))
    BY DEF MilestonesOf, Run
  <2>2. r \in Run /\ runs' = [runs EXCEPT ![c] = r] /\ r.step = "dispatch"
    BY <1>0, <1>2, <2>1 DEF Advanced, Run
  <2>3. cursor' = q.next /\ UNCHANGED <<log, phase>>
    BY <1>0, <1>2 DEF Advanced, WriteCursor, chain
  <2>4. PhaseUpTo(cursor)'
    <3>1. ASSUME NEW k \in DOMAIN log, Covered(k, q.next)
          PROVE  Shown(k)
      <4>1. Covered(k, q.cursor) \/ k \in q.batch
        BY <1>0, <3>1 DEF RunSound, Carried
      <4>2. q.cursor = cursor /\ q.todo = {}
        BY <1>0 DEF PhaseRun, Unsettled
      <4>3. \A i \in q.batch : Shown(i)
        BY <1>0, <4>2 DEF PhaseRun, Unsettled
      <4> QED
        BY <4>1, <4>2, <4>3 DEF PhaseSound, PhaseUpTo
    <3> QED
      BY <2>3, <3>1 DEF PhaseUpTo, Covered, Shown, SealedEarly
  <2>5. PhaseRun(r)'
    BY <2>2 DEF PhaseRun, Unsettled
  <2> HIDE DEF r
  <2> QED
    BY <2>2, <2>4, <2>5, LoneMoves DEF PhaseSound
<1> QED
    BY <1>1, <1>2 DEF WriteCursor

LEMMA CyclePhase ==
    ASSUME LoneCycle, KnowsStart, Sound, PhaseSound, NEW c \in Cycles,
           \/ StartCycle(c) \/ ReadCursor(c) \/ PullLive(c) \/ BatchWritten(c)
           \/ CheckAdvance(c) \/ FinishCycle(c) \/ DispatchMilestone(c)
           \/ RecordEvent(c) \/ Fail(c)
    PROVE  PhaseSound'
<1>0. PICK q \in Run : q = runs[c] /\ c \in Workers /\ PhaseRun(q)
    BY DEF Sound, Types, Workers, PhaseSound
<1>1. UNCHANGED <<log, cursor, phase>>
    BY DEF StartCycle, ReadCursor, PullLive, BatchWritten, CheckAdvance, FinishCycle,
           DispatchMilestone, RecordEvent, Fail, chain, store
<1>2. ASSUME NEW r \in Run, runs' = [runs EXCEPT ![c] = r], PhaseRun(r) PROVE PhaseSound'
    BY <1>1, <1>2, LoneQuiet
<1>3. Idle \in Run /\ PhaseRun(Idle)
    BY IdleSound DEF Idle, PhaseRun, Unsettled
<1>4. ASSUME NEW step \in {"read", "apply", "advance", "insert", "update"}, Goto(c, step),
             step = "apply" => q.step = "write" /\ q.todo # {},
             step = "advance" => q.step = "write" /\ q.todo = {},
             step \in {"insert", "update"} => q.step = "advance"
      PROVE  PhaseSound'
  <2> DEFINE r == [q EXCEPT !.step = step]
  <2>1. r \in Run /\ runs' = [runs EXCEPT ![c] = r]
    BY <1>0, <1>4 DEF Goto, Run
  <2>2. PhaseRun(r)
    BY <1>0, <1>4 DEF PhaseRun, Unsettled, Run
  <2> HIDE DEF r
  <2> QED
    BY <1>2, <2>1, <2>2
<1>5. ASSUME NEW r \in Run, r.step = "dispatch" PROVE PhaseRun(r)
    BY <1>5 DEF PhaseRun, Unsettled
<1>6. CASE StartCycle(c)
    BY <1>4, <1>6 DEF StartCycle
<1>7. CASE ReadCursor(c)
  <2> DEFINE r == [q EXCEPT !.step = "pull", !.cursor = cursor]
  <2>1. r \in Run /\ runs' = [runs EXCEPT ![c] = r] /\ PhaseRun(r)
    BY <1>0, <1>7 DEF ReadCursor, Run, PhaseRun, Unsettled, Sound, Types
  <2> HIDE DEF r
  <2> QED
    BY <1>2, <2>1
<1>8. CASE PullLive(c)
  <2>1. PICK to \in 1..head : \E from \in FromBlocks(to) :
            runs' = [runs EXCEPT ![c] = Pulled(@, LogsIn(from, to), @.cursor, 0, to)]
    BY <1>8 DEF PullLive
  <2>2. FromBlocks(to) = {0} /\ to \in Nat
    BY DEF FromBlocks, Sound, Types
  <2> DEFINE r == Pulled(q, LogsIn(0, to), q.cursor, 0, to)
  <2>3. runs' = [runs EXCEPT ![c] = r]
    BY <1>0, <2>1, <2>2
  <2>4. r \in Run /\ r.cursor = q.cursor /\ r.step = "write"
    BY <1>0, <1>8, PullCarries DEF PullLive
  <2>5. /\ r.todo = r.batch /\ r.batch \subseteq DOMAIN log
        /\ \A k \in r.batch : ~Covered(k, q.cursor)
        /\ r.early = {k \in r.batch : SealedEarly(k)}
    BY <2>2, PullAhead DEF Sound
  <2>6. q.cursor = cursor
    BY <1>0, <1>8 DEF PullLive, At, PhaseRun
  <2> HIDE DEF r
  <2>7. PhaseRun(r)
    BY <2>4, <2>5, <2>6 DEF PhaseRun, Unsettled
  <2>8. PICK s \in Run : s = r
    BY <2>4
  <2> QED
    BY <1>2, <2>3, <2>7, <2>8
<1>9. CASE BatchWritten(c)
  <2>1. CASE Before(q.cursor, q.next)
    <3>1. runs' = [runs EXCEPT ![c].step = "advance"]
      BY <1>0, <1>9, <2>1 DEF BatchWritten
    <3> QED
      BY <1>0, <1>4, <1>9, <3>1 DEF BatchWritten, At, Goto
  <2>2. CASE ~Before(q.cursor, q.next)
    <3> DEFINE r == [q EXCEPT !.step = "dispatch", !.todo = MilestonesOf(q.batch)]
    <3>1. MilestonesOf(q.batch) \in SUBSET (1..Len(History))
      BY DEF MilestonesOf, Run
    <3>2. r \in Run /\ runs' = [runs EXCEPT ![c] = r] /\ r.step = "dispatch"
      BY <1>0, <1>9, <2>2, <3>1 DEF BatchWritten, Run
    <3> HIDE DEF r
    <3> QED
      BY <1>2, <1>5, <3>2
  <2> QED
    BY <2>1, <2>2
<1>10. CASE CheckAdvance(c)
  <2>1. CASE Stop(c)
    BY <1>2, <1>3, <2>1 DEF Stop
  <2>2. CASE Goto(c, "insert") \/ Goto(c, "update")
    BY <1>0, <1>4, <1>10, <2>2 DEF CheckAdvance, At
  <2> QED
    BY <1>10, <2>1, <2>2 DEF CheckAdvance
<1>11. CASE FinishCycle(c) \/ Fail(c)
    BY <1>2, <1>3, <1>11 DEF FinishCycle, Fail, Stop
<1>12. CASE DispatchMilestone(c)
  <2> DEFINE r == [q EXCEPT !.todo = @ \ {Oldest(q.todo)}]
  <2>1. r \in Run /\ runs' = [runs EXCEPT ![c] = r] /\ r.step = "dispatch"
    BY <1>0, <1>12 DEF DispatchMilestone, At, Run
  <2> HIDE DEF r
  <2> QED
    BY <1>2, <1>5, <2>1
<1>13. CASE RecordEvent(c)
    BY <1>0, <1>4, <1>13 DEF RecordEvent, At
<1> QED
    BY <1>6, <1>7, <1>8, <1>9, <1>10, <1>11, <1>12, <1>13

\* New events land past the row's cursor.
LEMMA AroundPhase ==
    ASSUME Sound, PhaseSound, Grows, UNCHANGED <<cursor, phase, runs>>
    PROVE  PhaseSound'
<1>1. ASSUME NEW k \in DOMAIN log', Covered(k, cursor)'
      PROVE  k \in DOMAIN log /\ Covered(k, cursor) /\ log'[k] = log[k]
  <2>1. k \in DOMAIN log
    <3>1. ASSUME k \notin DOMAIN log PROVE FALSE
      <4>1. log'[k].block > head /\ log'[k] \in Position
        BY <1>1, <3>1 DEF Grows
      <4>2. log'[k].block \in Nat
        BY <4>1 DEF Position
      <4>3. cursor.block < log'[k].block
        BY <4>1, <4>2 DEF Sound, Types, Position
      <4> QED
        BY <1>1, <4>3 DEF Covered, Before
    <3> QED
      BY <3>1
  <2>2. log'[k] = log[k]
    BY <1>1, <2>1 DEF Grows
  <2> QED
    BY <1>1, <2>1, <2>2 DEF Covered
<1>2. PhaseUpTo(cursor)'
    BY <1>1 DEF PhaseSound, PhaseUpTo, Shown, SealedEarly
<1>3. ASSUME NEW c \in Cycles PROVE PhaseRun(runs[c])'
  <2>1. PICK q \in Run : q = runs[c] /\ PhaseRun(q)
    BY DEF Sound, Types, Workers, PhaseSound
  <2>2. \A k \in DOMAIN log : k \in DOMAIN log' /\ log'[k] = log[k]
    BY DEF Grows
  <2>3. \A k \in DOMAIN log : /\ Covered(k, q.cursor)' <=> Covered(k, q.cursor)
                              /\ SealedEarly(k)' <=> SealedEarly(k)
                              /\ Shown(k)' <=> Shown(k)
    BY <2>2 DEF Covered, SealedEarly, Shown
  <2>4. PhaseRun(q)'
    BY <2>1, <2>2, <2>3 DEF PhaseRun, Unsettled
  <2> QED
    BY <2>1, <2>4 DEF PhaseRun, Covered, Shown, SealedEarly
<1> QED
    BY <1>2, <1>3 DEF PhaseSound

LEMMA PhaseStep ==
    ASSUME KnowsStart, LoneCycle, InOrder, Inv, PhaseInv, [Next]_vars
    PROVE  PhaseInv'
<1>0. spent \in [Spending -> Nat] /\ spent' \in [Spending -> Nat] /\ phase \in Kinds
    BY SpentStep DEF Inv, PhaseInv
<1>1. phase' \in Kinds
  <2>1. ASSUME NEW w \in Workers, ApplyEvent(w) PROVE phase' \in Kinds
    BY <1>0, <2>1 DEF ApplyEvent, Kinds
  <2>2. CASE UNCHANGED phase
    BY <1>0, <2>2
  <2>3. UNCHANGED phase \/ \E w \in Workers : ApplyEvent(w)
    BY DEF Next, Step, vars, Mine, Reorg, Reload, Live, StartCycle, ReadCursor, PullLive,
           BatchWritten, CheckAdvance, WriteCursor, DispatchMilestone, FinishCycle,
           RequestReplay, Replaying, BeginReplay, PullReplay, ReplayWritten, ReportReplay,
           Write, RecordEvent, Fail, Crash, store
  <2> QED
    BY <2>1, <2>2, <2>3
<1> SUFFICES ASSUME Undisturbed' PROVE PhaseSound'
    BY <1>1 DEF PhaseInv
<1>2. /\ Sound /\ PhaseSound
      /\ spent'["replay"] = 0 /\ spent'["domain"] = 0 /\ spent'["reorg"] = 0
    BY <1>0, SpentStep DEF Undisturbed, Inv, PhaseInv, Spending
<1>3. runs[Replay].step = "idle"
    BY <1>2 DEF PhaseSound
<1>4. CASE UNCHANGED vars
  <2>1. Grows
    BY <1>2, <1>4 DEF vars, Sound, Types, Grows, NothingLost, Handled, At
  <2> QED
    BY <1>2, <1>4, <2>1, AroundPhase DEF vars
<1>5. CASE Next
  <2>1. ASSUME NEW n \in 0..MaxPerBlock, NEW gap \in Gaps, Mine(n, gap) PROVE PhaseSound'
    <3>1. n \in Nat /\ gap \in Nat
      BY ConstantsAssumption
    <3>2. Grows
      BY <1>2, <2>1, <3>1, MineGrows
    <3> QED
      BY <1>2, <2>1, <3>2, AroundPhase DEF Mine, store
  <2>2. CASE Reorg
    BY <1>0, <1>2, <2>2, SpendKeeps DEF Reorg, Spending
  <2>3. CASE Reload
    <3>1. NothingLost' => NothingLost
      BY <1>0, <2>3, SpendKeeps DEF Reload, Spending, NothingLost
    <3>2. Grows
      BY <1>2, <2>3, <3>1 DEF Reload, chain, store, Sound, Types, Grows, Handled, At
    <3> QED
      BY <1>2, <2>3, <3>2, AroundPhase DEF Reload, store
  <2>4. ASSUME NEW c \in Cycles, Live(c) PROVE PhaseSound'
    BY <1>2, <2>4, CyclePhase, WritePhase DEF Live
  <2>5. ASSUME NEW from \in 1..MaxBlocks, NEW to \in 1..MaxBlocks, RequestReplay(from, to)
        PROVE  PhaseSound'
    BY <1>0, <1>2, <2>5, SpendKeeps DEF RequestReplay, Spending
  <2>6. CASE Replaying
    BY <1>3, <2>6 DEF Replaying, BeginReplay, PullReplay, ReplayWritten, ReportReplay, At
  <2>7. ASSUME NEW w \in Workers, Write(w) \/ Fail(w) PROVE PhaseSound'
    <3>1. w # Replay
      BY <1>3, <2>7 DEF Write, RecordEvent, ApplyEvent, Fail, At
    <3>2. w \in Cycles
      BY <3>1 DEF Workers
    <3> QED
      BY <1>0, <1>2, <2>7, <3>2, ApplyPhase, CyclePhase DEF Write
  <2>8. CASE Crash
    <3>1. \A w \in Workers : runs'[w] = Idle
      BY <2>8 DEF Crash
    <3>2. PhaseRun(Idle)' /\ Idle.step = "idle"
      BY DEF Idle, PhaseRun, Unsettled
    <3>3. PhaseUpTo(cursor)'
      BY <1>2, <2>8 DEF Crash, chain, store, PhaseSound, PhaseUpTo, Covered, Shown, SealedEarly
    <3>4. \A c \in Cycles : PhaseRun(runs[c])'
      BY <3>1, <3>2 DEF PhaseRun, Workers
    <3> QED
      BY <3>1, <3>2, <3>3, <3>4 DEF PhaseSound, Workers
  <2> QED
    BY <1>5, <2>1, <2>2, <2>3, <2>4, <2>5, <2>6, <2>7, <2>8 DEF Next, Step
<1> QED
    BY <1>4, <1>5

LEMMA InitPhase ==
    ASSUME Init
    PROVE  PhaseInv
<1>1. phase \in Kinds /\ log = <<>> /\ \A w \in Workers : runs[w] = Idle
    BY DEF Init, Kinds
<1>2. PhaseRun(Idle) /\ Idle.step = "idle"
    BY DEF Idle, PhaseRun, Unsettled
<1>3. PhaseUpTo(cursor)
    BY <1>1 DEF PhaseUpTo
<1> QED
    BY <1>1, <1>2, <1>3 DEF PhaseInv, PhaseSound, Workers

\* The phase in the contest's row is never older than the events the cursor has
\* passed, but for a seal before the end of the claims, which is never written,
\* for any history whose freeze comes before its seal, any batch limit and lag,
\* and however often a call fails or the process restarts between the domain
\* write and the cursor: an event that is applied again lies past the cursor, so
\* the phase it puts back is that of no event the cursor covers.  One cycle runs
\* at a time, nothing is replayed, no other domain write is refused and no block
\* is reorganised: each of these puts the row behind (settlementHandler.ts).
THEOREM PhaseIsNeverBehind ==
    ASSUME KnowsStart, LoneCycle, InOrder
    PROVE  Spec => []PhaseCovers
<1>1. Init => Inv /\ PhaseInv
    BY InitSound, InitPhase
<1>2. Inv /\ PhaseInv /\ [Next]_vars => Inv' /\ PhaseInv'
    BY StepSound, PhaseStep
<1>3. PhaseInv => PhaseCovers
  <2>1. PhaseInv /\ Undisturbed => PhaseUpTo(cursor)
    BY DEF PhaseInv, PhaseSound
  <2> QED
    BY <2>1 DEF PhaseCovers, Undisturbed, PhaseUpTo, Shown
<1> QED
    BY <1>1, <1>2, <1>3, PTL DEF Spec
----------------------------------------------------------------------------
(* The types                                                                 *)

\* A worker in the middle of an event still has it to do.
RunTyped(r) ==
    /\ r \in Run
    /\ Cardinality(r.batch) <= BatchLimit
    /\ r.step = "apply" => r.todo # {}

TypeInv ==
    /\ TypeOK
    /\ Len(log) <= Len(History)
    /\ \A w \in Workers : RunTyped(runs[w])

\* No more events than the limit have fewer than the limit before them.
LEMMA LimitedSize ==
    ASSUME NEW n \in Nat, NEW S \in SUBSET (1..n)
    PROVE  Cardinality(Limited(S)) <= BatchLimit
<1>0. BatchLimit \in Nat \ {0} /\ Limited(S) \in SUBSET (1..n)
    BY ConstantsAssumption DEF Limited
<1>1. CASE Limited(S) = {}
    BY <1>0, <1>1, FS_EmptySet
<1>2. CASE Limited(S) # {}
  <2>1. PICK k \in Limited(S) : \A i \in Limited(S) : i <= k
    BY <1>0, <1>2, NewestOf
  <2> DEFINE before == {i \in S : i < k}
  <2>2. k \in S /\ Cardinality(before) < BatchLimit
    BY <2>1 DEF Limited
  <2>3. IsFiniteSet(before)
    <3>1. IsFiniteSet(1..n)
      BY FS_Interval
    <3>2. before \subseteq 1..n
      OBVIOUS
    <3> QED
      BY <3>1, <3>2, FS_Subset
  <2>4. Limited(S) \subseteq before \cup {k}
    <3>1. ASSUME NEW i \in Limited(S), i # k PROVE i \in S /\ i < k
      BY <1>0, <2>1, <3>1 DEF Limited
    <3> QED
      BY <3>1
  <2>5. /\ IsFiniteSet(before \cup {k}) /\ Cardinality(before) \in Nat
        /\ Cardinality(before \cup {k}) \in Nat
        /\ Cardinality(before \cup {k}) <= Cardinality(before) + 1
    <3>1. PICK B : B = before
      OBVIOUS
    <3>2. /\ IsFiniteSet(B \cup {k}) /\ Cardinality(B) \in Nat
          /\ Cardinality(B \cup {k}) \in {Cardinality(B), Cardinality(B) + 1}
      <4> HIDE DEF before
      <4> QED
        BY <2>3, <3>1, FS_AddElement, FS_CardinalityType
    <3> HIDE DEF before
    <3> QED
      BY <3>1, <3>2
  <2>6. Cardinality(Limited(S)) \in Nat /\ Cardinality(Limited(S)) <= Cardinality(before \cup {k})
    <3>1. PICK L : L = Limited(S)
      OBVIOUS
    <3> HIDE DEF before
    <3>2. IsFiniteSet(L) /\ Cardinality(L) <= Cardinality(before \cup {k})
      BY <2>4, <2>5, <3>1, FS_Subset
    <3> QED
      BY <3>1, <3>2, FS_CardinalityType
  <2>7. Cardinality(before) + 1 <= BatchLimit
    BY <1>0, <2>2, <2>5
  <2> QED
    BY <1>0, <2>5, <2>6, <2>7
<1> QED
    BY <1>1, <1>2

\* The types of TypeOK are those the other invariant uses, and more.
LEMMA TypesHold ==
    ASSUME TypeInv
    PROVE  Types
<1>1. head \in Nat \ {0}
    BY ConstantsAssumption DEF TypeInv, TypeOK
<1> QED
    BY <1>1 DEF TypeInv, TypeOK, Types, Spans

LEMMA PulledTyped ==
    ASSUME TypeInv, NEW run \in Run, NEW events \in SUBSET (DOMAIN log),
           NEW p \in Position, NEW from \in Nat, NEW to \in Nat
    PROVE  RunTyped(Pulled(run, events, p, from, to))
<1> DEFINE filtered == {k \in events : IsAfterCursor(k, p) /\ log[k].block >= from}
           next == NextCursor(events, filtered, Limited(filtered), p, to)
           early == {k \in Limited(filtered) : SealedEarly(k)}
<1>1. Types
    BY TypesHold
<1>2. Pulled(run, events, p, from, to) \in Run
    BY <1>1, PulledType
<1>3. filtered \in SUBSET (1..Len(log)) /\ Len(log) \in Nat
    BY <1>1 DEF Types
<1>4. Cardinality(Limited(filtered)) <= BatchLimit
    BY <1>3, LimitedSize
<1>5. PICK r \in Run : r = Pulled(run, events, p, from, to)
    BY <1>2
<1>6. r = [run EXCEPT !.step = "write", !.batch = Limited(filtered), !.todo = Limited(filtered),
                      !.next = next, !.early = early]
    BY <1>5 DEF Pulled
<1>7. r.step = "write" /\ r.batch = Limited(filtered)
  <2> HIDE DEF next, filtered, early
  <2> QED
    BY <1>6 DEF Run
<1> HIDE DEF filtered
<1>8. RunTyped(r)
    BY <1>4, <1>7 DEF RunTyped
<1> QED
    BY <1>5, <1>8

\* The run that moved is enough to look at, and what else is written.
LEMMA RunMoves ==
    ASSUME TypeInv, NEW w \in Workers, NEW r, RunTyped(r), runs' = [runs EXCEPT ![w] = r],
           UNCHANGED chain, UNCHANGED budget, spent' \in [Spending -> Nat],
           cursor' \in Position, recorded' \subseteq 1..Len(History),
           applied' \subseteq 1..Len(History), phase' \in Kinds,
           sent' \subseteq 1..Len(History), UNCHANGED listed,
           mode' \in {"live", "paused", "replay"}, span' \in Spans
    PROVE  TypeInv'
<1>1. r \in Run /\ Cardinality(r.batch) <= BatchLimit
    BY DEF RunTyped
<1>2. runs' \in [Workers -> Run] /\ \A v \in Workers : runs'[v] \in {r, runs[v]}
    BY <1>1 DEF TypeInv, TypeOK
<1>3. \A v \in Workers : RunTyped(runs'[v])
    BY <1>2 DEF TypeInv
<1>4. \A v \in Workers : Cardinality(runs'[v].batch) <= BatchLimit
    BY <1>3 DEF RunTyped
<1>5. TypeOK'
    BY <1>2, <1>4 DEF TypeInv, TypeOK, chain, Spans
<1> QED
    BY <1>3, <1>5 DEF TypeInv, RunTyped, chain

LEMMA IdleTyped == RunTyped(Idle)
<1>1. Idle \in Run /\ Idle.batch = {} /\ Idle.step = "idle"
    BY DEF Idle, Run, NoCursor, Position
<1>2. Cardinality(Idle.batch) = 0
    BY <1>1, FS_EmptySet
<1> QED
    BY <1>1, <1>2, ConstantsAssumption DEF RunTyped

\* A run that only moves on, or forgets what it has done, keeps its batch.
LEMMA SameBatch ==
    ASSUME NEW q \in Run, RunTyped(q), NEW r \in Run, r.batch = q.batch, r.step # "apply"
    PROVE  RunTyped(r)
BY DEF RunTyped

LEMMA TodoOf ==
    ASSUME NEW r \in Run, r.todo # {}
    PROVE  Oldest(r.todo) \in 1..Len(History) /\ Oldest(r.todo) \in r.todo
<1>1. r.todo \in SUBSET (1..Len(History)) /\ Len(History) \in Nat
    BY ConstantsAssumption DEF Run
<1>2. r.todo \in SUBSET Nat
    BY <1>1
<1> QED
    BY <1>1, <1>2, OldestOf
----------------------------------------------------------------------------
(* Types: each step                                                          *)

LEMMA WriteTypes ==
    ASSUME TypeInv, NEW w \in Workers, Write(w), UNCHANGED budget,
           spent' \in [Spending -> Nat]
    PROVE  TypeInv'
<1>0. PICK q \in Run : q = runs[w] /\ RunTyped(q)
    BY DEF TypeInv, TypeOK
<1>1. CASE RecordEvent(w)
  <2>1. q.todo # {}
    BY <1>0, <1>1 DEF RecordEvent
  <2> DEFINE r == [q EXCEPT !.step = "apply"]
  <2>2. r \in Run /\ r.batch = q.batch /\ r.todo = q.todo
    BY DEF Run
  <2>3. RunTyped(r)
    BY <1>0, <2>1, <2>2 DEF RunTyped
  <2>4. runs' = [runs EXCEPT ![w] = r]
    BY <1>0, <1>1 DEF RecordEvent, Goto, TypeInv, TypeOK, Run
  <2>5. recorded' \subseteq 1..Len(History)
    BY <1>0, <1>1, <2>1, TodoOf DEF RecordEvent, TypeInv, TypeOK
  <2> HIDE DEF r
  <2> QED
    BY <1>1, <2>3, <2>4, <2>5, RunMoves DEF RecordEvent, TypeInv, TypeOK, Spans
<1>2. CASE ApplyEvent(w)
  <2>1. q.todo # {}
    BY <1>0, <1>2 DEF ApplyEvent, At, RunTyped
  <2> DEFINE k == Oldest(q.todo)
             r == [q EXCEPT !.step = "write", !.todo = @ \ {k}]
  <2>2. r \in Run /\ r.batch = q.batch /\ r.step = "write"
    BY DEF Run
  <2>3. runs' = [runs EXCEPT ![w] = r]
    BY <1>0, <1>2 DEF ApplyEvent
  <2>4. RunTyped(r)
    BY <1>0, <2>2, SameBatch
  <2>5. k \in 1..Len(History)
    BY <2>1, TodoOf
  <2> HIDE DEF k
  <2>6. applied' \subseteq 1..Len(History) /\ phase' \in Kinds
    <3>1. \/ applied' = applied \cup {k} /\ phase' \in {History[k], phase}
          \/ UNCHANGED <<applied, phase>>
      BY <1>0, <1>2 DEF ApplyEvent, k
    <3>2. History[k] \in Kinds
      BY <2>5, ConstantsAssumption
    <3> QED
      BY <2>5, <3>1, <3>2 DEF TypeInv, TypeOK
  <2> HIDE DEF r
  <2> QED
    BY <1>2, <2>3, <2>4, <2>6, RunMoves DEF ApplyEvent, TypeInv, TypeOK, Spans
<1> QED
    BY <1>1, <1>2 DEF Write

LEMMA LiveTypes ==
    ASSUME TypeInv, NEW c \in Cycles, Live(c), UNCHANGED budget,
           spent' \in [Spending -> Nat]
    PROVE  TypeInv'
<1>0. PICK q \in Run : q = runs[c] /\ RunTyped(q) /\ c \in Workers
    BY DEF TypeInv, TypeOK, Workers
<1>1. /\ UNCHANGED <<chain, listed, mode, span, recorded, applied, phase>>
      /\ span' \in Spans /\ mode' \in {"live", "paused", "replay"}
      /\ recorded' \subseteq 1..Len(History) /\ applied' \subseteq 1..Len(History)
      /\ phase' \in Kinds
    BY DEF Live, StartCycle, ReadCursor, PullLive, BatchWritten, CheckAdvance, WriteCursor,
           DispatchMilestone, FinishCycle, store, TypeInv, TypeOK, Spans
<1>2. cursor' \in Position
    BY <1>0 DEF Live, StartCycle, ReadCursor, PullLive, BatchWritten, CheckAdvance, WriteCursor,
           Advanced, DispatchMilestone, FinishCycle, store, TypeInv, TypeOK, Run
<1>3. sent' \subseteq 1..Len(History)
  <2>1. CASE DispatchMilestone(c)
    <3>1. q.todo # {} /\ sent' \subseteq sent \cup {Oldest(q.todo)}
      BY <1>0, <2>1 DEF DispatchMilestone
    <3> QED
      BY <3>1, TodoOf DEF TypeInv, TypeOK
  <2> QED
    BY <2>1 DEF Live, StartCycle, ReadCursor, PullLive, BatchWritten, CheckAdvance, WriteCursor,
           FinishCycle, store, TypeInv, TypeOK
<1>4. \E r : RunTyped(r) /\ runs' = [runs EXCEPT ![c] = r]
  <2>1. ASSUME NEW step \in {"read", "insert", "update"}, Goto(c, step)
        PROVE  \E r : RunTyped(r) /\ runs' = [runs EXCEPT ![c] = r]
    <3> DEFINE r == [q EXCEPT !.step = step]
    <3>1. r \in Run /\ r.batch = q.batch /\ r.step = step
      BY DEF Run
    <3>2. runs' = [runs EXCEPT ![c] = r]
      BY <1>0, <2>1 DEF Goto
    <3> QED
      BY <1>0, <3>1, <3>2, SameBatch
  <2>2. CASE StartCycle(c)
    BY <2>1, <2>2 DEF StartCycle
  <2>3. CASE ReadCursor(c)
    <3> DEFINE r == [q EXCEPT !.step = "pull", !.cursor = cursor]
    <3>1. r \in Run /\ r.batch = q.batch /\ r.step = "pull"
      BY DEF Run, TypeInv, TypeOK
    <3>2. runs' = [runs EXCEPT ![c] = r]
      BY <1>0, <2>3 DEF ReadCursor
    <3> QED
      BY <1>0, <3>1, <3>2, SameBatch
  <2>4. CASE PullLive(c)
    <3>0. PICK to \in 1..head : \E from \in FromBlocks(to) :
             runs' = [runs EXCEPT ![c] = Pulled(@, LogsIn(from, to), @.cursor, 0, to)]
      BY <2>4 DEF PullLive
    <3>1. PICK from \in FromBlocks(to) :
             runs' = [runs EXCEPT ![c] = Pulled(@, LogsIn(from, to), @.cursor, 0, to)]
      BY <3>0
    <3>2. runs' = [runs EXCEPT ![c] = Pulled(q, LogsIn(from, to), q.cursor, 0, to)]
      BY <1>0, <3>1
    <3>3. to \in Nat /\ q.cursor \in Position /\ LogsIn(from, to) \in SUBSET (DOMAIN log)
      BY DEF LogsIn, Run, TypeInv, TypeOK
    <3>4. RunTyped(Pulled(q, LogsIn(from, to), q.cursor, 0, to))
      BY <3>3, PulledTyped
    <3> QED
      BY <3>2, <3>4
  <2>5. CASE BatchWritten(c)
    <3> DEFINE r == IF Before(q.cursor, q.next) THEN [q EXCEPT !.step = "advance"]
                    ELSE [q EXCEPT !.step = "dispatch", !.todo = MilestonesOf(q.batch)]
    <3>1. r \in Run /\ r.batch = q.batch /\ r.step # "apply"
      BY DEF Run, MilestonesOf
    <3>2. runs' = [runs EXCEPT ![c] = r]
      BY <1>0, <2>5 DEF BatchWritten
    <3> HIDE DEF r
    <3> QED
      BY <1>0, <3>1, <3>2, SameBatch
  <2>6. CASE CheckAdvance(c)
    BY <2>1, <2>6, IdleTyped DEF CheckAdvance, Stop
  <2>7. CASE WriteCursor(c)
    <3> DEFINE r == [q EXCEPT !.step = "dispatch", !.todo = MilestonesOf(q.batch)]
    <3>1. r \in Run /\ r.batch = q.batch /\ r.step # "apply"
      BY DEF Run, MilestonesOf
    <3>2. Advanced(c) => runs' = [runs EXCEPT ![c] = r]
      BY <1>0 DEF Advanced
    <3> HIDE DEF r
    <3> QED
      BY <1>0, <2>7, <3>1, <3>2, SameBatch, IdleTyped DEF WriteCursor, Stop
  <2>8. CASE DispatchMilestone(c)
    <3> DEFINE r == [q EXCEPT !.todo = @ \ {Oldest(q.todo)}]
    <3>1. r \in Run /\ r.batch = q.batch /\ r.step = q.step
      BY DEF Run
    <3>2. runs' = [runs EXCEPT ![c] = r] /\ q.step = "dispatch"
      BY <1>0, <2>8 DEF DispatchMilestone, At
    <3> HIDE DEF r
    <3> QED
      BY <1>0, <3>1, <3>2, SameBatch
  <2>9. CASE FinishCycle(c)
    BY <2>9, IdleTyped DEF FinishCycle, Stop
  <2> QED
    BY <2>2, <2>3, <2>4, <2>5, <2>6, <2>7, <2>8, <2>9 DEF Live
<1>5. PICK r : RunTyped(r) /\ runs' = [runs EXCEPT ![c] = r]
    BY <1>4
<1> QED
    BY <1>0, <1>1, <1>2, <1>3, <1>5, RunMoves

LEMMA ReplayTypes ==
    ASSUME TypeInv, Replaying, UNCHANGED budget, spent' \in [Spending -> Nat]
    PROVE  TypeInv'
<1>0. PICK q \in Run : q = runs[Replay] /\ RunTyped(q) /\ Replay \in Workers
    BY DEF TypeInv, TypeOK, Workers
<1>1. /\ UNCHANGED <<chain, store, listed>>
      /\ mode' \in {"live", "paused", "replay"}
    BY DEF Replaying, BeginReplay, PullReplay, ReplayWritten, ReportReplay, TypeInv, TypeOK
<1>2. span' \in Spans
  <2>1. CASE ReplayWritten
    <3>1. span' = [span EXCEPT !.seen = @ \cup q.batch, !.first = FALSE]
      BY <1>0, <2>1 DEF ReplayWritten
    <3> QED
      BY <3>1 DEF TypeInv, TypeOK, Spans, Run
  <2> QED
    BY <2>1 DEF Replaying, BeginReplay, PullReplay, ReportReplay, TypeInv, TypeOK, Spans
<1>3. \E r : RunTyped(r) /\ runs' = [runs EXCEPT ![Replay] = r]
  <2>1. CASE BeginReplay
    <3> DEFINE r == [q EXCEPT !.step = "pull", !.cursor = [block |-> span.from, index |-> 0]]
    <3>1. r \in Run /\ r.batch = q.batch /\ r.step = "pull"
      BY DEF TypeInv, TypeOK, Spans, Run, Position
    <3>2. runs' = [runs EXCEPT ![Replay] = r]
      BY <1>0, <2>1 DEF BeginReplay
    <3> QED
      BY <1>0, <3>1, <3>2, SameBatch
  <2>2. CASE PullReplay
    <3>1. PICK from \in FromBlocks(span.to) :
            runs' = [runs EXCEPT ![Replay] =
                     Pulled(@, LogsIn(from, span.to),
                            IF span.first THEN NoCursor ELSE @.cursor,
                            IF span.first THEN span.from ELSE 0, span.to)]
      BY <2>2 DEF PullReplay
    <3> DEFINE p == IF span.first THEN NoCursor ELSE q.cursor
               start == IF span.first THEN span.from ELSE 0
               r == Pulled(q, LogsIn(from, span.to), p, start, span.to)
    <3>2. runs' = [runs EXCEPT ![Replay] = r]
      BY <1>0, <3>1
    <3>3. p \in Position /\ start \in Nat /\ span.to \in Nat
      BY DEF TypeInv, TypeOK, Run, NoCursor, Position
    <3>4. LogsIn(from, span.to) \in SUBSET (DOMAIN log)
      BY DEF LogsIn
    <3> HIDE DEF p, start
    <3>5. RunTyped(r)
      BY <3>3, <3>4, PulledTyped
    <3> QED
      BY <3>2, <3>5
  <2>3. CASE ReplayWritten
    <3> DEFINE r == IF ReachedEnd(q) \/ q.cursor = q.next
                    THEN [q EXCEPT !.step = "report"]
                    ELSE [q EXCEPT !.step = "pull", !.cursor = q.next]
    <3>1. r \in Run /\ r.batch = q.batch /\ r.step # "apply"
      BY DEF Run
    <3>2. runs' = [runs EXCEPT ![Replay] = r]
      BY <1>0, <2>3 DEF ReplayWritten
    <3> HIDE DEF r
    <3> QED
      BY <1>0, <3>1, <3>2, SameBatch
  <2>4. CASE ReportReplay
    BY <2>4, IdleTyped DEF ReportReplay, Stop
  <2> QED
    BY <2>1, <2>2, <2>3, <2>4 DEF Replaying
<1>4. PICK r : RunTyped(r) /\ runs' = [runs EXCEPT ![Replay] = r]
    BY <1>3
<1>5. /\ cursor' \in Position /\ recorded' \subseteq 1..Len(History)
      /\ applied' \subseteq 1..Len(History) /\ phase' \in Kinds
      /\ sent' \subseteq 1..Len(History)
    BY <1>1 DEF store, TypeInv, TypeOK
<1> QED
    BY <1>0, <1>1, <1>2, <1>4, <1>5, RunMoves

LEMMA OtherTypes ==
    ASSUME TypeInv, UNCHANGED budget, spent' \in [Spending -> Nat],
           \/ \E from, to \in 1..MaxBlocks : RequestReplay(from, to)
           \/ \E w \in Workers : Fail(w)
           \/ Reload
           \/ Crash
    PROVE  TypeInv'
<1>0. /\ cursor \in Position /\ recorded \subseteq 1..Len(History)
      /\ applied \subseteq 1..Len(History) /\ phase \in Kinds
      /\ sent \subseteq 1..Len(History) /\ span \in Spans
      /\ mode \in {"live", "paused", "replay"}
    BY DEF TypeInv, TypeOK, Spans
<1>1. ASSUME NEW from \in 1..MaxBlocks, NEW to \in 1..MaxBlocks, RequestReplay(from, to)
      PROVE  TypeInv'
  <2>1. PICK q \in Run : q = runs[Replay] /\ RunTyped(q) /\ Replay \in Workers
    BY DEF TypeInv, TypeOK, Workers
  <2> DEFINE r == [q EXCEPT !.step = "request"]
  <2>2. r \in Run /\ r.batch = q.batch /\ r.step = "request"
    BY DEF Run
  <2>3. runs' = [runs EXCEPT ![Replay] = r]
    BY <1>1, <2>1 DEF RequestReplay, Goto
  <2>4. span' \in Spans
    BY <1>1, ConstantsAssumption DEF RequestReplay, Spans
  <2>5. RunTyped(r)
    BY <2>1, <2>2, SameBatch
  <2> HIDE DEF r
  <2> QED
    BY <1>0, <1>1, <2>1, <2>3, <2>4, <2>5, RunMoves DEF RequestReplay, store
<1>2. ASSUME NEW w \in Workers, Fail(w) PROVE TypeInv'
  <2>1. runs' = [runs EXCEPT ![w] = Idle]
    BY <1>2 DEF Fail, Stop
  <2> QED
    BY <1>0, <1>2, <2>1, IdleTyped, RunMoves DEF Fail, ModeAfterFailure, store
<1>3. CASE Reload
  <2>1. TypeOK'
    BY <1>3 DEF Reload, chain, store, TypeInv, TypeOK
  <2> QED
    BY <1>3, <2>1 DEF Reload, chain, TypeInv, RunTyped
<1>4. CASE Crash
  <2>1. \A w \in Workers : runs'[w] = Idle
    BY <1>4 DEF Crash
  <2>2. runs' \in [Workers -> Run]
    BY <1>4, IdleTyped DEF Crash, RunTyped
  <2>3. \A w \in Workers : RunTyped(runs'[w])
    BY <2>1, IdleTyped
  <2>4. \A w \in Workers : Cardinality(runs'[w].batch) <= BatchLimit
    BY <2>3 DEF RunTyped
  <2>5. TypeOK'
    BY <1>4, <2>2, <2>4 DEF Crash, chain, store, TypeInv, TypeOK
  <2> QED
    BY <1>4, <2>3, <2>5 DEF Crash, chain, TypeInv, RunTyped
<1> QED
    BY <1>1, <1>2, <1>3, <1>4

LEMMA ChainTypes ==
    ASSUME TypeInv, UNCHANGED budget, spent' \in [Spending -> Nat],
           Reorg \/ \E n \in 0..MaxPerBlock, gap \in Gaps : Mine(n, gap)
    PROVE  TypeInv'
<1>0. /\ MaxBlocks \in Nat \ {0} /\ head \in 1..MaxBlocks
      /\ log \in Seq(Position) /\ Len(log) <= Len(History) /\ Len(log) \in Nat
      /\ Len(History) \in Nat
    BY ConstantsAssumption DEF TypeInv, TypeOK
<1>1. /\ head' \in 1..MaxBlocks /\ log' \in Seq(Position) /\ Len(log') <= Len(History)
      /\ UNCHANGED <<store, listed, mode, runs, span>>
  <2>1. CASE Reorg
    <3>1. PICK n \in 0..Len(log) : log' = SubSeq(log, 1, n)
      BY <2>1 DEF Reorg
    <3>2. log' \in Seq(Position) /\ Len(log') <= Len(log)
      BY <1>0, <3>1, SubSeqProperties
    <3>3. head' \in 1..MaxBlocks
      BY <1>0, <2>1 DEF Reorg
    <3> QED
      BY <1>0, <2>1, <3>2, <3>3 DEF Reorg
  <2>2. ASSUME NEW n \in 0..MaxPerBlock, NEW gap \in Gaps, Mine(n, gap)
        PROVE  /\ head' \in 1..MaxBlocks /\ log' \in Seq(Position)
               /\ Len(log') <= Len(History) /\ UNCHANGED <<store, listed, mode, runs, span>>
    <3> DEFINE more == [i \in 1..n |-> [block |-> head + 1, index |-> gap + i - 1]]
    <3>1. n \in Nat /\ gap \in Nat
      BY ConstantsAssumption
    <3>2. more \in Seq(Position) /\ Len(more) = n
      BY <1>0, <3>1 DEF Position
    <3>3. log' = log \o more /\ Len(log) + n <= Len(History)
      BY <2>2 DEF Mine
    <3> HIDE DEF more
    <3>4. log' \in Seq(Position) /\ Len(log') = Len(log) + n
      BY <1>0, <3>1, <3>2, <3>3, ConcatProperties
    <3> QED
      BY <1>0, <2>2, <3>3, <3>4 DEF Mine
  <2> QED
    BY <2>1, <2>2
<1>2. TypeOK'
    BY <1>1 DEF store, TypeInv, TypeOK
<1> QED
    BY <1>1, <1>2 DEF TypeInv, RunTyped

LEMMA TypesStep ==
    ASSUME TypeInv, [Next]_vars
    PROVE  TypeInv'
<1>1. spent' \in [Spending -> Nat]
    BY SpentStep DEF TypeInv, TypeOK
<1>2. CASE UNCHANGED vars
  <2>1. TypeOK'
    BY <1>2 DEF vars, TypeInv, TypeOK
  <2> QED
    BY <1>2, <2>1 DEF vars, TypeInv, RunTyped
<1>3. CASE Next
    BY <1>1, <1>3, WriteTypes, LiveTypes, ReplayTypes, OtherTypes, ChainTypes DEF Next, Step
<1> QED
    BY <1>2, <1>3

\* No cycle, replay, failure, restart or reorganisation takes a position, a
\* row, a mode or a run out of its type, and no pull hands the writer more
\* events than maxBatchSize.
THEOREM IngestionTyped == Spec => []TypeOK
<1>1. Init => TypeInv
  <2> SUFFICES ASSUME Init PROVE TypeInv
    OBVIOUS
  <2>1. \A w \in Workers : runs[w] = Idle
    BY DEF Init
  <2>2. runs \in [Workers -> Run]
    BY IdleTyped DEF Init, RunTyped
  <2>3. \A w \in Workers : RunTyped(runs[w])
    BY <2>1, IdleTyped
  <2>4. \A w \in Workers : Cardinality(runs[w].batch) <= BatchLimit
    BY <2>3 DEF RunTyped
  <2>5. TypeOK
    BY <2>2, <2>4, ConstantsAssumption
       DEF Init, TypeOK, NoCursor, Position, Kinds, Spending
  <2>6. Len(log) <= Len(History)
    BY ConstantsAssumption DEF Init
  <2> QED
    BY <2>3, <2>5, <2>6 DEF TypeInv
<1>2. TypeInv /\ [Next]_vars => TypeInv'
    BY TypesStep
<1>3. TypeInv => TypeOK
    BY DEF TypeInv
<1> QED
    BY <1>1, <1>2, <1>3, PTL DEF Spec
-----------------------------------------------------------------------------
(* The endpoints: during a first outage each endpoint that is down owes a    *)
(* number of failures to a stream, those that calls under way may still      *)
(* bring included, and a stream fails no more often than it is owed.         *)

\* The places of a sequence that hold one of some elements.
Places(seq, some) == {i \in DOMAIN seq : seq[i] \in some}

\* As many units of each element of a set as a function says.
Units(D, f) == {unit \in D \X Nat : unit[2] \in 1 .. f[unit[1]]}

CallsOf(s) == {c \in CallType : c.stream = s}
CallsTo(s, e) == {c \in CallType : c.stream = s /\ c.step = "pull" /\ c.endpoint = e}

Asking(s, e) == Cardinality(Places(calls, CallsTo(s, e)))

\* How often a stream may have failed on an endpoint: as often as the endpoint counts,
\* until it is put aside, and then as often as no more calls can come from it.
Owed(s, e) ==
    IF endpoints[e].until = 0 THEN endpoints[e].failures
    ELSE FailureThreshold + endpointScene.calls - 1 - Asking(s, e)

AllOwed(s) == [e \in endpointScene.down |-> Owed(s, e)]

EndpointsCalm == FirstOutage /\ ~endpointScene.wraps

\* Only endpoints that are down are put aside, for as long as the outage is looked at.
OutageInv ==
    /\ down = endpointScene.down
    /\ \A e \in Priorities \ endpointScene.down : endpoints[e].until = 0
    /\ \A e \in Priorities : endpoints[e].until = 0 \/ endpoints[e].until >= Cooldown
    /\ \A s \in Streams :
          tracked[s].streak <= Cardinality(Units(endpointScene.down, AllOwed(s)))

EndpointsTyped ==
    /\ EndpointsTypeOK
    /\ endpointScene \in EndpointScenarios
    /\ endpointSpent \in [EndpointSpending -> Nat]
    /\ \A s \in Streams : Cardinality(Places(calls, CallsOf(s))) <= endpointScene.calls

EndpointsInv == EndpointsTyped /\ (EndpointsCalm => OutageInv)

LEMMA LeastIs ==
    ASSUME NEW S, S \subseteq Nat, S # {}
    PROVE  Min(S) \in S /\ \A x \in S : Min(S) <= x
<1>1. \E x \in S : \A y \in S : x <= y
  BY OldestOf
<1> QED BY <1>1 DEF Min

LEMMA PlacesFinite ==
    ASSUME NEW S, NEW seq \in Seq(S), NEW some
    PROVE  /\ IsFiniteSet(Places(seq, some)) /\ Cardinality(Places(seq, some)) \in Nat
           /\ Places(seq, some) \subseteq 1 .. Len(seq)
<1>1. Places(seq, some) \subseteq 1 .. Len(seq)
  BY DEF Places
<1>2. IsFiniteSet(1 .. Len(seq))
  BY FS_Interval
<1>3. IsFiniteSet(Places(seq, some))
  BY <1>1, <1>2, FS_Subset
<1> QED BY <1>1, <1>3, FS_CardinalityType

LEMMA PlacesGrow ==
    ASSUME NEW S, NEW seq \in Seq(S), NEW some, NEW more, some \subseteq more
    PROVE  Cardinality(Places(seq, some)) <= Cardinality(Places(seq, more))
<1>1. Places(seq, some) \subseteq Places(seq, more)
  BY DEF Places
<1>2. IsFiniteSet(Places(seq, more))
  BY PlacesFinite
<1> QED BY <1>1, <1>2, FS_Subset

LEMMA PlacesAppended ==
    ASSUME NEW S, NEW seq \in Seq(S), NEW x \in S, NEW some
    PROVE  /\ x \notin some => Places(Append(seq, x), some) = Places(seq, some)
           /\ Cardinality(Places(Append(seq, x), some)) <= Cardinality(Places(seq, some)) + 1
<1>1. /\ DOMAIN Append(seq, x) = DOMAIN seq \cup {Len(seq) + 1}
      /\ Append(seq, x)[Len(seq) + 1] = x
      /\ \A i \in DOMAIN seq : Append(seq, x)[i] = seq[i]
      /\ Len(seq) + 1 \notin DOMAIN seq
  OBVIOUS
<1>2. PICK longer : longer = Append(seq, x)
  OBVIOUS
<1>3. x \notin some => Places(longer, some) = Places(seq, some)
  BY <1>1, <1>2 DEF Places
<1>4. x \in some => Places(longer, some) = Places(seq, some) \cup {Len(seq) + 1}
  BY <1>1, <1>2 DEF Places
<1>5. IsFiniteSet(Places(seq, some)) /\ Cardinality(Places(seq, some)) \in Nat
  BY PlacesFinite
<1>6. Len(seq) + 1 \notin Places(seq, some)
  BY <1>1 DEF Places
<1>7. Cardinality(Places(seq, some) \cup {Len(seq) + 1}) = Cardinality(Places(seq, some)) + 1
  BY <1>5, <1>6, FS_AddElement
<1>8. Cardinality(Places(longer, some)) <= Cardinality(Places(seq, some)) + 1
  <2>1. CASE x \in some
    <3>1. Cardinality(Places(longer, some)) = Cardinality(Places(seq, some)) + 1
      BY <1>4, <1>7, <2>1, Zenon
    <3> QED BY <1>5, <3>1
  <2>2. CASE x \notin some
    <3>1. Cardinality(Places(longer, some)) = Cardinality(Places(seq, some))
      BY <1>3, <2>2, Zenon
    <3> QED BY <1>5, <3>1
  <2> QED BY <2>1, <2>2
<1> QED BY <1>2, <1>3, <1>8

\* Without one of its elements a sequence has one place less for what it was.
LEMMA ElementRemoved ==
    ASSUME NEW S, NEW seq \in Seq(S), NEW i \in 1 .. Len(seq)
    PROVE  /\ RemoveAt(seq, i) \in Seq(S)
           /\ Len(RemoveAt(seq, i)) = Len(seq) - 1
           /\ \A j \in 1 .. Len(seq) - 1 :
                 RemoveAt(seq, i)[j] = IF j < i THEN seq[j] ELSE seq[j + 1]
<1>1. PICK before : before = SubSeq(seq, 1, i - 1)
  OBVIOUS
<1>2. PICK after : after = SubSeq(seq, i + 1, Len(seq))
  OBVIOUS
<1>3. /\ before \in Seq(S) /\ Len(before) = i - 1
      /\ \A j \in 1 .. i - 1 : before[j] = seq[j]
  <2>1. /\ 1 \in 1 .. Len(seq) + 1 /\ i - 1 \in 0 .. Len(seq)
    OBVIOUS
  <2>2. \A j \in 1 .. i - 1 : 1 + j - 1 = j
    OBVIOUS
  <2> QED BY <1>1, <2>1, <2>2, SubSeqProperties
<1>4. /\ after \in Seq(S) /\ Len(after) = Len(seq) - i
      /\ \A j \in 1 .. Len(seq) - i : after[j] = seq[i + j]
  <2>1. i + 1 \in 1 .. Len(seq) + 1 /\ Len(seq) \in 0 .. Len(seq)
    OBVIOUS
  <2>2. \A j \in 1 .. Len(seq) - i : (i + 1) + j - 1 = i + j /\ j \in 1 .. Len(seq) - (i + 1) + 1
    OBVIOUS
  <2> QED BY <1>2, <2>1, <2>2, SubSeqProperties
<1>5. PICK less : less = RemoveAt(seq, i) /\ less = before \o after
  BY <1>1, <1>2 DEF RemoveAt
<1>6. /\ less \in Seq(S) /\ Len(less) = Len(before) + Len(after)
      /\ \A j \in 1 .. Len(before) + Len(after) :
            less[j] = IF j <= Len(before) THEN before[j] ELSE after[j - Len(before)]
  <2>1. before \in Seq(S) /\ after \in Seq(S)
    BY <1>3, <1>4
  <2>2. Len(before) \in Nat /\ Len(after) \in Nat
    BY <2>1
  <2> QED BY <1>5, <2>1, <2>2
<1>7. Len(less) = Len(seq) - 1
  BY <1>3, <1>4, <1>6
<1>8. ASSUME NEW j \in 1 .. Len(seq) - 1
      PROVE  less[j] = IF j < i THEN seq[j] ELSE seq[j + 1]
  <2>1. CASE j < i
    <3>1. j \in 1 .. i - 1 /\ j <= Len(before) /\ j \in 1 .. Len(before) + Len(after)
      BY <1>3, <1>4, <2>1
    <3> QED BY <1>3, <1>6, <2>1, <3>1
  <2>2. CASE ~(j < i)
    <3>1. PICK k \in 1 .. Len(seq) - i : k = j - (i - 1) /\ i + k = j + 1
      BY <2>2
    <3>2. less[j] = after[k]
      BY <1>3, <1>4, <1>6, <2>2, <3>1
    <3> QED BY <1>4, <2>2, <3>1, <3>2
  <2> QED BY <2>1, <2>2
<1> QED BY <1>5, <1>6, <1>7, <1>8

LEMMA PlacesRemoved ==
    ASSUME NEW S, NEW seq \in Seq(S), NEW i \in 1 .. Len(seq), NEW some
    PROVE  Cardinality(Places(RemoveAt(seq, i), some))
              = IF seq[i] \in some THEN Cardinality(Places(seq, some)) - 1
                ELSE Cardinality(Places(seq, some))
<1>1. PICK less \in Seq(S) : less = RemoveAt(seq, i)
  BY ElementRemoved
<1>2. /\ Len(less) = Len(seq) - 1
      /\ \A j \in 1 .. Len(seq) - 1 : less[j] = IF j < i THEN seq[j] ELSE seq[j + 1]
  BY <1>1, ElementRemoved
<1>3. Len(seq) \in Nat /\ DOMAIN seq = 1 .. Len(seq) /\ DOMAIN less = 1 .. Len(seq) - 1
  BY <1>2
<1>4. PICK here : here = Places(seq, some) \ {i}
  OBVIOUS
<1>5. PICK there : there = Places(less, some)
  OBVIOUS
<1> DEFINE f == [j \in there |-> IF j < i THEN j ELSE j + 1]
<1>6. \A j \in there : j \in 1 .. Len(seq) - 1 /\ less[j] \in some
  BY <1>3, <1>5 DEF Places
<1>7. \A j \in here : j \in 1 .. Len(seq) /\ seq[j] \in some /\ j # i
  BY <1>3, <1>4 DEF Places
<1>8. \A j \in 1 .. Len(seq) : seq[j] \in some /\ j # i => j \in here
  BY <1>3, <1>4 DEF Places
<1>9. f \in [there -> here]
  BY <1>2, <1>3, <1>6, <1>8
<1>10. \A a, b \in there : f[a] = f[b] => a = b
  BY <1>3, <1>6
<1>11. ASSUME NEW b \in here
       PROVE  \E a \in there : f[a] = b
  <2>1. CASE b < i
    <3>1. b \in 1 .. Len(seq) - 1 /\ less[b] = seq[b]
      BY <1>2, <1>3, <1>7, <2>1
    <3>2. b \in there
      BY <1>3, <1>5, <1>7, <3>1 DEF Places
    <3> QED BY <2>1, <3>2
  <2>2. CASE ~(b < i)
    <3>1. b - 1 \in 1 .. Len(seq) - 1 /\ ~(b - 1 < i) /\ (b - 1) + 1 = b
      BY <1>3, <1>7, <2>2
    <3>2. less[b - 1] = seq[b]
      BY <1>2, <3>1
    <3>3. b - 1 \in there
      BY <1>3, <1>5, <1>7, <3>1, <3>2 DEF Places
    <3> QED BY <3>1, <3>3
  <2> QED BY <2>1, <2>2
<1>12. ExistsBijection(there, here)
  <2> HIDE DEF f
  <2>1. f \in Bijection(there, here)
    BY <1>9, <1>10, <1>11 DEF Bijection, Injection, Surjection, IsInjective
  <2> QED BY <2>1 DEF ExistsBijection
<1>13. IsFiniteSet(Places(seq, some)) /\ Cardinality(Places(seq, some)) \in Nat
  BY PlacesFinite
<1>14. IsFiniteSet(there)
  BY <1>5, PlacesFinite
<1>15. Cardinality(there) = Cardinality(here)
  BY <1>12, <1>14, FS_Bijection
<1>16. Cardinality(here) = IF i \in Places(seq, some) THEN Cardinality(Places(seq, some)) - 1
                           ELSE Cardinality(Places(seq, some))
  BY <1>4, <1>13, FS_RemoveElement
<1>17. i \in Places(seq, some) <=> seq[i] \in some
  BY <1>3 DEF Places
<1> QED BY <1>1, <1>5, <1>15, <1>16, <1>17

\* What is owed is a finite number, and more of it when one is owed more.
LEMMA UnitsBounded ==
    ASSUME NEW D, IsFiniteSet(D), NEW M \in Nat, NEW f \in [D -> 0 .. M]
    PROVE  /\ IsFiniteSet(Units(D, f)) /\ Cardinality(Units(D, f)) \in Nat
           /\ Cardinality(D) \in Nat
           /\ Cardinality(Units(D, f)) <= Cardinality(D) * M
<1>1. PICK sheet : sheet = D \X (1 .. M)
  OBVIOUS
<1>2. IsFiniteSet(1 .. M) /\ Cardinality(1 .. M) = M
  BY FS_Interval
<1>3. IsFiniteSet(sheet) /\ Cardinality(sheet) = Cardinality(D) * M
  BY <1>1, <1>2, FS_Product
<1>4. Units(D, f) \subseteq sheet
  BY <1>1 DEF Units
<1>5. IsFiniteSet(Units(D, f)) /\ Cardinality(Units(D, f)) <= Cardinality(sheet)
  BY <1>3, <1>4, FS_Subset
<1> QED BY <1>3, <1>5, FS_CardinalityType

LEMMA UnitsGrow ==
    ASSUME NEW D, IsFiniteSet(D), NEW M \in Nat, NEW f \in [D -> 0 .. M],
           NEW g \in [D -> 0 .. M], \A e \in D : f[e] <= g[e]
    PROVE  /\ Cardinality(Units(D, f)) <= Cardinality(Units(D, g))
           /\ (\E e \in D : f[e] < g[e]) =>
                 Cardinality(Units(D, f)) + 1 <= Cardinality(Units(D, g))
<1>1. /\ IsFiniteSet(Units(D, f)) /\ IsFiniteSet(Units(D, g))
      /\ Cardinality(Units(D, f)) \in Nat /\ Cardinality(Units(D, g)) \in Nat
  BY UnitsBounded
<1>2. Units(D, f) \subseteq Units(D, g)
  BY DEF Units
<1>3. Cardinality(Units(D, f)) <= Cardinality(Units(D, g))
  BY <1>1, <1>2, FS_Subset
<1>4. ASSUME NEW e \in D, f[e] < g[e]
      PROVE  Cardinality(Units(D, f)) + 1 <= Cardinality(Units(D, g))
  <2>1. PICK unit : unit = <<e, g[e]>>
    OBVIOUS
  <2>2. unit \in Units(D, g) /\ unit \notin Units(D, f)
    BY <1>4, <2>1 DEF Units
  <2>3. PICK more : more = Units(D, f) \cup {unit}
    OBVIOUS
  <2>4. Cardinality(more) = Cardinality(Units(D, f)) + 1
    BY <1>1, <2>2, <2>3, FS_AddElement
  <2>5. more \subseteq Units(D, g)
    BY <1>2, <2>2, <2>3
  <2>6. Cardinality(more) <= Cardinality(Units(D, g))
    BY <1>1, <2>5, FS_Subset
  <2> QED BY <2>4, <2>6
<1> QED BY <1>3, <1>4

\* Types of what the manager picks.
LEMMA PickedTyped ==
    ASSUME EndpointsTypeOK
    PROVE  /\ Picked \in Priorities
           /\ Available({}) # {} => ~Cooling(Picked)
<1>1. ASSUME NEW some, some = Available({}), some # {}
      PROVE  Min(some) \in some
  BY <1>1, LeastIs, EndpointsAssumption DEF Available
<1>2. CASE Available({}) # {}
  BY <1>1, <1>2 DEF Picked, Available
<1>3. CASE Available({}) = {}
  BY <1>3 DEF Picked, EndpointsTypeOK
<1> QED BY <1>2, <1>3

LEMMA AskedTyped ==
    ASSUME EndpointsTypeOK, GetActiveEndpoint
    PROVE  active' \in Priorities /\ degradedUntil' \in Nat /\ Degraded \in BOOLEAN
<1>1. Picked \in Priorities
  BY PickedTyped
<1>2. endpoints[Picked].until \in Nat
  BY <1>1 DEF EndpointsTypeOK, EndpointState
<1> QED BY <1>1, <1>2 DEF GetActiveEndpoint, EndpointsTypeOK, Degraded

LEMMA FailureTyped ==
    ASSUME EndpointsTypeOK, NEW e \in Priorities, RecordFailure(e)
    PROVE  /\ endpoints' \in [Priorities -> EndpointState]
           /\ active' \in Priorities /\ degradedUntil' \in Nat
           /\ \A x \in Priorities : endpoints'[x].failures < FailureThreshold
           /\ \A x \in Priorities \ {e} : endpoints'[x] = endpoints[x]
           /\ IF Tripped(e) THEN endpoints'[e] = [failures |-> 0, until |-> tick + Cooldown]
              ELSE endpoints'[e] = [failures |-> endpoints[e].failures + 1, until |-> endpoints[e].until]
<1>1. /\ endpoints \in [Priorities -> EndpointState] /\ active \in Priorities
      /\ degradedUntil \in Nat /\ tick \in Nat
      /\ \A x \in Priorities : endpoints[x].failures < FailureThreshold
  BY EndpointsAssumption DEF EndpointsTypeOK
<1>2. FailureThreshold \in Nat \ {0} /\ Cooldown \in Nat
  BY EndpointsAssumption
<1>3. CASE ~Tripped(e)
  <2>1. PICK state : state = [failures |-> endpoints[e].failures + 1, until |-> endpoints[e].until]
    OBVIOUS
  <2>2. state \in EndpointState /\ state.failures < FailureThreshold
    BY <1>1, <1>2, <1>3, <2>1 DEF Tripped, EndpointState
  <2>3. [endpoints EXCEPT ![e].failures = @ + 1] = [endpoints EXCEPT ![e] = state]
    <3>1. PICK old \in EndpointState : old = endpoints[e]
      BY <1>1
    <3>2. [old EXCEPT !.failures = old.failures + 1] = state
      BY <2>1, <3>1 DEF EndpointState
    <3> QED BY <3>1, <3>2
  <2>4. /\ endpoints' = [endpoints EXCEPT ![e] = state]
        /\ active' = active /\ degradedUntil' = degradedUntil
    BY <1>3, <2>3 DEF RecordFailure
  <2> QED BY <1>1, <1>3, <2>1, <2>2, <2>4
<1>4. CASE Tripped(e)
  <2>1. PICK state : state = [failures |-> 0, until |-> tick + Cooldown]
    OBVIOUS
  <2>2. state \in EndpointState /\ state.failures < FailureThreshold
    BY <1>1, <1>2, <2>1 DEF EndpointState
  <2>3. endpoints' = [endpoints EXCEPT ![e] = state]
    BY <1>4, <2>1 DEF RecordFailure
  <2>4. active' \in Priorities /\ degradedUntil' \in Nat
    <3>1. PICK some : some = Available({e})
      OBVIOUS
    <3>2. some # {} => Min(some) \in Priorities
      BY <3>1, LeastIs, EndpointsAssumption DEF Available
    <3>3. CASE some # {}
      BY <1>1, <1>4, <3>1, <3>2, <3>3 DEF RecordFailure
    <3>4. CASE some = {}
      <4>1. degradedUntil' = tick + Cooldown /\ active' = active
        BY <1>4, <3>1, <3>4 DEF RecordFailure
      <4> QED BY <1>1, <1>2, <4>1
    <3> QED BY <3>3, <3>4
  <2> QED BY <1>1, <1>4, <2>1, <2>2, <2>3, <2>4
<1> QED BY <1>3, <1>4

LEMMA SuccessTyped ==
    ASSUME EndpointsTypeOK, NEW e \in Priorities, RecordSuccess(e)
    PROVE  /\ endpoints' \in [Priorities -> EndpointState]
           /\ active' \in Priorities /\ degradedUntil' \in Nat
           /\ \A x \in Priorities : endpoints'[x].failures < FailureThreshold
           /\ \A x \in Priorities \ {e} : endpoints'[x] = endpoints[x]
           /\ endpoints'[e].until = 0
<1>1. PICK state \in EndpointState : state = [failures |-> 0, until |-> 0]
  BY DEF EndpointState
<1>2. state.failures < FailureThreshold /\ state.until = 0
  BY <1>1, EndpointsAssumption
<1>3. endpoints' = [endpoints EXCEPT ![e] = state] /\ active' = e /\ degradedUntil' = 0
  BY <1>1 DEF RecordSuccess
<1> QED BY <1>2, <1>3 DEF EndpointsTypeOK

\* A failure of a stream counts one more, up to where the count stops.
LEMMA StreamTyped ==
    ASSUME EndpointsTypeOK, NEW s \in Streams, NEW degraded \in BOOLEAN,
           StreamFailure(s, degraded) \/ StreamSuccess(s, degraded)
    PROVE  /\ tracked' \in [Streams -> StreamState]
           /\ \A x \in Streams \ {s} : tracked'[x] = tracked[x]
           /\ tracked'[s].streak <= tracked[s].streak + 1
           /\ StreamSuccess(s, degraded) => tracked'[s].streak = 0
<1>1. tracked \in [Streams -> StreamState] /\ StreakCap \in Nat
  BY EndpointsAssumption DEF EndpointsTypeOK
<1>2. tracked[s].streak \in 0 .. StreakCap
  BY <1>1 DEF StreamState
<1>3. CASE StreamSuccess(s, degraded)
  <2>0. 0 \in 0 .. StreakCap
    BY <1>1
  <2>1. PICK state \in StreamState : state = [streak |-> 0, degraded |-> degraded]
    BY <2>0 DEF StreamState
  <2>2. tracked' = [tracked EXCEPT ![s] = state]
    BY <1>3, <2>1 DEF StreamSuccess
  <2> QED BY <1>1, <1>2, <2>1, <2>2
<1>4. CASE ~StreamSuccess(s, degraded) /\ StreamFailure(s, degraded)
  <2>1. PICK two : two = {tracked[s].streak + 1, StreakCap}
    OBVIOUS
  <2>2. Min(two) \in two /\ \A x \in two : Min(two) <= x
    BY <1>1, <1>2, <2>1, LeastIs
  <2>3. Min(two) \in 0 .. StreakCap /\ Min(two) <= tracked[s].streak + 1
    BY <1>1, <1>2, <2>1, <2>2
  <2>4. PICK state \in StreamState : state = [streak |-> Min(two), degraded |-> degraded]
    BY <2>3 DEF StreamState
  <2>5. tracked' = [tracked EXCEPT ![s] = state]
    BY <1>4, <2>1, <2>4 DEF StreamFailure
  <2> QED BY <1>1, <1>4, <2>3, <2>4, <2>5
<1> QED BY <1>3, <1>4

LEMMA CallTyped ==
    ASSUME EndpointsTypeOK, NEW i \in DOMAIN calls
    PROVE  /\ calls \in Seq(CallType) /\ calls[i] \in CallType /\ i \in 1 .. Len(calls)
           /\ calls[i].stream \in Streams /\ calls[i].endpoint \in Priorities
           /\ calls[i].degraded \in BOOLEAN /\ calls[i].first \in BOOLEAN
<1>1. calls \in Seq(CallType)
  BY DEF EndpointsTypeOK
<1>2. calls[i] \in CallType /\ i \in 1 .. Len(calls)
  BY <1>1
<1> QED BY <1>1, <1>2 DEF CallType

LEMMA AskingTyped ==
    ASSUME EndpointsTyped, NEW s \in Streams, NEW e
    PROVE  /\ Asking(s, e) \in Nat /\ Asking(s, e) <= endpointScene.calls
           /\ endpointScene.calls \in Nat
<1>1. calls \in Seq(CallType)
  BY DEF EndpointsTyped, EndpointsTypeOK
<1>2. PICK few, many : few = CallsTo(s, e) /\ many = CallsOf(s)
  OBVIOUS
<1>3. few \subseteq many
  BY <1>2 DEF CallsTo, CallsOf
<1>4. PICK seq \in Seq(CallType) : seq = calls
  BY <1>1
<1>5. /\ Cardinality(Places(seq, few)) \in Nat /\ Cardinality(Places(seq, many)) \in Nat
      /\ Cardinality(Places(seq, few)) <= Cardinality(Places(seq, many))
  BY <1>3, PlacesFinite, PlacesGrow
<1>6. Cardinality(Places(seq, many)) <= endpointScene.calls
  BY <1>2, <1>4 DEF EndpointsTyped
<1>7. endpointScene.calls \in Nat
  BY EndpointsAssumption DEF EndpointsTyped, EndpointScene
<1>8. Asking(s, e) = Cardinality(Places(seq, few))
  BY <1>2, <1>4 DEF Asking
<1> QED BY <1>5, <1>6, <1>7, <1>8

\* A call that is over asks no more.
LEMMA CallOver ==
    ASSUME EndpointsTyped, NEW i \in DOMAIN calls, Over(i), endpointScene' = endpointScene
    PROVE  /\ calls' \in Seq(CallType)
           /\ \A s \in Streams : Cardinality(Places(calls', CallsOf(s))) <= endpointScene.calls
           /\ \A s \in Streams, e \in Priorities :
                 Asking(s, e)' = IF calls[i] \in CallsTo(s, e) THEN Asking(s, e) - 1
                                 ELSE Asking(s, e)
<1>1. PICK seq \in Seq(CallType) : seq = calls
  BY CallTyped DEF EndpointsTyped
<1>2. i \in 1 .. Len(seq)
  BY <1>1, CallTyped DEF EndpointsTyped
<1>3. calls' = RemoveAt(seq, i)
  BY <1>1 DEF Over
<1>4. calls' \in Seq(CallType)
  BY <1>2, <1>3, ElementRemoved
<1>5. ASSUME NEW some
      PROVE  /\ Cardinality(Places(calls', some))
                   = IF calls[i] \in some THEN Cardinality(Places(calls, some)) - 1
                     ELSE Cardinality(Places(calls, some))
             /\ Cardinality(Places(calls, some)) \in Nat
  BY <1>1, <1>2, <1>3, PlacesRemoved, PlacesFinite
<1>6. ASSUME NEW s \in Streams
      PROVE  Cardinality(Places(calls', CallsOf(s))) <= endpointScene.calls
  <2>1. PICK many : many = CallsOf(s)
    OBVIOUS
  <2>2. Cardinality(Places(calls, many)) <= endpointScene.calls
    BY <2>1 DEF EndpointsTyped
  <2>3. endpointScene.calls \in Nat
    BY AskingTyped
  <2>4. PICK n \in Nat : n = Cardinality(Places(calls, many))
    BY <1>5
  <2>5. Cardinality(Places(calls', many)) <= n
    BY <1>5, <2>4
  <2> QED BY <1>5, <2>1, <2>2, <2>3, <2>4
<1>7. ASSUME NEW s \in Streams, NEW e \in Priorities
      PROVE  Asking(s, e)' = IF calls[i] \in CallsTo(s, e) THEN Asking(s, e) - 1
                             ELSE Asking(s, e)
  <2>1. PICK few : few = CallsTo(s, e)
    OBVIOUS
  <2>2. Asking(s, e)' = Cardinality(Places(calls', few)) /\ Asking(s, e) = Cardinality(Places(calls, few))
    BY <2>1 DEF Asking
  <2> QED BY <1>5, <2>1, <2>2
<1> QED BY <1>4, <1>6, <1>7

\* The parts of the type, one by one.
LEMMA EndpointsTypes ==
    ASSUME /\ endpoints \in [Priorities -> EndpointState]
           /\ active \in Priorities
           /\ degradedUntil \in Nat
           /\ \A e \in Priorities : endpoints[e].failures < FailureThreshold,
           calls \in Seq(CallType),
           tracked \in [Streams -> StreamState],
           queueFailed \in BOOLEAN /\ down \subseteq Priorities,
           tick \in 0 .. MaxTick,
           endpointScene \in EndpointScenarios /\ endpointSpent \in [EndpointSpending -> Nat],
           \A s \in Streams : Cardinality(Places(calls, CallsOf(s))) <= endpointScene.calls
    PROVE  EndpointsTyped
BY DEF EndpointsTyped, EndpointsTypeOK

LEMMA SpentHere ==
    ASSUME endpointSpent \in [EndpointSpending -> Nat], NEW what \in EndpointSpending,
           SpendHere(what)
    PROVE  endpointSpent' \in [EndpointSpending -> Nat] /\ endpointSpent'[what] # 0
BY DEF SpendHere

LEMMA StartCallTyped ==
    ASSUME EndpointsTyped, NEW s \in Streams, StartCall(s), endpointScene' = endpointScene
    PROVE  /\ EndpointsTyped'
           /\ \A x \in Streams, e \in Priorities : Asking(x, e)' = Asking(x, e)
<1>1. PICK c : c = [stream |-> s, step |-> "status", endpoint |-> Picked,
                    degraded |-> Degraded, first |-> Degraded]
  OBVIOUS
<1>2. active' \in Priorities /\ degradedUntil' \in Nat /\ Degraded \in BOOLEAN
  BY AskedTyped DEF EndpointsTyped, StartCall
<1>3. c \in CallType /\ c.step = "status" /\ c.stream = s
  BY <1>1, <1>2, PickedTyped DEF CallType, EndpointsTyped
<1>4. PICK seq \in Seq(CallType) : seq = calls
  BY DEF EndpointsTyped, EndpointsTypeOK
<1>5. calls' = Append(seq, c)
  BY <1>1, <1>4 DEF StartCall
<1>6. ASSUME NEW some
      PROVE  /\ c \notin some => Places(calls', some) = Places(calls, some)
             /\ Cardinality(Places(calls', some)) <= Cardinality(Places(calls, some)) + 1
             /\ Cardinality(Places(calls, some)) \in Nat
  BY <1>3, <1>4, <1>5, PlacesAppended, PlacesFinite
<1>7. ASSUME NEW x \in Streams
      PROVE  Cardinality(Places(calls', CallsOf(x))) <= endpointScene.calls
  <2>1. endpointScene.calls \in Nat
    BY AskingTyped
  <2>2. CASE x = s
    <3>1. Cardinality(Places(calls, CallsOf(s))) < endpointScene.calls
      <4>1. Underway(s) < endpointScene.calls
        BY DEF StartCall
      <4>2. {i \in DOMAIN calls : calls[i].stream = s} = Places(calls, CallsOf(s))
        BY CallTyped DEF Places, CallsOf, EndpointsTyped
      <4> QED BY <4>1, <4>2, Zenon DEF Underway
    <3>2. PICK some : some = CallsOf(s)
      OBVIOUS
    <3>3. PICK n \in Nat : n = Cardinality(Places(calls, some))
      BY <1>6
    <3>4. n < endpointScene.calls
      BY <3>1, <3>2, <3>3
    <3>5. /\ Cardinality(Places(calls', some)) <= n + 1
          /\ Cardinality(Places(calls', some)) \in Nat
      <4>1. calls' \in Seq(CallType)
        BY <1>3, <1>4, <1>5
      <4> QED BY <1>6, <3>3, <4>1, PlacesFinite
    <3> QED BY <2>1, <2>2, <3>2, <3>4, <3>5
  <2>3. CASE x # s
    <3>1. PICK some : some = CallsOf(x)
      OBVIOUS
    <3>2. c \notin some
      BY <1>3, <2>3, <3>1 DEF CallsOf
    <3>3. Cardinality(Places(calls, some)) <= endpointScene.calls
      BY <3>1 DEF EndpointsTyped
    <3>4. Places(calls', some) = Places(calls, some)
      BY <1>6, <3>2
    <3> QED BY <3>1, <3>3, <3>4
  <2> QED BY <2>2, <2>3
<1>8. ASSUME NEW x \in Streams, NEW e \in Priorities
      PROVE  Asking(x, e)' = Asking(x, e)
  <2>1. PICK some : some = CallsTo(x, e)
    OBVIOUS
  <2>2. c \notin some
    BY <1>3, <2>1 DEF CallsTo
  <2>3. Places(calls', some) = Places(calls, some)
    BY <1>6, <2>2
  <2> QED BY <2>1, <2>3 DEF Asking
<1>9. calls' \in Seq(CallType)
  BY <1>3, <1>4, <1>5
<1>10. UNCHANGED <<endpoints, tracked, queueFailed, down, tick, endpointSpent, endpointScene>>
  BY DEF StartCall
<1>11. EndpointsTyped'
  BY <1>2, <1>7, <1>9, <1>10 DEF EndpointsTyped, EndpointsTypeOK
<1> QED BY <1>8, <1>11

LEMMA PullTyped ==
    ASSUME EndpointsTyped, NEW i \in DOMAIN calls, Pull(i), endpointScene' = endpointScene
    PROVE  /\ EndpointsTyped'
           /\ \A x \in Streams, e \in Priorities \ {Picked} : Asking(x, e)' = Asking(x, e)
<1>1. PICK seq \in Seq(CallType) : seq = calls
  BY DEF EndpointsTyped, EndpointsTypeOK
<1>2. /\ i \in DOMAIN seq /\ i \in 1 .. Len(seq) /\ seq[i] \in CallType
      /\ seq[i].step = "status"
  BY <1>1, CallTyped DEF EndpointsTyped, Pull
<1>3. active' \in Priorities /\ degradedUntil' \in Nat /\ Degraded \in BOOLEAN
  BY AskedTyped DEF EndpointsTyped, Pull
<1>4. PICK old \in CallType : old = seq[i]
  BY <1>2
<1>5. PICK c : c = [old EXCEPT !.step = "pull", !.endpoint = Picked, !.degraded = Degraded]
  OBVIOUS
<1>6. /\ c \in CallType /\ c.stream = old.stream /\ c.endpoint = Picked
  BY <1>3, <1>5, PickedTyped DEF CallType, EndpointsTyped
<1>7. calls' = [seq EXCEPT ![i] = c]
  BY <1>1, <1>2, <1>4, <1>5 DEF Pull
<1>8. calls' \in Seq(CallType)
  BY <1>2, <1>6, <1>7, ExceptSeq
<1>9. ASSUME NEW some, c \in some <=> old \in some
      PROVE  Places(calls', some) = Places(calls, some)
  <2>1. Places([seq EXCEPT ![i] = c], some) = Places(seq, some)
    BY <1>2, <1>4, <1>9 DEF Places
  <2> QED BY <1>1, <1>7, <2>1
<1>10. ASSUME NEW x \in Streams
       PROVE  Cardinality(Places(calls', CallsOf(x))) <= endpointScene.calls
  <2>1. PICK some : some = CallsOf(x)
    OBVIOUS
  <2>2. c \in some <=> old \in some
    BY <1>6, <2>1 DEF CallsOf
  <2>3. Places(calls', some) = Places(calls, some)
    BY <1>9, <2>2
  <2> QED BY <2>1, <2>3 DEF EndpointsTyped
<1>11. ASSUME NEW x \in Streams, NEW e \in Priorities \ {Picked}
       PROVE  Asking(x, e)' = Asking(x, e)
  <2>1. PICK some : some = CallsTo(x, e)
    OBVIOUS
  <2>2. c \notin some /\ old \notin some
    BY <1>2, <1>4, <1>6, <2>1 DEF CallsTo
  <2>3. Places(calls', some) = Places(calls, some)
    BY <1>9, <2>2
  <2> QED BY <2>1, <2>3 DEF Asking
<1>12. UNCHANGED <<endpoints, tracked, queueFailed, down, tick, endpointSpent, endpointScene>>
  BY DEF Pull
<1>13. EndpointsTyped'
  BY <1>3, <1>8, <1>10, <1>12 DEF EndpointsTyped, EndpointsTypeOK
<1> QED BY <1>11, <1>13

LEMMA AnsweredTyped ==
    ASSUME EndpointsTyped, NEW i \in DOMAIN calls, Answered(i), endpointScene' = endpointScene
    PROVE  EndpointsTyped'
<1>1. EndpointsTypeOK
  BY DEF EndpointsTyped
<1>2. /\ calls' \in Seq(CallType)
      /\ \A s \in Streams : Cardinality(Places(calls', CallsOf(s))) <= endpointScene.calls
  BY CallOver DEF Answered
<1>3. /\ endpoints' \in [Priorities -> EndpointState]
      /\ active' \in Priorities /\ degradedUntil' \in Nat
      /\ \A x \in Priorities : endpoints'[x].failures < FailureThreshold
  BY <1>1, CallTyped, SuccessTyped DEF Answered
<1>4. tracked' \in [Streams -> StreamState]
  <2>1. PICK s \in Streams, degraded \in BOOLEAN :
            StreamFailure(s, degraded) \/ StreamSuccess(s, degraded)
    BY <1>1, CallTyped DEF Answered
  <2> QED BY <1>1, <2>1, StreamTyped
<1>5. endpointSpent' \in [EndpointSpending -> Nat]
  <2>1. CASE UNCHANGED endpointSpent
    BY <2>1 DEF EndpointsTyped
  <2>2. CASE SpendHere("storage")
    BY <2>2, SpentHere DEF EndpointsTyped, EndpointSpending
  <2> QED BY <2>1, <2>2 DEF Answered
<1>6. UNCHANGED <<queueFailed, down, tick, endpointScene>>
  BY DEF Answered
<1> QED BY <1>1, <1>2, <1>3, <1>4, <1>5, <1>6 DEF EndpointsTyped, EndpointsTypeOK

LEMMA UnansweredTyped ==
    ASSUME EndpointsTyped, NEW i \in DOMAIN calls, Unanswered(i), endpointScene' = endpointScene
    PROVE  EndpointsTyped'
<1>1. EndpointsTypeOK
  BY DEF EndpointsTyped
<1>2. /\ calls' \in Seq(CallType)
      /\ \A s \in Streams : Cardinality(Places(calls', CallsOf(s))) <= endpointScene.calls
  BY CallOver DEF Unanswered
<1>3. /\ endpoints' \in [Priorities -> EndpointState]
      /\ active' \in Priorities /\ degradedUntil' \in Nat
      /\ \A x \in Priorities : endpoints'[x].failures < FailureThreshold
  <2>1. CASE UNCHANGED <<endpoints, active, degradedUntil>>
    BY <1>1, <2>1 DEF EndpointsTypeOK
  <2>2. CASE RecordFailure(calls[i].endpoint)
    BY <1>1, <2>2, CallTyped, FailureTyped
  <2> QED BY <2>1, <2>2 DEF Unanswered
<1>4. tracked' \in [Streams -> StreamState]
  BY <1>1, CallTyped, StreamTyped DEF Unanswered
<1>5. UNCHANGED <<queueFailed, down, tick, endpointSpent, endpointScene>>
  BY DEF Unanswered
<1> QED BY <1>1, <1>2, <1>3, <1>4, <1>5 DEF EndpointsTyped, EndpointsTypeOK

LEMMA UnreadTyped ==
    ASSUME EndpointsTyped, NEW i \in DOMAIN calls, Unread(i), endpointScene' = endpointScene
    PROVE  EndpointsTyped'
<1>1. EndpointsTypeOK
  BY DEF EndpointsTyped
<1>2. /\ calls' \in Seq(CallType)
      /\ \A s \in Streams : Cardinality(Places(calls', CallsOf(s))) <= endpointScene.calls
  BY CallOver DEF Unread
<1>3. tracked' \in [Streams -> StreamState]
  BY <1>1, CallTyped, StreamTyped DEF Unread
<1>4. endpointSpent' \in [EndpointSpending -> Nat]
  BY SpentHere DEF Unread, EndpointsTyped, EndpointSpending
<1>5. UNCHANGED <<endpoints, active, degradedUntil, queueFailed, down, tick, endpointScene>>
  BY DEF Unread
<1> QED BY <1>1, <1>2, <1>3, <1>4, <1>5 DEF EndpointsTyped, EndpointsTypeOK

LEMMA WorldTyped ==
    ASSUME EndpointsTyped, endpointScene' = endpointScene,
           (\E e \in Priorities : Flip(e)) \/ QueueError \/ PassTick
    PROVE  EndpointsTyped'
<1>1. EndpointsTypeOK
  BY DEF EndpointsTyped
<1>2. UNCHANGED <<endpoints, active, degradedUntil, calls, tracked, endpointScene>>
  BY DEF Flip, QueueError, PassTick
<1>3. endpointSpent' \in [EndpointSpending -> Nat]
  <2>1. CASE SpendHere("flip") \/ SpendHere("queue")
    BY <2>1, SpentHere DEF EndpointsTyped, EndpointSpending
  <2>2. CASE UNCHANGED endpointSpent
    BY <2>2 DEF EndpointsTyped
  <2> QED BY <2>1, <2>2 DEF Flip, QueueError, PassTick
<1>4. queueFailed' \in BOOLEAN /\ down' \subseteq Priorities /\ tick' \in 0 .. MaxTick
  <2>1. CASE \E e \in Priorities : Flip(e)
    BY <1>1, <2>1 DEF Flip, EndpointsTypeOK
  <2>2. CASE QueueError
    BY <1>1, <2>2 DEF QueueError, EndpointsTypeOK
  <2>3. CASE PassTick
    BY <1>1, <2>3, EndpointsAssumption DEF PassTick, EndpointsTypeOK
  <2> QED BY <2>1, <2>2, <2>3
<1> QED BY <1>1, <1>2, <1>3, <1>4 DEF EndpointsTyped, EndpointsTypeOK

LEMMA EndpointsTypedKept == EndpointsTyped /\ [EndpointsNext]_endpointVars => EndpointsTyped'
<1> SUFFICES ASSUME EndpointsTyped, [EndpointsNext]_endpointVars
             PROVE  EndpointsTyped'
  OBVIOUS
<1>1. CASE UNCHANGED endpointVars
  BY <1>1 DEF endpointVars, EndpointsTyped, EndpointsTypeOK
<1>2. CASE EndpointsNext
  <2>1. endpointScene' = endpointScene
    BY <1>2 DEF EndpointsNext
  <2>2. endpointScene.streams \subseteq Streams
    BY EndpointsAssumption DEF EndpointsTyped, EndpointScene
  <2>3. CASE \E s \in endpointScene.streams : StartCall(s)
    BY <2>1, <2>2, <2>3, StartCallTyped
  <2>4. CASE \E s \in endpointScene.streams : Proceed(s)
    BY <2>1, <2>4, PullTyped, AnsweredTyped, UnansweredTyped, UnreadTyped DEF Proceed
  <2>5. CASE (\E e \in Priorities : Flip(e)) \/ QueueError \/ PassTick
    BY <2>1, <2>5, WorldTyped
  <2> QED BY <1>2, <2>3, <2>4, <2>5 DEF EndpointsNext
<1> QED BY <1>1, <1>2

LEMMA OwedTyped ==
    ASSUME EndpointsTyped, NEW s \in Streams, NEW e \in Priorities
    PROVE  /\ FailureThreshold + endpointScene.calls - 1 \in Nat
           /\ Owed(s, e) \in 0 .. FailureThreshold + endpointScene.calls - 1
<1>1. /\ Asking(s, e) \in Nat /\ Asking(s, e) <= endpointScene.calls
      /\ endpointScene.calls \in Nat
  BY AskingTyped
<1>2. endpoints[e].failures \in Nat /\ endpoints[e].failures < FailureThreshold
  BY DEF EndpointsTyped, EndpointsTypeOK, EndpointState
<1>3. FailureThreshold \in Nat \ {0}
  BY EndpointsAssumption
<1> QED BY <1>1, <1>2, <1>3 DEF Owed

LEMMA AllOwedTyped ==
    ASSUME EndpointsTyped, NEW s \in Streams
    PROVE  /\ AllOwed(s) \in [endpointScene.down -> 0 .. FailureThreshold + endpointScene.calls - 1]
           /\ IsFiniteSet(endpointScene.down) /\ endpointScene.down \subseteq Priorities
           /\ FailureThreshold + endpointScene.calls - 1 \in Nat
<1>1. endpointScene.down \subseteq Priorities
  BY EndpointsAssumption DEF EndpointsTyped, EndpointScene
<1>2. IsFiniteSet(endpointScene.down)
  BY <1>1, EndpointsAssumption, FS_Subset
<1>3. FailureThreshold + endpointScene.calls - 1 \in Nat
  BY EndpointsAssumption, OwedTyped
<1> QED BY <1>1, <1>2, <1>3, OwedTyped DEF AllOwed

LEMMA OwedNow ==
    EndpointsTyped =>
        \A s \in Streams :
            AllOwed(s) \in [endpointScene.down -> 0 .. FailureThreshold + endpointScene.calls - 1]
BY AllOwedTyped

\* The same of the state a step leads to.
LEMMA OwedNext ==
    EndpointsTyped' =>
        \A s \in Streams :
            AllOwed(s)' \in [endpointScene'.down -> 0 .. FailureThreshold + endpointScene'.calls - 1]
<1> DEFINE Fine ==
      EndpointsTyped =>
        \A s \in Streams :
            AllOwed(s) \in [endpointScene.down -> 0 .. FailureThreshold + endpointScene.calls - 1]
<1>1. Fine
  BY OwedNow
<1> HIDE DEF Fine
<1>2. Fine'
  BY <1>1, PTL
<1> QED BY <1>2 DEF Fine

\* The outage goes on when nothing less is owed, and one more to a stream that fails.
LEMMA OutageGoesOn ==
    ASSUME EndpointsTyped, EndpointsTyped', OutageInv,
           UNCHANGED <<down, endpointScene>>,
           \A e \in Priorities \ endpointScene.down : endpoints'[e].until = 0,
           \A e \in Priorities : endpoints'[e].until = 0 \/ endpoints'[e].until >= Cooldown,
           \A s \in Streams, e \in endpointScene.down : Owed(s, e) <= Owed(s, e)',
           \A s \in Streams :
              \/ tracked'[s].streak <= tracked[s].streak
              \/ /\ tracked'[s].streak <= tracked[s].streak + 1
                 /\ \E e \in endpointScene.down : Owed(s, e) < Owed(s, e)'
    PROVE  OutageInv'
<1> DEFINE M == FailureThreshold + endpointScene.calls - 1
<1>1. ASSUME NEW s \in Streams
      PROVE  tracked'[s].streak <= Cardinality(Units(endpointScene.down, AllOwed(s)'))
  <2>1. PICK D, f, g : D = endpointScene.down /\ f = AllOwed(s) /\ g = AllOwed(s)'
    OBVIOUS
  <2>2. /\ f \in [D -> 0 .. M] /\ IsFiniteSet(D) /\ M \in Nat
    BY <2>1, AllOwedTyped
  <2>3. AllOwed(s)' \in [endpointScene'.down
                            -> 0 .. FailureThreshold + endpointScene'.calls - 1]
    BY OwedNext
  <2>4. g \in [D -> 0 .. M]
    BY <2>1, <2>3
  <2>5. \A e \in D : f[e] = Owed(s, e) /\ g[e] = Owed(s, e)'
    BY <2>1 DEF AllOwed
  <2> HIDE DEF M
  <2>6. \A e \in D : f[e] <= g[e]
    BY <2>1, <2>5
  <2>7. /\ Cardinality(Units(D, f)) <= Cardinality(Units(D, g))
        /\ (\E e \in D : f[e] < g[e]) => Cardinality(Units(D, f)) + 1 <= Cardinality(Units(D, g))
        /\ Cardinality(Units(D, f)) \in Nat /\ Cardinality(Units(D, g)) \in Nat
    BY <2>2, <2>4, <2>6, UnitsGrow, UnitsBounded
  <2>8. tracked[s].streak \in Int /\ tracked'[s].streak \in Int
    BY EndpointsAssumption DEF EndpointsTyped, EndpointsTypeOK, StreamState
  <2>9. tracked[s].streak <= Cardinality(Units(D, f))
    BY <2>1 DEF OutageInv
  <2>10. tracked'[s].streak <= Cardinality(Units(D, g))
    <3>1. CASE tracked'[s].streak <= tracked[s].streak
      BY <2>7, <2>8, <2>9, <3>1
    <3>2. CASE tracked'[s].streak <= tracked[s].streak + 1 /\ \E e \in D : f[e] < g[e]
      BY <2>7, <2>8, <2>9, <3>2
    <3> QED BY <2>1, <2>5, <3>1, <3>2
  <2> QED BY <2>1, <2>10
<1> QED BY <1>1 DEF OutageInv

\* What is owed changes only with the state of an endpoint and the calls to it.
LEMMA OwedStays ==
    ASSUME NEW s \in Streams, NEW e \in Priorities, endpointScene' = endpointScene,
           endpoints'[e] = endpoints[e],
           Asking(s, e)' = Asking(s, e) \/ endpoints[e].until = 0
    PROVE  Owed(s, e)' = Owed(s, e)
BY DEF Owed

\* While an endpoint that is up was never put aside, none that is cooling is asked.
LEMMA OutageAsks ==
    ASSUME EndpointsTyped, EndpointsCalm, OutageInv
    PROVE  ~Cooling(Picked) /\ endpoints[Picked].until = 0 /\ Picked \in Priorities
<1>1. PICK e \in Priorities : e \notin endpointScene.down
  BY DEF EndpointsCalm, FirstOutage
<1>2. tick \in Nat
  BY EndpointsAssumption DEF EndpointsTyped, EndpointsTypeOK
<1>3. endpoints[e].until = 0
  BY <1>1 DEF OutageInv
<1>4. e \in Available({})
  BY <1>1, <1>2, <1>3 DEF Available, Cooling
<1>5. ~Cooling(Picked) /\ Picked \in Priorities
  BY <1>4, PickedTyped DEF EndpointsTyped
<1>6. tick < Cooldown /\ Cooldown \in Nat
  BY EndpointsAssumption DEF EndpointsCalm, FirstOutage
<1>7. endpoints[Picked].until \in Nat
  BY <1>5 DEF EndpointsTyped, EndpointsTypeOK, EndpointState
<1>8. endpoints[Picked].until = 0 \/ endpoints[Picked].until >= Cooldown
  BY <1>5 DEF OutageInv
<1>9. ~(endpoints[Picked].until > tick)
  BY <1>5 DEF Cooling
<1> QED BY <1>2, <1>5, <1>6, <1>7, <1>8, <1>9

LEMMA OutageStarts ==
    ASSUME EndpointsTyped, EndpointsTyped', OutageInv, EndpointsCalm, NEW s \in Streams,
           StartCall(s), endpointScene' = endpointScene
    PROVE  OutageInv'
<1>1. UNCHANGED <<endpoints, tracked, down>>
  BY DEF StartCall
<1>2. \A x \in Streams, e \in Priorities : Asking(x, e)' = Asking(x, e)
  BY StartCallTyped
<1>3. ASSUME NEW x \in Streams, NEW e \in endpointScene.down
      PROVE  Owed(x, e) <= Owed(x, e)'
  <2>1. e \in Priorities
    BY <1>3, AllOwedTyped
  <2> QED BY <1>1, <1>2, <2>1, OwedStays, OwedTyped
<1>4. \A x \in Streams : tracked[x].streak <= tracked[x].streak
  BY EndpointsAssumption DEF EndpointsTyped, EndpointsTypeOK, StreamState
<1> QED BY <1>1, <1>3, <1>4, OutageGoesOn DEF OutageInv

LEMMA OutagePulls ==
    ASSUME EndpointsTyped, EndpointsTyped', OutageInv, EndpointsCalm, NEW i \in DOMAIN calls,
           Pull(i), endpointScene' = endpointScene
    PROVE  OutageInv'
<1>1. UNCHANGED <<endpoints, tracked, down>>
  BY DEF Pull
<1>2. \A x \in Streams, e \in Priorities \ {Picked} : Asking(x, e)' = Asking(x, e)
  BY PullTyped
<1>3. ASSUME NEW x \in Streams, NEW e \in endpointScene.down
      PROVE  Owed(x, e) <= Owed(x, e)'
  <2>1. e \in Priorities
    BY <1>3, AllOwedTyped
  <2>2. Asking(x, e)' = Asking(x, e) \/ endpoints[e].until = 0
    BY <1>2, <2>1, OutageAsks
  <2>3. Owed(x, e)' = Owed(x, e)
    BY <1>1, <2>1, <2>2, OwedStays
  <2> QED BY <2>1, <2>3, OwedTyped
<1>4. \A x \in Streams : tracked[x].streak <= tracked[x].streak
  BY EndpointsAssumption DEF EndpointsTyped, EndpointsTypeOK, StreamState
<1> QED BY <1>1, <1>3, <1>4, OutageGoesOn DEF OutageInv

LEMMA OutageAnswers ==
    ASSUME EndpointsTyped, EndpointsTyped', OutageInv, EndpointsCalm, EndpointsCalm',
           NEW i \in DOMAIN calls, Answered(i), endpointScene' = endpointScene
    PROVE  OutageInv'
<1>1. PICK up \in Priorities : up = calls[i].endpoint /\ up \notin endpointScene.down
  BY CallTyped DEF EndpointsTyped, Answered, OutageInv
<1>2. /\ \A x \in Priorities \ {up} : endpoints'[x] = endpoints[x]
      /\ endpoints'[up].until = 0
  BY <1>1, SuccessTyped DEF EndpointsTyped, Answered
<1>3. down' = down
  BY DEF Answered
<1>4. ASSUME NEW x \in Streams, NEW e \in endpointScene.down
      PROVE  Owed(x, e) <= Owed(x, e)'
  <2>1. e \in Priorities /\ e # up
    BY <1>1, <1>4, AllOwedTyped
  <2>2. calls[i] \notin CallsTo(x, e)
    BY <1>1, <2>1 DEF CallsTo
  <2>3. Asking(x, e)' = Asking(x, e)
    BY <2>1, <2>2, CallOver DEF Answered
  <2>4. Owed(x, e)' = Owed(x, e)
    BY <1>2, <2>1, <2>3, OwedStays
  <2> QED BY <2>1, <2>4, OwedTyped
<1>5. StreamSuccess(calls[i].stream, calls[i].degraded)
  <2>1. ~SpendHere("storage")
    <3>1. endpointSpent'["storage"] = 0
      BY DEF EndpointsCalm, FirstOutage, EndpointSpending
    <3>2. "storage" \in EndpointSpending
      BY DEF EndpointSpending
    <3> QED BY <3>1, <3>2, SpentHere DEF EndpointsTyped
  <2> QED BY <2>1 DEF Answered
<1>6. ASSUME NEW x \in Streams
      PROVE  tracked'[x].streak <= tracked[x].streak
  <2>1. PICK s \in Streams, degraded \in BOOLEAN : s = calls[i].stream /\ degraded = calls[i].degraded
    BY CallTyped DEF EndpointsTyped
  <2>2. /\ \A y \in Streams \ {s} : tracked'[y] = tracked[y]
        /\ tracked'[s].streak = 0
    BY <1>5, <2>1, StreamTyped DEF EndpointsTyped
  <2>3. tracked[x].streak \in Nat
    BY EndpointsAssumption DEF EndpointsTyped, EndpointsTypeOK, StreamState
  <2> QED BY <2>2, <2>3
<1> QED BY <1>2, <1>3, <1>4, <1>6, OutageGoesOn DEF OutageInv

\* A failure is owed: the endpoint counts it, or it comes from a call that was still
\* owed when the endpoint was put aside.
LEMMA OutageFails ==
    ASSUME EndpointsTyped, EndpointsTyped', OutageInv, EndpointsCalm,
           NEW i \in DOMAIN calls, Unanswered(i), endpointScene' = endpointScene
    PROVE  OutageInv'
<1>1. PICK e \in Priorities : e = calls[i].endpoint /\ e \in endpointScene.down
  BY CallTyped DEF EndpointsTyped, Unanswered, OutageInv
<1>2. PICK s \in Streams : s = calls[i].stream
  BY CallTyped DEF EndpointsTyped
<1>3. down' = down
  BY DEF Unanswered
<1>4. RecordFailure(e)
  BY <1>1 DEF Unanswered, EndpointsCalm
<1>5. /\ \A x \in Priorities \ {e} : endpoints'[x] = endpoints[x]
      /\ IF Tripped(e) THEN endpoints'[e] = [failures |-> 0, until |-> tick + Cooldown]
         ELSE endpoints'[e] = [failures |-> endpoints[e].failures + 1, until |-> endpoints[e].until]
  BY <1>4, FailureTyped DEF EndpointsTyped
<1>6. /\ endpoints[e].failures \in Nat /\ endpoints[e].failures < FailureThreshold
      /\ endpoints[e].until \in Nat
      /\ FailureThreshold \in Nat \ {0} /\ Cooldown \in Nat \ {0} /\ tick \in Nat
      /\ endpoints[e].until = 0 \/ endpoints[e].until >= Cooldown
  BY EndpointsAssumption DEF EndpointsTyped, EndpointsTypeOK, EndpointState, OutageInv
<1>7. endpoints'[e].until = 0 \/ endpoints'[e].until >= Cooldown
  BY <1>5, <1>6
<1>8. ASSUME NEW x \in Streams, NEW other \in endpointScene.down, other # e
      PROVE  Owed(x, other) <= Owed(x, other)'
  <2>1. other \in Priorities
    BY <1>8, AllOwedTyped
  <2>2. calls[i] \notin CallsTo(x, other)
    BY <1>1, <1>8 DEF CallsTo
  <2>3. Asking(x, other)' = Asking(x, other)
    BY <2>1, <2>2, CallOver DEF Unanswered
  <2>4. Owed(x, other)' = Owed(x, other)
    BY <1>5, <1>8, <2>1, <2>3, OwedStays
  <2> QED BY <2>1, <2>4, OwedTyped
<1>9. ASSUME NEW x \in Streams
      PROVE  Owed(x, e) <= Owed(x, e)' /\ (x = s => Owed(x, e) < Owed(x, e)')
  <2>1. PICK n \in Nat, c \in Nat : n = Asking(x, e) /\ c = endpointScene.calls /\ n <= c
    BY AskingTyped
  <2>2. calls[i] \in CallsTo(x, e) <=> x = s
    BY <1>1, <1>2, CallTyped DEF CallsTo, EndpointsTyped, Unanswered
  <2>3. Asking(x, e)' = IF x = s THEN n - 1 ELSE n
    BY <2>1, <2>2, CallOver DEF Unanswered
  <2>4. PICK m \in Nat : m = Asking(x, e)' /\ m <= n /\ (x = s => m + 1 = n)
    <3>1. x = s => n # 0
      <4>1. PICK seq \in Seq(CallType) : seq = calls /\ i \in DOMAIN seq
        BY CallTyped DEF EndpointsTyped
      <4>2. PICK few : few = CallsTo(x, e)
        OBVIOUS
      <4>3. x = s => i \in Places(seq, few)
        BY <2>2, <4>1, <4>2 DEF Places
      <4>4. IsFiniteSet(Places(seq, few)) /\ n = Cardinality(Places(seq, few))
        BY <2>1, <4>1, <4>2, PlacesFinite DEF Asking
      <4> QED BY <4>3, <4>4, FS_EmptySet
    <3> QED BY <2>1, <2>3, <3>1
  <2>5. Owed(x, e) = IF endpoints[e].until = 0 THEN endpoints[e].failures
                     ELSE FailureThreshold + c - 1 - n
    BY <2>1 DEF Owed
  <2>6. Owed(x, e)' = IF endpoints'[e].until = 0 THEN endpoints'[e].failures
                      ELSE FailureThreshold + c - 1 - m
    BY <2>1, <2>4 DEF Owed
  <2>7. CASE ~Tripped(e)
    <3>1. /\ endpoints'[e].until = endpoints[e].until
          /\ endpoints'[e].failures = endpoints[e].failures + 1
      BY <1>5, <2>7
    <3> QED BY <1>6, <2>1, <2>4, <2>5, <2>6, <3>1
  <2>8. CASE Tripped(e)
    <3>1. endpoints'[e].until = tick + Cooldown /\ endpoints'[e].until # 0
      BY <1>5, <1>6, <2>8
    <3>2. endpoints[e].failures = FailureThreshold - 1
      BY <1>6, <2>8 DEF Tripped
    <3> QED BY <1>6, <2>1, <2>4, <2>5, <2>6, <3>1, <3>2
  <2> QED BY <2>7, <2>8
<1>10. ASSUME NEW x \in Streams
       PROVE  \/ tracked'[x].streak <= tracked[x].streak
              \/ /\ tracked'[x].streak <= tracked[x].streak + 1
                 /\ \E y \in endpointScene.down : Owed(x, y) < Owed(x, y)'
  <2>1. /\ \A y \in Streams \ {s} : tracked'[y] = tracked[y]
        /\ tracked'[s].streak <= tracked[s].streak + 1
    BY <1>2, CallTyped, StreamTyped DEF EndpointsTyped, Unanswered
  <2>2. tracked[x].streak \in Nat
    BY EndpointsAssumption DEF EndpointsTyped, EndpointsTypeOK, StreamState
  <2>3. CASE x = s
    BY <1>1, <1>9, <2>1, <2>3
  <2>4. CASE x # s
    BY <2>1, <2>2, <2>4
  <2> QED BY <2>3, <2>4
<1>11. \A x \in Streams, y \in endpointScene.down : Owed(x, y) <= Owed(x, y)'
  BY <1>8, <1>9
<1>12. \A x \in Priorities \ endpointScene.down : endpoints'[x].until = 0
  BY <1>1, <1>5 DEF OutageInv
<1>13. \A x \in Priorities : endpoints'[x].until = 0 \/ endpoints'[x].until >= Cooldown
  BY <1>5, <1>7 DEF OutageInv
<1> QED BY <1>3, <1>10, <1>11, <1>12, <1>13, OutageGoesOn

\* An outage that is still the first one was so before.
LEMMA CalmBefore ==
    ASSUME EndpointsTyped, EndpointsNext, EndpointsCalm'
    PROVE  EndpointsCalm
<1>1. endpointScene' = endpointScene
  BY DEF EndpointsNext
<1>2. tick \in Nat /\ Cooldown \in Nat /\ tick' \in Nat /\ tick <= tick'
  <2>1. tick \in Nat /\ Cooldown \in Nat
    BY EndpointsAssumption DEF EndpointsTyped, EndpointsTypeOK
  <2>2. tick' = tick \/ tick' = tick + 1
    BY DEF EndpointsNext, StartCall, Proceed, Pull, Answered, Unanswered, Unread, Flip,
       QueueError, PassTick
  <2> QED BY <2>1, <2>2
<1>3. ASSUME NEW what \in EndpointSpending
      PROVE  endpointSpent[what] = 0
  <2>1. UNCHANGED endpointSpent \/ \E any \in EndpointSpending : SpendHere(any)
    <3>1. CASE \E s \in endpointScene.streams : StartCall(s)
      BY <3>1 DEF StartCall
    <3>2. CASE \E s \in endpointScene.streams : Proceed(s)
      BY <3>2 DEF Proceed, Pull, Answered, Unanswered, Unread, EndpointSpending
    <3>3. CASE (\E e \in Priorities : Flip(e)) \/ QueueError \/ PassTick
      BY <3>3 DEF Flip, QueueError, PassTick, EndpointSpending
    <3> QED BY <3>1, <3>2, <3>3 DEF EndpointsNext
  <2>2. endpointSpent'[what] = 0
    BY DEF EndpointsCalm, FirstOutage
  <2>3. endpointSpent[what] \in Nat /\ endpointSpent \in [EndpointSpending -> Nat]
    BY DEF EndpointsTyped
  <2>4. ASSUME NEW any \in EndpointSpending
        PROVE  ~SpendHere(any)
    <3>1. endpointSpent'[any] = 0
      BY DEF EndpointsCalm, FirstOutage
    <3> QED BY <2>3, <3>1, SpentHere
  <2> QED BY <2>1, <2>2, <2>4
<1>4. tick < Cooldown
  <2>1. tick' < Cooldown
    BY DEF EndpointsCalm, FirstOutage
  <2> QED BY <1>2, <2>1
<1> QED BY <1>1, <1>3, <1>4 DEF EndpointsCalm, FirstOutage

\* Nothing else happens while the outage is the first one but the passing of time.
LEMMA OutageLasts ==
    ASSUME EndpointsTyped, EndpointsTyped', OutageInv, EndpointsCalm', PassTick,
           endpointScene' = endpointScene
    PROVE  OutageInv'
<1>1. UNCHANGED <<endpoints, tracked, down, calls>>
  BY DEF PassTick
<1>2. ASSUME NEW x \in Streams, NEW e \in endpointScene.down
      PROVE  Owed(x, e) <= Owed(x, e)'
  <2>1. e \in Priorities
    BY <1>2, AllOwedTyped
  <2>2. Asking(x, e)' = Asking(x, e)
    BY <1>1 DEF Asking
  <2> QED BY <1>1, <2>1, <2>2, OwedStays, OwedTyped
<1>3. \A x \in Streams : tracked[x].streak <= tracked[x].streak
  BY EndpointsAssumption DEF EndpointsTyped, EndpointsTypeOK, StreamState
<1> QED BY <1>1, <1>2, <1>3, OutageGoesOn DEF OutageInv

LEMMA EndpointsKept == EndpointsInv /\ [EndpointsNext]_endpointVars => EndpointsInv'
<1> SUFFICES ASSUME EndpointsInv, [EndpointsNext]_endpointVars
             PROVE  EndpointsInv'
  OBVIOUS
<1>1. EndpointsTyped /\ EndpointsTyped'
  BY EndpointsTypedKept DEF EndpointsInv
<1>2. CASE UNCHANGED endpointVars
  <2>1. EndpointsCalm' = EndpointsCalm
    BY <1>2 DEF endpointVars, EndpointsCalm, FirstOutage
  <2>2. \A s \in Streams : AllOwed(s)' = AllOwed(s)
    BY <1>2 DEF endpointVars, AllOwed, Owed, Asking
  <2>3. OutageInv => OutageInv'
    BY <1>2, <2>2 DEF endpointVars, OutageInv
  <2> QED BY <1>1, <2>1, <2>3 DEF EndpointsInv
<1>3. CASE EndpointsNext
  <2> SUFFICES ASSUME EndpointsCalm'
               PROVE  OutageInv'
    BY <1>1 DEF EndpointsInv
  <2>1. endpointScene' = endpointScene /\ endpointScene.streams \subseteq Streams
    BY <1>1, <1>3, EndpointsAssumption DEF EndpointsNext, EndpointsTyped, EndpointScene
  <2>2. EndpointsCalm /\ OutageInv
    BY <1>1, <1>3, CalmBefore DEF EndpointsInv
  <2>3. ASSUME NEW what \in EndpointSpending
        PROVE  ~SpendHere(what)
    <3>1. endpointSpent'[what] = 0
      BY DEF EndpointsCalm, FirstOutage
    <3> QED BY <1>1, <3>1, SpentHere DEF EndpointsTyped
  <2>4. CASE \E s \in endpointScene.streams : StartCall(s)
    BY <1>1, <2>1, <2>2, <2>4, OutageStarts
  <2>5. CASE \E s \in endpointScene.streams : Proceed(s)
    <3>1. PICK i \in DOMAIN calls : Pull(i) \/ Answered(i) \/ Unanswered(i) \/ Unread(i)
      BY <2>5 DEF Proceed
    <3>2. ~Unread(i)
      BY <2>3 DEF Unread, EndpointSpending
    <3> QED BY <1>1, <2>1, <2>2, <3>1, <3>2, OutagePulls, OutageAnswers, OutageFails
  <2>6. CASE PassTick
    BY <1>1, <2>1, <2>2, <2>6, OutageLasts
  <2>7. ~(\E e \in Priorities : Flip(e)) /\ ~QueueError
    BY <2>3 DEF Flip, QueueError, EndpointSpending
  <2> QED BY <1>3, <2>4, <2>5, <2>6, <2>7 DEF EndpointsNext
<1> QED BY <1>2, <1>3

LEMMA EndpointsStart == EndpointsInit => EndpointsInv
<1> SUFFICES ASSUME EndpointsInit
             PROVE  EndpointsInv
  OBVIOUS
<1>1. endpointScene \in EndpointScene /\ endpointScene \in EndpointScenarios
  BY EndpointsAssumption DEF EndpointsInit
<1>2. active \in Priorities
  BY LeastIs, EndpointsAssumption DEF EndpointsInit
<1>3. endpoints \in [Priorities -> EndpointState]
  BY DEF EndpointsInit, EndpointState
<1>4. \A e \in Priorities : endpoints[e].failures = 0 /\ endpoints[e].until = 0
  BY DEF EndpointsInit
<1>5. tracked \in [Streams -> StreamState] /\ \A s \in Streams : tracked[s].streak = 0
  <2>1. 0 \in 0 .. StreakCap
    BY EndpointsAssumption
  <2> QED BY <2>1 DEF EndpointsInit, StreamState
<1>6. calls \in Seq(CallType) /\ calls = <<>>
  BY DEF EndpointsInit
<1>7. ASSUME NEW s \in Streams
      PROVE  Cardinality(Places(calls, CallsOf(s))) <= endpointScene.calls
  <2>1. Places(calls, CallsOf(s)) = {}
    BY <1>6 DEF Places
  <2>2. Cardinality(Places(calls, CallsOf(s))) = 0
    BY <2>1, FS_EmptySet
  <2>3. endpointScene.calls \in Nat
    BY <1>1 DEF EndpointScene
  <2> QED BY <2>2, <2>3
<1>8. EndpointsTyped
  <2>1. down \subseteq Priorities
    BY <1>1 DEF EndpointsInit, EndpointScene
  <2>2. tick \in 0 .. MaxTick /\ degradedUntil \in Nat /\ queueFailed \in BOOLEAN
    <3>1. 0 \in 0 .. MaxTick
      BY EndpointsAssumption
    <3> QED BY <3>1 DEF EndpointsInit
  <2>3. endpointSpent \in [EndpointSpending -> Nat]
    BY DEF EndpointsInit
  <2>4. \A e \in Priorities : endpoints[e].failures < FailureThreshold
    BY <1>4, EndpointsAssumption
  <2> QED BY <1>1, <1>2, <1>3, <1>5, <1>6, <1>7, <2>1, <2>2, <2>3, <2>4, EndpointsTypes
<1>9. OutageInv
  <2>1. \A e \in Priorities : endpoints[e].until = 0
    BY <1>4
  <2>2. ASSUME NEW s \in Streams
        PROVE  tracked[s].streak <= Cardinality(Units(endpointScene.down, AllOwed(s)))
    <3>1. PICK D, f : D = endpointScene.down /\ f = AllOwed(s)
      OBVIOUS
    <3>2. PICK M \in Nat : M = FailureThreshold + endpointScene.calls - 1
      BY <1>8, AllOwedTyped
    <3>3. f \in [D -> 0 .. M] /\ IsFiniteSet(D)
      BY <1>8, <3>1, <3>2, AllOwedTyped
    <3>4. Cardinality(Units(D, f)) \in Nat
      BY <3>3, UnitsBounded
    <3> QED BY <1>5, <3>1, <3>4
  <2>3. down = endpointScene.down
    BY DEF EndpointsInit
  <2> QED BY <2>1, <2>2, <2>3, <1>1 DEF OutageInv, EndpointScene
<1> QED BY <1>8, <1>9 DEF EndpointsInv

\* While another endpoint answers, each endpoint that does not answer costs a stream no
\* more failures in a row than the threshold and the calls that were under way when it
\* was met, in whatever order overlapping cycles report (rpcEndpointManager.ts, and
\* the cycles of the indexer that the timer starts).
THEOREM OutagesAreShort == EndpointsSpec => []OutageIsShort
<1>1. EndpointsInv => OutageIsShort
  <2> SUFFICES ASSUME EndpointsInv, EndpointsCalm, NEW s \in Streams
               PROVE  tracked[s].streak
                         <= Cardinality(endpointScene.down)
                               * (FailureThreshold + endpointScene.calls - 1)
    BY DEF OutageIsShort, FailoverIsPrompt, EndpointsCalm
  <2>1. EndpointsTyped /\ OutageInv
    BY DEF EndpointsInv
  <2>2. PICK D, f : D = endpointScene.down /\ f = AllOwed(s)
    OBVIOUS
  <2>3. PICK M \in Nat : M = FailureThreshold + endpointScene.calls - 1
    BY <2>1, AllOwedTyped
  <2>4. f \in [D -> 0 .. M] /\ IsFiniteSet(D)
    BY <2>1, <2>2, <2>3, AllOwedTyped
  <2>5. PICK n \in Nat, c \in Nat :
            /\ n = Cardinality(Units(D, f)) /\ c = Cardinality(D) * M
            /\ n <= c
    <3>1. PICK d \in Nat : d = Cardinality(D)
      BY <2>4, UnitsBounded
    <3>2. d * M \in Nat
      OBVIOUS
    <3> QED BY <2>4, <3>1, <3>2, UnitsBounded
  <2>6. tracked[s].streak <= n
    BY <2>1, <2>2, <2>5 DEF OutageInv
  <2>7. tracked[s].streak \in Nat
    BY <2>1, EndpointsAssumption DEF EndpointsTyped, EndpointsTypeOK, StreamState
  <2>8. tracked[s].streak <= c
    BY <2>5, <2>6, <2>7
  <2>9. c = Cardinality(endpointScene.down) * (FailureThreshold + endpointScene.calls - 1)
    BY <2>2, <2>3, <2>5
  <2> QED BY <2>8, <2>9, Zenon
<1> QED BY <1>1, EndpointsStart, EndpointsKept, PTL DEF EndpointsSpec

\* Every variable has its type, and no endpoint counts up to its threshold without
\* being put aside (recordFailure of rpcEndpointManager.ts).
THEOREM EndpointsAreTyped == EndpointsSpec => []EndpointsTypeOK
<1>1. EndpointsInv => EndpointsTypeOK
  BY DEF EndpointsInv, EndpointsTyped
<1> QED BY <1>1, EndpointsStart, EndpointsKept, PTL DEF EndpointsSpec
================================================================================
