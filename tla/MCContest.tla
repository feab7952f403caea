----------------------------- MODULE MCContest -----------------------------
(* Small instances of Contest for TLC.                                     *)
EXTENDS Contest, TLC

Schedule(shares) == [s \in Slots |-> IF s \in DOMAIN shares THEN shares[s] ELSE 0]

\* Two places, both with a prize.
TwoPrizes ==
    [wellFormed |-> TRUE, entryAmount |-> 1, entryFee |-> 1,
     initialPrize |-> 1, maxParticipants |-> 2, topK |-> 2,
     toleranceBps |-> 1000, registeringEnds |-> 1, liveEnds |-> 3,
     claimEnds |-> 4, payout |-> Schedule(<<7000, 3000>>)]

\* Two places, a prize for the first only.
OnePrize == [TwoPrizes EXCEPT !.payout = Schedule(<<10000>>)]

\* The second slot lies beyond topK, so part of the pool is never paid.
SlotBeyondTopK == [TwoPrizes EXCEPT !.topK = 1, !.entryFee = 0]

\* Submissions that initialize rejects.
Rejected ==
    {[TwoPrizes EXCEPT !.payout = Schedule(<<7000, 4000>>)],
     [TwoPrizes EXCEPT !.topK = 3],
     [TwoPrizes EXCEPT !.liveEnds = 1],
     [TwoPrizes EXCEPT !.wellFormed = FALSE]}

MCConfigs == {TwoPrizes, OnePrize, SlotBeyondTopK} \cup Rejected

Accounts == Permutations(Participants)
============================================================================
