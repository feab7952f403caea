----------------------------- MODULE MCLifecycle -----------------------------
EXTENDS Lifecycle

Schedule(shares) == [s \in Slots |-> IF s \in DOMAIN shares THEN shares[s] ELSE 0]

\* Two seats, one place.
OnePlace ==
    [wellFormed |-> TRUE, entryAmount |-> 1, entryFee |-> 0,
     initialPrize |-> 0, maxParticipants |-> 2, topK |-> 1,
     toleranceBps |-> 1000, registeringEnds |-> 1, liveEnds |-> 2,
     claimEnds |-> 3, payout |-> Schedule(<<10000>>)]

MCConfigs == {OnePlace}
===============================================================================
