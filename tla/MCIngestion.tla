------------------------------ MODULE MCIngestion ------------------------------
EXTENDS Ingestion, TLC

CONSTANTS c1, c2

OneCycle  == {c1}
TwoCycles == {c1, c2}

\* A contest's life as its events: a registration, the freeze, the seal.
ShortHistory == <<"registration", "frozen", "sealed">>
\* Two phase events, whose order a reorganisation may leave either way.
TwoPhases == <<"frozen", "sealed">>

NoGap == {0}

NoBudget == [what \in Spending |-> 0]
\* Two cycles overlap; one call fails, the process restarts once.
Overlapping == {[NoBudget EXCEPT !["fault"] = 1, !["crash"] = 1]}
\* One cycle at a time, with a replay, a reload and a failed call.
Operated == [NoBudget EXCEPT !["replay"] = 1, !["refresh"] = 1, !["fault"] = 1]
\* One cycle at a time: failures, restarts, and a block that is mined again.
Alone == [NoBudget EXCEPT !["fault"] = 1, !["crash"] = 1, !["refresh"] = 1,
                          !["reorg"] = 1, !["send"] = 1]
\* One cycle at a time: a domain write that is refused.
Rejected == [NoBudget EXCEPT !["domain"] = 1]
OneAtATime == {Operated, Alone, Rejected}

Symmetry == Permutations(Cycles)
================================================================================
