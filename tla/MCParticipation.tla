---------------------------- MODULE MCParticipation ----------------------------
EXTENDS Participation

CONSTANTS u1, u2, org

TwoUsers == {u1, u2}
NoBudget == [what \in Spending |-> 0]
Scenario(entrants, budget) == [entered |-> entrants, budget |-> budget]

\* Two users race for the last place.
Race   == Scenario({}, [NoBudget EXCEPT !["click"] = 4, !["browse"] = 1])
\* One registration from nothing, with failures and loads of the page.
Single == Scenario({}, [NoBudget EXCEPT !["click"] = 3, !["visit"] = 1, !["fault"] = 1])
\* The organizer and others act, a user asks for settlement.
Ending == Scenario({u1}, [NoBudget EXCEPT !["act"] = 1, !["service"] = 3, !["click"] = 1, !["visit"] = 1])
\* Pages are loaded for ever.
Watched == Scenario({u1}, [NoBudget EXCEPT !["browse"] = Unlimited, !["act"] = 1, !["service"] = 2, !["replay"] = 1])
MCScenarios == {Race, Single, Ending, Watched}
===============================================================================
