----------------------------- MODULE MCRebalance -----------------------------
EXTENDS Rebalance

CONSTANTS u1, base, quote, other

Selling  == [sell |-> base, buy |-> quote, amount |-> 2, least |-> 1]
Buying   == [sell |-> quote, buy |-> base, amount |-> 2, least |-> 0]
Unlisted == [sell |-> base, buy |-> other, amount |-> 1, least |-> 0]
MCIntents == {Selling, Buying, Unlisted}
MCHolding == [base |-> 2, quote |-> 2]

Budget(fill, press, browse, update, fault) ==
    [what \in Spending |-> CASE what = "fill" -> fill [] what = "press" -> press
        [] what = "browse" -> browse [] what = "update" -> update [] what = "fault" -> fault
        [] OTHER -> 0]
Outside(budget, gift, callback) ==
    [budget EXCEPT !["gift"] = gift, !["callback"] = callback]
\* The way through (refresh, approve, execute), a plan of another intent on the
\* way, executions again after failures, and tokens moved outside of swaps.
MCScenarios == {Budget(0, 4, 1, 1, 0), Budget(1, 3, 1, 1, 0), Budget(0, 4, 1, 0, 1),
                Outside(Budget(0, 3, 1, 0, 0), 1, 1)}
=============================================================================
