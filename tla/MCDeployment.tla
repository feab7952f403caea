------------------------------ MODULE MCDeployment ------------------------------
EXTENDS Deployment

CONSTANTS t1, t2, k1, k2, k3

TwoTabs == {t1, t2}
ThreeKeys == {k1, k2, k3}
MCFirst == [t \in {t1, t2} |-> IF t = t1 THEN k1 ELSE k2]
TwoRequests == 1..2
Budget == [component |-> 1, submit |-> 1, prize |-> 1, reset |-> 0, enter |-> 0, fault |-> 0, restart |-> 0]

\* One contest, and everything that can go wrong twice.
Alone == [Budget EXCEPT !.fault = 2, !.restart = 1, !.enter = 1, !.reset = 1]
\* Two contests at once, from two pages or the same one again.
Twice == [Budget EXCEPT !.submit = 2, !.reset = 1, !.fault = 1, !.enter = 1, !.restart = 1]
\* Two pages deploy the component while a form is filled in.
Registry == [Budget EXCEPT !.component = 2, !.submit = 2, !.prize = 0, !.fault = 1]
MCScenarios == {Alone, Twice, Registry}
=================================================================================
