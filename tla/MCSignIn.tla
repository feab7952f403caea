------------------------------- MODULE MCSignIn -------------------------------
EXTENDS SignIn

CONSTANTS t1, t2, w1, w2

TwoTabs    == {t1, t2}
TwoWallets == {w1, w2}
\* Two clicks in two tabs and one failure; the account stays.
MCBudget == [click |-> 2, switch |-> 0, fault |-> 1]
===============================================================================
