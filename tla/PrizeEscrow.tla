---------------------------- MODULE PrizeEscrow ----------------------------
(***************************************************************************)
(* What a contest promises about its prize money, whatever the phases, the *)
(* scores and the leaderboard are: money is added only while nobody has    *)
(* been paid, every participant is paid at most once, a payment never      *)
(* exceeds what is left, and a payment is never taken back.                *)
(***************************************************************************)
EXTENDS Integers

CONSTANT Participants

VARIABLES
    funded,     \* everything ever put into the pool
    remaining,  \* what is left of it
    paid        \* the amounts paid so far, a function over those paid

vars == <<funded, remaining, paid>>

Init ==
    /\ funded = 0
    /\ remaining = 0
    /\ paid = [p \in {} |-> 0]

Fund(amount) ==
    /\ DOMAIN paid = {}
    /\ funded' = funded + amount
    /\ remaining' = remaining + amount
    /\ UNCHANGED paid

Pay(p, amount) ==
    /\ p \notin DOMAIN paid
    /\ amount <= remaining
    /\ remaining' = remaining - amount
    /\ paid' = [q \in DOMAIN paid \cup {p} |->
                    IF q = p THEN amount ELSE paid[q]]
    /\ UNCHANGED funded

\* A deposit and a payment are recognised by the change they make.
Next ==
    \/ funded' - funded \in Nat /\ Fund(funded' - funded)
    \/ \E p \in Participants :
        remaining - remaining' \in Nat /\ Pay(p, remaining - remaining')

Spec == Init /\ [][Next]_vars
============================================================================
