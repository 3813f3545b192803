--------------------------- MODULE BudgetContract ---------------------------
(***************************************************************************)
(* What an account budget promises, without its ledger: amounts move from  *)
(* available to reserved to spent, and spent plus reserved never passes    *)
(* the limit.  The ledger of AccountBudget and the settlements of          *)
(* VideoGeneration implement it.  An account without a budget is one with  *)
(* the limit 0.                                                            *)
(***************************************************************************)
EXTENDS Integers

VARIABLES limit, spent, reserved

vars == <<limit, spent, reserved>>

Init == limit \in Nat /\ spent = 0 /\ reserved = 0

\* An estimate is set aside when the limit still covers it.
Reserve ==
    \E n \in 1..(limit - spent - reserved) :
        reserved' = reserved + n /\ UNCHANGED <<limit, spent>>

\* A reservation ends: what the operation really cost is charged, never more
\* than was set aside, and the rest becomes available again.
Settle ==
    \E n \in 1..reserved : \E m \in 0..n :
        reserved' = reserved - n /\ spent' = spent + m /\ UNCHANGED limit

SetLimit ==
    limit' \in Nat /\ spent + reserved <= limit' /\ UNCHANGED <<spent, reserved>>

Next == Reserve \/ Settle \/ SetLimit

Spec == Init /\ [][Next]_vars
-----------------------------------------------------------------------------
TypeOK == limit \in Nat /\ spent \in Nat /\ reserved \in Nat

\* No account is ever committed beyond its limit.
NeverOvercommitted == spent + reserved <= limit

\* Money spent is never given back.
SpentOnlyGrows == [][spent <= spent']_vars
=============================================================================
