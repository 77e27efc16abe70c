------------------------------ MODULE MCMoneyBack ------------------------------
(* One payment, its refunds and its chargeback for TLC. *)
EXTENDS MoneyBack, TLC

\* Refunds the app creates are alike.
Alike == Permutations(Refunds)
================================================================================
