---------------------------- MODULE MCOrderPayment ----------------------------
(* The order and its payments for TLC. *)
EXTENDS OrderPayment
===============================================================================
