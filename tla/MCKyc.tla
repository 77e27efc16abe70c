--------------------------------- MODULE MCKyc ---------------------------------
(* One technician's case, payment account and orders for TLC (kyc.cfg). *)
EXTENDS Kyc
================================================================================
