------------------------------ MODULE MCPayments ------------------------------
(***************************************************************************)
(* Small instances of Payments for TLC. An invoice of 3, paid in parts of  *)
(* 1 and 2 by staff and through at most three sessions by the customer.    *)
(***************************************************************************)
EXTENDS Payments
=============================================================================
