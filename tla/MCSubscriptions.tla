---------------------------- MODULE MCSubscriptions ----------------------------
(***************************************************************************)
(* Small instances of Subscriptions for TLC. Two subscriptions (an owner   *)
(* who opened two checkouts), two requests at once, a trial of one day and *)
(* a grace period of one day.                                              *)
(***************************************************************************)
EXTENDS Subscriptions
=============================================================================
