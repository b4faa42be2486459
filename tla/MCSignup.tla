------------------------------- MODULE MCSignup -------------------------------
(***************************************************************************)
(* Small instances of Signup for TLC: two prospects of one company name.   *)
(***************************************************************************)
EXTENDS Signup
=============================================================================
