----------------------------- MODULE MCOnboarding -----------------------------
(***************************************************************************)
(* Small instances of Onboarding for TLC: the wizard with a second tab and *)
(* reloads, invitations doubled and resent, and a little of both.          *)
(***************************************************************************)
EXTENDS Onboarding

Within(i, n, a, f) == [invitations |-> i, tokens |-> n, aside |-> a, failures |-> f]

MCBounds == {Within(0, 0, 2, 1), Within(2, 2, 0, 0), Within(1, 1, 1, 0), Within(1, 2, 0, 1)}
=============================================================================
