---------------------------- MODULE MCOnboarding ----------------------------
(***************************************************************************)
(* A small instance of Onboarding: the configuration gives every constant  *)
(* its value; the requests are model values.                               *)
(***************************************************************************)
EXTENDS Onboarding
=============================================================================
