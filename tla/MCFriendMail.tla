---------------------------- MODULE MCFriendMail ----------------------------
(***************************************************************************)
(* A small instance of FriendMail: the configuration gives every constant  *)
(* its value; the callers are interchangeable.                             *)
(***************************************************************************)
EXTENDS FriendMail, TLC

Symmetry == Permutations(Callers)
=============================================================================
