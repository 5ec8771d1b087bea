----------------------------- MODULE MCLaunches -----------------------------
(***************************************************************************)
(* A small instance of Launches: the configuration gives every constant   *)
(* its value.                                                              *)
(***************************************************************************)
EXTENDS Launches, TLC

\* Conversations of the instance.
Quarrels == {-2}

\* Nothing is accepted, or an event of the pair and one of a single peer.
Tales == {<<>>, <<TRUE, FALSE>>}
=============================================================================
