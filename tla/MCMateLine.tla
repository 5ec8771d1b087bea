----------------------------- MODULE MCMateLine -----------------------------
(***************************************************************************)
(* A small instance of MateLine: the configuration gives every constant    *)
(* its value; the messages are model values.                               *)
(***************************************************************************)
EXTENDS MateLine
=============================================================================
