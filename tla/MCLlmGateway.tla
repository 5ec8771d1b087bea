---------------------------- MODULE MCLlmGateway ----------------------------
(***************************************************************************)
(* Small instances of LlmGateway: the configurations give every constant   *)
(* its value.  No symmetry: the run also checks a liveness property.       *)
(***************************************************************************)
EXTENDS LlmGateway
=============================================================================
