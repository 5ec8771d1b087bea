---------------------------- MODULE MCMemoryStore ----------------------------
(***************************************************************************)
(* Small instances of MemoryStore: the configurations give every constant  *)
(* its value.                                                              *)
(***************************************************************************)
EXTENDS MemoryStore
=============================================================================
