-------------------------- MODULE ConversationBook --------------------------
(***************************************************************************)
(* What ConversationEngine (peers/converse.py) promises to its callers,    *)
(* without locks, turns or failures: each task runs at most one            *)
(* conversation at a time, a peer is in at most one, its members do not    *)
(* change while it runs, and it ends.                                      *)
(***************************************************************************)
CONSTANTS Peers, Tasks

VARIABLE talks   \* the peers of the conversation each task runs, or {}

Init == talks = [t \in Tasks |-> {}]

\* A peer may be its own partner: eligible() does not forbid it.
Start(t) ==
    /\ talks[t] = {}
    /\ \E a, b \in Peers :
         /\ \A u \in Tasks : {a, b} \cap talks[u] = {}
         /\ talks' = [talks EXCEPT ![t] = {a, b}]

End(t) ==
    /\ talks[t] # {}
    /\ talks' = [talks EXCEPT ![t] = {}]

Next == \E t \in Tasks : Start(t) \/ End(t)

SafeSpec == Init /\ [][Next]_talks

Spec == SafeSpec /\ \A t \in Tasks : WF_talks(End(t))
=============================================================================
