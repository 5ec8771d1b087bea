---------------------------- MODULE HarborTraffic ----------------------------
(***************************************************************************)
(* What the simulation (world/sim.py) promises to whoever looks at the     *)
(* harbor, without ticks, paths and destinations: peers are pieces on a    *)
(* board that move one at a time to a neighboring square open to them      *)
(* where nobody stands, and visitors come and go.                          *)
(***************************************************************************)
CONSTANTS Pieces,    \* the peers
          Visitors,  \* the pieces that come and go
          Open,      \* per piece, the squares it may stand on
          Adjacent,  \* pairs of neighboring squares
          Nowhere    \* where a piece is that is not on the board

VARIABLE at          \* where each piece is

Free(s, p) == \A q \in Pieces \ {p} : at[q] # s

Init ==
    /\ at \in [Pieces -> (UNION {Open[p] : p \in Pieces}) \cup {Nowhere}]
    /\ \A p \in Pieces :
         IF p \in Visitors THEN at[p] = Nowhere ELSE at[p] \in Open[p] /\ Free(at[p], p)

Move(p) ==
    /\ at[p] # Nowhere
    /\ \E s \in Open[p] : /\ <<at[p], s>> \in Adjacent
                          /\ Free(s, p)
                          /\ at' = [at EXCEPT ![p] = s]

Enter(p) ==
    /\ at[p] = Nowhere
    /\ \E s \in Open[p] : Free(s, p) /\ at' = [at EXCEPT ![p] = s]

Leave(p) ==
    /\ at[p] # Nowhere
    /\ at' = [at EXCEPT ![p] = Nowhere]

Next ==
    \/ \E p \in Pieces : Move(p)
    \/ \E p \in Visitors : Enter(p) \/ Leave(p)

Spec == Init /\ [][Next]_at
=============================================================================
