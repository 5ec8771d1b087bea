------------------------------ MODULE WorldSim ------------------------------
(***************************************************************************)
(* Movement in the harbor and the diffs that report it: world/sim.py and   *)
(* the peer half of tick_state in server/state.py.                         *)
(*                                                                         *)
(* tick() runs without suspending.  It is a sequence of steps here, one    *)
(* per peer and phase in the order of the peers dictionary, and while      *)
(* phase is not "idle" nothing else happens.  Tile paths come from the     *)
(* map: Routes is what tile_path may return, Standable what standable_tile *)
(* returns.                                                                *)
(***************************************************************************)
EXTENDS Naturals, Sequences, FiniteSets

CONSTANTS Residents,  \* the map peers, in the order they were placed
          Drifter,    \* the one peer that comes and goes
          Tiles,      \* the tiles of the map
          Walkable,   \* per kind, the tiles such a peer may stand on
          Adjacent,   \* pairs of neighboring tiles
          Nodes,      \* the waypoint nodes
          HomeNode,   \* the node each resident is placed at
          NoTile,     \* no tile: where a peer is that is not in town
          Standable,  \* per node and kind, where such a peer stands there
          Routes      \* per tile, tile and kind, the paths tile_path may find

Kinds == {"resident", "drifter"}
DrifterHome == "mist_gate"

ResidentSet == {Residents[i] : i \in 1 .. Len(Residents)}
Peers == ResidentSet \cup {Drifter}
Order == Append(Residents, Drifter)
Kind(p) == IF p = Drifter THEN "drifter" ELSE "resident"

\* The residents are the keys of a dictionary.
ASSUME PeersAssumption ==
    /\ Residents \in Seq(ResidentSet)
    /\ \A i, j \in 1 .. Len(Residents) : Residents[i] = Residents[j] => i = j
    /\ Drifter \notin ResidentSet
    /\ "none" \notin Nodes
    /\ DrifterHome \in Nodes

ASSUME MapAssumption ==
    /\ Walkable \in [Kinds -> SUBSET Tiles]
    /\ Standable \in [Nodes -> [Kinds -> Tiles]]
    /\ \A n \in Nodes, k \in Kinds : Standable[n][k] \in Walkable[k]
    /\ NoTile \notin Tiles

\* The berths are apart, and the drifter comes out of the mist, where no
\* resident may stand.
ASSUME HomesAssumption ==
    /\ HomeNode \in [ResidentSet -> Nodes]
    /\ \A p, q \in ResidentSet : p # q =>
         Standable[HomeNode[p]]["resident"] # Standable[HomeNode[q]]["resident"]
    /\ Standable[DrifterHome]["drifter"] \notin Walkable["resident"]

\* s is a walk of a peer of kind k that starts next to tile.
IsWalk(s, tile, k) ==
    \A i \in 1 .. Len(s) :
        /\ s[i] \in Walkable[k]
        /\ <<IF i = 1 THEN tile ELSE s[i - 1], s[i]>> \in Adjacent

\* What A* promises: a walk from the start, the start itself left out here.
ASSUME RoutesAssumption ==
    \A s, g \in Tiles, k \in Kinds : \A r \in Routes[s, g, k] :
        /\ r \in Seq(Tiles)
        /\ IsWalk(r, s, k)

VARIABLES
    town,     \* the peers on the map
    tile,     \* where each peer is
    way,      \* the tiles it has still to walk: path from path_index on
    dest,     \* SimPeer.destination
    needs,    \* SimPeer.needs_decision
    avoid,    \* SimPeer.excluded_destination
    phase,    \* where the tick is
    turn,     \* the next peer of the phase
    rounds,   \* movement steps left in the tick
    shown     \* what the clients have been sent: positions of the peers

peerVars == <<town, tile, way, dest, needs, avoid>>
tickVars == <<phase, turn, rounds>>
vars == <<town, tile, way, dest, needs, avoid, phase, turn, rounds, shown>>

Init ==
    /\ town = ResidentSet
    /\ tile = [p \in Peers |-> IF p = Drifter THEN NoTile
                               ELSE Standable[HomeNode[p]]["resident"]]
    /\ way = [p \in Peers |-> <<>>]
    /\ dest = [p \in Peers |-> "none"]
    /\ needs = [p \in Peers |-> TRUE]
    /\ avoid = [p \in Peers |-> "none"]
    /\ phase = "idle"
    /\ turn = 1
    /\ rounds = 0
    /\ shown = tile

-----------------------------------------------------------------------------
(* The tick.                                                               *)

\* Mutant: the path is planned without the kind of the peer.
PathsToAnyKind(p, n) == Routes[tile[p], Standable[n]["drifter"], "drifter"]

\* The path to where p would stand at node n; <<>> is a path of length 1.
PathsTo(p, n) == Routes[tile[p], Standable[n][Kind(p)], Kind(p)]

\* The ways to n that lead somewhere else: the path is longer than 1.
WaysTo(p, n) == PathsTo(p, n) \ {<<>>}

\* Mutant: a peer standing on the tile does not block it.
OccupiedNever(t, p) == FALSE

Occupied(t, p) == \E q \in town \ {p} : tile[q] = t

\* A paused world has no ticks.  The speed the Keeper has set is the
\* number of movement steps.
StartTick ==
    /\ phase = "idle"
    /\ phase' = "decide"
    /\ turn' = 1
    /\ rounds' \in {1, 2}
    /\ UNCHANGED <<peerVars, shown>>

\* The loop over the peers goes on, or the next loop of the tick begins.
NextTurn ==
    IF turn < Len(Order)
    THEN /\ turn' = turn + 1
         /\ UNCHANGED <<phase, rounds>>
    ELSE /\ turn' = 1
         /\ phase' = CASE phase = "decide" -> "step"
                       [] phase = "step" /\ rounds > 1 -> "decide"
                       [] OTHER -> "report"
         /\ rounds' = IF phase = "step" THEN rounds - 1 ELSE rounds

\* Mutant: the destination is not noted down.
DepartUnnamed(p, n, r) ==
    /\ way' = [way EXCEPT ![p] = r]
    /\ needs' = [needs EXCEPT ![p] = FALSE]
    /\ UNCHANGED dest

\* p is sent off to n on the way r.
Depart(p, n, r) ==
    /\ way' = [way EXCEPT ![p] = r]
    /\ dest' = [dest EXCEPT ![p] = n]
    /\ needs' = [needs EXCEPT ![p] = FALSE]

\* _decide: a node that can be walked to, in random order, other than the
\* one just reached and the one just blocked; without any, all stays.
Decide(p) ==
    LET candidates == {n \in Nodes \ {dest[p], avoid[p]} : WaysTo(p, n) # {}} IN
    \/ /\ \E n \in candidates : \E r \in WaysTo(p, n) : Depart(p, n, r)
       /\ avoid' = [avoid EXCEPT ![p] = "none"]
    \/ /\ candidates = {}
       /\ UNCHANGED <<way, dest, needs, avoid>>

DecidePeer ==
    /\ phase = "decide"
    /\ LET p == Order[turn] IN
         IF p \in town /\ needs[p]
         THEN Decide(p)
         ELSE UNCHANGED <<way, dest, needs, avoid>>
    /\ NextTurn
    /\ UNCHANGED <<town, tile, shown>>

\* _step_peer: one tile along the path, unless somebody is in the way.
Advance(p) ==
    IF Occupied(Head(way[p]), p)
    THEN /\ needs' = [needs EXCEPT ![p] = TRUE]
         /\ avoid' = [avoid EXCEPT ![p] = dest[p]]
         /\ way' = [way EXCEPT ![p] = <<>>]
         /\ UNCHANGED <<tile, dest>>
    ELSE /\ tile' = [tile EXCEPT ![p] = Head(way[p])]
         /\ way' = [way EXCEPT ![p] = Tail(@)]
         /\ needs' = [needs EXCEPT ![p] = @ \/ Tail(way[p]) = <<>>]
         /\ UNCHANGED <<dest, avoid>>

StepPeer ==
    /\ phase = "step"
    /\ LET p == Order[turn] IN
         IF p \in town /\ way[p] # <<>>
         THEN Advance(p)
         ELSE UNCHANGED <<tile, way, dest, needs, avoid>>
    /\ NextTurn
    /\ UNCHANGED <<town, shown>>

\* tick_state: the changed and the removed peers are sent, if any.
Position(p) == IF p \in town THEN tile[p] ELSE NoTile

\* Mutant: only peers that have arrived or were blocked are compared.
ReportArrivalsOnly ==
    /\ phase = "report"
    /\ shown' = [p \in Peers |-> IF needs[p] THEN Position(p) ELSE shown[p]]
    /\ phase' = "idle"
    /\ UNCHANGED <<peerVars, turn, rounds>>

Report ==
    /\ phase = "report"
    /\ shown' = [p \in Peers |-> Position(p)]
    /\ phase' = "idle"
    /\ UNCHANGED <<peerVars, turn, rounds>>

-----------------------------------------------------------------------------
(* Between two ticks.                                                      *)

\* Mutant: a peer that is there already is sent off on an empty path.
AssignDestinationHere(p, n) ==
    /\ phase = "idle"
    /\ p \in town
    /\ \E r \in PathsTo(p, n) : Depart(p, n, r)
    /\ UNCHANGED <<town, tile, avoid, tickVars, shown>>

\* A decision sends a peer to a node; if it is there, or there is no path,
\* it is flagged for the next decision instead.
AssignDestination(p, n) ==
    /\ phase = "idle"
    /\ p \in town
    /\ \/ \E r \in WaysTo(p, n) : Depart(p, n, r)
       \/ /\ WaysTo(p, n) = {}
          /\ needs' = [needs EXCEPT ![p] = TRUE]
          /\ UNCHANGED <<way, dest>>
    /\ UNCHANGED <<town, tile, avoid, tickVars, shown>>

\* The record of a peer that was just created.
Fresh(p) ==
    /\ way' = [way EXCEPT ![p] = <<>>]
    /\ dest' = [dest EXCEPT ![p] = "none"]
    /\ needs' = [needs EXCEPT ![p] = TRUE]
    /\ avoid' = [avoid EXCEPT ![p] = "none"]

SpawnDrifter ==
    /\ phase = "idle"
    /\ Drifter \notin town
    /\ town' = town \cup {Drifter}
    /\ tile' = [tile EXCEPT ![Drifter] = Standable[DrifterHome]["drifter"]]
    /\ Fresh(Drifter)
    /\ UNCHANGED <<tickVars, shown>>

\* The drifter's record is dropped.
DespawnDrifter ==
    /\ phase = "idle"
    /\ Drifter \in town
    /\ town' = town \ {Drifter}
    /\ tile' = [tile EXCEPT ![Drifter] = NoTile]
    /\ Fresh(Drifter)
    /\ UNCHANGED <<tickVars, shown>>

-----------------------------------------------------------------------------

Next ==
    \/ StartTick \/ DecidePeer \/ StepPeer \/ Report
    \/ \E p \in Peers, n \in Nodes : AssignDestination(p, n)
    \/ SpawnDrifter \/ DespawnDrifter

Spec == Init /\ [][Next]_vars

-----------------------------------------------------------------------------

\* The records of the peers keep their types, the residents stay in town, and a
\* peer that has tiles left to walk knows the node it walks to, which a block on
\* the way excludes from the next decision (SimPeer, _step_peer).
TypeOK ==
    /\ town \in SUBSET Peers
    /\ ResidentSet \subseteq town
    /\ tile \in [Peers -> Tiles \cup {NoTile}]
    /\ way \in [Peers -> Seq(Tiles)]
    /\ dest \in [Peers -> Nodes \cup {"none"}]
    /\ needs \in [Peers -> BOOLEAN]
    /\ avoid \in [Peers -> Nodes \cup {"none"}]
    /\ phase \in {"idle", "decide", "step", "report"}
    /\ turn \in 1 .. Len(Order)
    /\ rounds \in 0 .. 2
    /\ shown \in [Peers -> Tiles \cup {NoTile}]
    /\ \A p \in Peers : way[p] # <<>> => dest[p] \in Nodes

-----------------------------------------------------------------------------
(* Safety.                                                                 *)

\* No two peers stand on one tile, although every path is planned as if the
\* town were empty and a spawn looks at nobody.
NoOverlap ==
    \A p, q \in town : p # q => tile[p] # tile[q]

\* A peer that waits for no decision has tiles left to walk: nobody is
\* "stuck with needs_decision frozen False forever" (assign_destination).
NeverStranded == \A p \in town : ~needs[p] => way[p] # <<>>

\* What is left of a path starts next to the peer and is made of tiles its
\* kind may walk on, wherever the peer was re-routed or blocked.
WayIsWalkable ==
    \A p \in town : tile[p] \in Walkable[Kind(p)] /\ IsWalk(way[p], tile[p], Kind(p))

\* A page sees no peer jump: between two reports a resident moves at most
\* two tiles, the movement steps of a tick at speed 2.
NoJump ==
    [][\A p \in ResidentSet : shown'[p] # shown[p] =>
         \/ <<shown[p], shown'[p]>> \in Adjacent
         \/ \E t \in Tiles : /\ <<shown[p], t>> \in Adjacent
                            /\ <<t, shown'[p]>> \in Adjacent]_vars

-----------------------------------------------------------------------------
(* What the simulation promises, however it plans.                         *)

Traffic == INSTANCE HarborTraffic
               WITH Pieces <- Peers, Visitors <- {Drifter}, Nowhere <- NoTile,
                    Open <- [p \in Peers |-> Walkable[Kind(p)]],
                    at <- [p \in Peers |-> Position(p)]

\* The simulation implements the traffic: each of its steps moves at most one
\* peer, to a free tile next to it that its kind may stand on, or brings the
\* drifter to a free tile, or takes it away.
ImplementsTraffic == Traffic!Spec

=============================================================================
