--------------------------- MODULE WorldSim_proofs ---------------------------
(***************************************************************************)
(* Theorems about WorldSim, for any map, any residents and any paths.      *)
(***************************************************************************)
EXTENDS WorldSim, TLAPS

\* The movement loops run only with steps left in the tick.
RoundsLeft == phase \in {"decide", "step"} => rounds > 0

Inv == TypeOK /\ RoundsLeft /\ WayIsWalkable

-----------------------------------------------------------------------------
(* The map.                                                                *)

\* The tick goes through peers only.
LEMMA OrderTypes ==
  /\ Order \in Seq(Peers)
  /\ Len(Order) \in Nat \ {0}
  /\ \A i \in 1 .. Len(Order) : Order[i] \in Peers
  <1>1. Residents \in Seq(Peers)
    BY PeersAssumption DEF Peers
  <1>2. Drifter \in Peers
    BY DEF Peers
  <1>3. QED
    BY <1>1, <1>2 DEF Order

\* Every peer has a kind; only the drifter is a drifter.
LEMMA KindTypes ==
  /\ \A p \in Peers : Kind(p) \in Kinds
  /\ \A p \in ResidentSet : Kind(p) = "resident"
  /\ Kind(Drifter) = "drifter"
  /\ Peers = ResidentSet \cup {Drifter}
  BY PeersAssumption DEF Kind, Kinds, Peers

\* A way from where a peer stands is a walk.
LEMMA WaysAreWalks ==
  ASSUME TypeOK, NEW p \in town, tile[p] \in Tiles, NEW n \in Nodes,
         NEW r \in PathsTo(p, n)
  PROVE  r \in Seq(Tiles) /\ IsWalk(r, tile[p], Kind(p))
  <1>1. p \in Peers /\ Kind(p) \in Kinds
    BY KindTypes DEF TypeOK
  <1>2. Standable[n][Kind(p)] \in Tiles
    BY <1>1, MapAssumption
  <1>3. QED
    BY <1>1, <1>2, RoutesAssumption DEF PathsTo

\* One step along a walk leaves a walk.
LEMMA WalkOn ==
  ASSUME NEW w \in Seq(Tiles), w # <<>>, NEW t, NEW k, IsWalk(w, t, k)
  PROVE  /\ Head(w) \in Walkable[k]
         /\ Tail(w) \in Seq(Tiles)
         /\ IsWalk(Tail(w), Head(w), k)
  <1>1. /\ Len(w) \in Nat \ {0}
        /\ Head(w) = w[1]
        /\ Tail(w) \in Seq(Tiles)
        /\ Len(Tail(w)) = Len(w) - 1
        /\ \A i \in 1 .. Len(w) - 1 : Tail(w)[i] = w[i + 1]
    OBVIOUS
  <1>2. ASSUME NEW i \in 1 .. Len(Tail(w))
        PROVE  /\ Tail(w)[i] \in Walkable[k]
               /\ <<IF i = 1 THEN Head(w) ELSE Tail(w)[i - 1], Tail(w)[i]>> \in Adjacent
    <2>1. i + 1 \in 1 .. Len(w) /\ Tail(w)[i] = w[i + 1] /\ i + 1 # 1
      BY <1>1
    <2>2. w[i + 1] \in Walkable[k] /\ <<w[i], w[i + 1]>> \in Adjacent
      BY <2>1 DEF IsWalk
    <2>3. w[i] = IF i = 1 THEN Head(w) ELSE Tail(w)[i - 1]
      BY <1>1
    <2>4. QED
      BY <2>1, <2>2, <2>3
  <1>3. Head(w) \in Walkable[k]
    <2>1. 1 \in 1 .. Len(w)
      BY <1>1
    <2>2. QED
      BY <1>1, <2>1 DEF IsWalk
  <1>4. QED
    BY <1>1, <1>2, <1>3 DEF IsWalk

\* The loops of a tick stay within the peers and the rounds.
LEMMA NextTurnTypes ==
  ASSUME TypeOK, RoundsLeft, phase \in {"decide", "step"}, NextTurn
  PROVE  /\ phase' \in {"decide", "step", "report"}
         /\ turn' \in 1 .. Len(Order)
         /\ rounds' \in 0 .. 2
         /\ RoundsLeft'
  BY OrderTypes DEF NextTurn, TypeOK, RoundsLeft

-----------------------------------------------------------------------------
(* Types and walks.                                                        *)

\* Every resident stands at its berth with nowhere to go.
LEMMA InitInv == Init => Inv
  <1> SUFFICES ASSUME Init
               PROVE  Inv
    OBVIOUS
  <1>1. ResidentSet \subseteq Peers
    BY KindTypes
  <1>2. \A p \in ResidentSet : /\ Standable[HomeNode[p]]["resident"] \in Tiles
                               /\ Standable[HomeNode[p]]["resident"] \in Walkable["resident"]
    BY HomesAssumption, MapAssumption DEF Kinds
  <1>3. tile \in [Peers -> Tiles \cup {NoTile}]
    BY <1>2, KindTypes DEF Init
  <1>4. TypeOK
    BY <1>1, <1>3, OrderTypes DEF Init, TypeOK
  <1>5. WayIsWalkable
    <2>1. ASSUME NEW p \in town
          PROVE  tile[p] \in Walkable[Kind(p)] /\ IsWalk(way[p], tile[p], Kind(p))
      <3>1. p \in ResidentSet /\ p \in Peers /\ p # Drifter
        BY <2>1, <1>1, PeersAssumption DEF Init
      <3>2. tile[p] \in Walkable[Kind(p)]
        BY <3>1, <1>2, KindTypes DEF Init
      <3>3. way[p] = <<>>
        BY <3>1 DEF Init
      <3>4. QED
        BY <3>2, <3>3 DEF IsWalk
    <2>2. QED
      BY <2>1 DEF WayIsWalkable
  <1>6. QED
    BY <1>4, <1>5 DEF Init, Inv, RoundsLeft

\* A peer that is sent off has a way to walk.
LEMMA DepartWalks ==
  ASSUME Inv, NEW p \in town, NEW n \in Nodes, NEW r \in WaysTo(p, n),
         Depart(p, n, r), UNCHANGED <<town, tile>>
  PROVE  /\ way' \in [Peers -> Seq(Tiles)]
         /\ dest' \in [Peers -> Nodes \cup {"none"}]
         /\ needs' \in [Peers -> BOOLEAN]
         /\ \A q \in Peers : way'[q] # <<>> => dest'[q] \in Nodes
         /\ WayIsWalkable'
  <1>1. p \in Peers /\ Kind(p) \in Kinds
    BY KindTypes DEF Inv, TypeOK
  <1>2. tile[p] \in Tiles
    BY <1>1, MapAssumption DEF Inv, WayIsWalkable
  <1>3. r \in Seq(Tiles) /\ IsWalk(r, tile[p], Kind(p))
    BY <1>2, WaysAreWalks DEF Inv, WaysTo
  <1>4. /\ way' \in [Peers -> Seq(Tiles)]
        /\ dest' \in [Peers -> Nodes \cup {"none"}]
    BY <1>3 DEF Depart, Inv, TypeOK
  <1>5. needs' \in [Peers -> BOOLEAN]
    BY DEF Depart, Inv, TypeOK
  <1>6. ASSUME NEW q \in town'
        PROVE  tile'[q] \in Walkable[Kind(q)] /\ IsWalk(way'[q], tile'[q], Kind(q))
    <2>1. CASE q = p
      BY <1>1, <1>3, <2>1 DEF Depart, Inv, TypeOK, WayIsWalkable
    <2>2. CASE q # p
      <3>1. way'[q] = way[q] /\ q \in town /\ tile'[q] = tile[q]
        BY <1>6, <2>2 DEF Depart, Inv, TypeOK
      <3>2. QED
        BY <3>1 DEF Inv, WayIsWalkable
    <2>3. QED
      BY <2>1, <2>2
  <1>7. ASSUME NEW q \in Peers, way'[q] # <<>>
        PROVE  dest'[q] \in Nodes
    BY <1>7 DEF Depart, Inv, TypeOK
  <1>8. QED
    BY <1>4, <1>5, <1>6, <1>7 DEF WayIsWalkable

\* A peer that was just created has no way to walk.
LEMMA FreshTypes ==
  ASSUME TypeOK, NEW p \in Peers, Fresh(p)
  PROVE  /\ way' \in [Peers -> Seq(Tiles)]
         /\ dest' \in [Peers -> Nodes \cup {"none"}]
         /\ needs' \in [Peers -> BOOLEAN]
         /\ avoid' \in [Peers -> Nodes \cup {"none"}]
         /\ \A q \in Peers : way'[q] # <<>> => dest'[q] \in Nodes
  <1>1. needs' \in [Peers -> BOOLEAN]
    BY DEF Fresh, TypeOK
  <1>2. ASSUME NEW q \in Peers, way'[q] # <<>>
        PROVE  dest'[q] \in Nodes
    BY <1>2 DEF Fresh, TypeOK
  <1>3. QED
    BY <1>1, <1>2 DEF Fresh, TypeOK

\* Every step keeps the types and leaves walks that can be walked.
LEMMA InvStep == Inv /\ [Next]_vars => Inv'
  <1> SUFFICES ASSUME Inv, [Next]_vars
               PROVE  Inv'
    OBVIOUS
  <1> USE DEF Inv
  <1>1. CASE StartTick
    <2>1. 1 \in 1 .. Len(Order)
      BY OrderTypes
    <2>2. QED
      BY <1>1, <2>1
      DEF StartTick, peerVars, TypeOK, RoundsLeft, WayIsWalkable
  <1>2. CASE DecidePeer
    <2> DEFINE p == Order[turn]
    <2>1. p \in Peers
      BY OrderTypes DEF TypeOK
    <2>2. /\ phase = "decide" /\ NextTurn
          /\ UNCHANGED <<town, tile, shown>>
      BY <1>2 DEF DecidePeer
    <2>3. /\ phase' \in {"decide", "step", "report"}
          /\ turn' \in 1 .. Len(Order) /\ rounds' \in 0 .. 2 /\ RoundsLeft'
      BY <2>2, NextTurnTypes
    <2>4. CASE UNCHANGED <<way, dest, needs, avoid>>
      BY <2>2, <2>3, <2>4 DEF TypeOK, WayIsWalkable
    <2>5. CASE p \in town /\ Decide(p) /\ ~UNCHANGED <<way, dest, needs, avoid>>
      <3>1. PICK n \in Nodes :
              /\ \E r \in WaysTo(p, n) : Depart(p, n, r)
              /\ avoid' = [avoid EXCEPT ![p] = "none"]
        BY <2>5 DEF Decide
      <3>2. /\ way' \in [Peers -> Seq(Tiles)]
            /\ dest' \in [Peers -> Nodes \cup {"none"}]
            /\ needs' \in [Peers -> BOOLEAN]
            /\ \A q \in Peers : way'[q] # <<>> => dest'[q] \in Nodes
            /\ WayIsWalkable'
        BY <2>2, <2>5, <3>1, DepartWalks
      <3>3. avoid' \in [Peers -> Nodes \cup {"none"}]
        BY <3>1 DEF TypeOK
      <3>4. QED
        BY <2>2, <2>3, <3>2, <3>3 DEF TypeOK
    <2>6. QED
      BY <1>2, <2>4, <2>5 DEF DecidePeer
  <1>3. CASE StepPeer
    <2> DEFINE p == Order[turn]
    <2>1. p \in Peers
      BY OrderTypes DEF TypeOK
    <2>2. phase = "step" /\ NextTurn /\ UNCHANGED <<town, shown>>
      BY <1>3 DEF StepPeer
    <2>3. /\ phase' \in {"decide", "step", "report"}
          /\ turn' \in 1 .. Len(Order) /\ rounds' \in 0 .. 2 /\ RoundsLeft'
      BY <2>2, NextTurnTypes
    <2>4. CASE UNCHANGED <<tile, way, dest, needs, avoid>>
      BY <2>2, <2>3, <2>4 DEF TypeOK, WayIsWalkable
    <2>5. CASE p \in town /\ way[p] # <<>> /\ Advance(p)
      <3>1. /\ Head(way[p]) \in Walkable[Kind(p)]
            /\ Tail(way[p]) \in Seq(Tiles)
            /\ IsWalk(Tail(way[p]), Head(way[p]), Kind(p))
        BY <2>1, <2>5, WalkOn DEF TypeOK, WayIsWalkable
      <3>2. Head(way[p]) \in Tiles
        BY <2>1, <3>1, KindTypes, MapAssumption
      <3>3. CASE Occupied(Head(way[p]), p)
        <4>1. /\ needs' = [needs EXCEPT ![p] = TRUE]
              /\ avoid' = [avoid EXCEPT ![p] = dest[p]]
              /\ way' = [way EXCEPT ![p] = <<>>]
              /\ tile' = tile /\ dest' = dest
          BY <2>5, <3>3 DEF Advance
        <4>2. needs' \in [Peers -> BOOLEAN]
          BY <4>1 DEF TypeOK
        <4>3. TypeOK'
          BY <2>1, <2>2, <2>3, <4>1, <4>2 DEF TypeOK
        <4>4. ASSUME NEW q \in town'
              PROVE  tile'[q] \in Walkable[Kind(q)] /\ IsWalk(way'[q], tile'[q], Kind(q))
          <5>1. q \in town /\ tile'[q] = tile[q] /\ q \in Peers
            BY <2>2, <4>1, <4>4 DEF TypeOK
          <5>2. tile[q] \in Walkable[Kind(q)] /\ IsWalk(way[q], tile[q], Kind(q))
            BY <5>1 DEF WayIsWalkable
          <5>3. way'[q] = way[q] \/ way'[q] = <<>>
            BY <4>1, <5>1 DEF TypeOK
          <5>4. QED
            BY <5>1, <5>2, <5>3 DEF IsWalk
        <4>5. QED
          BY <2>3, <4>3, <4>4 DEF WayIsWalkable
      <3>4. CASE ~Occupied(Head(way[p]), p)
        <4>1. /\ tile' = [tile EXCEPT ![p] = Head(way[p])]
              /\ way' = [way EXCEPT ![p] = Tail(@)]
              /\ needs' = [needs EXCEPT ![p] = @ \/ Tail(way[p]) = <<>>]
              /\ dest' = dest /\ avoid' = avoid
          BY <2>5, <3>4 DEF Advance
        <4>2. needs' \in [Peers -> BOOLEAN]
          BY <4>1 DEF TypeOK
        <4>3. TypeOK'
          BY <2>1, <2>2, <2>3, <3>1, <3>2, <4>1, <4>2 DEF TypeOK
        <4>4. ASSUME NEW q \in town'
              PROVE  tile'[q] \in Walkable[Kind(q)] /\ IsWalk(way'[q], tile'[q], Kind(q))
          <5>1. CASE q = p
            BY <2>1, <3>1, <4>1, <5>1 DEF TypeOK
          <5>2. CASE q # p
            <6>1. tile'[q] = tile[q] /\ way'[q] = way[q] /\ q \in town
              BY <2>2, <4>1, <4>4, <5>2 DEF TypeOK
            <6>2. QED
              BY <6>1 DEF WayIsWalkable
          <5>3. QED
            BY <5>1, <5>2
        <4>5. QED
          BY <2>3, <4>3, <4>4 DEF WayIsWalkable
      <3>5. QED
        BY <3>3, <3>4
    <2>6. QED
      BY <1>3, <2>4, <2>5 DEF StepPeer
  <1>4. CASE Report
    <2>1. shown' \in [Peers -> Tiles \cup {NoTile}]
      BY <1>4 DEF Report, Position, TypeOK
    <2>2. QED
      BY <1>4, <2>1 DEF Report, peerVars, TypeOK, RoundsLeft, WayIsWalkable
  <1>5. ASSUME NEW p \in Peers, NEW n \in Nodes, AssignDestination(p, n)
        PROVE  Inv'
    <2>1. /\ phase = "idle" /\ p \in town
          /\ UNCHANGED <<town, tile, avoid, phase, turn, rounds, shown>>
      BY <1>5 DEF AssignDestination, tickVars
    <2>2. ASSUME NEW r \in WaysTo(p, n), Depart(p, n, r)
          PROVE  Inv'
      BY <2>1, <2>2, DepartWalks DEF TypeOK, RoundsLeft
    <2>3. CASE needs' = [needs EXCEPT ![p] = TRUE] /\ UNCHANGED <<way, dest>>
      <3>1. needs' \in [Peers -> BOOLEAN]
        BY <2>3 DEF TypeOK
      <3>2. QED
        BY <2>1, <2>3, <3>1 DEF TypeOK, RoundsLeft, WayIsWalkable
    <2>4. QED
      BY <1>5, <2>2, <2>3 DEF AssignDestination
  <1>6. CASE SpawnDrifter
    <2>1. Standable[DrifterHome]["drifter"] \in Walkable["drifter"] \cap Tiles
      BY PeersAssumption, MapAssumption DEF Kinds
    <2>2. tile' \in [Peers -> Tiles \cup {NoTile}]
      BY <1>6, <2>1 DEF SpawnDrifter, TypeOK
    <2>3. TypeOK'
      BY <1>6, <2>2, FreshTypes, KindTypes DEF SpawnDrifter, tickVars, TypeOK
    <2>4. ASSUME NEW q \in town'
          PROVE  tile'[q] \in Walkable[Kind(q)] /\ IsWalk(way'[q], tile'[q], Kind(q))
      <3>1. CASE q = Drifter
        BY <1>6, <2>1, <3>1, KindTypes DEF SpawnDrifter, Fresh, IsWalk, TypeOK
      <3>2. CASE q # Drifter
        <4>1. q \in town /\ tile'[q] = tile[q] /\ way'[q] = way[q]
          BY <1>6, <2>4, <3>2 DEF SpawnDrifter, Fresh, TypeOK
        <4>2. QED
          BY <4>1 DEF WayIsWalkable
      <3>3. QED
        BY <3>1, <3>2
    <2>5. QED
      BY <1>6, <2>3, <2>4 DEF SpawnDrifter, tickVars, RoundsLeft, WayIsWalkable
  <1>7. CASE DespawnDrifter
    <2>1. TypeOK'
      BY <1>7, FreshTypes, KindTypes, PeersAssumption
      DEF DespawnDrifter, tickVars, TypeOK
    <2>2. ASSUME NEW q \in town'
          PROVE  tile'[q] \in Walkable[Kind(q)] /\ IsWalk(way'[q], tile'[q], Kind(q))
      <3>1. q \in town /\ tile'[q] = tile[q] /\ way'[q] = way[q]
        BY <1>7, <2>2 DEF DespawnDrifter, Fresh, TypeOK
      <3>2. QED
        BY <3>1 DEF WayIsWalkable
    <2>3. QED
      BY <1>7, <2>1, <2>2 DEF DespawnDrifter, tickVars, RoundsLeft, WayIsWalkable
  <1>8. CASE UNCHANGED vars
    BY <1>8 DEF vars, TypeOK, RoundsLeft, WayIsWalkable
  <1>9. QED
    BY <1>1, <1>2, <1>3, <1>4, <1>5, <1>6, <1>7, <1>8 DEF Next

\* The records always have their types, for any map and any number of residents;
\* in particular a peer with tiles left to walk has a destination, also after it
\* was blocked, re-routed or spawned (assign_destination, _decide, _step_peer).
THEOREM TypeCorrect == Spec => []TypeOK
  <1>1. Inv => TypeOK
    BY DEF Inv
  <1>2. QED
    BY InitInv, InvStep, <1>1, PTL DEF Spec

\* Whoever re-routes or blocks a peer, what it still has to walk starts next
\* to it and is open to its kind.
THEOREM WaysStayWalkable == Spec => []WayIsWalkable
  <1>1. Inv => WayIsWalkable
    BY DEF Inv
  <1>2. QED
    BY InitInv, InvStep, <1>1, PTL DEF Spec

\* A peer that waits for no decision has a way to go: a decision that sends
\* it to where it is, a blocked step and an arrival all ask for a new one.
THEOREM NobodyStranded == Spec => []NeverStranded
  <1>1. Init => NeverStranded
    BY KindTypes DEF Init, NeverStranded
  <1>2. Inv /\ NeverStranded /\ [Next]_vars => NeverStranded'
    <2> SUFFICES ASSUME Inv, NeverStranded, [Next]_vars, NEW q \in town', ~needs'[q]
                 PROVE  way'[q] # <<>>
      BY DEF NeverStranded
    <2> USE DEF Inv
    <2>1. ASSUME NEW p \in town, NEW n \in Nodes, NEW r \in WaysTo(p, n),
                 Depart(p, n, r), UNCHANGED town
          PROVE  way'[q] # <<>>
      BY <2>1 DEF Depart, WaysTo, TypeOK, NeverStranded
    <2>2. CASE DecidePeer
      BY <2>1, <2>2 DEF DecidePeer, Decide, NeverStranded
    <2>3. CASE StepPeer
      <3> DEFINE p == Order[turn]
      <3>1. CASE p \in town /\ way[p] # <<>> /\ Advance(p)
        BY <2>3, <3>1 DEF StepPeer, Advance, TypeOK, NeverStranded
      <3>2. CASE UNCHANGED <<way, needs>>
        BY <2>3, <3>2 DEF StepPeer, NeverStranded
      <3>3. QED
        BY <2>3, <3>1, <3>2 DEF StepPeer
    <2>4. ASSUME NEW p \in Peers, NEW n \in Nodes, AssignDestination(p, n)
          PROVE  way'[q] # <<>>
      BY <2>1, <2>4 DEF AssignDestination, TypeOK, NeverStranded
    <2>5. CASE SpawnDrifter \/ DespawnDrifter
      BY <2>5, KindTypes DEF SpawnDrifter, DespawnDrifter, Fresh, TypeOK, NeverStranded
    <2>6. CASE StartTick \/ Report \/ UNCHANGED vars
      BY <2>6 DEF StartTick, Report, peerVars, vars, NeverStranded
    <2>7. QED
      BY <2>2, <2>3, <2>4, <2>5, <2>6 DEF Next
  <1>3. QED
    BY <1>1, <1>2, InitInv, InvStep, PTL DEF Spec

\* Two peers never stand on one tile.  Paths ignore the other peers and a
\* spawn looks at nobody; the look at the next tile keeps peers apart, and
\* no resident can be where the drifter appears.
THEOREM PeersApart == Spec => []NoOverlap
  <1>1. Init => NoOverlap
    BY HomesAssumption, KindTypes, PeersAssumption DEF Init, NoOverlap
  <1>2. Inv /\ NoOverlap /\ [Next]_vars => NoOverlap'
    <2> SUFFICES ASSUME Inv, NoOverlap, [Next]_vars
                 PROVE  NoOverlap'
      OBVIOUS
    <2> USE DEF Inv
    <2>1. CASE StepPeer
      <3> DEFINE p == Order[turn]
      <3>1. CASE UNCHANGED tile
        BY <2>1, <3>1 DEF StepPeer, NoOverlap
      <3>2. CASE /\ p \in town
                 /\ ~Occupied(Head(way[p]), p)
                 /\ tile' = [tile EXCEPT ![p] = Head(way[p])]
        BY <2>1, <3>2 DEF StepPeer, Occupied, TypeOK, NoOverlap
      <3>3. QED
        BY <2>1, <3>1, <3>2 DEF StepPeer, Advance
    <2>2. CASE SpawnDrifter
      <3>1. \A q \in town : tile[q] # Standable[DrifterHome]["drifter"]
        BY <2>2, KindTypes, HomesAssumption
        DEF SpawnDrifter, TypeOK, WayIsWalkable
      <3>2. QED
        BY <2>2, <3>1, KindTypes DEF SpawnDrifter, TypeOK, NoOverlap
    <2>3. CASE DespawnDrifter
      BY <2>3 DEF DespawnDrifter, TypeOK, NoOverlap
    <2>4. CASE \/ StartTick \/ DecidePeer \/ Report \/ UNCHANGED vars
               \/ \E p \in Peers, n \in Nodes : AssignDestination(p, n)
      BY <2>4
      DEF StartTick, DecidePeer, Report, AssignDestination, peerVars, vars, NoOverlap
    <2>5. QED
      BY <2>1, <2>2, <2>3, <2>4 DEF Next
  <1>3. QED
    BY <1>1, <1>2, InitInv, InvStep, PTL DEF Spec

-----------------------------------------------------------------------------
(* How far a resident is from where the pages show it.                     *)

\* t is at most k tiles from s, for k up to 2.
Within(s, t, k) ==
    \/ s = t
    \/ k > 0 /\ <<s, t>> \in Adjacent
    \/ k > 1 /\ \E u \in Tiles : <<s, u>> \in Adjacent /\ <<u, t>> \in Adjacent

\* The tiles the resident in place i may have moved since the last report: those
\* of the movement steps that are over, and of this one if its turn has passed.
Moves(i) ==
    CASE phase = "idle" -> 0
      [] phase = "decide" -> 2 - rounds
      [] phase = "step" -> IF i < turn THEN 3 - rounds ELSE 2 - rounds
      [] OTHER -> 2

Trail ==
    \A i \in 1 .. Len(Residents) :
        Within(shown[Residents[i]], tile[Residents[i]], Moves(i))

LEMMA WithinGrows ==
  ASSUME NEW s, NEW t, NEW k \in 0 .. 2, NEW l \in 0 .. 2, k <= l, Within(s, t, k)
  PROVE  Within(s, t, l)
  BY DEF Within

\* A step to a tile next to this one is one more.
LEMMA WithinNext ==
  ASSUME NEW s, NEW t \in Tiles, NEW u, NEW k \in 0 .. 1, Within(s, t, k),
         <<t, u>> \in Adjacent
  PROVE  Within(s, u, k + 1)
  BY DEF Within

\* The residents come first, each once; the drifter is last.
LEMMA OrderPlaces ==
  /\ Len(Residents) \in Nat /\ Len(Order) = Len(Residents) + 1
  /\ \A i \in 1 .. Len(Residents) : /\ Residents[i] \in ResidentSet
                                    /\ Residents[i] \in Peers
                                    /\ Residents[i] # Drifter
                                    /\ Order[i] = Residents[i]
  /\ Order[Len(Residents) + 1] = Drifter
  /\ \A i, j \in 1 .. Len(Residents) : i # j => Residents[i] # Residents[j]
  <1>1. Residents \in Seq(ResidentSet) /\ Drifter \notin ResidentSet
    BY PeersAssumption
  <1>2. \A i \in 1 .. Len(Residents) : Residents[i] \in ResidentSet
    BY DEF ResidentSet
  <1>3. /\ Len(Order) = Len(Residents) + 1 /\ Order[Len(Residents) + 1] = Drifter
        /\ \A i \in 1 .. Len(Residents) : Order[i] = Residents[i]
    BY <1>1 DEF Order
  <1>4. QED
    BY <1>1, <1>2, <1>3, PeersAssumption DEF Peers

LEMMA MovesTypes ==
  ASSUME TypeOK, RoundsLeft, NEW i \in 1 .. Len(Residents)
  PROVE  Moves(i) \in 0 .. 2
  BY DEF TypeOK, RoundsLeft, Moves

\* Whatever leaves the residents and the pages alone, at no fewer moves.
LEMMA TrailStays ==
  ASSUME Inv, Inv', Trail, shown' = shown,
         \A p \in ResidentSet : tile'[p] = tile[p],
         \A i \in 1 .. Len(Residents) : Moves(i) <= Moves(i)'
  PROVE  Trail'
  <1> SUFFICES ASSUME NEW i \in 1 .. Len(Residents)
               PROVE  Within(shown'[Residents[i]], tile'[Residents[i]], Moves(i)')
    BY DEF Trail
  <1>1. Moves(i) \in 0 .. 2 /\ Moves(i)' \in 0 .. 2
    BY MovesTypes DEF Inv, TypeOK, RoundsLeft, Moves
  <1>2. Within(shown[Residents[i]], tile[Residents[i]], Moves(i))
    BY DEF Trail
  <1>3. shown'[Residents[i]] = shown[Residents[i]] /\ tile'[Residents[i]] = tile[Residents[i]]
    BY OrderPlaces
  <1>4. QED
    BY <1>1, <1>2, <1>3, WithinGrows

\* The end of a turn takes no move back.
LEMMA TurnMoves ==
  ASSUME Inv, phase \in {"decide", "step"}, NextTurn
  PROVE  /\ \A i \in 1 .. Len(Residents) : Moves(i) <= Moves(i)'
         /\ phase = "step" => \A i \in 1 .. Len(Residents) : i = turn =>
              Moves(i) \in 0 .. 1 /\ Moves(i)' = Moves(i) + 1
  <1>1. /\ Len(Residents) \in Nat /\ Len(Order) = Len(Residents) + 1
        /\ turn \in 1 .. Len(Order)
    BY OrderPlaces DEF Inv, TypeOK
  <1>2. rounds \in 1 .. 2
    BY DEF Inv, TypeOK, RoundsLeft
  <1>3. CASE turn < Len(Order)
    <2>1. turn' = turn + 1 /\ phase' = phase /\ rounds' = rounds
      BY <1>3 DEF NextTurn
    <2>2. QED
      BY <1>1, <1>2, <2>1 DEF Moves
  <1>4. CASE ~(turn < Len(Order))
    <2>1. turn = Len(Residents) + 1 /\ turn' = 1
      BY <1>1, <1>4 DEF NextTurn
    <2>2. CASE phase = "decide"
      <3>1. phase' = "step" /\ rounds' = rounds
        BY <1>4, <2>2 DEF NextTurn
      <3>2. QED
        BY <1>1, <1>2, <2>1, <2>2, <3>1 DEF Moves
    <2>3. CASE phase = "step"
      <3>1. rounds' = rounds - 1 /\ phase' = IF rounds > 1 THEN "decide" ELSE "report"
        BY <1>4, <2>3 DEF NextTurn
      <3>2. QED
        BY <1>1, <1>2, <2>1, <2>3, <3>1 DEF Moves
    <2>4. QED
      BY <2>2, <2>3
  <1>5. QED
    BY <1>3, <1>4

LEMMA TrailStep == Inv /\ Trail /\ [Next]_vars => Trail'
  <1> SUFFICES ASSUME Inv, Trail, [Next]_vars
               PROVE  Trail'
    OBVIOUS
  <1>1. Inv'
    BY InvStep
  <1>2. ResidentSet \subseteq Peers /\ Drifter \notin ResidentSet
    BY PeersAssumption DEF Peers
  <1>3. CASE StartTick
    <2>1. \A i \in 1 .. Len(Residents) : Moves(i) <= Moves(i)'
      BY <1>3 DEF StartTick, Moves
    <2>2. shown' = shown /\ tile' = tile
      BY <1>3 DEF StartTick, peerVars
    <2>3. QED
      BY <1>1, <2>1, <2>2, TrailStays
  <1>4. CASE DecidePeer
    <2>1. phase = "decide" /\ NextTurn /\ shown' = shown /\ tile' = tile
      BY <1>4 DEF DecidePeer
    <2>2. QED
      BY <1>1, <2>1, TurnMoves, TrailStays
  <1>5. CASE StepPeer
    <2> DEFINE p == Order[turn]
    <2>1. phase = "step" /\ NextTurn /\ shown' = shown
      BY <1>5 DEF StepPeer
    <2>2. CASE tile' = tile
      BY <1>1, <2>1, <2>2, TurnMoves, TrailStays
    <2>3. CASE p \in town /\ way[p] # <<>> /\ tile' = [tile EXCEPT ![p] = Head(way[p])]
      <3>1. CASE turn <= Len(Residents)
        <4>1. turn \in 1 .. Len(Residents) /\ p = Residents[turn] /\ p \in Peers
          BY <3>1, OrderPlaces DEF Inv, TypeOK
        <4>2. tile'[p] = Head(way[p]) /\ \A q \in Peers : q # p => tile'[q] = tile[q]
          BY <2>3, <4>1 DEF Inv, TypeOK
        <4>3. tile[p] \in Tiles /\ <<tile[p], Head(way[p])>> \in Adjacent
          <5>1. way[p] \in Seq(Tiles) /\ 1 \in 1 .. Len(way[p]) /\ Head(way[p]) = way[p][1]
            BY <2>3, <4>1 DEF Inv, TypeOK
          <5>2. tile[p] \in Walkable[Kind(p)] /\ IsWalk(way[p], tile[p], Kind(p))
            BY <2>3 DEF Inv, WayIsWalkable
          <5>3. QED
            BY <4>1, <5>1, <5>2, KindTypes, MapAssumption DEF IsWalk
        <4>4. ASSUME NEW i \in 1 .. Len(Residents), i = turn
              PROVE  Within(shown'[Residents[i]], tile'[Residents[i]], Moves(i)')
          <5>1. Residents[i] = p /\ Within(shown[p], tile[p], Moves(i))
            BY <4>1, <4>4 DEF Trail
          <5>2. Moves(i) \in 0 .. 1 /\ Moves(i)' = Moves(i) + 1
            BY <2>1, <4>4, TurnMoves
          <5>3. QED
            BY <2>1, <4>2, <4>3, <5>1, <5>2, WithinNext
        <4>5. ASSUME NEW i \in 1 .. Len(Residents), i # turn
              PROVE  Within(shown'[Residents[i]], tile'[Residents[i]], Moves(i)')
          <5>1. tile'[Residents[i]] = tile[Residents[i]]
            BY <4>1, <4>2, <4>5, OrderPlaces
          <5>2. Moves(i) \in 0 .. 2 /\ Moves(i)' \in 0 .. 2 /\ Moves(i) <= Moves(i)'
            BY <1>1, <2>1, MovesTypes, TurnMoves DEF Inv, TypeOK, RoundsLeft, Moves
          <5>3. Within(shown[Residents[i]], tile[Residents[i]], Moves(i))
            BY DEF Trail
          <5>4. QED
            BY <2>1, <5>1, <5>2, <5>3, WithinGrows
        <4>6. ASSUME NEW i \in 1 .. Len(Residents)
              PROVE  Within(shown'[Residents[i]], tile'[Residents[i]], Moves(i)')
          BY <4>4, <4>5
        <4>7. QED
          BY <4>6 DEF Trail
      <3>2. CASE ~(turn <= Len(Residents))
        <4>1. turn = Len(Residents) + 1 /\ p = Drifter
          BY <3>2, OrderPlaces DEF Inv, TypeOK
        <4>2. \A q \in ResidentSet : tile'[q] = tile[q]
          BY <1>2, <2>3, <4>1 DEF Inv, TypeOK
        <4>3. QED
          BY <1>1, <2>1, <4>2, TurnMoves, TrailStays
      <3>3. QED
        BY <3>1, <3>2
    <2>4. QED
      BY <1>5, <2>2, <2>3 DEF StepPeer, Advance
  <1>6. CASE Report
    <2>1. ASSUME NEW i \in 1 .. Len(Residents)
          PROVE  shown'[Residents[i]] = tile'[Residents[i]]
      BY <1>6, OrderPlaces DEF Report, Position, peerVars, Inv, TypeOK
    <2>2. QED
      BY <2>1 DEF Trail, Within
  <1>7. ASSUME phase = "idle", UNCHANGED <<phase, shown>>,
               \A q \in ResidentSet : tile'[q] = tile[q]
        PROVE  Trail'
    <2>1. \A i \in 1 .. Len(Residents) : Moves(i) = 0 /\ Moves(i)' = 0
      BY <1>7 DEF Moves
    <2>2. QED
      BY <1>1, <1>7, <2>1, TrailStays
  <1>8. ASSUME NEW p \in Peers, NEW n \in Nodes, AssignDestination(p, n)
        PROVE  Trail'
    BY <1>7, <1>8 DEF AssignDestination, tickVars
  <1>9. CASE SpawnDrifter \/ DespawnDrifter
    <2>1. \A q \in ResidentSet : tile'[q] = tile[q]
      BY <1>2, <1>9 DEF SpawnDrifter, DespawnDrifter, Inv, TypeOK
    <2>2. QED
      BY <1>7, <1>9, <2>1 DEF SpawnDrifter, DespawnDrifter, tickVars
  <1>10. CASE UNCHANGED vars
    BY <1>10 DEF vars, Trail, Moves
  <1>11. QED
    BY <1>3, <1>4, <1>5, <1>6, <1>8, <1>9, <1>10 DEF Next

\* No resident jumps on a page: each report shows it at most the two movement
\* steps of a tick from where the last one did.
THEOREM ResidentsNeverJump == Spec => NoJump
  <1>1. Init => Trail
    BY DEF Init, Trail, Within
  <1>2. Spec => []Trail
    BY <1>1, InitInv, InvStep, TrailStep, PTL DEF Spec
  <1>3. Spec => []Inv
    BY InitInv, InvStep, PTL DEF Spec
  <1>4. ASSUME Inv, Trail, [Next]_vars
        PROVE  [\A p \in ResidentSet : shown'[p] # shown[p] =>
                  \/ <<shown[p], shown'[p]>> \in Adjacent
                  \/ \E t \in Tiles : /\ <<shown[p], t>> \in Adjacent
                                     /\ <<t, shown'[p]>> \in Adjacent]_vars
    <2> SUFFICES ASSUME Next, NEW p \in ResidentSet, shown'[p] # shown[p]
                 PROVE  \/ <<shown[p], shown'[p]>> \in Adjacent
                        \/ \E t \in Tiles : /\ <<shown[p], t>> \in Adjacent
                                           /\ <<t, shown'[p]>> \in Adjacent
      BY <1>4
    <2>1. Report
      BY DEF Next, StartTick, DecidePeer, StepPeer, AssignDestination,
             SpawnDrifter, DespawnDrifter
    <2>2. PICK i \in 1 .. Len(Residents) : p = Residents[i]
      BY DEF ResidentSet
    <2>3. shown'[p] = tile[p]
      BY <1>4, <2>1, <2>2, OrderPlaces DEF Report, Position, Inv, TypeOK
    <2>4. Within(shown[p], tile[p], 2)
      BY <1>4, <2>1, <2>2 DEF Trail, Moves, Report
    <2>5. QED
      BY <2>3, <2>4 DEF Within
  <1>5. QED
    BY <1>2, <1>3, <1>4, PTL DEF Spec, NoJump

-----------------------------------------------------------------------------
(* The simulation implements the traffic.                                  *)

\* Where each peer is, as whoever looks at the harbor sees it.
Place == [p \in Peers |-> Position(p)]

\* A peer in town is on a tile, and whoever is not in town is nowhere.
LEMMA Places ==
  ASSUME Inv
  PROVE  /\ \A p \in town : p \in Peers /\ Place[p] = tile[p] /\ tile[p] \in Tiles
                            /\ Place[p] # NoTile
         /\ \A p \in Peers \ town : Place[p] = NoTile
  <1>1. \A p \in town : p \in Peers /\ tile[p] \in Tiles
    BY KindTypes, MapAssumption DEF Inv, TypeOK, WayIsWalkable
  <1>2. QED
    BY <1>1, MapAssumption DEF Place, Position

\* One peer has come, gone or moved, and no other.
LEMMA OnePlace ==
  ASSUME NEW p \in Peers, \A q \in Peers \ {p} : Position(q)' = Position(q)
  PROVE  Place' = [Place EXCEPT ![p] = Position(p)']
  BY DEF Place

LEMMA InitTraffic == Init => Traffic!Init
  <1> SUFFICES ASSUME Init
               PROVE  Traffic!Init
    OBVIOUS
  <1> DEFINE open == [p \in Peers |-> Walkable[Kind(p)]]
  <1>1. Peers = ResidentSet \cup {Drifter} /\ Drifter \notin ResidentSet
    BY KindTypes, PeersAssumption
  <1>2. Position(Drifter) = NoTile
    BY <1>1 DEF Init, Position
  <1>3. ASSUME NEW p \in ResidentSet
        PROVE  /\ Position(p) = Standable[HomeNode[p]]["resident"]
               /\ Position(p) \in open[p] /\ Position(p) # NoTile
    <2>1. p \in Peers /\ p # Drifter /\ open[p] = Walkable["resident"]
      BY <1>1, KindTypes
    <2>2. /\ Standable[HomeNode[p]]["resident"] \in Walkable["resident"]
          /\ Walkable["resident"] \subseteq Tiles
      BY HomesAssumption, MapAssumption DEF Kinds
    <2>3. Position(p) = Standable[HomeNode[p]]["resident"]
      BY <2>1 DEF Init, Position
    <2>4. QED
      BY <2>1, <2>2, <2>3, MapAssumption
  <1>4. ASSUME NEW p \in ResidentSet, NEW q \in Peers \ {p}
        PROVE  Position(q) # Position(p)
    <2>1. CASE q = Drifter
      BY <1>2, <1>3, <2>1
    <2>2. CASE q # Drifter
      BY <1>1, <1>3, <2>2, HomesAssumption
    <2>3. QED
      BY <2>1, <2>2
  <1>5. Place \in [Peers -> (UNION {open[p] : p \in Peers}) \cup {NoTile}]
    <2>1. \A p \in ResidentSet : Position(p) \in UNION {open[q] : q \in Peers}
      BY <1>1, <1>3
    <2> HIDE DEF open
    <2>2. \A p \in Peers : Position(p) \in (UNION {open[q] : q \in Peers}) \cup {NoTile}
      BY <1>1, <1>2, <2>1
    <2>3. QED
      BY <2>2 DEF Place
  <1>6. \A p \in Peers : IF p \in {Drifter} THEN Place[p] = NoTile
                         ELSE /\ Place[p] \in open[p]
                              /\ \A q \in Peers \ {p} : Place[q] # Place[p]
    BY <1>1, <1>2, <1>3, <1>4 DEF Place
  <1>7. QED
    BY <1>5, <1>6 DEF Traffic!Init, Traffic!Free, Place

\* Every step of the simulation is a move of the traffic, or none.
LEMMA TrafficStep == Inv /\ NoOverlap /\ [Next]_vars => [Traffic!Next]_Place
  <1> SUFFICES ASSUME Inv, NoOverlap, [Next]_vars
               PROVE  Traffic!Next \/ Place' = Place
    OBVIOUS
  <1> DEFINE open == [q \in Peers |-> Walkable[Kind(q)]]
  <1>1. Inv'
    BY InvStep
  <1>2. CASE UNCHANGED <<town, tile>>
    BY <1>2 DEF Place, Position
  <1>3. CASE StepPeer
    <2>1. CASE tile' = tile
      BY <1>2, <1>3, <2>1 DEF StepPeer
    <2>2. ASSUME NEW p \in town, NEW s, s = Head(way[p]), way[p] # <<>>,
                 ~Occupied(s, p), tile' = [tile EXCEPT ![p] = s]
          PROVE  Traffic!Next
      <3>1. p \in Peers /\ town' = town /\ Place[p] = tile[p] /\ Place[p] # NoTile
        BY <1>3, <2>2, Places DEF StepPeer
      <3>2. s \in Walkable[Kind(p)] /\ <<tile[p], s>> \in Adjacent /\ s # NoTile
        <4>1. way[p] \in Seq(Tiles) /\ 1 \in 1 .. Len(way[p]) /\ s = way[p][1]
          BY <2>2, <3>1 DEF Inv, TypeOK
        <4>2. IsWalk(way[p], tile[p], Kind(p))
          BY <2>2 DEF Inv, WayIsWalkable
        <4>3. s \in Tiles
          BY <4>1
        <4>4. QED
          BY <4>1, <4>2, <4>3, MapAssumption DEF IsWalk
      <3>3. Position(p)' = s /\ \A q \in Peers \ {p} : Position(q)' = Position(q)
        BY <2>2, <3>1 DEF Position, Inv, TypeOK
      <3>4. Place' = [Place EXCEPT ![p] = s]
        BY <3>1, <3>3, OnePlace
      <3>5. ASSUME NEW q \in Peers \ {p}
            PROVE  Place[q] # s
        <4>1. CASE q \in town
          BY <2>2, <4>1, Places DEF Occupied
        <4>2. CASE q \notin town
          BY <3>2, <4>2, Places
        <4>3. QED
          BY <4>1, <4>2
      <3>6. s \in open[p]
        BY <3>1, <3>2
      <3>7. Traffic!Move(p)
        BY <3>1, <3>2, <3>4, <3>5, <3>6 DEF Traffic!Move, Traffic!Free, Place
      <3>8. QED
        BY <3>1, <3>7 DEF Traffic!Next
    <2>3. QED
      BY <1>3, <2>1, <2>2 DEF StepPeer, Advance
  <1>4. CASE SpawnDrifter
    <2> DEFINE s == Standable[DrifterHome]["drifter"]
    <2>1. /\ Drifter \notin town /\ town' = town \cup {Drifter}
          /\ tile' = [tile EXCEPT ![Drifter] = s]
      BY <1>4 DEF SpawnDrifter
    <2>2. Drifter \in Peers /\ Kind(Drifter) = "drifter" /\ Drifter \in {Drifter}
      BY KindTypes
    <2>3. s \in Walkable["drifter"] /\ s # NoTile /\ s \in Tiles
      BY PeersAssumption, MapAssumption DEF Kinds
    <2>4. Position(Drifter)' = s /\ \A q \in Peers \ {Drifter} : Position(q)' = Position(q)
      BY <2>1, <2>2 DEF Position, Inv, TypeOK
    <2>5. Place' = [Place EXCEPT ![Drifter] = s]
      BY <2>2, <2>4, OnePlace
    <2>6. ASSUME NEW q \in Peers \ {Drifter}
          PROVE  Place[q] # s
      <3>1. q \in ResidentSet /\ q \in town /\ Kind(q) = "resident"
        BY KindTypes DEF Inv, TypeOK
      <3>2. Place[q] = tile[q] /\ tile[q] \in Walkable["resident"]
        BY <3>1, Places DEF Inv, WayIsWalkable
      <3>3. QED
        BY <3>2, HomesAssumption
    <2>7. Place[Drifter] = NoTile
      BY <2>1, <2>2, Places
    <2>8. s \in open[Drifter]
      BY <2>2, <2>3
    <2>9. Traffic!Enter(Drifter)
      BY <2>5, <2>6, <2>7, <2>8 DEF Traffic!Enter, Traffic!Free, Place
    <2>10. QED
      BY <2>2, <2>9 DEF Traffic!Next
  <1>5. CASE DespawnDrifter
    <2>1. /\ Drifter \in town /\ town' = town \ {Drifter}
          /\ tile' = [tile EXCEPT ![Drifter] = NoTile]
      BY <1>5 DEF DespawnDrifter
    <2>2. Drifter \in Peers /\ Drifter \in {Drifter} /\ Place[Drifter] # NoTile
      BY <2>1, Places
    <2>3. Position(Drifter)' = NoTile
          /\ \A q \in Peers \ {Drifter} : Position(q)' = Position(q)
      BY <2>1, <2>2 DEF Position, Inv, TypeOK
    <2>4. Place' = [Place EXCEPT ![Drifter] = NoTile]
      BY <2>2, <2>3, OnePlace
    <2>5. Traffic!Leave(Drifter)
      BY <2>2, <2>4 DEF Traffic!Leave, Place
    <2>6. QED
      BY <2>2, <2>5 DEF Traffic!Next
  <1>6. ASSUME StartTick \/ DecidePeer \/ Report
               \/ \E p \in Peers, n \in Nodes : AssignDestination(p, n)
        PROVE  UNCHANGED <<town, tile>>
    BY <1>6 DEF StartTick, DecidePeer, Report, AssignDestination, peerVars
  <1>7. QED
    BY <1>2, <1>3, <1>4, <1>5, <1>6 DEF Next, vars

\* Whatever is planned, re-planned or blocked: to whoever looks at the harbor the
\* peers move one at a time, to free neighboring tiles open to them.
THEOREM TrafficIsOrderly == Spec => ImplementsTraffic
  <1>1. Spec => []Inv
    BY InitInv, InvStep, PTL DEF Spec
  <1>2. QED
    BY <1>1, PeersApart, InitTraffic, TrafficStep, PTL
    DEF Spec, ImplementsTraffic, Traffic!Spec, Place
=============================================================================
