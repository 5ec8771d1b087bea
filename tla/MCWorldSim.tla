----------------------------- MODULE MCWorldSim -----------------------------
(***************************************************************************)
(* A harbor of six tiles: a bent lane, and a tile in the mist where the    *)
(* drifter can cut the corner.                                             *)
(*                                                                         *)
(*      berth_tug   .           .                                          *)
(*                  mist_gate   .                                          *)
(*                              berth_bell                                 *)
(***************************************************************************)
EXTENDS WorldSim, FiniteSetsExt, SequencesExt

MCResidents == <<"tug", "bell">>
Harbor == ((1 .. 3) \X {1}) \cup ({3} \X {2, 3})
Mist == <<2, 2>>
MCTiles == Harbor \cup {Mist}
MCWalkable == [k \in {"resident", "drifter"} |->
                 IF k = "drifter" THEN MCTiles ELSE Harbor]
Distance(s, t) == (IF s[1] > t[1] THEN s[1] - t[1] ELSE t[1] - s[1])
                  + (IF s[2] > t[2] THEN s[2] - t[2] ELSE t[2] - s[2])
MCAdjacent == {st \in MCTiles \X MCTiles : Distance(st[1], st[2]) = 1}
MCNodes == {"berth_tug", "berth_bell", "mist_gate"}
MCHomeNode == [p \in {"tug", "bell"} |->
                 IF p = "tug" THEN "berth_tug" ELSE "berth_bell"]
MCStandable == [n \in MCNodes |-> [k \in {"resident", "drifter"} |->
    CASE n = "berth_tug" -> <<1, 1>>
      [] n = "berth_bell" -> <<3, 3>>
      [] OTHER -> IF k = "drifter" THEN Mist ELSE <<2, 1>>]]

\* The walks of n steps over the tiles W that start at s.
Walks(s, W, n) ==
    LET walks[m \in 0 .. n] ==
          IF m = 0 THEN {<<s>>}
          ELSE {Append(w, t) : w \in walks[m - 1], t \in W}
    IN  {w \in walks[n] : \A i \in 1 .. n : <<w[i], w[i + 1]>> \in MCAdjacent}

\* The shortest walks from s to g, without s; none off the walkable tiles.
ShortestWalks(s, g, W) ==
    LET ends == [n \in 0 .. 4 |-> {w \in Walks(s, W, n) : w[n + 1] = g}]
        lengths == {n \in 0 .. 4 : ends[n] # {}}
    IN  IF s \notin W \/ lengths = {} THEN {}
        ELSE {Tail(w) : w \in ends[Min(lengths)]}

\* Tabulated once: @@ evaluates the function, and a constant defined as
\* another one is evaluated once.
RouteTable ==
    [x \in MCTiles \X MCTiles \X {"resident", "drifter"} |->
        ShortestWalks(x[1], x[2], MCWalkable[x[3]])] @@ <<>>
MCRoutes == RouteTable
=============================================================================
