-------------------------- MODULE MCTileStreaming --------------------------
(***************************************************************************)
(* Instances of TileStreaming for TLC.  A street runs north, at east 1;    *)
(* walls stand across it, four metres high and apart, or a house on it.    *)
(***************************************************************************)
EXTENDS TileStreaming

CONSTANTS v1, v2

(* A wall at north n from east e to e + 3, as one polygon, given in ENU. *)
Wall(n, e) ==
  <<Vertex(<<e, n, 0>>), Vertex(<<e + 3, n, 0>>), Vertex(<<e + 3, n, 4>>),
    Vertex(<<e, n, 4>>), Face(<<1, 2, 3, 4>>)>>

(* A house, north from n to n + 3, east from e to e + 4: four walls, a     *)
(* roof and a floor, with nothing inside.                                  *)
House(n, e) ==
  <<Vertex(<<e, n, 0>>), Vertex(<<e + 4, n, 0>>), Vertex(<<e + 4, n + 3, 0>>),
    Vertex(<<e, n + 3, 0>>), Vertex(<<e, n, 4>>), Vertex(<<e + 4, n, 4>>),
    Vertex(<<e + 4, n + 3, 4>>), Vertex(<<e, n + 3, 4>>),
    Face(<<1, 2, 6, 5>>), Face(<<2, 3, 7, 6>>), Face(<<3, 4, 8, 7>>),
    Face(<<4, 1, 5, 8>>), Face(<<5, 6, 7, 8>>), Face(<<4, 3, 2, 1>>)>>

Tile(stem, obj) == [stem |-> stem, obj |-> obj]

(* Four walls on the street, of which the second may be damaged. *)
Street == <<Tile("w0", Wall(0, -1)), Tile("w1", Wall(4, -1)),
            Tile("w2", Wall(8, -1)), Tile("w3", Wall(12, -1))>>

(* A name used twice, for a wall on the street and one beside it; and a    *)
(* house, which waypoints may be inside of, or far from.                   *)
Suburb == <<Tile("w0", Wall(0, -1)), Tile("far", House(9, -1)), Tile("w0", Wall(0, 4))>>

(* A face that names a vertex the file does not have; one without area; a  *)
(* vertex that is not a number.                                            *)
Broken(lines) == <<Tile("w0", Wall(0, -1)), Tile("w1", lines)>>

MCInputs ==
  {Street, Suburb,
   Broken(<<Vertex(<<0, 0, 0>>), Face(<<1, 1, 2>>)>>),
   Broken(<<Vertex(<<0, 0, 0>>), Face(<<1, 1>>)>>),
   Broken(<<Vertex(Bad)>>), Broken(<<Vertex(<<0, 0, 0>>)>>)}

(* No building of these maps has a spare vertex. *)
ASSUME VerticesAreUsed == EveryVertexUsed

OldWall == [file |-> "old", tris |-> {}, whole |-> TRUE]
MCPrevious == [products |-> {OldWall},
               index |-> <<[file |-> "old", lo |-> Zero, hi |-> Zero]>>]

Low(p) == <<4 * p - 2, 1, -2>>
High(p) == <<4 * p - 2, 1, -7>>
Indoors == <<11, 1, -2>>

MCPlaces == {Low(0), Low(2)}

MCPaths ==
  {<<Low(0), Low(1)>>, <<Low(3), Low(4)>>, <<Low(2), Low(1), Low(1)>>, <<High(0), High(3)>>,
   <<Low(0), Low(5)>>, <<Low(3), Indoors>>, <<Indoors, Low(2)>>,
   <<High(0), Low(0), Malformed, Low(3)>>, <<Low(2), Malformed>>}

OneVehicle == {v1}
TwoVehicles == {v1, v2}
AnyVehicle == Permutations(TwoVehicles)
==============================================================================
