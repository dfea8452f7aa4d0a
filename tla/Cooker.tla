------------------------------- MODULE Cooker -------------------------------
(***************************************************************************)
(* tile_cooker (tools/cooker/main.cpp) and cook_obj_tile                   *)
(* (src/terrain/cook.cpp): the OBJ tiles of a map, in ENU, become mesh     *)
(* files and an index.json with their boxes in NED, for the streamer and   *)
(* the world.                                                              *)
(*                                                                         *)
(* A mesh file is its name, its triangles and whether it can be read back: *)
(* the stream it is saved to is not checked, and a full disk truncates it. *)
(* Coordinates are integers, which the index's three decimals keep.        *)
(***************************************************************************)
EXTENDS Frames, SequencesExt

CONSTANTS
  Inputs,        \* bound: argument lists, sequences of [stem, obj]
  Previous,      \* what an earlier cook left: [products, index]
  Fragile        \* bound: stems of the tiles whose file may be truncated

(* Lines of an OBJ file: those that cook_obj_tile does not skip.  A vertex *)
(* that does not parse is Bad.                                             *)
Bad == <<>>
Vertex(enu) == [op |-> "v", at |-> enu]
Face(idx) == [op |-> "f", idx |-> idx]

VARIABLES
  cook_pc,       \* "clean", "tiles", "done" or "failed"
  args,          \* the argument list
  entries,       \* the index under assembly
  out_dir,       \* mesh files: set of [file, tris, whole]
  index          \* index.json, a sequence of [file, lo, hi], or NoIndex

NoIndex == <<>>

cookerVars == <<cook_pc, args, entries, out_dir, index>>

CookerInit ==
  /\ cook_pc = "clean" /\ args \in Inputs /\ entries = <<>>
  /\ out_dir = Previous.products /\ index = Previous.index

-----------------------------------------------------------------------------
(* cook_obj_tile *)
enu_to_jolt_Swapped(p) == <<p[1], p[3], p[2]>>     \* slip: east for north

enu_to_jolt(p) == <<p[2], p[3], p[1]>>

Fan_Reversed(verts, idx) ==       \* slip: the triangles face the other way
  {<<verts[idx[1]], verts[idx[k + 1]], verts[idx[k]]>> : k \in 2 .. Len(idx) - 1}

(* A polygon of vertices idx, as triangles that share its first one. *)
Fan(verts, idx) ==
  {<<verts[idx[1]], verts[idx[k]], verts[idx[k + 1]]>> : k \in 2 .. Len(idx) - 1}

IsFace(verts, idx) == Len(idx) >= 3 /\ \A k \in DOMAIN idx : idx[k] \in DOMAIN verts

(* One more line of the file, while what was read so far is ok. *)
ReadLine(s, line) ==
  CASE line.op = "v" /\ s.ok /\ line.at # Bad ->
         [s EXCEPT !.verts = Append(@, enu_to_jolt(line.at))]
    [] line.op = "f" /\ s.ok /\ IsFace(s.verts, line.idx) ->
         [s EXCEPT !.tris = @ \cup Fan(s.verts, line.idx)]
    [] OTHER -> [s EXCEPT !.ok = FALSE]

Mesh(obj) ==
  LET read[n \in 0 .. Len(obj)] ==
        IF n = 0 THEN [ok |-> TRUE, verts |-> <<>>, tris |-> {}]
        ELSE ReadLine(read[n - 1], obj[n])
  IN read[Len(obj)]

Cooks(obj) == Mesh(obj).ok /\ Mesh(obj).tris # {}

(* Shape::GetLocalBounds (external), in Jolt's axes. *)
Bounds(tris) ==
  LET Extent(k) == {t[i][k] : t \in tris, i \in 1 .. 3}
  IN [min |-> <<Min(Extent(1)), Min(Extent(2)), Min(Extent(3))>>,
      max |-> <<Max(Extent(1)), Max(Extent(2)), Max(Extent(3))>>]

(* The box in NED, where the flip of z swaps its corners. *)
CookResult(tris) ==
  LET a == jolt_to_ned(Bounds(tris).min)
      b == jolt_to_ned(Bounds(tris).max)
  IN [lo |-> <<Min({a[1], b[1]}), Min({a[2], b[2]}), Min({a[3], b[3]})>>,
      hi |-> <<Max({a[1], b[1]}), Max({a[2], b[2]}), Max({a[3], b[3]})>>]

(* An argument list is a sequence, and so is a file, whose faces name their *)
(* vertices by number; what cooks has triangles in the space that the map  *)
(* is in, as many as its file has room for.                                *)
ASSUME InputsAssumption ==
  \A list \in Inputs :
    /\ list \in Seq(Range(list))
    /\ \A k \in DOMAIN list :
         LET obj == list[k].obj
         IN /\ obj \in Seq(Range(obj))
            /\ \A n \in DOMAIN obj : obj[n].op = "f" => obj[n].idx \in Seq(Nat)
            /\ Cooks(obj) =>
                 /\ IsFiniteSet(Mesh(obj).tris)
                 /\ Mesh(obj).tris \subseteq Vector \X Vector \X Vector

-----------------------------------------------------------------------------
(* main *)
CleanOutDir_Nothing == UNCHANGED <<out_dir, index>>     \* slip: leftovers stay

CleanOutDir == out_dir' = {} /\ index' = NoIndex

StartCook ==
  /\ cook_pc = "clean" /\ cook_pc' = "tiles"
  /\ CleanOutDir
  /\ UNCHANGED <<args, entries>>

(* The next tile is written, over a file of the same name. *)
CookTile ==
  /\ cook_pc = "tiles" /\ Len(entries) < Len(args)
  /\ LET stem == args[Len(entries) + 1].stem
         obj  == args[Len(entries) + 1].obj
         box  == CookResult(Mesh(obj).tris)
     IN /\ Cooks(obj)
        /\ \E whole \in {TRUE} \cup {stem \notin Fragile} :
             out_dir' = {p \in out_dir : p.file # stem}
                          \cup {[file |-> stem, tris |-> Mesh(obj).tris, whole |-> whole]}
        /\ entries' = Append(entries, [file |-> stem, lo |-> box.lo, hi |-> box.hi])
  /\ UNCHANGED <<cook_pc, args, index>>

(* A file that cannot be opened, read, cooked or written ends the cook. *)
CookFails ==
  /\ cook_pc = "tiles" /\ cook_pc' = "failed"
  /\ UNCHANGED <<args, entries, out_dir, index>>

WriteIndex ==
  /\ cook_pc = "tiles" /\ Len(entries) = Len(args)
  /\ index' = entries /\ cook_pc' = "done"
  /\ UNCHANGED <<args, entries, out_dir>>

Cook == StartCook \/ CookTile \/ CookFails \/ WriteIndex

-----------------------------------------------------------------------------
(* Once cooking has begun, an index.json names exactly the mesh files of   *)
(* its directory, whatever was there before and wherever a cook failed: no *)
(* "phantom geometry" for whoever loads them all (main.cpp, tile_cooker).  *)
NoPhantomTiles ==
  cook_pc # "clean" /\ index # NoIndex =>
    {p.file : p \in out_dir} = {e.file : e \in Range(index)}
==============================================================================
