--------------------------- MODULE TileStreaming ---------------------------
(***************************************************************************)
(* Terrain tiles at run time: TileStreamer (src/terrain/tile_streamer.cpp) *)
(* over the directory that Cooker has filled, and its two callers on the   *)
(* tick thread, App::stream_tiles once per iteration and the path check of *)
(* App::drain_commands (src/main.cpp), with World::sweep_path behind it.   *)
(*                                                                         *)
(* Positions are NED, and the legs of a path are parallel to an axis; a    *)
(* distance is compared by its square.                                     *)
(***************************************************************************)
EXTENDS Cooker

CONSTANTS
  Vehicles,
  Places,          \* bound: where vehicles may be
  Paths,           \* bound: "waypoints_ned" of path checks
  Clearance,       \* bound: "clearance_m" of path checks
  BackFaces,       \* whether a ray stops at a triangle that it meets from behind
  KeepRadius, MaxResident,
  Period,          \* ticks between evaluations, 100 in the code
  MaxTick          \* bound: ticks

ASSUME TileAssumption ==
  /\ Places \subseteq Vector
  /\ KeepRadius \in Nat /\ MaxResident \in Nat /\ Clearance \in Nat
  /\ Period \in Nat \ {0} /\ MaxTick \in Nat

ASSUME FacesAssumption == BackFaces \in BOOLEAN

Nowhere == <<>>
None == -1

VARIABLES
  loop,              \* "cook", "commands", "stream", "step" or "exit"
  tick, last_stream_tick,
  fleet,             \* each vehicle's place, or Nowhere
  resident,          \* TileStreamer::resident_, numbers of index entries
  tile_world_ids,    \* the tiles that the world has loaded, too
  nodes,             \* broadphase nodes that tiles take up, garbage included
  peak,              \* history: nodes while the last plan was applied
  answer,            \* history: path, checked and clear of a check just made
  reach,             \* history: how far the last plan's buildings were from its points
  seen_at,           \* history: where each vehicle was when update last saw it
  age,               \* history: ticks since then
  checked            \* history: the last path check's, if no vehicle came since

history == <<peak, answer, reach, seen_at, age, checked>>
streamVars == <<loop, tick, last_stream_tick, fleet, resident, tile_world_ids, nodes,
                history>>
vars == <<cookerVars, streamVars>>

Tiles == DOMAIN index

Flying == {v \in Vehicles : fleet[v] # Nowhere}
Positions == {fleet[v] : v \in Flying}

NoAnswer == <<>>

Init ==
  /\ CookerInit
  /\ loop = "cook" /\ tick = 0 /\ last_stream_tick = None
  /\ fleet = [v \in Vehicles |-> Nowhere]
  /\ resident = {} /\ tile_world_ids = {} /\ nodes = 0 /\ peak = 0
  /\ answer = NoAnswer /\ reach = 0
  /\ seen_at = [v \in Vehicles |-> Nowhere]
  /\ age = [v \in Vehicles |-> 0]
  /\ checked = {}

(* The simulator starts on the cooker's directory: without an index, or    *)
(* without a tile in it, the constructor throws and main returns.          *)
StartStreamer ==
  /\ loop = "cook" /\ cook_pc \in {"done", "failed"}
  /\ loop' = IF index = NoIndex THEN "exit" ELSE "commands"
  /\ UNCHANGED <<tick, last_stream_tick, fleet, resident, tile_world_ids, nodes,
                 history>>

-----------------------------------------------------------------------------
(* What the operator's OBJ files say, in ENU, for the histories and the    *)
(* properties.                                                             *)
VertexLines(obj) == {n \in DOMAIN obj : obj[n].op = "v"}

Span(obj, k) == {obj[n].at[k] : n \in VertexLines(obj)}

Beyond(x, lo, hi) == Max({lo - x, 0, x - hi})

Away(p, obj) ==
  LET dn == Beyond(p[1], Min(Span(obj, 2)), Max(Span(obj, 2)))
      de == Beyond(p[2], Min(Span(obj, 1)), Max(Span(obj, 1)))
  IN dn * dn + de * de

(* The furthest of some buildings is so far from the nearest of the points.*)
Reach(points, chosen) ==
  Max({0} \cup {Min({Away(p, args[i].obj) : p \in points}) : i \in chosen})

-----------------------------------------------------------------------------
(* TileStreamer::update: the nearest MaxResident tiles in range of anyone, *)
(* by distance to their footprint, then by index.                          *)
distance_to_tile(p, t) ==
  LET dn == Beyond(p[1], index[t].lo[1], index[t].hi[1])
      de == Beyond(p[2], index[t].lo[2], index[t].hi[2])
  IN dn * dn + de * de

Best(points, t) == Min({distance_to_tile(p, t) : p \in points})

InRange(points) ==
  {t \in Tiles : points # {} /\ Best(points, t) <= KeepRadius * KeepRadius}

(* Tile t sorts before tile u. *)
Before_FurthestFirst(points, t, u) ==       \* slip: > for < in the comparison
  \/ Best(points, t) > Best(points, u)
  \/ Best(points, t) = Best(points, u) /\ t < u

Before(points, t, u) ==
  \/ Best(points, t) < Best(points, u)
  \/ Best(points, t) = Best(points, u) /\ t < u

Desired(points) ==
  LET near == InRange(points)
  IN {t \in near : Cardinality({u \in near : Before(points, u, t)}) < MaxResident}

(* create_tile_body succeeds: the tile's file can be read back. *)
Loadable == {t \in Tiles : \E p \in out_dir : p.file = index[t].file /\ p.whole}

(* The broadphase gives back what tiles that are gone took up. *)
Optimized_Never(before, now) == before       \* slip: left to PhysicsSystem::Update

Optimized(before, now) == Cardinality(now)

(* update(points) and apply_tile_plan: removals, loads, and the broadphase *)
(* if the plan was not empty.  A tile that does not load counts as         *)
(* resident, too.                                                          *)
ApplyTilePlan(points) ==
  \E wanted \in {Desired(points)} :
  LET add    == wanted \ resident
      remove == resident \ wanted
  IN /\ resident' = wanted
     /\ tile_world_ids' = (tile_world_ids \ remove) \cup (add \cap Loadable)
     /\ peak' = nodes + Cardinality(add \cap Loadable)
     /\ nodes' = IF add = {} /\ remove = {} THEN nodes
                 ELSE Optimized(peak', tile_world_ids')
     /\ reach' = Reach(points, wanted)
     /\ seen_at' = [v \in Vehicles |-> IF fleet[v] \in points THEN fleet[v] ELSE seen_at[v]]
     /\ age' = [v \in Vehicles |-> IF fleet[v] \in points THEN 0 ELSE age[v]]

-----------------------------------------------------------------------------
(* World::sweep_path: five rays along each leg against static bodies, of   *)
(* which the ground is one.                                                *)
Sgn(x) == IF x > 0 THEN 1 ELSE IF x < 0 THEN -1 ELSE 0

Ground == [min |-> <<-2000, -2, -2000>>, max |-> <<2000, 0, 2000>>]

Shape(t) == (CHOOSE p \in out_dir : p.file = index[t].file).tris

(* CastRay (external), from o along v in Jolt's axes.  A box is solid; a   *)
(* ray meets it here if it is parallel to an axis and has a point in it.   *)
HitsBox(box, o, v) ==
  \A k \in 1 .. 3 : /\ Min({o[k], o[k] + v[k]}) <= box.max[k]
                    /\ Max({o[k], o[k] + v[k]}) >= box.min[k]

Dot(a, b) == a[1] * b[1] + a[2] * b[2] + a[3] * b[3]

(* A mesh is its triangles, hollow.  One whose corners run anticlockwise,  *)
(* as the ray sees them (det > 0), is met from the front.  A ray in a      *)
(* triangle's plane misses it.  u and w place the hit in the triangle, t   *)
(* on the ray, in units of size.                                           *)
HitsTriangle(tri, o, v) ==
  LET side1 == Minus(tri[2], tri[1])
      side2 == Minus(tri[3], tri[1])
      from  == Minus(o, tri[1])
      det   == Dot(side1, Cross(v, side2))
      u     == Sgn(det) * Dot(from, Cross(v, side2))
      w     == Sgn(det) * Dot(v, Cross(from, side1))
      t     == Sgn(det) * Dot(side2, Cross(from, side1))
      size  == Sgn(det) * det
  IN (det > 0 \/ (BackFaces /\ det < 0)) /\ u >= 0 /\ w >= 0 /\ u + w <= size /\ t \in 0 .. size

raycast(tris, origin, dir, length) ==
  LET o == ned_to_jolt(origin)
      v == Scaled(ned_to_jolt(dir), <<length, length, length>>)
  IN HitsBox(Ground, o, v) \/ \E tri \in tris : HitsTriangle(tri, o, v)

(* Two directions at right angles to a leg, and to each other. *)
Offsets(dir) ==
  LET seed == IF dir[3] = 0 THEN <<0, 0, 1>> ELSE <<1, 0, 0>>
      u == Cross(dir, seed)
      v == Cross(dir, u)
      Out(r, w) == <<r * w[1], r * w[2], r * w[3]>>
  IN {Zero, Out(Clearance, u), Out(-Clearance, u), Out(Clearance, v), Out(-Clearance, v)}

Legs(points) == {<<points[k], points[k + 1]>> : k \in 1 .. Len(points) - 1}

Direction(leg) == LET d == Minus(leg[2], leg[1]) IN <<Sgn(d[1]), Sgn(d[2]), Sgn(d[3])>>

Length(leg) ==
  LET d == Minus(leg[2], leg[1]) IN Max({d[1], -d[1], d[2], -d[2], d[3], -d[3]})

(* The legs that hit something; two equal waypoints make no leg. *)
sweep_path(tris, points) ==
  {leg \in Legs(points) :
     /\ leg[1] # leg[2]
     /\ \E offset \in Offsets(Direction(leg)) :
          raycast(tris, Plus(leg[1], offset), Direction(leg), Length(leg))}

-----------------------------------------------------------------------------
(* drain_commands *)
Spawn(v, p) ==
  /\ loop = "commands" /\ fleet[v] = Nowhere
  /\ fleet' = [fleet EXCEPT ![v] = p]
  /\ age' = [age EXCEPT ![v] = 0]
  /\ checked' = {} /\ answer' = NoAnswer
  /\ UNCHANGED <<loop, tick, last_stream_tick, resident, tile_world_ids, nodes,
                 peak, reach, seen_at>>

Despawn(v) ==
  /\ loop = "commands" /\ fleet[v] # Nowhere
  /\ fleet' = [fleet EXCEPT ![v] = Nowhere]
  /\ seen_at' = [seen_at EXCEPT ![v] = Nowhere]
  /\ age' = [age EXCEPT ![v] = 0]
  /\ answer' = NoAnswer
  /\ UNCHANGED <<loop, tick, last_stream_tick, resident, tile_world_ids, nodes,
                 peak, reach, checked>>

(* The first waypoint that does not parse ends the list. *)
Malformed == <<"?">>

(* Two points on a parallel to one of the axes. *)
Straight(a, b) == \E k \in 1 .. 3 : \A j \in (1 .. 3) \ {k} : a[j] = b[j]

ASSUME PathsAssumption ==
  \A path \in Paths :
    /\ path \in Seq(Range(path))
    /\ \A w \in Range(path) : w = Malformed \/ w \in Vector
    /\ \A k \in 1 .. Len(path) - 1 :
         Malformed \notin {path[k], path[k + 1]} => Straight(path[k], path[k + 1])

parse_waypoints(path) ==
  SubSeq(path, 1, SelectInSeq(Append(path, Malformed), LAMBDA w : w = Malformed) - 1)

Interest_WaypointsOnly(waypoints) == waypoints     \* slip: without the fleet
Interest_FleetOnly(waypoints) == Positions         \* slip: without the path

Interest(waypoints) == waypoints \cup Positions

(* POST /mission/check; the handler refuses a path without a leg. *)
PathCheck(path) ==
  /\ loop = "commands"
  /\ \E points \in {parse_waypoints(path)} :
       /\ Len(points) >= 2
       /\ ApplyTilePlan(Interest(Range(points)))
       /\ LET geometry_available == resident' # {}
              hits == sweep_path(UNION {Shape(t) : t \in tile_world_ids'}, points)
          IN answer' = [path |-> path, checked |-> geometry_available,
                        clear |-> geometry_available /\ hits = {}]
       /\ checked' = IF Flying = {} THEN Range(points) ELSE {}
  /\ UNCHANGED <<loop, tick, last_stream_tick, fleet>>

Drained ==
  /\ loop = "commands" /\ loop' = "stream"
  /\ answer' = NoAnswer
  /\ UNCHANGED <<tick, last_stream_tick, fleet, resident, tile_world_ids, nodes,
                 peak, reach, seen_at, age, checked>>

-----------------------------------------------------------------------------
(* stream_tiles *)
StreamDue_EvenEmpty ==         \* slip: without the test for an empty fleet
  tick % Period = 0 /\ last_stream_tick # tick
StreamDue_Later ==             \* slip: more than a period since the last one
  Flying # {} /\ tick > last_stream_tick + Period

StreamDue ==
  Flying # {} /\ tick % Period = 0 /\ last_stream_tick # tick

StreamTiles ==
  /\ loop = "stream" /\ StreamDue
  /\ ApplyTilePlan(Positions)
  /\ last_stream_tick' = tick
  /\ loop' = "step"
  /\ checked' = IF Flying = {} THEN checked ELSE {}
  /\ UNCHANGED <<tick, fleet, answer>>

NothingToStream ==
  /\ loop = "stream" /\ ~StreamDue
  /\ loop' = "step"
  /\ UNCHANGED <<tick, last_stream_tick, fleet, resident, tile_world_ids, nodes,
                 history>>

-----------------------------------------------------------------------------
(* The rest of the iteration: the world steps and vehicles move, or the    *)
(* strict barrier is not complete.                                         *)
Step ==
  /\ loop = "step" /\ tick < MaxTick
  /\ tick' = tick + 1
  /\ \E moved \in [Flying -> Places] :
       fleet' = [v \in Vehicles |-> IF v \in Flying THEN moved[v] ELSE Nowhere]
  /\ nodes' = Cardinality(tile_world_ids)
  /\ age' = [v \in Vehicles |-> IF v \in Flying THEN age[v] + 1 ELSE 0]
  /\ loop' = "commands"
  /\ UNCHANGED <<last_stream_tick, resident, tile_world_ids, peak, answer, reach,
                 seen_at, checked>>

Stall ==
  /\ loop = "step" /\ loop' = "commands"
  /\ UNCHANGED <<tick, last_stream_tick, fleet, resident, tile_world_ids, nodes,
                 history>>

Simulator ==
  \/ StartStreamer
  \/ \E v \in Vehicles : Despawn(v) \/ \E p \in Places : Spawn(v, p)
  \/ \E path \in Paths : PathCheck(path)
  \/ Drained \/ StreamTiles \/ NothingToStream \/ Step \/ Stall

Next ==
  \/ Simulator /\ UNCHANGED cookerVars
  \/ Cook /\ UNCHANGED streamVars

Spec == Init /\ [][Next]_vars

-----------------------------------------------------------------------------
(* A tile that cooks has no vertex that no face names. *)
Corners(obj) == {t[i] : t \in Mesh(obj).tris, i \in 1 .. 3}

EveryVertexUsed ==
  \A list \in Inputs : \A k \in DOMAIN list :
    Cooks(list[k].obj) =>
      Corners(list[k].obj) = {enu_to_jolt(list[k].obj[n].at) : n \in VertexLines(list[k].obj)}

Near(p, obj) == Away(p, obj) <= KeepRadius * KeepRadius

ned_to_enu(p) == <<p[2], p[1], -p[3]>>

(* The k-th vertex of a file. *)
VertexAt(obj, k) ==
  obj[CHOOSE n \in VertexLines(obj) :
        Cardinality({m \in VertexLines(obj) : m <= n}) = k].at

(* A leg passes through a face, that is, through one of the triangles that *)
(* the face's first corner makes with its other sides: from the side that  *)
(* the face is drawn to be seen from, or from either if BackFaces count.   *)
Crosses(leg, obj) ==
  \E n \in DOMAIN obj :
    /\ obj[n].op = "f"
    /\ \E k \in 2 .. Len(obj[n].idx) - 1 :
         LET Corner(i) == VertexAt(obj, obj[n].idx[i])
         IN HitsTriangle(<<Corner(1), Corner(k), Corner(k + 1)>>,
                         ned_to_enu(leg[1]), ned_to_enu(Minus(leg[2], leg[1])))

(* However often paths are checked while the world does not step, the      *)
(* tiles never take more broadphase nodes than two full sets of them.      *)
NodesBounded == peak <= 2 * MaxResident

(* A vehicle is never simulated for more than a period on tiles that were  *)
(* chosen before it came to where it is, whether it spawned on an evaluated*)
(* tick, into an empty fleet, or while the loop was stalled.               *)
StreamedInTime == \A v \in Flying : age[v] <= Period

(* A building of the map that was in range of a vehicle when the tiles     *)
(* were last chosen is resident, path checks since then or not; or the     *)
(* bound is full of buildings each of which is no further from one of the  *)
(* points they were chosen for, a vehicle's or a waypoint, than this one   *)
(* is from the vehicle.                                                    *)
CrowdedOut(v, i) ==
  Cardinality(resident) = MaxResident /\ reach <= Away(seen_at[v], args[i].obj)

NearTilesKept ==
  loop \notin {"cook", "exit"} =>
    \A v \in Vehicles : \A i \in DOMAIN args :
      seen_at[v] # Nowhere /\ Near(seen_at[v], args[i].obj) =>
        i \in resident \/ CrowdedOut(v, i)

(* While the fleet is empty, a checked path's tiles stay: the next check   *)
(* of the same path loads and evicts nothing.                              *)
NoChurn == Flying = {} /\ checked # {} => resident = Desired(checked)

(* A path that is reported clear passes through no wall, roof or floor of  *)
(* the map, unless the building was left out: its file was damaged, or     *)
(* overwritten by another of the same name; others filled the bound; or it *)
(* was far from every waypoint.  Where only the outside of a face stops a  *)
(* ray, it is the outside of the map's faces that the path does not pass   *)
(* through: cooking keeps the way they face.  That is what clear means: a  *)
(* path that stays inside one building is clear.  (A path that a malformed *)
(* waypoint cuts is not meant.)                                            *)
LeftOut(i) ==
  \/ \E p \in out_dir : p.file = args[i].stem /\ ~p.whole
  \/ \E j \in DOMAIN args : j > i /\ args[j].stem = args[i].stem
  \/ i \notin resident /\ Cardinality(resident) = MaxResident
  \/ \A w \in Range(answer.path) : w # Malformed => ~Near(w, args[i].obj)

ClearIsClear ==
  answer # NoAnswer /\ answer.clear /\ Malformed \notin Range(answer.path) =>
    \A i \in DOMAIN args : \A leg \in Legs(answer.path) :
      Crosses(leg, args[i].obj) => LeftOut(i)

(* control_server.h:68: geometry_available is "false when there is no      *)
(* building geometry to sweep against".                                    *)
GeometryHonest == answer # NoAnswer /\ answer.checked => tile_world_ids # {}
==============================================================================
