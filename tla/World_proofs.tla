---------------------------- MODULE World_proofs ----------------------------
(***************************************************************************)
(* The theorem of World: for any number of job threads, queue slots and    *)
(* bodies, whatever comes and goes between steps, a vehicle's counters are *)
(* what it has met.                                                        *)
(*                                                                         *)
(* While a step runs, the contacts that no counter holds yet are those of  *)
(* the claimed slots, written or still in a thread's hands (Reported); the *)
(* registries (RegistryInv) say of each the same before and after.         *)
(***************************************************************************)
EXTENDS World, FiniteSetTheorems, TLAPS

USE WorldAssumption

(* The registries say what there is. *)
RegistryInv ==
  /\ next_id \in Nat \ {0}
  /\ vehicles \subseteq Ids \X Bodies /\ static_tiles \subseteq Ids \X Bodies
  /\ static_bodies \subseteq Bodies \cup {Ground}
  /\ \A e \in vehicles : e[1] < next_id
  /\ \A e, f \in vehicles : e[1] = f[1] \/ e[2] = f[2] => e = f
  /\ \A e \in vehicles : e[2] \notin static_bodies /\ \A f \in static_tiles : e[2] # f[2]
  /\ \A e, f \in static_tiles : e[2] = f[2] => e = f
  /\ \A e \in static_tiles : e[2] \notin static_bodies
  /\ body_to_vehicle = {<<e[2], e[1]>> : e \in vehicles}
  /\ tile_body_indices = {e[2] : e \in static_tiles} \cup (static_bodies \ {Ground})

LEMMA GroundIsNoBody == Ground \notin Bodies
<1>1. DOMAIN Ground = 1 .. 1 /\ \A b \in Bodies : DOMAIN b = 1 .. 2
  BY DEF Ground, Bodies
<1>2. 2 \in 1 .. 2 /\ 2 \notin 1 .. 1
  OBVIOUS
<1> QED
  BY <1>1, <1>2

(* A new body is nobody's. *)
LEMMA NewBody ==
  ASSUME RegistryInv, NEW b, CreateBody(b)
  PROVE  /\ b \in Bodies /\ b # Ground
         /\ b \notin static_bodies
         /\ \A e \in vehicles \cup static_tiles : e[2] # b
<1>1. b \in Bodies /\ b # Ground
  BY GroundIsNoBody DEF CreateBody
<1>2. b \notin BodiesIn
  BY <1>1 DEF CreateBody
<1> QED
  BY <1>1, <1>2 DEF BodiesIn

Registered(S) == {<<e[2], e[1]>> : e \in S}
BodiesOf(S) == {e[2] : e \in S}

LEMMA RegisteredGrows ==
  ASSUME NEW S, NEW n, NEW b
  PROVE  Registered(S \cup {<<n, b>>}) = Registered(S) \cup {<<b, n>>}
<1>1. <<n, b>>[1] = n /\ <<n, b>>[2] = b
  OBVIOUS
<1> QED
  BY <1>1 DEF Registered

LEMMA BodiesGrow ==
  ASSUME NEW S, NEW n, NEW b
  PROVE  BodiesOf(S \cup {<<n, b>>}) = BodiesOf(S) \cup {b}
<1>1. <<n, b>>[1] = n /\ <<n, b>>[2] = b
  OBVIOUS
<1> QED
  BY <1>1 DEF BodiesOf

LEMMA InitRegistry == Init => RegistryInv
  BY DEF Init, RegistryInv

LEMMA LoadTileRegistered ==
  ASSUME RegistryInv, NEW b, LoadTile(b) PROVE RegistryInv'
<1>1. /\ b \in Bodies /\ b # Ground /\ b \notin static_bodies
      /\ \A e \in vehicles \cup static_tiles : e[2] # b
  BY NewBody DEF LoadTile
<1>2. /\ static_bodies' = static_bodies \cup {b}
      /\ tile_body_indices' = tile_body_indices \cup {b}
      /\ UNCHANGED <<next_id, vehicles, static_tiles, body_to_vehicle>>
  BY DEF LoadTile, Key
<1> QED
  BY <1>1, <1>2 DEF RegistryInv

LEMMA AddVehicleRegistered ==
  ASSUME RegistryInv, NEW b, AddVehicle(b) PROVE RegistryInv'
<1>1. /\ b \in Bodies /\ b # Ground /\ b \notin static_bodies
      /\ \A e \in vehicles \cup static_tiles : e[2] # b
  BY NewBody DEF AddVehicle
<1>2. /\ next_id <= MaxId /\ next_id' = next_id + 1
      /\ vehicles' = vehicles \cup {<<next_id, b>>}
      /\ body_to_vehicle' = body_to_vehicle \cup {<<b, next_id>>}
      /\ UNCHANGED <<static_tiles, static_bodies, tile_body_indices>>
  BY DEF AddVehicle, Key
<1>3. next_id \in Ids /\ next_id \in Nat /\ next_id + 1 \in Nat \ {0}
  BY <1>2 DEF RegistryInv, Ids
<1>4. vehicles' \subseteq Ids \X Bodies
  BY <1>1, <1>2, <1>3 DEF RegistryInv
<1>5. \A e \in vehicles' : e[1] < next_id'
  <2>1. \A e \in vehicles : e[1] \in Nat /\ e[1] < next_id
    BY DEF RegistryInv, Ids
  <2> QED
    BY <1>2, <1>3, <2>1 DEF RegistryInv
<1>6. \A e, f \in vehicles' : e[1] = f[1] \/ e[2] = f[2] => e = f
  <2>1. \A e \in vehicles : e[1] # next_id /\ e[2] # b
    <3>1. \A e \in vehicles : e[1] \in Nat /\ e[1] < next_id
      BY DEF RegistryInv, Ids
    <3> QED
      BY <1>1, <3>1 DEF RegistryInv
  <2> QED
    BY <1>2, <2>1 DEF RegistryInv
<1>7. body_to_vehicle' = Registered(vehicles')
  <2>1. body_to_vehicle = Registered(vehicles)
    BY DEF RegistryInv, Registered
  <2>2. Registered(vehicles \cup {<<next_id, b>>}) = Registered(vehicles) \cup {<<b, next_id>>}
    BY RegisteredGrows
  <2> QED
    BY <1>2, <2>1, <2>2
<1>8. \A e \in vehicles' : e[2] \notin static_bodies' /\ \A f \in static_tiles' : e[2] # f[2]
  BY <1>1, <1>2 DEF RegistryInv
<1> QED
  BY <1>2, <1>3, <1>4, <1>5, <1>6, <1>7, <1>8 DEF RegistryInv, Registered

LEMMA RemoveVehicleRegistered ==
  ASSUME RegistryInv, NEW v, NEW b, RemoveVehicle(v, b) PROVE RegistryInv'
<1>1. /\ <<v, b>> \in vehicles /\ vehicles' = vehicles \ {<<v, b>>}
      /\ body_to_vehicle' = {e \in body_to_vehicle : e[1] # b}
      /\ UNCHANGED <<next_id, static_tiles, static_bodies, tile_body_indices>>
  BY DEF RemoveVehicle, Key
<1>2. body_to_vehicle' = {<<e[2], e[1]>> : e \in vehicles'}
  <2>1. \A e \in vehicles : e[2] = b <=> e = <<v, b>>
    BY <1>1 DEF RegistryInv
  <2> QED
    BY <1>1, <2>1 DEF RegistryInv
<1> QED
  BY <1>1, <1>2 DEF RegistryInv

LEMMA AddStaticTileRegistered ==
  ASSUME RegistryInv, NEW b, AddStaticTile(b) PROVE RegistryInv'
<1>1. /\ b \in Bodies /\ b # Ground /\ b \notin static_bodies
      /\ \A e \in vehicles \cup static_tiles : e[2] # b
  BY NewBody DEF AddStaticTile
<1>2. /\ next_id <= MaxId /\ next_id' = next_id + 1
      /\ static_tiles' = static_tiles \cup {<<next_id, b>>}
      /\ tile_body_indices' = tile_body_indices \cup {b}
      /\ UNCHANGED <<vehicles, static_bodies, body_to_vehicle>>
  BY DEF AddStaticTile, Key
<1>3. next_id \in Ids /\ next_id \in Nat /\ next_id + 1 \in Nat \ {0}
  BY <1>2 DEF RegistryInv, Ids
<1>4. \A e \in vehicles : e[1] < next_id'
  <2>1. \A e \in vehicles : e[1] \in Nat /\ e[1] < next_id
    BY DEF RegistryInv, Ids
  <2> QED
    BY <1>2, <1>3, <2>1
<1>5. static_tiles' \subseteq Ids \X Bodies
  BY <1>1, <1>2, <1>3 DEF RegistryInv
<1>6. tile_body_indices' = BodiesOf(static_tiles') \cup (static_bodies' \ {Ground})
  <2>1. BodiesOf(static_tiles \cup {<<next_id, b>>}) = BodiesOf(static_tiles) \cup {b}
    BY BodiesGrow
  <2>2. tile_body_indices = BodiesOf(static_tiles) \cup (static_bodies \ {Ground})
    BY DEF RegistryInv, BodiesOf
  <2> QED
    BY <1>2, <2>1, <2>2
<1>7. /\ \A e \in vehicles : \A f \in static_tiles' : e[2] # f[2]
      /\ \A e, f \in static_tiles' : e[2] = f[2] => e = f
      /\ \A e \in static_tiles' : e[2] \notin static_bodies
  BY <1>1, <1>2 DEF RegistryInv
<1> QED
  BY <1>2, <1>3, <1>4, <1>5, <1>6, <1>7 DEF RegistryInv, BodiesOf

LEMMA RemoveStaticTileRegistered ==
  ASSUME RegistryInv, NEW v, NEW b, RemoveStaticTile(v, b) PROVE RegistryInv'
<1>1. /\ <<v, b>> \in static_tiles /\ static_tiles' = static_tiles \ {<<v, b>>}
      /\ tile_body_indices' = tile_body_indices \ {b}
      /\ UNCHANGED <<next_id, vehicles, static_bodies, body_to_vehicle>>
  BY DEF RemoveStaticTile, Erased, Key
<1>2. tile_body_indices' = {e[2] : e \in static_tiles'} \cup (static_bodies' \ {Ground})
  <2>1. \A e \in static_tiles : e[2] = b <=> e = <<v, b>>
    BY <1>1 DEF RegistryInv
  <2>2. b \notin static_bodies
    BY <1>1 DEF RegistryInv
  <2> QED
    BY <1>1, <2>1, <2>2 DEF RegistryInv
<1> QED
  BY <1>1, <1>2 DEF RegistryInv

LEMMA NextRegistry == ASSUME RegistryInv, [Next]_vars PROVE RegistryInv'
<1>1. CASE \E b \in Bodies : LoadTile(b) \/ AddVehicle(b) \/ AddStaticTile(b)
  BY <1>1, LoadTileRegistered, AddVehicleRegistered, AddStaticTileRegistered
<1>2. CASE \/ \E e \in vehicles : RemoveVehicle(e[1], e[2])
           \/ \E e \in static_tiles : RemoveStaticTile(e[1], e[2])
  BY <1>2, RemoveVehicleRegistered, RemoveStaticTileRegistered
<1>3. CASE UNCHANGED registryVars
  BY <1>3 DEF registryVars, RegistryInv
<1>4. CASE \/ BeginUpdate \/ EndUpdate
           \/ \E t \in Threads : WriteEvent(t) \/ \E a, b \in BodiesIn : ContactAdded(t, a, b)
  BY <1>3, <1>4 DEF BeginUpdate, EndUpdate, WriteEvent, ContactAdded
<1> QED
  BY <1>1, <1>2, <1>3, <1>4 DEF Next, vars

-----------------------------------------------------------------------------
(* One contact, as it is attributed and as it was. *)
Fields == {"midair", "static", "building"}
Kinds == [midair |-> {"midair"}, static |-> {"static", "building"}, building |-> {"building"}]

Hit(v, k, p) == Struck(v, p[1], p[2]) /\ KindOf(p[1], p[2]) \in Kinds[k]

LEMMA Entries ==
  ASSUME NEW S, NEW T, NEW R \in SUBSET (S \X T), NEW x
  PROVE  /\ \A v : (\E e \in R : e[2] = x /\ e[1] = v) <=> <<v, x>> \in R
         /\ (\E e \in R : e[2] = x) <=> \E w \in S : <<w, x>> \in R
<1>1. \A e \in R : e = <<e[1], e[2]>> /\ e[1] \in S
  OBVIOUS
<1>2. \A v : <<v, x>>[1] = v /\ <<v, x>>[2] = x
  OBVIOUS
<1>3. ASSUME NEW e \in R, e[2] = x PROVE <<e[1], x>> \in R
  BY <1>1, <1>3
<1> QED
  BY <1>1, <1>2, <1>3

LEMMA VehicleOfBody ==
  ASSUME RegistryInv, NEW x
  PROVE  /\ \A v : v \in VehicleOf(x) <=> <<v, x>> \in vehicles
         /\ VehicleOf(x) # {} <=> \E w \in Ids : <<w, x>> \in vehicles
<1>1. VehicleOf(x) = {e[1] : e \in {f \in vehicles : f[2] = x}}
  <2>1. \A v : v \in VehicleOf(x) <=> \E e \in body_to_vehicle : e[1] = x /\ e[2] = v
    BY DEF VehicleOf, Key
  <2>2. \A e : e \in body_to_vehicle <=> \E f \in vehicles : e = <<f[2], f[1]>>
    BY DEF RegistryInv
  <2>3. \A v : (\E e \in body_to_vehicle : e[1] = x /\ e[2] = v)
                <=> \E f \in vehicles : f[2] = x /\ f[1] = v
    <3>1. ASSUME NEW e \in body_to_vehicle
          PROVE  \E f \in vehicles : f[2] = e[1] /\ f[1] = e[2]
      BY <2>2
    <3>2. ASSUME NEW f \in vehicles
          PROVE  \E e \in body_to_vehicle : f[2] = e[1] /\ f[1] = e[2]
      <4>1. <<f[2], f[1]>> \in body_to_vehicle
        BY <2>2
      <4> QED
        BY <4>1
    <3> QED
      BY <3>1, <3>2
  <2> QED
    BY <2>1, <2>3
<1>2. vehicles \in SUBSET (Ids \X Bodies)
  BY DEF RegistryInv
<1>3. \A v : v \in VehicleOf(x) <=> <<v, x>> \in vehicles
  BY <1>1, <1>2, Entries
<1>4. \A w : <<w, x>> \in vehicles => w \in Ids
  BY <1>2
<1> QED
  BY <1>3, <1>4

LEMMA TileBody ==
  ASSUME RegistryInv, NEW x
  PROVE  /\ IsTile(x) <=> \/ \E w \in Ids : <<w, x>> \in static_tiles
                          \/ x \in static_bodies \ {Ground}
         /\ \A v : <<v, x>> \in vehicles => ~IsTile(x)
<1>1. IsTile(x) <=> (\E e \in static_tiles : e[2] = x) \/ x \in static_bodies \ {Ground}
  BY DEF IsTile, Key, RegistryInv
<1>2. (\E e \in static_tiles : e[2] = x) <=> \E w \in Ids : <<w, x>> \in static_tiles
  <2>1. static_tiles \in SUBSET (Ids \X Bodies)
    BY DEF RegistryInv
  <2> QED
    BY <2>1, Entries
<1>3. ASSUME NEW v, <<v, x>> \in vehicles PROVE ~IsTile(x)
  BY <1>1, <1>3 DEF RegistryInv
<1> QED
  BY <1>1, <1>2, <1>3

LEMMA ContactKinds ==
  ASSUME RegistryInv, NEW a, NEW b, a # b, NEW v \in Ids, NEW k \in Fields
  PROVE  Add(Meets(v, a, b), Meets(v, b, a))[k] = IF Hit(v, k, <<a, b>>) THEN 1 ELSE 0
<1>1. /\ Hit(v, k, <<a, b>>) <=> Struck(v, a, b) /\ KindOf(a, b) \in Kinds[k]
      /\ Struck(v, a, b) <=> <<v, a>> \in vehicles \/ <<v, b>> \in vehicles
  <2>1. <<a, b>>[1] = a /\ <<a, b>>[2] = b
    OBVIOUS
  <2> QED
    BY <2>1, VehicleOfBody DEF Hit, Struck
<1>2. Add(Meets(v, a, b), Meets(v, b, a))[k] = Meets(v, a, b)[k] + Meets(v, b, a)[k]
  BY DEF Add, Meets, NothingMet, Fields
<1>3. ASSUME NEW x, NEW y, <<v, x>> \notin vehicles PROVE Meets(v, x, y)[k] = 0
  BY <1>3 DEF Meets, NothingMet, Fields
<1>4. ASSUME NEW x, NEW y, x # y, <<v, x>> \in vehicles,
             KindOf(a, b) = IF VehicleOf(x) # {} /\ VehicleOf(y) # {} THEN "midair"
                            ELSE IF IsTile(x) \/ IsTile(y) THEN "building" ELSE "static"
      PROVE  /\ <<v, y>> \notin vehicles
             /\ Meets(v, x, y)[k] = IF KindOf(a, b) \in Kinds[k] THEN 1 ELSE 0
  <2>1. <<v, y>> \notin vehicles
    <3>1. <<v, x>>[1] = <<v, y>>[1] /\ <<v, x>>[2] # <<v, y>>[2]
      BY <1>4
    <3> QED
      BY <1>4, <3>1 DEF RegistryInv
  <2>2. VehicleOf(x) # {} /\ ~IsTile(x)
    BY <1>4, VehicleOfBody, TileBody
  <2>3. VehicleOf(y) # {} <=> \E w \in Ids : <<w, y>> \in vehicles
    BY VehicleOfBody
  <2>4. IsTile(y) <=> \/ \E w \in Ids : <<w, y>> \in static_tiles
                      \/ y \in static_bodies \ {Ground}
    BY TileBody
  <2>5. CASE VehicleOf(y) # {}
    <3>1. KindOf(a, b) = "midair" /\ Meets(v, x, y) = [midair |-> 1, static |-> 0, building |-> 0]
      BY <1>4, <2>2, <2>3, <2>5 DEF Meets
    <3> QED
      BY <2>1, <3>1 DEF Kinds, Fields
  <2>6. CASE VehicleOf(y) = {} /\ IsTile(y)
    <3>1. KindOf(a, b) = "building" /\ Meets(v, x, y) = [midair |-> 0, static |-> 1, building |-> 1]
      BY <1>4, <2>2, <2>3, <2>4, <2>6 DEF Meets
    <3> QED
      BY <2>1, <3>1 DEF Kinds, Fields
  <2>7. CASE VehicleOf(y) = {} /\ ~IsTile(y)
    <3>1. KindOf(a, b) = "static" /\ Meets(v, x, y) = [midair |-> 0, static |-> 1, building |-> 0]
      BY <1>4, <2>2, <2>3, <2>4, <2>7 DEF Meets
    <3> QED
      BY <2>1, <3>1 DEF Kinds, Fields
  <2> QED
    BY <2>5, <2>6, <2>7
<1>5. /\ KindOf(a, b) = IF VehicleOf(a) # {} /\ VehicleOf(b) # {} THEN "midair"
                        ELSE IF IsTile(a) \/ IsTile(b) THEN "building" ELSE "static"
      /\ KindOf(a, b) = IF VehicleOf(b) # {} /\ VehicleOf(a) # {} THEN "midair"
                        ELSE IF IsTile(b) \/ IsTile(a) THEN "building" ELSE "static"
  BY Zenon DEF KindOf
<1>6. CASE <<v, a>> \in vehicles
  <2>1. <<v, b>> \notin vehicles /\ Meets(v, a, b)[k] = IF KindOf(a, b) \in Kinds[k] THEN 1 ELSE 0
    BY <1>4, <1>5, <1>6
  <2>2. Meets(v, b, a)[k] = 0
    BY <1>3, <2>1
  <2> QED
    BY <1>1, <1>2, <1>6, <2>1, <2>2
<1>7. CASE <<v, b>> \in vehicles
  <2>1. <<v, a>> \notin vehicles /\ Meets(v, b, a)[k] = IF KindOf(a, b) \in Kinds[k] THEN 1 ELSE 0
    BY <1>4, <1>5, <1>7
  <2>2. Meets(v, a, b)[k] = 0
    BY <1>3, <2>1
  <2> QED
    BY <1>1, <1>2, <1>7, <2>1, <2>2
<1>8. CASE <<v, a>> \notin vehicles /\ <<v, b>> \notin vehicles
  BY <1>1, <1>2, <1>3, <1>8
<1> QED
  BY <1>6, <1>7, <1>8

-----------------------------------------------------------------------------
(* The queue. *)
Holds(t, s) == thread[t] # Idle /\ thread[t].slot = s

(* What a slot holds once the thread that has claimed it has written. *)
Reported ==
  [s \in Slots |-> IF \E t \in Threads : Holds(t, s)
                   THEN thread[CHOOSE t \in Threads : Holds(t, s)].pair ELSE events[s]]

QueueInv ==
  /\ count \in Nat /\ overflowed \in BOOLEAN
  /\ ~updating => count = 0
  /\ DOMAIN events = Slots /\ DOMAIN thread = Threads
  /\ \A t \in Threads : thread[t] # Idle => thread[t].slot \in Slots /\ thread[t].slot < count
  /\ \A t, u \in Threads : \A s \in Slots : Holds(t, s) /\ Holds(u, s) => t = u

LEMMA ReportedIs ==
  QueueInv => \A s \in Slots :
    /\ \A t \in Threads : Holds(t, s) => Reported[s] = thread[t].pair
    /\ (\A t \in Threads : ~Holds(t, s)) => Reported[s] = events[s]
<1> SUFFICES ASSUME QueueInv, NEW s \in Slots
             PROVE  /\ \A t \in Threads : Holds(t, s) => Reported[s] = thread[t].pair
                    /\ (\A t \in Threads : ~Holds(t, s)) => Reported[s] = events[s]
  OBVIOUS
<1>1. ASSUME NEW t \in Threads, Holds(t, s) PROVE Reported[s] = thread[t].pair
  <2> DEFINE c == CHOOSE u \in Threads : Holds(u, s)
  <2>1. c \in Threads /\ Holds(c, s)
    BY <1>1
  <2>2. c = t
    BY <1>1, <2>1 DEF QueueInv
  <2>3. Reported[s] = thread[c].pair
    BY <1>1 DEF Reported
  <2> QED
    BY <2>2, <2>3
<1>2. ASSUME \A t \in Threads : ~Holds(t, s) PROVE Reported[s] = events[s]
  BY <1>2 DEF Reported
<1> QED
  BY <1>1, <1>2

LEMMA ReportedIsNext ==
  (QueueInv => \A s \in Slots :
    /\ \A t \in Threads : Holds(t, s) => Reported[s] = thread[t].pair
    /\ (\A t \in Threads : ~Holds(t, s)) => Reported[s] = events[s])'
  BY ReportedIs, PTL

Queued(v, k) == {s \in Slots : s < count /\ Hit(v, k, Reported[s])}

LEMMA QueuedIsFinite ==
  ASSUME NEW v, NEW k
  PROVE  IsFiniteSet(Queued(v, k)) /\ Cardinality(Queued(v, k)) \in Nat
<1>1. IsFiniteSet(Slots)
  BY FS_Interval DEF Slots
<1>2. Queued(v, k) \in SUBSET Slots
  BY DEF Queued
<1> QED
  BY <1>1, <1>2, FS_Subset, FS_CardinalityType

LEMMA NothingQueued ==
  ASSUME NEW v, NEW k, count = 0 PROVE Queued(v, k) = {} /\ Cardinality(Queued(v, k)) = 0
<1>1. \A s \in Slots : ~(s < 0)
  BY DEF Slots
<1>2. Queued(v, k) = {}
  BY <1>1 DEF Queued
<1> QED
  BY <1>2, FS_EmptySet

LEMMA NothingQueuedNext ==
  (\A v \in Ids, k \in Fields : count = 0 => Cardinality(Queued(v, k)) = 0)'
<1>1. \A v \in Ids, k \in Fields : count = 0 => Cardinality(Queued(v, k)) = 0
  BY NothingQueued
<1> QED
  BY <1>1, PTL

(* A claimed slot that is not written yet is written with what it was      *)
(* claimed for.                                                            *)
LEMMA WriteKeepsReported ==
  ASSUME QueueInv, NEW t \in Threads, WriteEvent(t)
  PROVE  QueueInv' /\ Reported' = Reported
<1>1. /\ thread[t] # Idle /\ UNCHANGED <<count, updating, overflowed>>
      /\ events' = [events EXCEPT ![thread[t].slot] = thread[t].pair]
      /\ thread' = [thread EXCEPT ![t] = Idle]
  BY DEF WriteEvent
<1>2. /\ thread'[t] = Idle /\ \A u \in Threads : u # t => thread'[u] = thread[u]
      /\ thread[t].slot \in Slots
      /\ events'[thread[t].slot] = thread[t].pair
      /\ \A s \in Slots : s # thread[t].slot => events'[s] = events[s]
  BY <1>1 DEF QueueInv
<1>3. \A u \in Threads : \A s \in Slots : Holds(u, s)' <=> Holds(u, s) /\ u # t
  BY <1>1, <1>2 DEF Holds
<1>4. QueueInv'
  <2>1. \A u \in Threads : thread'[u] # Idle => thread'[u].slot \in Slots /\ thread'[u].slot < count'
    BY <1>1, <1>2 DEF QueueInv
  <2>2. \A u, w \in Threads : \A s \in Slots : Holds(u, s)' /\ Holds(w, s)' => u = w
    BY <1>3 DEF QueueInv
  <2>3. DOMAIN events' = Slots /\ DOMAIN thread' = Threads
    BY <1>1 DEF QueueInv
  <2> QED
    BY <1>1, <2>1, <2>2, <2>3 DEF QueueInv
<1>5. ASSUME NEW s \in Slots PROVE Reported'[s] = Reported[s]
  <2>1. CASE s = thread[t].slot
    <3>1. Holds(t, s)
      BY <1>1, <2>1 DEF Holds
    <3>2. \A u \in Threads : ~Holds(u, s)'
      BY <1>3, <3>1 DEF QueueInv
    <3> QED
      BY <1>2, <1>4, <2>1, <3>1, <3>2, ReportedIs, ReportedIsNext
  <2>2. CASE \E u \in Threads : Holds(u, s) /\ u # t
    <3>1. PICK u \in Threads : Holds(u, s) /\ u # t
      BY <2>2
    <3> QED
      BY <1>2, <1>3, <1>4, <3>1, ReportedIs, ReportedIsNext
  <2>3. CASE s # thread[t].slot /\ \A u \in Threads : Holds(u, s) => u = t
    <3>1. \A u \in Threads : ~Holds(u, s)
      BY <2>3 DEF Holds
    <3>2. \A u \in Threads : ~Holds(u, s)'
      BY <1>3, <3>1
    <3> QED
      BY <1>2, <1>4, <2>3, <3>1, <3>2, ReportedIs, ReportedIsNext
  <2> QED
    BY <2>1, <2>2, <2>3
<1>6. Reported' = Reported
  <2>1. Reported = [s \in Slots |-> Reported[s]] /\ Reported' = [s \in Slots |-> Reported'[s]]
    BY DEF Reported
  <2> QED
    BY <1>5, <2>1
<1> QED
  BY <1>4, <1>6

(* A contact takes the next slot, if there is one. *)
LEMMA ContactIsReported ==
  ASSUME QueueInv, NEW t \in Threads, NEW a, NEW b, ContactAdded(t, a, b)
  PROVE  /\ QueueInv'
         /\ \A s \in Slots : s # count => Reported'[s] = Reported[s]
         /\ count \in Slots => Reported'[count] = <<a, b>>
<1>1. /\ thread[t] = Idle /\ updating /\ UNCHANGED <<updating, events>> /\ count' = count + 1
      /\ thread' = [thread EXCEPT ![t] =
                      IF count < Capacity THEN [slot |-> count, pair |-> <<a, b>>] ELSE Idle]
      /\ overflowed' = (overflowed \/ count >= Capacity)
  BY DEF ContactAdded
<1>2. /\ count \in Nat /\ (count \in Slots <=> count < Capacity)
      /\ thread'[t] = IF count < Capacity THEN [slot |-> count, pair |-> <<a, b>>] ELSE Idle
      /\ \A u \in Threads : u # t => thread'[u] = thread[u]
  <2>1. count \in Nat /\ DOMAIN thread = Threads
    BY DEF QueueInv
  <2>2. count \in Slots <=> count < Capacity
    BY <2>1 DEF Slots
  <2> QED
    BY <1>1, <2>1, <2>2
<1>3. count < Capacity => thread'[t] # Idle /\ thread'[t].slot = count /\ thread'[t].pair = <<a, b>>
  <2>1. [slot |-> count, pair |-> <<a, b>>].slot = count /\ Idle.slot = -1 /\ count # -1
    BY <1>2 DEF Idle
  <2> QED
    BY <1>2, <2>1
<1>4. \A u \in Threads : \A s \in Slots : s # count => (Holds(u, s)' <=> Holds(u, s))
  BY <1>1, <1>2, <1>3 DEF Holds
<1>5. \A u \in Threads : ~Holds(u, count)
  BY <1>2 DEF Holds, QueueInv
<1>6. \A u \in Threads : \A s \in Slots : s = count /\ Holds(u, s)' => u = t
  <2> SUFFICES ASSUME NEW u \in Threads, NEW s \in Slots, s = count, Holds(u, s)', u # t
               PROVE  FALSE
    OBVIOUS
  <2>1. thread[u] # Idle /\ thread[u].slot = s
    BY <1>2 DEF Holds
  <2> QED
    BY <1>2, <2>1 DEF QueueInv
<1>7. QueueInv'
  <2>1. \A u \in Threads : thread'[u] # Idle => thread'[u].slot \in Slots /\ thread'[u].slot < count'
    <3>1. ASSUME NEW u \in Threads, thread'[u] # Idle
          PROVE  thread'[u].slot \in Slots /\ thread'[u].slot < count'
      <4>1. CASE u = t
        BY <1>1, <1>2, <1>3, <3>1, <4>1
      <4>2. CASE u # t
        BY <1>1, <1>2, <3>1, <4>2 DEF QueueInv, Slots
      <4> QED
        BY <4>1, <4>2
    <3> QED
      BY <3>1
  <2>2. \A u, w \in Threads : \A s \in Slots : Holds(u, s)' /\ Holds(w, s)' => u = w
    <3>1. ASSUME NEW u \in Threads, NEW w \in Threads, NEW s \in Slots, Holds(u, s)', Holds(w, s)'
          PROVE  u = w
      <4>1. CASE s = count
        BY <1>6, <3>1, <4>1
      <4>2. CASE s # count
        BY <1>4, <3>1, <4>2 DEF QueueInv
      <4> QED
        BY <4>1, <4>2
    <3> QED
      BY <3>1
  <2>3. /\ DOMAIN events' = Slots /\ DOMAIN thread' = Threads
        /\ count' \in Nat /\ overflowed' \in BOOLEAN
    BY <1>1, <1>2 DEF QueueInv
  <2> QED
    BY <1>1, <2>1, <2>2, <2>3 DEF QueueInv
<1>8. ASSUME NEW s \in Slots, s # count PROVE Reported'[s] = Reported[s]
  <2>1. CASE \E u \in Threads : Holds(u, s)
    <3>1. PICK u \in Threads : Holds(u, s)
      BY <2>1
    <3>2. u # t /\ thread'[u] = thread[u]
      BY <1>1, <1>2, <3>1 DEF Holds
    <3>3. Reported[s] = thread[u].pair
      BY <3>1, ReportedIs
    <3>4. Reported'[s] = thread'[u].pair
      BY <1>4, <1>7, <1>8, <3>1, ReportedIsNext
    <3> QED
      BY <3>2, <3>3, <3>4
  <2>2. CASE \A u \in Threads : ~Holds(u, s)
    <3>1. Reported[s] = events[s]
      BY <2>2, ReportedIs
    <3>2. \A u \in Threads : ~Holds(u, s)'
      BY <1>4, <1>8, <2>2
    <3>3. Reported'[s] = events'[s]
      BY <1>7, <3>2, ReportedIsNext
    <3> QED
      BY <1>1, <3>1, <3>3
  <2> QED
    BY <2>1, <2>2
<1>9. ASSUME count \in Slots PROVE Reported'[count] = <<a, b>>
  <2> DEFINE s == count
  <2>1. thread'[t] # Idle /\ thread'[t].slot = s /\ thread'[t].pair = <<a, b>>
    BY <1>2, <1>3, <1>9
  <2> HIDE DEF s
  <2>2. s \in Slots
    BY <1>9 DEF s
  <2>3. \A c \in Slots : thread'[t].slot = c => Reported'[c] = thread'[t].pair
    BY <1>7, <2>1, ReportedIsNext DEF Holds
  <2> QED
    BY <2>1, <2>2, <2>3 DEF s
<1> QED
  BY <1>7, <1>8, <1>9

-----------------------------------------------------------------------------
(* The counters, with what is queued, are what was met. *)
CountType ==
  /\ midair_collisions \in [Ids -> Nat] /\ static_contacts \in [Ids -> Nat]
  /\ building_contacts \in [Ids -> Nat]
  /\ met \in [Ids -> [Fields -> Nat]]

Counted(v) == [midair |-> midair_collisions[v], static |-> static_contacts[v],
               building |-> building_contacts[v]]

CountInv ==
  \A v \in Ids, k \in Fields :
    /\ Counted(v)[k] + Cardinality(Queued(v, k)) <= met[v][k]
    /\ ~overflowed => Counted(v)[k] + Cardinality(Queued(v, k)) = met[v][k]

WInv == RegistryInv /\ QueueInv /\ CountType /\ CountInv

LEMMA CountedIsNat ==
  ASSUME CountType, NEW v \in Ids, NEW k \in Fields PROVE Counted(v)[k] \in Nat
  BY DEF CountType, Counted, Fields

LEMMA InitWInv == Init => WInv
<1> SUFFICES ASSUME Init PROVE WInv
  OBVIOUS
<1>1. RegistryInv
  BY InitRegistry
<1>2. QueueInv
  BY DEF Init, QueueInv, Holds
<1>3. NothingMet \in [Fields -> Nat] /\ \A k \in Fields : NothingMet[k] = 0
  BY DEF NothingMet, Fields
<1>4. CountType
  <2>1. /\ midair_collisions \in [Ids -> Nat] /\ static_contacts \in [Ids -> Nat]
        /\ building_contacts \in [Ids -> Nat]
    BY DEF Init
  <2>2. met \in [Ids -> [Fields -> Nat]]
    BY <1>3 DEF Init
  <2> QED
    BY <2>1, <2>2 DEF CountType
<1>5. CountInv
  <2> SUFFICES ASSUME NEW v \in Ids, NEW k \in Fields
               PROVE  Counted(v)[k] + Cardinality(Queued(v, k)) = 0 /\ met[v][k] = 0
    BY DEF CountInv
  <2>1. Counted(v)[k] = 0
    BY DEF Init, Counted, Fields
  <2>2. Cardinality(Queued(v, k)) = 0
    BY NothingQueued DEF Init
  <2> QED
    BY <1>3, <2>1, <2>2 DEF Init
<1> QED
  BY <1>1, <1>2, <1>4, <1>5 DEF WInv

(* What happens between steps happens with an empty queue. *)
LEMMA BetweenSteps ==
  ASSUME WInv, RegistryInv', count = 0,
         UNCHANGED <<count, events, thread, overflowed>>,
         CountType',
         \A v \in Ids, k \in Fields :
           \/ Counted(v)'[k] = Counted(v)[k] /\ met'[v][k] = met[v][k]
           \/ Counted(v)'[k] = 0 /\ met'[v][k] = 0
  PROVE  WInv'
<1>1. QueueInv'
  BY DEF WInv, QueueInv, Holds
<1>2. CountInv'
  <2> SUFFICES ASSUME NEW v \in Ids, NEW k \in Fields
               PROVE  /\ Counted(v)'[k] + Cardinality(Queued(v, k)') <= met'[v][k]
                      /\ ~overflowed' => Counted(v)'[k] + Cardinality(Queued(v, k)') = met'[v][k]
    BY DEF CountInv
  <2>1. Cardinality(Queued(v, k)) = 0 /\ Cardinality(Queued(v, k)') = 0
    BY NothingQueued, NothingQueuedNext
  <2>2. /\ Counted(v)[k] + 0 <= met[v][k]
        /\ ~overflowed => Counted(v)[k] + 0 = met[v][k]
    BY <2>1 DEF WInv, CountInv
  <2>3. Counted(v)[k] \in Nat /\ met[v][k] \in Nat
    BY CountedIsNat DEF WInv, CountType
  <2> QED
    BY <2>1, <2>2, <2>3
<1> QED
  BY <1>1, <1>2 DEF WInv

LEMMA RegistrationKeeps ==
  ASSUME WInv, [Next]_vars, NEW b, LoadTile(b) \/ AddVehicle(b) \/ AddStaticTile(b) PROVE WInv'
<1>1. RegistryInv'
  BY NextRegistry DEF WInv
<1>2. /\ ~updating /\ UNCHANGED <<count, events, thread, overflowed>>
      /\ UNCHANGED <<midair_collisions, static_contacts, building_contacts, met>>
  BY DEF LoadTile, AddVehicle, AddStaticTile, queueVars, counterVars
<1>3. count = 0 /\ CountType' /\ \A v : Counted(v)' = Counted(v)
  BY <1>2 DEF WInv, QueueInv, CountType, Counted
<1> QED
  BY <1>1, <1>2, <1>3, BetweenSteps

LEMMA RemovalKeeps ==
  ASSUME WInv, [Next]_vars, NEW v, NEW b, RemoveStaticTile(v, b) \/ BeginUpdate PROVE WInv'
<1>1. RegistryInv'
  BY NextRegistry DEF WInv
<1>2. /\ ~updating /\ UNCHANGED <<count, events, thread, overflowed>>
      /\ UNCHANGED <<midair_collisions, static_contacts, building_contacts, met>>
  BY DEF RemoveStaticTile, BeginUpdate, queueVars, counterVars
<1>3. count = 0 /\ CountType' /\ \A w : Counted(w)' = Counted(w)
  BY <1>2 DEF WInv, QueueInv, CountType, Counted
<1> QED
  BY <1>1, <1>2, <1>3, BetweenSteps

LEMMA RemoveVehicleKeeps ==
  ASSUME WInv, [Next]_vars, NEW v, NEW b, RemoveVehicle(v, b) PROVE WInv'
<1>1. RegistryInv'
  BY NextRegistry DEF WInv
<1>2. /\ ~updating /\ UNCHANGED <<count, events, thread, overflowed>>
      /\ midair_collisions' = [midair_collisions EXCEPT ![v] = 0]
      /\ static_contacts' = [static_contacts EXCEPT ![v] = 0]
      /\ building_contacts' = [building_contacts EXCEPT ![v] = 0]
      /\ met' = [met EXCEPT ![v] = NothingMet]
  BY DEF RemoveVehicle, queueVars
<1>3. NothingMet \in [Fields -> Nat] /\ \A k \in Fields : NothingMet[k] = 0
  BY DEF NothingMet, Fields
<1>4. count = 0 /\ CountType'
  <2>1. /\ midair_collisions' \in [Ids -> Nat] /\ static_contacts' \in [Ids -> Nat]
        /\ building_contacts' \in [Ids -> Nat]
    BY <1>2 DEF WInv, CountType
  <2>2. met' \in [Ids -> [Fields -> Nat]]
    BY <1>2, <1>3 DEF WInv, CountType
  <2>3. count = 0
    BY <1>2 DEF WInv, QueueInv
  <2> QED
    BY <2>1, <2>2, <2>3 DEF CountType
<1>5. ASSUME NEW w \in Ids, NEW k \in Fields
      PROVE  \/ Counted(w)'[k] = Counted(w)[k] /\ met'[w][k] = met[w][k]
             \/ Counted(w)'[k] = 0 /\ met'[w][k] = 0
  <2>1. CASE w = v
    BY <1>2, <1>3, <2>1 DEF Counted, WInv, CountType, Fields
  <2>2. CASE w # v
    BY <1>2, <2>2 DEF Counted, WInv, CountType, Fields
  <2> QED
    BY <2>1, <2>2
<1> QED
  BY <1>1, <1>2, <1>4, <1>5, BetweenSteps

LEMMA WriteKeeps ==
  ASSUME WInv, [Next]_vars, NEW t \in Threads, WriteEvent(t) PROVE WInv'
<1>1. RegistryInv' /\ QueueInv' /\ Reported' = Reported
  BY NextRegistry, WriteKeepsReported DEF WInv
<1>2. UNCHANGED <<registryVars, counterVars, met, count, overflowed>>
  BY DEF WriteEvent
<1>3. CountType' /\ \A v : Counted(v)' = Counted(v)
  BY <1>2 DEF WInv, CountType, Counted, counterVars
<1>4. \A v, k : Queued(v, k)' = Queued(v, k)
  BY <1>1, <1>2 DEF Queued, Hit, Struck, KindOf, VehicleOf, IsTile, registryVars
<1>5. CountInv'
  BY <1>2, <1>3, <1>4 DEF WInv, CountInv
<1> QED
  BY <1>1, <1>3, <1>5 DEF WInv

LEMMA StutterKeeps == ASSUME WInv, UNCHANGED vars PROVE WInv'
<1>1. /\ UNCHANGED <<registryVars, counterVars, count, events, thread, updating, met, overflowed>>
  BY DEF vars, queueVars
<1>2. RegistryInv' /\ QueueInv' /\ CountType' /\ Reported' = Reported
  BY <1>1 DEF WInv, RegistryInv, QueueInv, CountType, Reported, Holds, registryVars, counterVars
<1>3. \A v, k : Queued(v, k)' = Queued(v, k)
  BY <1>1, <1>2 DEF Queued, Hit, Struck, KindOf, VehicleOf, IsTile, registryVars
<1>4. CountInv'
  BY <1>1, <1>3 DEF WInv, CountInv, Counted, counterVars
<1> QED
  BY <1>2, <1>4 DEF WInv

LEMMA ContactKeeps ==
  ASSUME WInv, [Next]_vars, NEW t \in Threads, NEW a, NEW b, ContactAdded(t, a, b) PROVE WInv'
<1>1. RegistryInv' /\ QueueInv'
  BY NextRegistry, ContactIsReported DEF WInv
<1>2. /\ a # b /\ count' = count + 1
      /\ UNCHANGED registryVars /\ UNCHANGED counterVars
      /\ overflowed' = (overflowed \/ count >= Capacity)
      /\ met' = [v \in Ids |-> Add(met[v], Add(Meets(v, a, b), Meets(v, b, a)))]
  BY DEF ContactAdded
<1>3. /\ \A s \in Slots : s # count => Reported'[s] = Reported[s]
      /\ count \in Slots => Reported'[count] = <<a, b>>
      /\ count \in Nat /\ (count \in Slots <=> count < Capacity)
  <2>1. count \in Nat
    BY DEF WInv, QueueInv
  <2>2. count \in Slots <=> count < Capacity
    BY <2>1 DEF Slots
  <2> QED
    BY <2>1, <2>2, ContactIsReported DEF WInv
<1>4. \A v \in Ids, k \in Fields :
        met'[v][k] = met[v][k] + IF Hit(v, k, <<a, b>>) THEN 1 ELSE 0
  <2> SUFFICES ASSUME NEW v \in Ids, NEW k \in Fields
               PROVE  met'[v][k] = met[v][k] + IF Hit(v, k, <<a, b>>) THEN 1 ELSE 0
    OBVIOUS
  <2> DEFINE more == Add(Meets(v, a, b), Meets(v, b, a))
  <2>1. more[k] = IF Hit(v, k, <<a, b>>) THEN 1 ELSE 0
    BY <1>2, ContactKinds DEF WInv
  <2>2. DOMAIN met[v] = Fields
    BY DEF WInv, CountType
  <2>3. met'[v] = Add(met[v], more)
    BY <1>2
  <2> HIDE DEF more
  <2> QED
    BY <2>1, <2>2, <2>3 DEF Add
<1>5. CountType'
  <2>1. \A v \in Ids, k \in Fields : met'[v][k] \in Nat
    BY <1>4 DEF WInv, CountType
  <2>2. met' = [v \in Ids |-> [k \in Fields |-> met'[v][k]]]
    <3> DEFINE more(v) == Add(Meets(v, a, b), Meets(v, b, a))
    <3>1. \A v \in Ids : DOMAIN met[v] = Fields
      BY DEF WInv, CountType
    <3>2. met' = [v \in Ids |-> Add(met[v], more(v))]
      BY <1>2
    <3>3. \A v \in Ids : Add(met[v], more(v)) = [k \in Fields |-> met[v][k] + more(v)[k]]
      BY <3>1 DEF Add
    <3> HIDE DEF more
    <3> QED
      BY <3>2, <3>3
  <2>3. met' \in [Ids -> [Fields -> Nat]]
    BY <2>1, <2>2
  <2> QED
    BY <1>2, <2>3 DEF WInv, CountType, counterVars
<1>6. \A v : Counted(v)' = Counted(v)
  BY <1>2 DEF Counted, counterVars
<1>7. ASSUME NEW v \in Ids, NEW k \in Fields
      PROVE  /\ Counted(v)[k] + Cardinality(Queued(v, k)') <= met'[v][k]
             /\ ~overflowed' => Counted(v)[k] + Cardinality(Queued(v, k)') = met'[v][k]
  <2> DEFINE Q == Queued(v, k)
  <2>1. Queued(v, k)' = {s \in Slots : s < count + 1 /\ Hit(v, k, Reported'[s])}
    BY <1>2 DEF Queued, Hit, Struck, KindOf, VehicleOf, IsTile, registryVars
  <2>2. IsFiniteSet(Q) /\ Cardinality(Q) \in Nat /\ count \notin Q
    BY <1>3, QueuedIsFinite DEF Queued
  <2>3. /\ Counted(v)[k] + Cardinality(Q) <= met[v][k]
        /\ ~overflowed => Counted(v)[k] + Cardinality(Q) = met[v][k]
    BY DEF WInv, CountInv
  <2>4. Counted(v)[k] \in Nat /\ met[v][k] \in Nat
    BY CountedIsNat DEF WInv, CountType
  <2>5. \A s \in Slots : s < count + 1 <=> s < count \/ s = count
    BY <1>3 DEF Slots
  <2>6. CASE count \in Slots
    <3>1. Queued(v, k)' = IF Hit(v, k, <<a, b>>) THEN Q \cup {count} ELSE Q
      <4>1. Reported'[count] = <<a, b>>
        BY <1>3, <2>6
      <4>2. \A s \in Slots : s < count => Reported'[s] = Reported[s]
        BY <1>3 DEF Slots
      <4>3. \A s : s \in Queued(v, k)' <=> s \in Q \/ (s = count /\ Hit(v, k, <<a, b>>))
        <5> TAKE s
        <5>1. s \in Queued(v, k)' <=> s \in Slots /\ s < count + 1 /\ Hit(v, k, Reported'[s])
          BY <2>1
        <5>2. s \in Q <=> s \in Slots /\ s < count /\ Hit(v, k, Reported[s])
          BY DEF Queued
        <5> HIDE DEF Q
        <5> QED
          BY <2>5, <2>6, <4>1, <4>2, <5>1, <5>2
      <4> HIDE DEF Q
      <4> QED
        BY <4>3
    <3> HIDE DEF Q
    <3>2. Cardinality(Queued(v, k)') = Cardinality(Q) + IF Hit(v, k, <<a, b>>) THEN 1 ELSE 0
      <4>1. Cardinality(Q \cup {count}) = Cardinality(Q) + 1
        BY <2>2, FS_AddElement
      <4>2. Cardinality(Q) + 0 = Cardinality(Q)
        BY <2>2
      <4> QED
        BY <3>1, <4>1, <4>2
    <3>3. overflowed' = overflowed
      BY <1>2, <1>3, <2>6 DEF WInv, QueueInv
    <3> QED
      BY <1>4, <2>2, <2>3, <2>4, <3>2, <3>3
  <2>7. CASE count \notin Slots
    <3>1. Queued(v, k)' = Q
      <4>1. \A s \in Slots : s # count /\ Reported'[s] = Reported[s]
        BY <1>3, <2>7
      <4>2. \A s : s \in Queued(v, k)' <=> s \in Q
        <5> TAKE s
        <5>1. s \in Queued(v, k)' <=> s \in Slots /\ s < count + 1 /\ Hit(v, k, Reported'[s])
          BY <2>1
        <5>2. s \in Q <=> s \in Slots /\ s < count /\ Hit(v, k, Reported[s])
          BY DEF Queued
        <5> HIDE DEF Q
        <5> QED
          BY <2>5, <4>1, <5>1, <5>2
      <4> HIDE DEF Q
      <4> QED
        BY <4>2
    <3>2. overflowed'
      <4>1. count >= Capacity
        BY <1>3, <2>7, WorldAssumption
      <4> QED
        BY <1>2, <4>1, Zenon
    <3> HIDE DEF Q
    <3> QED
      BY <1>4, <2>2, <2>3, <2>4, <3>1, <3>2
  <2> QED
    BY <2>6, <2>7
<1>8. CountInv'
  BY <1>6, <1>7 DEF CountInv
<1> QED
  BY <1>1, <1>5, <1>8 DEF WInv

(* What a step leaves in the queue is counted, each contact for whom it    *)
(* struck.                                                                 *)
LEMMA EndUpdateKeeps == ASSUME WInv, [Next]_vars, EndUpdate PROVE WInv'
<1>1. RegistryInv'
  BY NextRegistry DEF WInv
<1>2. /\ \A t \in Threads : thread[t] = Idle
      /\ midair_collisions' = [v \in Ids |-> midair_collisions[v] + Count(v, {"midair"})]
      /\ static_contacts' = [v \in Ids |-> static_contacts[v] + Count(v, {"static", "building"})]
      /\ building_contacts' = [v \in Ids |-> building_contacts[v] + Count(v, {"building"})]
      /\ count' = 0 /\ UNCHANGED <<events, thread, met, overflowed>>
  BY DEF EndUpdate, UpdateReturns
<1>3. \A s \in Slots : Reported[s] = events[s]
  BY <1>2 DEF Reported, Holds
<1>4. \A v \in Ids, k \in Fields : Count(v, Kinds[k]) = Cardinality(Queued(v, k))
  <2> TAKE v \in Ids, k \in Fields
  <2>1. Queued(v, k) = {s \in Drained : /\ Struck(v, events[s][1], events[s][2])
                                        /\ KindOf(events[s][1], events[s][2]) \in Kinds[k]}
    BY <1>3 DEF Queued, Drained, Hit
  <2> QED
    BY <2>1 DEF Count
<1>5. \A v \in Ids, k \in Fields : Counted(v)'[k] = Counted(v)[k] + Cardinality(Queued(v, k))
  <2>1. \A v \in Ids : /\ Counted(v)'["midair"] = Counted(v)["midair"] + Count(v, Kinds["midair"])
                       /\ Counted(v)'["static"] = Counted(v)["static"] + Count(v, Kinds["static"])
                       /\ Counted(v)'["building"] = Counted(v)["building"] + Count(v, Kinds["building"])
    <3> HIDE DEF Count
    <3> QED
      BY <1>2 DEF Counted, Kinds
  <2> HIDE DEF Counted, Count
  <2> QED
    BY <1>4, <2>1 DEF Fields
<1>6. CountType'
  <2>1. \A v \in Ids, k \in Fields : Counted(v)'[k] \in Nat
    BY <1>5, CountedIsNat, QueuedIsFinite DEF WInv
  <2>2. \A v \in Ids : /\ midair_collisions'[v] \in Nat /\ static_contacts'[v] \in Nat
                       /\ building_contacts'[v] \in Nat
    BY <2>1 DEF Counted, Fields
  <2> QED
    BY <1>2, <2>2 DEF WInv, CountType
<1>7. QueueInv'
  BY <1>2 DEF WInv, QueueInv, Holds
<1>8. CountInv'
  <2> SUFFICES ASSUME NEW v \in Ids, NEW k \in Fields
               PROVE  /\ Counted(v)'[k] + Cardinality(Queued(v, k)') <= met'[v][k]
                      /\ ~overflowed' => Counted(v)'[k] + Cardinality(Queued(v, k)') = met'[v][k]
    BY DEF CountInv
  <2>1. Cardinality(Queued(v, k)') = 0
    BY <1>2, NothingQueuedNext
  <2>2. /\ Counted(v)[k] + Cardinality(Queued(v, k)) <= met[v][k]
        /\ ~overflowed => Counted(v)[k] + Cardinality(Queued(v, k)) = met[v][k]
    BY DEF WInv, CountInv
  <2>3. /\ Counted(v)[k] \in Nat /\ met[v][k] \in Nat /\ Cardinality(Queued(v, k)) \in Nat
    BY CountedIsNat, QueuedIsFinite DEF WInv, CountType
  <2> QED
    BY <1>2, <1>5, <2>1, <2>2, <2>3
<1> QED
  BY <1>1, <1>6, <1>7, <1>8 DEF WInv

LEMMA NextWInv == ASSUME WInv, [Next]_vars PROVE WInv'
<1>1. CASE \E b \in Bodies : LoadTile(b) \/ AddVehicle(b) \/ AddStaticTile(b)
  BY <1>1, RegistrationKeeps
<1>2. CASE \E e \in vehicles : RemoveVehicle(e[1], e[2])
  BY <1>2, RemoveVehicleKeeps
<1>3. CASE BeginUpdate \/ \E e \in static_tiles : RemoveStaticTile(e[1], e[2])
  BY <1>3, RemovalKeeps
<1>4. CASE EndUpdate
  BY <1>4, EndUpdateKeeps
<1>5. CASE \E t \in Threads : WriteEvent(t) \/ \E a, b \in BodiesIn : ContactAdded(t, a, b)
  BY <1>5, WriteKeeps, ContactKeeps
<1>6. CASE UNCHANGED vars
  BY <1>6, StutterKeeps
<1> QED
  BY <1>1, <1>2, <1>3, <1>4, <1>5, <1>6 DEF Next

(* Whatever uses a body's index after whom, whichever threads report, and  *)
(* however many slots there are: between steps each vehicle's counters are *)
(* what it has met, or less if the queue has overflowed, and never more.   *)
THEOREM EveryContactCounted == Spec => []ContactsAttributed
<1>1. Init => WInv
  BY InitWInv
<1>2. WInv /\ [Next]_vars => WInv'
  BY NextWInv
<1>3. WInv => ContactsAttributed
  <2> SUFFICES ASSUME WInv, ~updating, NEW v \in Ids
               PROVE  LET counted == [midair |-> midair_collisions[v], static |-> static_contacts[v],
                                      building |-> building_contacts[v]]
                      IN /\ ~overflowed => counted = met[v]
                         /\ \A k \in DOMAIN counted : counted[k] <= met[v][k]
    BY DEF ContactsAttributed
  <2>1. \A k \in Fields : /\ Counted(v)[k] <= met[v][k]
                          /\ ~overflowed => Counted(v)[k] = met[v][k]
    <3> TAKE k \in Fields
    <3>1. Cardinality(Queued(v, k)) = 0
      BY NothingQueued DEF WInv, QueueInv
    <3>2. Counted(v)[k] \in Nat /\ met[v][k] \in Nat
      BY CountedIsNat DEF WInv, CountType
    <3> QED
      BY <3>1, <3>2 DEF WInv, CountInv
  <2>2. DOMAIN met[v] = Fields /\ DOMAIN Counted(v) = Fields
    BY DEF WInv, CountType, Counted, Fields
  <2>3. ~overflowed => Counted(v) = met[v]
    <3> SUFFICES ASSUME ~overflowed PROVE Counted(v) = met[v]
      OBVIOUS
    <3>1. Counted(v) = [k \in Fields |-> Counted(v)[k]]
      BY <2>2 DEF Counted
    <3>2. met[v] = [k \in Fields |-> met[v][k]]
      BY DEF WInv, CountType
    <3> QED
      BY <2>1, <3>1, <3>2
  <2> QED
    BY <2>1, <2>2, <2>3 DEF Counted
<1> QED
  BY <1>1, <1>2, <1>3, PTL DEF Spec
=============================================================================
