------------------------------- MODULE World -------------------------------
(***************************************************************************)
(* The bookkeeping of core::World (src/core/world.cpp) around the physics  *)
(* library: bodies of the ground, of vehicles and of tiles (streamed, or   *)
(* all loaded up front for a replay), and the contacts that its job        *)
(* threads report while a step runs and that are attributed to vehicles    *)
(* afterwards.                                                             *)
(*                                                                         *)
(* Jolt is external: it hands out body ids, an index with a sequence       *)
(* number that grows when the index is used again, and calls               *)
(* OnContactAdded on any of its threads.  Motion is not modelled.          *)
(***************************************************************************)
EXTENDS Integers, FiniteSets

CONSTANTS
  Threads,       \* Jolt's job threads
  Capacity,      \* slots of the contact queue, 256 in the code
  Indices,       \* body indices
  MaxSequence,   \* bound: uses of an index
  MaxId,         \* bound: vehicle and tile ids
  MaxContacts    \* bound: contacts in a run

ASSUME WorldAssumption ==
  /\ Capacity \in Nat \ {0} /\ MaxId \in Nat /\ MaxContacts \in Nat
  /\ MaxSequence \in Nat \ {0}

Ids == 1 .. MaxId
Slots == 0 .. Capacity - 1
Bodies == Indices \X (1 .. MaxSequence)
Ground == <<"ground">>
NoBody == <<>>
Idle == [slot |-> -1, pair |-> <<NoBody, NoBody>>]

VARIABLES
  next_id,
  vehicles,            \* vehicle ids with their bodies: set of <<id, body>>
  static_tiles,        \* the same for streamed tiles
  static_bodies,       \* bodies that stay: the ground, tiles loaded for a replay
  body_to_vehicle,     \* set of <<body, id>>
  tile_body_indices,   \* set of bodies
  sequence,            \* Jolt: how often each index was used
  midair_collisions, static_contacts, building_contacts,   \* by vehicle id
  updating,            \* PhysicsSystem::Update runs
  count, events,       \* the contact queue
  thread,              \* each job thread's claimed slot and pair, or Idle
  contacts,            \* number of contacts so far
  met,                 \* history: what each vehicle really met
  overflowed           \* history: the queue was full once

registryVars == <<next_id, vehicles, static_tiles, static_bodies, body_to_vehicle,
                  tile_body_indices, sequence>>
counterVars  == <<midair_collisions, static_contacts, building_contacts>>
queueVars    == <<count, events, thread>>
vars == <<registryVars, counterVars, updating, queueVars, contacts, met, overflowed>>

NothingMet == [midair |-> 0, static |-> 0, building |-> 0]

(* add_ground_plane has run. *)
Init ==
  /\ next_id = 1 /\ vehicles = {} /\ static_tiles = {} /\ static_bodies = {Ground}
  /\ body_to_vehicle = {} /\ tile_body_indices = {}
  /\ sequence = [i \in Indices |-> 0]
  /\ midair_collisions = [v \in Ids |-> 0]
  /\ static_contacts = [v \in Ids |-> 0]
  /\ building_contacts = [v \in Ids |-> 0]
  /\ updating = FALSE
  /\ count = 0 /\ events = [s \in Slots |-> <<NoBody, NoBody>>]
  /\ thread = [t \in Threads |-> Idle]
  /\ contacts = 0 /\ met = [v \in Ids |-> NothingMet] /\ overflowed = FALSE

-----------------------------------------------------------------------------
(* Bodies come and go between steps. *)
BodiesIn == {e[2] : e \in vehicles \cup static_tiles} \cup static_bodies

(* Jolt: the body at a free index. *)
CreateBody(b) ==
  /\ b \in Bodies /\ b[2] = sequence[b[1]] + 1
  /\ \A c \in BodiesIn \ {Ground} : c[1] # b[1]
  /\ sequence' = [sequence EXCEPT ![b[1]] = b[2]]

Key(b) == b                      \* GetIndexAndSequenceNumber

(* load_tiles, one file: before the fleet is set up. *)
LoadTile_Unregistered(b) ==         \* slip: only streamed tiles are registered
  /\ ~updating /\ next_id = 1 /\ CreateBody(b)
  /\ static_bodies' = static_bodies \cup {b}
  /\ UNCHANGED <<next_id, vehicles, static_tiles, body_to_vehicle, tile_body_indices,
                 counterVars, updating, queueVars, contacts, met, overflowed>>

LoadTile(b) ==
  /\ ~updating /\ next_id = 1 /\ CreateBody(b)
  /\ static_bodies' = static_bodies \cup {b}
  /\ tile_body_indices' = tile_body_indices \cup {Key(b)}
  /\ UNCHANGED <<next_id, vehicles, static_tiles, body_to_vehicle, counterVars,
                 updating, queueVars, contacts, met, overflowed>>

AddVehicle(b) ==
  /\ ~updating /\ next_id <= MaxId /\ CreateBody(b)
  /\ vehicles' = vehicles \cup {<<next_id, b>>}
  /\ body_to_vehicle' = body_to_vehicle \cup {<<Key(b), next_id>>}
  /\ next_id' = next_id + 1
  /\ UNCHANGED <<static_tiles, static_bodies, tile_body_indices, counterVars, updating, queueVars,
                 contacts, met, overflowed>>

RemoveVehicle(v, b) ==
  /\ ~updating /\ <<v, b>> \in vehicles
  /\ vehicles' = vehicles \ {<<v, b>>}
  /\ body_to_vehicle' = {e \in body_to_vehicle : e[1] # Key(b)}
  /\ midair_collisions' = [midair_collisions EXCEPT ![v] = 0]
  /\ static_contacts' = [static_contacts EXCEPT ![v] = 0]
  /\ building_contacts' = [building_contacts EXCEPT ![v] = 0]
  /\ met' = [met EXCEPT ![v] = NothingMet]
  /\ UNCHANGED <<next_id, static_tiles, static_bodies, tile_body_indices, sequence, updating,
                 queueVars, contacts, overflowed>>

AddStaticTile(b) ==
  /\ ~updating /\ next_id <= MaxId /\ CreateBody(b)
  /\ static_tiles' = static_tiles \cup {<<next_id, b>>}
  /\ tile_body_indices' = tile_body_indices \cup {Key(b)}
  /\ next_id' = next_id + 1
  /\ UNCHANGED <<vehicles, static_bodies, body_to_vehicle, counterVars, updating, queueVars,
                 contacts, met, overflowed>>

Erased(b) == {Key(b)}

RemoveStaticTile(v, b) ==
  /\ ~updating /\ <<v, b>> \in static_tiles
  /\ static_tiles' = static_tiles \ {<<v, b>>}
  /\ tile_body_indices' = tile_body_indices \ Erased(b)
  /\ UNCHANGED <<next_id, vehicles, static_bodies, body_to_vehicle, sequence, counterVars, updating,
                 queueVars, contacts, met, overflowed>>

-----------------------------------------------------------------------------
(* PhysicsSystem::Update and its callbacks. *)
BeginUpdate ==
  /\ ~updating /\ updating' = TRUE
  /\ UNCHANGED <<registryVars, counterVars, queueVars, contacts, met, overflowed>>

(* What vehicle v meets in a contact of bodies a and b. *)
Meets(v, b, other) ==
  IF <<v, b>> \notin vehicles THEN NothingMet
  ELSE IF \E w \in Ids : <<w, other>> \in vehicles
  THEN [midair |-> 1, static |-> 0, building |-> 0]
  ELSE [midair |-> 0, static |-> 1,
        building |-> IF \/ \E w \in Ids : <<w, other>> \in static_tiles
                        \/ other \in static_bodies \ {Ground}
                     THEN 1 ELSE 0]

Add(m, n) == [k \in DOMAIN m |-> m[k] + n[k]]

(* OnContactAdded up to the cursor ... *)
ContactAdded(t, a, b) ==
  /\ updating /\ thread[t] = Idle /\ contacts < MaxContacts
  /\ a # b /\ {a, b} \subseteq BodiesIn
  /\ \E v \in Ids : <<v, a>> \in vehicles \/ <<v, b>> \in vehicles
  /\ count' = count + 1
  /\ thread' = [thread EXCEPT ![t] =
                  IF count < Capacity THEN [slot |-> count, pair |-> <<a, b>>] ELSE Idle]
  /\ overflowed' = (overflowed \/ count >= Capacity)
  /\ contacts' = contacts + 1
  /\ met' = [v \in Ids |-> Add(met[v], Add(Meets(v, a, b), Meets(v, b, a)))]
  /\ UNCHANGED <<registryVars, counterVars, updating, events>>

(* ... and the write to the slot. *)
WriteEvent(t) ==
  /\ thread[t] # Idle
  /\ events' = [events EXCEPT ![thread[t].slot] = thread[t].pair]
  /\ thread' = [thread EXCEPT ![t] = Idle]
  /\ UNCHANGED <<registryVars, counterVars, updating, count, contacts, met, overflowed>>

(* Update returns when every job has. *)
UpdateReturns == updating /\ \A t \in Threads : thread[t] = Idle

(* World::step's attribution of one contact. *)
VehicleOf(a) == {e[2] : e \in {x \in body_to_vehicle : x[1] = Key(a)}}
IsTile(a) == Key(a) \in tile_body_indices

Struck(v, a, b) ==         \* v was struck in a contact of bodies a and b
  v \in VehicleOf(a) \cup VehicleOf(b)

KindOf(a, b) ==
  IF VehicleOf(a) # {} /\ VehicleOf(b) # {} THEN "midair"
  ELSE IF IsTile(a) \/ IsTile(b) THEN "building" ELSE "static"

Drained_All == Slots       \* slip: without min(count, size)
Drained == {s \in Slots : s < count}

Count(v, kinds) ==
  Cardinality({s \in Drained : Struck(v, events[s][1], events[s][2])
                               /\ KindOf(events[s][1], events[s][2]) \in kinds})

EndUpdate ==
  /\ UpdateReturns
  /\ updating' = FALSE
  /\ midair_collisions' =
       [v \in Ids |-> midair_collisions[v] + Count(v, {"midair"})]
  /\ static_contacts' =
       [v \in Ids |-> static_contacts[v] + Count(v, {"static", "building"})]
  /\ building_contacts' =
       [v \in Ids |-> building_contacts[v] + Count(v, {"building"})]
  /\ count' = 0
  /\ UNCHANGED <<registryVars, events, thread, contacts, met, overflowed>>

Next ==
  \/ \E b \in Bodies : LoadTile(b) \/ AddVehicle(b) \/ AddStaticTile(b)
  \/ \E e \in vehicles : RemoveVehicle(e[1], e[2])
  \/ \E e \in static_tiles : RemoveStaticTile(e[1], e[2])
  \/ BeginUpdate \/ EndUpdate
  \/ \E t \in Threads : WriteEvent(t) \/ \E a, b \in BodiesIn : ContactAdded(t, a, b)

Spec == Init /\ [][Next]_vars

-----------------------------------------------------------------------------
(* Between steps every vehicle's counters are what it has met, midair, on  *)
(* the ground and on buildings of either kind, whichever threads reported  *)
(* it and whatever used the body's index before; unless the queue has      *)
(* overflowed, when they may be too low, but never too high.               *)
ContactsAttributed ==
  ~updating => \A v \in Ids :
    LET counted == [midair |-> midair_collisions[v], static |-> static_contacts[v],
                    building |-> building_contacts[v]]
    IN /\ ~overflowed => counted = met[v]
       /\ \A k \in DOMAIN counted : counted[k] <= met[v][k]
==============================================================================
