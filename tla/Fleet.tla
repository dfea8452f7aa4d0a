-------------------------------- MODULE Fleet --------------------------------
(***************************************************************************)
(* What the tick thread's two loops share (src/main.cpp): the fleet, the   *)
(* vehicle slots, polling their endpoints, replying, and the spawn and     *)
(* despawn commands drained at the top of each iteration.                  *)
(*                                                                         *)
(* An endpoint is reduced to what its next take_latest would classify, and *)
(* a frame to the fact that it is fresh: module Slot, which Lockstep       *)
(* implements with the endpoint, the sequence state and the socket.        *)
(* A datagram may land between any two steps of the tick thread.  The      *)
(* loops visit the fleet in vector order; here in any order.               *)
(***************************************************************************)
EXTENDS Integers

CONSTANTS
  Vehicles,     \* vehicle slots ever in use at one time
  MaxTick,      \* bound: ticks of the world
  Garbage       \* whether datagrams of a bad size or magic arrive at all

ASSUME FleetAssumption == MaxTick \in Nat /\ Garbage \in BOOLEAN

(* The newest unread datagram of a vehicle's mailbox: none, a steppable    *)
(* frame (Ok, Gap, Reboot), a duplicate, or one of a bad size or magic.    *)
Mail == {"none", "fresh", "duplicate", "bad"}

VARIABLES
  pc,                 \* where the tick thread is in its loop
  rc,                 \* exit code once pc = "exited"
  fleet,              \* App::fleet
  unpolled,           \* vehicles the poll loop has not visited yet
  mail,               \* per vehicle: the mailbox
  connected, has_pending_input, ticks,    \* fields of VehicleSlot
  tick,               \* World::tick_index()
  snapshot            \* what publish_snapshot last published

slotVars == <<connected, has_pending_input, ticks>>

FleetInit ==
  /\ pc = "head" /\ rc = 0
  /\ fleet \in SUBSET Vehicles /\ unpolled = {}
  /\ mail = [v \in Vehicles |-> "none"]
  /\ connected = [v \in Vehicles |-> FALSE]
  /\ has_pending_input = [v \in Vehicles |-> FALSE]
  /\ ticks = [v \in Vehicles |-> 0]
  /\ tick = 0
  /\ snapshot = [v \in Vehicles |-> "absent"]

-----------------------------------------------------------------------------
(* The rx thread of v stores a datagram, over whatever was unread: a bad   *)
(* one, or a late copy of the frame taken last, can replace a fresh frame. *)
Land(v, kind) ==
  /\ pc # "exited" /\ v \in fleet
  /\ kind = "bad" => Garbage
  /\ kind = "duplicate" => connected[v]
  /\ mail' = [mail EXCEPT ![v] = kind]

Exit(code) == pc' = "exited" /\ rc' = code

(* drain_commands: a spawned vehicle starts from a default slot. *)
ResetSlot(v) ==
  /\ mail' = [mail EXCEPT ![v] = "none"]
  /\ connected' = [connected EXCEPT ![v] = FALSE]
  /\ has_pending_input' = [has_pending_input EXCEPT ![v] = FALSE]
  /\ ticks' = [ticks EXCEPT ![v] = 0]

SpawnSlot(v) ==
  /\ pc = "drain" /\ v \notin fleet
  /\ fleet' = fleet \cup {v}
  /\ ResetSlot(v)
  /\ UNCHANGED <<pc, rc, unpolled, tick>>

DespawnSlot(v) ==
  /\ pc = "drain" /\ v \in fleet
  /\ fleet' = fleet \ {v}
  /\ ResetSlot(v)
  /\ UNCHANGED <<pc, rc, unpolled, tick>>

StartPolling ==
  /\ pc = "drain"
  /\ pc' = "poll" /\ unpolled' = fleet

(* poll_endpoint: nothing is taken while the staged frame is unanswered;   *)
(* it returns has_pending_input'[v].                                       *)
PollSlot(v) ==
  /\ pc = "poll" /\ v \in unpolled
  /\ unpolled' = unpolled \ {v}
  /\ mail' = IF has_pending_input[v] THEN mail ELSE [mail EXCEPT ![v] = "none"]
  /\ LET fresh == has_pending_input[v] \/ mail[v] = "fresh"
     IN /\ connected' = [connected EXCEPT ![v] = @ \/ fresh]
        /\ has_pending_input' = [has_pending_input EXCEPT ![v] = fresh]
  /\ UNCHANGED ticks

(* reply_one: only a vehicle whose frame was stepped gets a reply. *)
ReplySlot(v) ==
  /\ pc = "reply" /\ v \in fleet /\ has_pending_input[v]
  /\ has_pending_input' = [has_pending_input EXCEPT ![v] = FALSE]
  /\ ticks' = [ticks EXCEPT ![v] = @ + 1]
  /\ UNCHANGED connected

(* publish_snapshot: the fleet, with the frozen vehicles flagged. *)
Publish(frozen_ones) ==
  snapshot' = [v \in Vehicles |-> CASE v \notin fleet           -> "absent"
                                   [] v \in fleet \cap frozen_ones -> "frozen"
                                   [] OTHER                    -> "listed"]

AllReplied == \A v \in fleet : ~has_pending_input[v]

-----------------------------------------------------------------------------
(* The slot of one vehicle, as module Slot has it. *)
SlotOf(v) == INSTANCE Slot WITH
  mail <- mail[v], connected <- connected[v],
  has_pending_input <- has_pending_input[v]

FleetTypeOK ==
  /\ fleet \subseteq Vehicles /\ unpolled \subseteq fleet
  /\ mail \in [Vehicles -> Mail]
  /\ connected \in [Vehicles -> BOOLEAN]
  /\ has_pending_input \in [Vehicles -> BOOLEAN]
  /\ ticks \in [Vehicles -> Nat]
  /\ tick \in Nat
  /\ snapshot \in [Vehicles -> {"absent", "listed", "frozen"}]
==============================================================================
