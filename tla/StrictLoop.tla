----------------------------- MODULE StrictLoop -----------------------------
(***************************************************************************)
(* run_strict (src/main.cpp): the lockstep barrier over the whole fleet.   *)
(* The world advances when every connected vehicle has a fresh frame       *)
(* staged; a vehicle that has never sent one does not block the others.    *)
(* If somebody waits while the barrier has been incomplete for longer than *)
(* strict_timeout_s, the run aborts with exit code 3.                      *)
(***************************************************************************)
EXTENDS Fleet

CONSTANT StrictTimeout    \* strict_timeout_s in clock units; 0: no timeout

ASSUME StrictAssumption == StrictTimeout \in Nat

VARIABLES
  barrier_was_complete,
  stalled,       \* clock::now() - barrier_stalled_since, up to the timeout
  joined,        \* history: the tick at which a vehicle's first frame came
  silent         \* history: time since a vehicle's last reply, or its spawn

history == <<joined, silent>>

vars == <<pc, rc, fleet, unpolled, mail, slotVars, tick, snapshot,
          barrier_was_complete, stalled, history>>

(* A time that runs is only told apart from others up to the timeout. *)
Times == 0 .. StrictTimeout + 1
Later(time) == IF time > StrictTimeout THEN time ELSE time + 1

Init ==
  /\ FleetInit
  /\ barrier_was_complete = TRUE /\ stalled = 0
  /\ joined = [v \in Vehicles |-> 0] /\ silent = [v \in Vehicles |-> 0]

-----------------------------------------------------------------------------
(* The environment: datagrams, and the clock. *)
Datagram(v) ==
  /\ \E kind \in Mail \ {"none"} : Land(v, kind)
  /\ UNCHANGED <<pc, rc, fleet, unpolled, slotVars, tick, snapshot,
                 barrier_was_complete, stalled, history>>

Clock ==
  /\ pc # "exited"
  /\ stalled' = Later(stalled)
  /\ silent' = [v \in Vehicles |-> IF v \in fleet THEN Later(silent[v]) ELSE 0]
  /\ UNCHANGED <<pc, rc, fleet, unpolled, mail, slotVars, tick, snapshot,
                 barrier_was_complete, joined>>

-----------------------------------------------------------------------------
(* while (!g_stop), then drain_commands: spawns and despawns in any order  *)
Stop ==
  /\ pc = "head" /\ Exit(0)
  /\ UNCHANGED <<fleet, unpolled, mail, slotVars, tick, snapshot,
                 barrier_was_complete, stalled, history>>

Enter ==
  /\ pc = "head" /\ pc' = "drain"
  /\ UNCHANGED <<rc, fleet, unpolled, mail, slotVars, tick, snapshot,
                 barrier_was_complete, stalled, history>>

Spawn(v) ==
  /\ SpawnSlot(v)
  /\ UNCHANGED <<snapshot, barrier_was_complete, stalled, history>>

Despawn(v) ==
  /\ DespawnSlot(v)
  /\ silent' = [silent EXCEPT ![v] = 0]
  /\ UNCHANGED <<snapshot, barrier_was_complete, stalled, joined>>

Drained ==
  /\ StartPolling
  /\ UNCHANGED <<rc, fleet, mail, slotVars, tick, snapshot,
                 barrier_was_complete, stalled, history>>

Poll(v) ==
  /\ PollSlot(v)
  /\ joined' = IF connected'[v] /\ ~connected[v]
               THEN [joined EXCEPT ![v] = tick] ELSE joined
  /\ UNCHANGED <<pc, rc, fleet, tick, snapshot, barrier_was_complete,
                 stalled, silent>>

AllFresh == \A v \in fleet : connected[v] => has_pending_input[v]
AnyFresh == \E v \in fleet : has_pending_input[v]

(* Slip: the barrier waits for nobody. *)
BarrierReady_AnyFrame == AnyFresh

BarrierReady == AllFresh /\ AnyFresh

Polled == pc = "poll" /\ unpolled = {}

StartStall ==
  /\ Polled /\ ~BarrierReady /\ barrier_was_complete
  /\ barrier_was_complete' = FALSE /\ stalled' = 0
  /\ pc' = "head"
  /\ UNCHANGED <<rc, fleet, unpolled, mail, slotVars, tick, snapshot, history>>

StallAborts == StrictTimeout > 0 /\ AnyFresh /\ stalled > StrictTimeout

KeepStalling_RestartsTimer ==   \* slip: every incomplete poll is a new stall
  /\ Polled /\ ~BarrierReady /\ ~barrier_was_complete
  /\ ~StallAborts
  /\ stalled' = 0
  /\ pc' = "head"
  /\ UNCHANGED <<rc, fleet, unpolled, mail, slotVars, tick, snapshot,
                 barrier_was_complete, history>>

KeepStalling ==
  /\ Polled /\ ~BarrierReady /\ ~barrier_was_complete
  /\ ~StallAborts
  /\ pc' = "head"
  /\ UNCHANGED <<rc, fleet, unpolled, mail, slotVars, tick, snapshot,
                 barrier_was_complete, stalled, history>>

StrictAbort ==
  /\ Polled /\ ~BarrierReady /\ ~barrier_was_complete
  /\ StallAborts /\ Exit(3)
  /\ UNCHANGED <<fleet, unpolled, mail, slotVars, tick, snapshot,
                 barrier_was_complete, stalled, history>>

Step_KeepsTimer ==         \* slip: a complete barrier does not end the stall
  /\ Polled /\ BarrierReady /\ tick < MaxTick
  /\ tick' = tick + 1
  /\ pc' = "reply"
  /\ UNCHANGED <<rc, fleet, unpolled, mail, slotVars, snapshot,
                 barrier_was_complete, stalled, history>>

(* step_world, with every staged frame. *)
Step ==
  /\ Polled /\ BarrierReady /\ tick < MaxTick
  /\ barrier_was_complete' = TRUE
  /\ tick' = tick + 1
  /\ pc' = "reply"
  /\ UNCHANGED <<rc, fleet, unpolled, mail, slotVars, snapshot, stalled,
                 history>>

Reply(v) ==
  /\ ReplySlot(v)
  /\ silent' = [silent EXCEPT ![v] = 0]
  /\ UNCHANGED <<pc, rc, fleet, unpolled, mail, tick, snapshot,
                 barrier_was_complete, stalled, joined>>

ReplyOverflow(v) ==        \* build_state_json returned 0
  /\ pc = "reply" /\ v \in fleet /\ has_pending_input[v]
  /\ Exit(1)
  /\ UNCHANGED <<fleet, unpolled, mail, slotVars, tick, snapshot,
                 barrier_was_complete, stalled, history>>

EndTick ==
  /\ pc = "reply" /\ AllReplied
  /\ Publish({})
  /\ pc' = "head"
  /\ UNCHANGED <<rc, fleet, unpolled, mail, slotVars, tick,
                 barrier_was_complete, stalled, history>>

TickThread ==
  \/ Enter \/ Drained
  \/ \E v \in Vehicles : Poll(v) \/ Reply(v)
  \/ StartStall \/ KeepStalling \/ StrictAbort \/ Step \/ EndTick

Next ==
  \/ TickThread \/ Clock \/ Stop
  \/ \E v \in Vehicles : Datagram(v) \/ Spawn(v) \/ Despawn(v) \/ ReplyOverflow(v)

(* The tick thread runs and time passes. *)
Spec ==
  /\ Init /\ [][Next]_vars
  /\ WF_vars(TickThread) /\ WF_vars(Clock)

-----------------------------------------------------------------------------
(* Types; only vehicles of the fleet wait to be polled.                    *)
StrictTypeOK ==
  /\ FleetTypeOK
  /\ pc \in {"head", "drain", "poll", "reply", "exited"} /\ rc \in {0, 1, 3}
  /\ barrier_was_complete \in BOOLEAN /\ stalled \in Times
  /\ joined \in [Vehicles -> Nat] /\ silent \in [Vehicles -> Times]

(* The fleet is in lockstep with the world: a connected vehicle has had    *)
(* exactly one frame stepped and answered for every tick since its first   *)
(* (in the reply phase the current one may still be owed).  Determinism    *)
(* rests on it: no vehicle is ever stepped on a held input.                *)
Owed(v) == IF pc = "reply" /\ has_pending_input[v] THEN 1 ELSE 0

LockstepCount ==
  pc # "exited" =>
    \A v \in fleet : connected[v] => ticks[v] + Owed(v) = tick - joined[v]

(* An abort is for stragglers: some vehicle waits, the report names one at *)
(* least, and each that it names has sent nothing to step for longer than  *)
(* the timeout, whenever the timer was started and whoever joined or left  *)
(* since.  (How long the other has waited is not said: the timer may have  *)
(* run while nobody did.)                                                  *)
Named == {v \in fleet : connected[v] /\ ~has_pending_input[v]}

AbortNamesAStraggler ==
  rc = 3 => /\ \E v \in fleet : has_pending_input[v]
            /\ Named # {} /\ \A v \in Named : silent[v] > StrictTimeout

(* A staged frame never waits for ever: it is answered, or the run ends.   *)
StagedFrameResolved ==
  \A v \in Vehicles :
    has_pending_input[v] ~> \/ ~has_pending_input[v]
                            \/ pc = "exited" \/ tick = MaxTick
==============================================================================
