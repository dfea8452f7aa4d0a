--------------------------- MODULE InteractiveLoop ---------------------------
(***************************************************************************)
(* run_interactive (src/main.cpp): the world ticks on schedule and nobody  *)
(* is waited for.  A vehicle that misses hold_ticks polls is frozen, thaws *)
(* with its next frame, and is despawned once it has been frozen for more  *)
(* than the grace period.  A tick thread that has fallen behind runs the   *)
(* missed ticks back to back, up to MaxLag of them.                        *)
(***************************************************************************)
EXTENDS Fleet

CONSTANTS
  HoldTicks,       \* opt.hold_ticks
  GraceTicks,      \* grace_s / dt_s
  MaxLag,          \* 100 in the code: ticks behind schedule before a resync
  MaxDue,          \* bound: schedule periods the tick thread may fall behind
  Prompt           \* vehicles that answer a reply within one period, and
                   \* whose ports nothing else reaches

ASSUME InteractiveAssumption ==
  /\ {HoldTicks, GraceTicks, MaxLag, MaxDue} \subseteq Nat
  /\ Prompt \subseteq Vehicles

VARIABLES
  due,             \* periods that have begun and whose tick has not
  frozen, hold_ticks, frozen_at_tick,     \* fields of VehicleSlot
  body_frozen,     \* World::set_frozen of the vehicle's body
  silent,          \* history: polls since a vehicle's last fresh frame
  late             \* history: a tick was not over when its period was

scheduleVars == <<due, late>>
stragglerVars == <<frozen, hold_ticks, frozen_at_tick, body_frozen, silent>>
vars == <<pc, rc, fleet, unpolled, mail, slotVars, tick, snapshot,
          scheduleVars, stragglerVars>>

Init ==
  /\ FleetInit
  /\ due = 0 /\ late = FALSE
  /\ frozen = [v \in Vehicles |-> FALSE]
  /\ hold_ticks = [v \in Vehicles |-> 0]
  /\ frozen_at_tick = [v \in Vehicles |-> 0]
  /\ body_frozen = [v \in Vehicles |-> FALSE]
  /\ silent = [v \in Vehicles |-> 0]

-----------------------------------------------------------------------------
Datagram(v) ==
  /\ \E kind \in Mail \ {"none"} :
       /\ Land(v, kind)
       /\ v \in Prompt => mail[v] # "fresh" /\ kind # "bad"
  /\ UNCHANGED <<pc, rc, fleet, unpolled, slotVars, tick, snapshot,
                 scheduleVars, stragglerVars>>

(* What a prompt vehicle does within a period of its reply. *)
Unanswering == {v \in Prompt \cap fleet :
                 connected[v] /\ ~has_pending_input[v] /\ mail[v] # "fresh"}

PromptAnswer ==
  /\ \E v \in Unanswering : Land(v, "fresh")
  /\ UNCHANGED <<pc, rc, fleet, unpolled, slotVars, tick, snapshot,
                 scheduleVars, stragglerVars>>

(* One period dt passes.  A prompt vehicle has answered by then; a tick    *)
(* thread that keeps its schedule is asleep.                               *)
Clock ==
  /\ pc # "exited" /\ due < MaxDue
  /\ Unanswering = {}
  /\ due' = due + 1
  /\ late' = (late \/ pc # "sleep" \/ due > 0)
  /\ UNCHANGED <<pc, rc, fleet, unpolled, mail, slotVars, tick, snapshot,
                 stragglerVars>>

Stop ==
  /\ pc = "head" /\ Exit(0)
  /\ UNCHANGED <<fleet, unpolled, mail, slotVars, tick, snapshot,
                 scheduleVars, stragglerVars>>

Sleep ==
  /\ pc = "head" /\ pc' = "sleep"
  /\ UNCHANGED <<rc, fleet, unpolled, mail, slotVars, tick, snapshot,
                 scheduleVars, stragglerVars>>

(* sleep_until(next_tick) returns; far behind, the schedule starts afresh. *)
WakeUp_KeepsDue ==         \* slip: next_tick is not moved
  /\ pc = "sleep" /\ due > 0
  /\ pc' = "drain"
  /\ UNCHANGED <<rc, fleet, unpolled, mail, slotVars, tick, snapshot,
                 scheduleVars, stragglerVars>>

WakeUp_NoResync ==         \* slip: the backlog is run off however long it is
  /\ pc = "sleep" /\ due > 0
  /\ due' = due - 1
  /\ pc' = "drain"
  /\ UNCHANGED <<rc, fleet, unpolled, mail, slotVars, tick, snapshot, late,
                 stragglerVars>>

WakeUp ==
  /\ pc = "sleep" /\ due > 0
  /\ due' = IF due - 1 > MaxLag THEN 0 ELSE due - 1
  /\ pc' = "drain"
  /\ UNCHANGED <<rc, fleet, unpolled, mail, slotVars, tick, snapshot, late,
                 stragglerVars>>

-----------------------------------------------------------------------------
(* The straggler fields of a default slot, and of a body just added. *)
ResetStraggler(v) ==
  /\ frozen' = [frozen EXCEPT ![v] = FALSE]
  /\ hold_ticks' = [hold_ticks EXCEPT ![v] = 0]
  /\ frozen_at_tick' = [frozen_at_tick EXCEPT ![v] = 0]
  /\ body_frozen' = [body_frozen EXCEPT ![v] = FALSE]
  /\ silent' = [silent EXCEPT ![v] = 0]

Spawn(v) ==
  SpawnSlot(v) /\ ResetStraggler(v) /\ UNCHANGED <<snapshot, scheduleVars>>

Despawn(v) ==
  DespawnSlot(v) /\ ResetStraggler(v) /\ UNCHANGED <<snapshot, scheduleVars>>

Drained ==
  /\ StartPolling
  /\ UNCHANGED <<rc, fleet, mail, slotVars, tick, snapshot, scheduleVars,
                 stragglerVars>>

(* Slips: the thaw forgets the counter, or the body. *)
Thaw_KeepsHold(v) ==
  /\ frozen' = [frozen EXCEPT ![v] = FALSE]
  /\ body_frozen' = [body_frozen EXCEPT ![v] = FALSE]
  /\ UNCHANGED hold_ticks

Thaw_ForgetsBody(v) ==
  /\ frozen' = [frozen EXCEPT ![v] = FALSE]
  /\ hold_ticks' = [hold_ticks EXCEPT ![v] = 0]
  /\ UNCHANGED body_frozen

(* The fresh branch: a frozen vehicle thaws, the hold count restarts. *)
Thaw(v) ==
  /\ frozen' = [frozen EXCEPT ![v] = FALSE]
  /\ body_frozen' = [body_frozen EXCEPT ![v] = FALSE]
  /\ hold_ticks' = [hold_ticks EXCEPT ![v] = 0]

(* The miss branch of a connected vehicle that is not frozen yet. *)
Hold(v) ==
  /\ hold_ticks' = [hold_ticks EXCEPT ![v] = @ + 1]
  /\ IF hold_ticks[v] + 1 > HoldTicks
     THEN /\ frozen' = [frozen EXCEPT ![v] = TRUE]
          /\ body_frozen' = [body_frozen EXCEPT ![v] = TRUE]
          /\ frozen_at_tick' = [frozen_at_tick EXCEPT ![v] = tick]
     ELSE UNCHANGED <<frozen, body_frozen, frozen_at_tick>>

PollFresh(v) ==
  /\ PollSlot(v) /\ has_pending_input'[v]
  /\ Thaw(v)
  /\ silent' = [silent EXCEPT ![v] = 0]
  /\ UNCHANGED <<pc, rc, fleet, tick, snapshot, scheduleVars, frozen_at_tick>>

PollMissed_EvenIfFrozen(v) ==   \* slip: a frozen vehicle is frozen again
  /\ PollSlot(v) /\ ~has_pending_input'[v]
  /\ IF connected[v]
     THEN Hold(v)
     ELSE UNCHANGED <<frozen, hold_ticks, frozen_at_tick, body_frozen>>
  /\ silent' = [silent EXCEPT ![v] = IF connected[v] THEN @ + 1 ELSE 0]
  /\ UNCHANGED <<pc, rc, fleet, tick, snapshot, scheduleVars>>

PollMissed(v) ==
  /\ PollSlot(v) /\ ~has_pending_input'[v]
  /\ IF connected[v] /\ ~frozen[v]
     THEN Hold(v)
     ELSE UNCHANGED <<frozen, hold_ticks, frozen_at_tick, body_frozen>>
  /\ silent' = [silent EXCEPT ![v] = IF connected[v] THEN @ + 1 ELSE 0]
  /\ UNCHANGED <<pc, rc, fleet, tick, snapshot, scheduleVars>>

(* Slip: the tick waits for the fleet, as the strict loop does. *)
Step_Barrier ==
  /\ pc = "poll" /\ unpolled = {} /\ tick < MaxTick
  /\ \A v \in fleet : connected[v] => has_pending_input[v]
  /\ tick' = tick + 1
  /\ pc' = "reply"
  /\ UNCHANGED <<rc, fleet, unpolled, mail, slotVars, snapshot,
                 scheduleVars, stragglerVars>>

(* step_world: every vehicle that is connected and not frozen, on a fresh  *)
(* or held input.                                                          *)
Step ==
  /\ pc = "poll" /\ unpolled = {} /\ tick < MaxTick
  /\ tick' = tick + 1
  /\ pc' = "reply"
  /\ UNCHANGED <<rc, fleet, unpolled, mail, slotVars, snapshot,
                 scheduleVars, stragglerVars>>

Reply(v) ==
  /\ ReplySlot(v)
  /\ UNCHANGED <<pc, rc, fleet, unpolled, mail, tick, snapshot,
                 scheduleVars, stragglerVars>>

ReplyOverflow(v) ==
  /\ pc = "reply" /\ v \in fleet /\ has_pending_input[v]
  /\ Exit(1)
  /\ UNCHANGED <<fleet, unpolled, mail, slotVars, tick, snapshot,
                 scheduleVars, stragglerVars>>

(* Slip: >= where the code has >. *)
GraceExpired_Early(v) == frozen[v] /\ tick - frozen_at_tick[v] >= GraceTicks

GraceExpired(v) == frozen[v] /\ tick - frozen_at_tick[v] > GraceTicks

(* The grace sweep, despawning every vehicle whose grace is over. *)
Sweep ==
  /\ pc = "reply" /\ AllReplied
  /\ fleet' = {v \in fleet : ~GraceExpired(v)}
  /\ pc' = "publish"
  /\ UNCHANGED <<rc, unpolled, mail, slotVars, tick, snapshot, scheduleVars,
                 stragglerVars>>

EndTick ==
  /\ pc = "publish"
  /\ Publish({v \in fleet : frozen[v]})
  /\ pc' = "head"
  /\ UNCHANGED <<rc, fleet, unpolled, mail, slotVars, tick, scheduleVars,
                 stragglerVars>>

TickThread ==
  \/ Sleep \/ WakeUp \/ Drained
  \/ \E v \in Vehicles : PollFresh(v) \/ PollMissed(v) \/ Reply(v)
  \/ Step \/ Sweep \/ EndTick

Next ==
  \/ TickThread \/ Clock \/ Stop
  \/ \E v \in Vehicles : Datagram(v) \/ Spawn(v) \/ Despawn(v) \/ ReplyOverflow(v)

Spec ==
  /\ Init /\ [][Next]_vars
  /\ WF_vars(TickThread) /\ WF_vars(Clock) /\ WF_vars(PromptAnswer)

-----------------------------------------------------------------------------
InteractiveTypeOK ==
  /\ FleetTypeOK
  /\ pc \in {"head", "sleep", "drain", "poll", "reply", "publish", "exited"}
  /\ rc \in {0, 1} /\ due \in 0 .. MaxDue /\ late \in BOOLEAN
  /\ frozen \in [Vehicles -> BOOLEAN]
  /\ body_frozen \in [Vehicles -> BOOLEAN]
  /\ hold_ticks \in [Vehicles -> 0 .. HoldTicks + 1]
  /\ frozen_at_tick \in [Vehicles -> Nat]
  /\ silent \in [Vehicles -> Nat]

(* The slot's flag, the body's motion type and the hold counter live apart *)
(* and agree after any history of holds, freezes, thaws and respawns: the  *)
(* body of a vehicle is held exactly while its slot says frozen, and until *)
(* then its hold counter is the number of polls missed since it answered,  *)
(* none of them left over from an earlier silence.                         *)
FrozenBodyAgrees ==
  \A v \in fleet :
    /\ body_frozen[v] <=> frozen[v]
    /\ ~frozen[v] => hold_ticks[v] = silent[v]

(* Nobody lingers: a connected vehicle is gone from the fleet before it    *)
(* has missed more than hold_ticks + grace + 1 polls in a row.             *)
NoZombie ==
  \A v \in fleet : connected[v] => silent[v] <= HoldTicks + GraceTicks + 1

(* And nobody goes early or unannounced: the grace sweep only takes a      *)
(* vehicle that has missed exactly that many polls, whatever froze, thawed *)
(* or was held before, and that GET /vehicles lists as frozen by then      *)
(* (unless there is no grace at all).                                      *)
GraceIsExact ==
  [][\A v \in fleet : pc = "reply" /\ v \notin fleet'
       => /\ silent[v] = HoldTicks + GraceTicks + 1
          /\ GraceTicks > 0 => snapshot[v] = "frozen"]_vars

(* As long as the tick thread keeps its schedule, a vehicle that answers   *)
(* each reply within a period is never frozen, whatever the others do.     *)
PromptNeverFrozen == ~late => \A v \in Prompt \cap fleet : ~frozen[v]

(* A tick thread that has fallen behind does freeze such a vehicle: the    *)
(* polls it makes up for come faster than an answer.  However far behind   *)
(* it is, these are MaxLag + 1 in a row at most: the miss count of a       *)
(* vehicle that answers in time stops there, and with a longer hold and    *)
(* grace period it is never despawned for the thread's own delay.          *)
LagBounded == \A v \in Prompt \cap fleet : silent[v] <= MaxLag + 1

(* Every frame is taken up whatever the other vehicles do: it is staged,   *)
(* or replaced by a duplicate or garbage, or its vehicle goes.             *)
FrameTakenUp ==
  \A v \in Vehicles :
    v \in fleet /\ mail[v] = "fresh" ~>
      \/ has_pending_input[v] \/ mail[v] \in {"bad", "duplicate"}
      \/ v \notin fleet
      \/ pc = "exited" \/ tick = MaxTick
==============================================================================
