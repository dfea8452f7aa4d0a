----------------------- MODULE InteractiveLoop_proofs -----------------------
(***************************************************************************)
(* Theorems of InteractiveLoop, for any set of vehicles and any values of  *)
(* hold_ticks, the grace period and the bounds.                            *)
(*                                                                         *)
(* NoZombie and GraceIsExact speak of a history (silent) that the code     *)
(* does not keep; the inductive invariant ties it to what the code keeps:  *)
(* hold_ticks until the freeze, then frozen_at_tick against the tick; and  *)
(* what is published of a frozen vehicle to how long it has been frozen.   *)
(***************************************************************************)
EXTENDS InteractiveLoop, TLAPS

(* v's miss of the current tick has been counted, the tick itself has not. *)
Ahead(v) == IF pc = "poll" /\ v \notin unpolled THEN 1 ELSE 0

(* Ticks the published snapshot lags behind the world. *)
Unpublished == IF pc \in {"reply", "publish", "exited"} THEN 1 ELSE 0

Accounted(v) ==
  /\ ~connected[v] => silent[v] = 0 /\ hold_ticks[v] = 0 /\ ~frozen[v]
  /\ ~frozen[v] => hold_ticks[v] = silent[v] /\ silent[v] <= HoldTicks
  /\ frozen[v] => /\ frozen_at_tick[v] <= tick
                  /\ silent[v] = HoldTicks + (tick - frozen_at_tick[v]) + Ahead(v)
                  /\ tick - frozen_at_tick[v] <= GraceTicks + 1
                  /\ pc \notin {"reply", "exited"} =>
                       tick - frozen_at_tick[v] <= GraceTicks
  /\ body_frozen[v] <=> frozen[v]
  /\ frozen[v] /\ tick - frozen_at_tick[v] > Unpublished => snapshot[v] = "frozen"

IInv ==
  /\ InteractiveTypeOK
  /\ \A v \in fleet : Accounted(v)
  /\ pc # "poll" => unpolled = {}

LEMMA InitIInv == Init => IInv
<1>1. Init => late \in BOOLEAN
  BY Zenon DEF Init
<1>2. QED
  BY <1>1, FleetAssumption, InteractiveAssumption
  DEF Init, FleetInit, IInv, InteractiveTypeOK, FleetTypeOK, Mail, Accounted, Ahead,
      Unpublished

USE FleetAssumption, InteractiveAssumption

LEMMA NextIInv == IInv /\ [Next]_vars => IInv'
<1> SUFFICES ASSUME IInv, [Next]_vars PROVE IInv'
  OBVIOUS
<1> USE DEF IInv, InteractiveTypeOK, FleetTypeOK, Accounted, Ahead, Mail,
            Unpublished, scheduleVars
<1>1. CASE Clock
  BY <1>1 DEF Clock, slotVars, stragglerVars
<1>2. CASE Stop
  BY <1>2 DEF Stop, Exit, slotVars, stragglerVars
<1>3. CASE Sleep
  BY <1>3 DEF Sleep, slotVars, stragglerVars
<1>4. CASE WakeUp
  BY <1>4 DEF WakeUp, slotVars, stragglerVars
<1>5. CASE Drained
  BY <1>5 DEF Drained, StartPolling, slotVars, stragglerVars
<1>6. ASSUME NEW v \in Vehicles, PollFresh(v) PROVE IInv'
  BY <1>6 DEF PollFresh, PollSlot, Thaw
<1>7. ASSUME NEW v \in Vehicles, PollMissed(v) PROVE IInv'
  <2>1. /\ pc = "poll" /\ v \in fleet /\ v \in unpolled
        /\ unpolled' = unpolled \ {v}
        /\ ~has_pending_input[v] /\ connected' = connected
        /\ silent' = [silent EXCEPT ![v] = IF connected[v] THEN @ + 1 ELSE 0]
        /\ UNCHANGED <<pc, rc, fleet, tick, snapshot, due, late>>
    BY <1>7 DEF PollMissed, PollSlot
  <2>2. CASE connected[v] /\ ~frozen[v]
    <3>1. /\ hold_ticks' = [hold_ticks EXCEPT ![v] = @ + 1]
          /\ \/ /\ hold_ticks[v] + 1 > HoldTicks
                /\ frozen' = [frozen EXCEPT ![v] = TRUE]
                /\ body_frozen' = [body_frozen EXCEPT ![v] = TRUE]
                /\ frozen_at_tick' = [frozen_at_tick EXCEPT ![v] = tick]
             \/ /\ hold_ticks[v] + 1 <= HoldTicks
                /\ UNCHANGED <<frozen, body_frozen, frozen_at_tick>>
      BY <1>7, <2>1, <2>2 DEF PollMissed, Hold
    <3>2. InteractiveTypeOK'
      <4>1. FleetTypeOK' /\ pc' = "poll" /\ rc' \in {0, 1} /\ due' \in 0 .. MaxDue
        BY <1>7, <2>1 DEF PollMissed, PollSlot
      <4>2. hold_ticks[v] + 1 \in 0 .. HoldTicks + 1
        BY <2>1, <2>2
      <4>3. frozen' \in [Vehicles -> BOOLEAN] /\ body_frozen' \in [Vehicles -> BOOLEAN]
        BY <3>1, Zenon
      <4>4. frozen_at_tick' \in [Vehicles -> Nat]
        BY <3>1
      <4>5. hold_ticks' \in [Vehicles -> 0 .. HoldTicks + 1]
        BY <3>1, <4>2
      <4>6. silent' \in [Vehicles -> Nat]
        BY <2>1
      <4>7. late' \in BOOLEAN
        BY <2>1, Zenon
      <4>8. QED
        BY <4>1, <4>3, <4>4, <4>5, <4>6, <4>7
    <3>3. Accounted(v)'
      <4>1. /\ hold_ticks[v] = silent[v] /\ silent[v] \in 0 .. HoldTicks
            /\ ~body_frozen[v]
        BY <2>1, <2>2
      <4>2. /\ hold_ticks'[v] = hold_ticks[v] + 1
            /\ silent'[v] = silent[v] + 1
            /\ connected'[v] /\ pc' = "poll" /\ Ahead(v)' = 1
        BY <2>1, <2>2, <3>1
      <4>3. CASE hold_ticks[v] + 1 > HoldTicks
        <5>1. frozen'[v] /\ body_frozen'[v] /\ frozen_at_tick'[v] = tick
          BY <3>1, <4>3, <4>1, <2>1
        <5>2. QED
          BY ONLY <2>1, <4>1, <4>2, <4>3, <5>1, InteractiveTypeOK,
                  InteractiveAssumption
             DEF Accounted, InteractiveTypeOK, FleetTypeOK
      <4>4. CASE hold_ticks[v] + 1 <= HoldTicks
        <5>1. ~frozen'[v] /\ ~body_frozen'[v]
          BY <3>1, <4>4, <4>1, <2>2
        <5>2. QED
          BY <4>1, <4>2, <4>4, <5>1
      <4>5. QED
        BY <4>1, <4>3, <4>4
    <3>4. ASSUME NEW w \in fleet, w # v PROVE Accounted(w)'
      BY <2>1, <3>1, <3>4
    <3>5. QED
      BY <2>1, <3>2, <3>3, <3>4
  <2>3. CASE ~(connected[v] /\ ~frozen[v])
    BY <1>7, <2>1, <2>3 DEF PollMissed, PollSlot
  <2>4. QED
    BY <2>2, <2>3
<1>8. ASSUME NEW v \in Vehicles, Reply(v) PROVE IInv'
  BY <1>8 DEF Reply, ReplySlot, stragglerVars
<1>9. CASE Step
  BY <1>9 DEF Step, slotVars, stragglerVars
<1>10. CASE Sweep
  BY <1>10 DEF Sweep, GraceExpired, slotVars, stragglerVars
<1>11. CASE EndTick
  BY <1>11 DEF EndTick, Publish, slotVars, stragglerVars
<1>12. ASSUME NEW v \in Vehicles, Datagram(v) PROVE IInv'
  BY <1>12 DEF Datagram, Land, slotVars, stragglerVars
<1>13. ASSUME NEW v \in Vehicles, Spawn(v) PROVE IInv'
  BY <1>13 DEF Spawn, SpawnSlot, ResetSlot, ResetStraggler
<1>14. ASSUME NEW v \in Vehicles, Despawn(v) PROVE IInv'
  BY <1>14 DEF Despawn, DespawnSlot, ResetSlot, ResetStraggler
<1>15. ASSUME NEW v \in Vehicles, ReplyOverflow(v) PROVE IInv'
  BY <1>15 DEF ReplyOverflow, Exit, slotVars, stragglerVars
<1>16. CASE UNCHANGED vars
  BY <1>16 DEF vars, slotVars, stragglerVars
<1>17. QED
  BY <1>1, <1>2, <1>3, <1>4, <1>5, <1>6, <1>7, <1>8, <1>9, <1>10, <1>11,
     <1>12, <1>13, <1>14, <1>15, <1>16 DEF Next, TickThread

LEMMA IInvHolds == Spec => []IInv
  BY InitIInv, NextIInv, PTL DEF Spec

StagedConnected == \A v \in fleet : has_pending_input[v] => connected[v]

LEMMA StagedIsConnected == Spec => []StagedConnected
<1>1. Init => StagedConnected
  BY DEF Init, FleetInit, StagedConnected
<1>2. IInv /\ StagedConnected /\ [Next]_vars => StagedConnected'
  <2> SUFFICES ASSUME IInv, StagedConnected, [Next]_vars PROVE StagedConnected'
    OBVIOUS
  <2> USE DEF StagedConnected, IInv, InteractiveTypeOK, FleetTypeOK
  <2>1. ASSUME NEW w \in Vehicles, PollSlot(w), fleet' = fleet
        PROVE  StagedConnected'
    <3> DEFINE fresh == has_pending_input[w] \/ mail[w] = "fresh"
    <3>1. /\ connected' = [connected EXCEPT ![w] = connected[w] \/ fresh]
          /\ has_pending_input' = [has_pending_input EXCEPT ![w] = fresh]
      BY <2>1 DEF PollSlot
    <3>2. CASE fresh
      BY <2>1, <3>1, <3>2
    <3>3. CASE ~fresh
      BY <2>1, <3>1, <3>3
    <3>4. QED
      BY <3>2, <3>3
  <2>2. ASSUME NEW w \in Vehicles, Reply(w) PROVE StagedConnected'
    BY <2>2 DEF Reply, ReplySlot
  <2>3. ASSUME NEW w \in Vehicles, Spawn(w) \/ Despawn(w)
        PROVE  StagedConnected'
    BY <2>3 DEF Spawn, SpawnSlot, Despawn, DespawnSlot, ResetSlot
  <2>4. CASE \/ Clock \/ Stop \/ Sleep \/ WakeUp \/ Drained
             \/ Step \/ Sweep \/ EndTick
             \/ \E w \in Vehicles : Datagram(w) \/ ReplyOverflow(w)
             \/ UNCHANGED vars
    BY <2>4 DEF Clock, Stop, Sleep, WakeUp, Drained, StartPolling, Step, Sweep,
                EndTick, Datagram, ReplyOverflow, slotVars, vars
  <2>5. QED
    BY <2>1, <2>2, <2>3, <2>4 DEF Next, TickThread, PollFresh, PollMissed
<1>3. QED
  BY <1>1, <1>2, IInvHolds, PTL DEF Spec

(* Type correctness: among others hold_ticks stops at hold_ticks + 1.      *)
THEOREM InteractiveTypes == Spec => []InteractiveTypeOK
  BY IInvHolds, PTL DEF IInv

(* The body of a vehicle is held by the physics exactly while its slot is  *)
(* frozen (step_world skips the one, Jolt the other), and until then its   *)
(* hold counter is the number of polls missed since it last answered.      *)
THEOREM FrozenBody == Spec => []FrozenBodyAgrees
<1>1. IInv => FrozenBodyAgrees
  BY DEF IInv, Accounted, FrozenBodyAgrees
<1>2. QED
  BY <1>1, IInvHolds, PTL

(* No connected vehicle outstays hold_ticks plus the grace period.         *)
THEOREM NobodyLingers == Spec => []NoZombie
<1>1. IInv => NoZombie
  BY DEF IInv, InteractiveTypeOK, FleetTypeOK, Accounted, Ahead, NoZombie
<1>2. QED
  BY <1>1, IInvHolds, PTL

(* The grace sweep never takes a vehicle early or unannounced: it has      *)
(* missed exactly hold_ticks + grace + 1 polls and is listed as frozen,    *)
(* whatever happened to it before.                                         *)
THEOREM GraceExact == Spec => GraceIsExact
<1>1. IInv /\ [Next]_vars =>
        [\A v \in fleet : pc = "reply" /\ v \notin fleet'
           => /\ silent[v] = HoldTicks + GraceTicks + 1
              /\ GraceTicks > 0 => snapshot[v] = "frozen"]_vars
  <2> SUFFICES ASSUME IInv, [Next]_vars, NEW v \in fleet,
                      pc = "reply", v \notin fleet'
               PROVE  /\ silent[v] = HoldTicks + GraceTicks + 1
                      /\ GraceTicks > 0 => snapshot[v] = "frozen"
    OBVIOUS
  <2>1. Sweep
    BY DEF Next, TickThread, Clock, Stop, Sleep, WakeUp, Drained, StartPolling,
           PollFresh, PollMissed, PollSlot, Reply, Step, EndTick, Datagram,
           Spawn, SpawnSlot, Despawn, DespawnSlot, ReplyOverflow, vars
  <2>2. frozen[v] /\ tick - frozen_at_tick[v] > GraceTicks
    BY <2>1 DEF Sweep, GraceExpired
  <2>3. QED
    BY <2>2 DEF IInv, InteractiveTypeOK, FleetTypeOK, Accounted, Ahead,
                Unpublished
<1>2. QED
  BY <1>1, IInvHolds, PTL DEF Spec, GraceIsExact

(* While the tick thread keeps its schedule a period begins only while it  *)
(* sleeps, and by then every vehicle that answers within one has a frame   *)
(* in its mailbox, which it keeps until the poll reads it.                 *)
Ready(v) == connected[v] => has_pending_input[v] \/ mail[v] = "fresh"

InTime ==
  ~late =>
    /\ due \in {0, 1} /\ (due = 1 => pc = "sleep")
    /\ \A v \in Prompt \cap fleet :
         /\ ~frozen[v]
         /\ due = 1 \/ pc = "drain" \/ (pc = "poll" /\ v \in unpolled) => Ready(v)

LEMMA InitInTime == Init => InTime
  BY DEF Init, FleetInit, InTime

LEMMA NextInTime == ASSUME IInv, InTime, [Next]_vars PROVE InTime'
<1> SUFFICES ASSUME ~late' PROVE InTime'
  BY DEF InTime
<1> USE DEF IInv, InteractiveTypeOK, FleetTypeOK, InTime, Ready, Mail, scheduleVars
<1>1. ~late
  BY DEF Next, TickThread, Clock, Stop, Sleep, WakeUp, Drained, PollFresh, PollMissed,
         Reply, Step, Sweep, EndTick, Datagram, Spawn, Despawn, ReplyOverflow, vars
<1>2. CASE Clock
  <2>1. /\ pc = "sleep" /\ due = 0 /\ due' = 1 /\ pc' = pc
        /\ UNCHANGED <<fleet, mail, connected, has_pending_input, frozen>>
    <3>1. pc = "sleep" /\ ~(due > 0)
      BY <1>2, Zenon DEF Clock
    <3> QED
      BY <1>2, <3>1 DEF Clock, slotVars, stragglerVars
  <2>2. \A v \in Prompt \cap fleet : Ready(v)
    BY <1>2 DEF Clock, Unanswering
  <2> QED
    BY <1>1, <2>1, <2>2
<1>3. CASE WakeUp
  <2>1. /\ pc = "sleep" /\ pc' = "drain" /\ due = 1 /\ due' = 0
        /\ UNCHANGED <<fleet, mail, connected, has_pending_input, frozen>>
    BY <1>1, <1>3 DEF WakeUp, slotVars, stragglerVars
  <2> QED
    BY <1>1, <2>1
<1>4. CASE Stop \/ Sleep \/ Step \/ Sweep \/ EndTick \/ \E v \in Vehicles : ReplyOverflow(v)
  <2>1. /\ fleet' \subseteq fleet /\ pc \notin {"sleep", "drain"}
        /\ pc' \notin {"drain", "poll"} /\ due' = due
        /\ UNCHANGED <<mail, connected, has_pending_input, frozen>>
    BY <1>4 DEF Stop, Sleep, Step, Sweep, EndTick, ReplyOverflow, Exit, slotVars, stragglerVars
  <2> QED
    BY <1>1, <2>1
<1>5. CASE Drained
  <2>1. /\ pc = "drain" /\ pc' = "poll" /\ unpolled' = fleet
        /\ UNCHANGED <<due, fleet, mail, connected, has_pending_input, frozen>>
    BY <1>5 DEF Drained, StartPolling, slotVars, stragglerVars
  <2> QED
    BY <1>1, <2>1
<1>6. ASSUME NEW v \in Vehicles, PollFresh(v) \/ PollMissed(v) PROVE InTime'
  <2> DEFINE fresh == has_pending_input[v] \/ mail[v] = "fresh"
  <2>1. /\ pc = "poll" /\ v \in unpolled /\ unpolled' = unpolled \ {v}
        /\ mail' = IF has_pending_input[v] THEN mail ELSE [mail EXCEPT ![v] = "none"]
        /\ connected' = [connected EXCEPT ![v] = @ \/ fresh]
        /\ has_pending_input' = [has_pending_input EXCEPT ![v] = fresh]
        /\ UNCHANGED <<pc, fleet, due>>
    BY <1>6 DEF PollFresh, PollMissed, PollSlot
  <2>2. frozen' = frozen \/ frozen' = [frozen EXCEPT ![v] = FALSE]
        \/ (connected[v] /\ ~fresh /\ frozen' = [frozen EXCEPT ![v] = TRUE])
    <3>1. CASE PollFresh(v)
      BY <3>1 DEF PollFresh, Thaw
    <3>2. CASE PollMissed(v)
      <4>1. ~has_pending_input'[v] /\ has_pending_input'[v] = fresh
        BY <2>1, <3>2 DEF PollMissed
      <4> QED
        BY <3>2, <4>1, Zenon DEF PollMissed, Hold
    <3> QED
      BY <1>6, <3>1, <3>2
  <2>3. \A w \in Prompt \cap fleet : ~frozen'[w]
    BY <1>1, <2>1, <2>2
  <2>4. \A w \in Prompt \cap fleet : w \in unpolled' =>
          (connected'[w] => has_pending_input'[w] \/ mail'[w] = "fresh")
    <3> TAKE w \in Prompt \cap fleet
    <3> HAVE w \in unpolled'
    <3>1. w # v /\ w \in unpolled /\ w \in Vehicles
      BY <2>1
    <3>2. connected'[w] = connected[w] /\ has_pending_input'[w] = has_pending_input[w]
          /\ mail'[w] = mail[w]
      BY <2>1, <3>1
    <3> QED
      BY <1>1, <2>1, <3>1, <3>2
  <2> QED
    BY <1>1, <2>1, <2>3, <2>4
<1>7. ASSUME NEW v \in Vehicles, Reply(v) PROVE InTime'
  <2>1. /\ pc = "reply" /\ UNCHANGED <<pc, fleet, due, frozen>>
    BY <1>7 DEF Reply, ReplySlot, stragglerVars
  <2> QED
    BY <1>1, <2>1
<1>8. ASSUME NEW v \in Vehicles, Datagram(v) PROVE InTime'
  <2>1. /\ UNCHANGED <<pc, fleet, due, unpolled, connected, has_pending_input, frozen>>
        /\ \A w \in Prompt : mail[w] = "fresh" => mail'[w] = "fresh"
    BY <1>8 DEF Datagram, Land, slotVars, stragglerVars
  <2> QED
    BY <1>1, <2>1
<1>9. ASSUME NEW v \in Vehicles, Spawn(v) \/ Despawn(v) PROVE InTime'
  <2>1. /\ pc = "drain" /\ UNCHANGED <<pc, due>>
        /\ fleet' \subseteq fleet \cup {v}
        /\ connected' = [connected EXCEPT ![v] = FALSE]
        /\ has_pending_input' = [has_pending_input EXCEPT ![v] = FALSE]
        /\ mail' = [mail EXCEPT ![v] = "none"]
        /\ frozen' = [frozen EXCEPT ![v] = FALSE]
    BY <1>9 DEF Spawn, SpawnSlot, Despawn, DespawnSlot, ResetSlot, ResetStraggler
  <2> QED
    BY <1>1, <2>1
<1>10. CASE UNCHANGED vars
  BY <1>1, <1>10 DEF vars, slotVars, stragglerVars
<1> QED
  BY <1>2, <1>3, <1>4, <1>5, <1>6, <1>7, <1>8, <1>9, <1>10 DEF Next, TickThread

(* A tick thread that keeps its schedule never freezes a vehicle that      *)
(* answers each reply within a period: whatever the others do or send, for *)
(* any hold_ticks, and through despawns and spawns.                        *)
THEOREM PromptIsNeverFrozen == Spec => []PromptNeverFrozen
<1>1. InTime => PromptNeverFrozen
  BY DEF InTime, PromptNeverFrozen
<1> QED
  BY <1>1, InitInTime, NextInTime, IInvHolds, PTL DEF Spec

(* Polls still to come before the next period begins: the one under way,   *)
(* and those of the periods to be made up for, or the single one after a   *)
(* resync.  A vehicle that owes an answer can miss no other.               *)
Left(v) ==
  (IF pc = "drain" \/ (pc = "poll" /\ v \in unpolled) THEN 1 ELSE 0)
  + (IF due > MaxLag + 1 THEN 1 ELSE due)

Lag(v) ==
  /\ has_pending_input[v] \/ ~connected[v] => silent[v] = 0
  /\ silent[v] <= MaxLag + 1
  /\ connected[v] /\ ~has_pending_input[v] /\ mail[v] # "fresh" =>
       silent[v] + Left(v) <= MaxLag + 1

LagInv == \A v \in Prompt \cap fleet : Lag(v)

LEMMA InitLag == Init => LagInv
<1> SUFFICES ASSUME Init, NEW v \in Prompt PROVE Lag(v)
  BY DEF LagInv
<1>1. v \in Vehicles /\ MaxLag \in Nat
  BY DEF InteractiveAssumption
<1>2. silent[v] = 0 /\ ~connected[v]
  BY <1>1 DEF Init, FleetInit
<1> QED
  BY <1>1, <1>2 DEF Lag

LEMMA NextLag == ASSUME IInv, LagInv, [Next]_vars PROVE LagInv'
<1> SUFFICES ASSUME NEW u \in Prompt, u \in fleet' PROVE Lag(u)'
  BY DEF LagInv
<1> USE DEF IInv, InteractiveTypeOK, FleetTypeOK, LagInv, Lag, Left, Mail, scheduleVars
<1>0. u \in Vehicles
  BY InteractiveAssumption
<1>1. CASE Clock
  <2>1. /\ u \in fleet /\ ~(connected[u] /\ ~has_pending_input[u] /\ mail[u] # "fresh")
        /\ UNCHANGED <<mail, connected, has_pending_input, silent>>
    BY <1>1 DEF Clock, Unanswering, slotVars, stragglerVars
  <2> QED
    BY <1>0, <2>1
<1>2. CASE WakeUp
  <2>1. /\ pc = "sleep" /\ pc' = "drain" /\ due > 0
        /\ due' = IF due - 1 > MaxLag THEN 0 ELSE due - 1
        /\ UNCHANGED <<fleet, mail, connected, has_pending_input, silent>>
    BY <1>2 DEF WakeUp, slotVars, stragglerVars
  <2>2. Left(u)' = Left(u)
    BY <2>1
  <2> QED
    BY <1>0, <2>1, <2>2
<1>3. CASE Stop \/ Sleep \/ Step \/ Sweep \/ EndTick \/ \E v \in Vehicles : ReplyOverflow(v)
  <2>1. /\ u \in fleet /\ pc \notin {"sleep", "drain"} /\ (pc = "poll" => unpolled = {})
        /\ pc' \notin {"drain", "poll"} /\ due' = due
        /\ UNCHANGED <<mail, connected, has_pending_input, silent>>
    BY <1>3 DEF Stop, Sleep, Step, Sweep, EndTick, ReplyOverflow, Exit, slotVars, stragglerVars
  <2>2. Left(u)' = Left(u)
    BY <2>1
  <2> QED
    BY <1>0, <2>1, <2>2
<1>4. CASE Drained
  <2>1. /\ pc = "drain" /\ pc' = "poll" /\ unpolled' = fleet
        /\ UNCHANGED <<due, fleet, mail, connected, has_pending_input, silent>>
    BY <1>4 DEF Drained, StartPolling, slotVars, stragglerVars
  <2> QED
    BY <1>0, <2>1
<1>5. ASSUME NEW v \in Vehicles, PollFresh(v) \/ PollMissed(v) PROVE Lag(u)'
  <2> DEFINE fresh == has_pending_input[v] \/ mail[v] = "fresh"
  <2>1. /\ pc = "poll" /\ v \in unpolled /\ unpolled' = unpolled \ {v}
        /\ mail' = IF has_pending_input[v] THEN mail ELSE [mail EXCEPT ![v] = "none"]
        /\ connected' = [connected EXCEPT ![v] = @ \/ fresh]
        /\ has_pending_input' = [has_pending_input EXCEPT ![v] = fresh]
        /\ UNCHANGED <<pc, fleet, due>>
    BY <1>5 DEF PollFresh, PollMissed, PollSlot
  <2>2. CASE u # v
    <3>1. silent'[u] = silent[u]
      BY <1>0, <1>5, <2>2 DEF PollFresh, PollMissed
    <3>2. /\ connected'[u] = connected[u] /\ mail'[u] = mail[u]
          /\ has_pending_input'[u] = has_pending_input[u] /\ Left(u)' = Left(u)
      BY <1>0, <2>1, <2>2
    <3> QED
      BY <1>0, <2>1, <3>1, <3>2
  <2>3. CASE u = v /\ PollFresh(v)
    <3>1. has_pending_input'[v] /\ silent'[v] = 0
      BY <2>3 DEF PollFresh
    <3> QED
      BY <2>3, <3>1, InteractiveAssumption
  <2>4. CASE u = v /\ PollMissed(v)
    <3>1. ~fresh /\ connected'[v] = connected[v]
          /\ silent'[v] = IF connected[v] THEN silent[v] + 1 ELSE 0
      BY <2>1, <2>4 DEF PollMissed
    <3>2. ~has_pending_input[v] /\ mail[v] # "fresh"
      BY <3>1
    <3>3. Left(v) = Left(v)' + 1 /\ Left(v)' \in Nat
      BY <2>1
    <3>4. connected[v] => silent[v] + 1 + Left(v)' <= MaxLag + 1
      BY <2>1, <2>4, <3>2, <3>3
    <3> QED
      BY <2>1, <2>4, <3>1, <3>3, <3>4
  <2> QED
    BY <1>5, <2>2, <2>3, <2>4
<1>6. ASSUME NEW v \in Vehicles, Reply(v) PROVE Lag(u)'
  <2>1. /\ pc = "reply" /\ has_pending_input[v]
        /\ has_pending_input' = [has_pending_input EXCEPT ![v] = FALSE]
        /\ UNCHANGED <<pc, fleet, due, mail, connected, silent>>
    BY <1>6 DEF Reply, ReplySlot, stragglerVars
  <2>2. Left(u)' = Left(u) /\ Left(u) \in 0 .. MaxLag + 1
    BY <2>1
  <2> QED
    BY <1>0, <2>1, <2>2
<1>7. ASSUME NEW v \in Vehicles, Datagram(v) PROVE Lag(u)'
  <2>1. /\ UNCHANGED <<pc, fleet, due, unpolled, connected, has_pending_input, silent>>
        /\ mail[u] = "fresh" => mail'[u] = "fresh"
    BY <1>7 DEF Datagram, Land, slotVars, stragglerVars
  <2> QED
    BY <1>0, <2>1
<1>8. ASSUME NEW v \in Vehicles, Spawn(v) \/ Despawn(v) PROVE Lag(u)'
  <2>1. /\ pc = "drain" /\ UNCHANGED <<pc, due>>
        /\ fleet' \subseteq fleet \cup {v}
        /\ connected' = [connected EXCEPT ![v] = FALSE]
        /\ has_pending_input' = [has_pending_input EXCEPT ![v] = FALSE]
        /\ mail' = [mail EXCEPT ![v] = "none"]
        /\ silent' = [silent EXCEPT ![v] = 0]
    BY <1>8 DEF Spawn, SpawnSlot, Despawn, DespawnSlot, ResetSlot, ResetStraggler
  <2> QED
    BY <1>0, <2>1
<1>9. CASE UNCHANGED vars
  BY <1>0, <1>9 DEF vars, slotVars, stragglerVars
<1> QED
  BY <1>1, <1>2, <1>3, <1>4, <1>5, <1>6, <1>7, <1>8, <1>9 DEF Next, TickThread

(* However far the tick thread falls behind, a vehicle that answers each   *)
(* reply within a period misses at most MaxLag + 1 polls in a row, in the  *)
(* catch-up: it thaws with its next frame, and the grace sweep takes it    *)
(* only if hold_ticks and the grace period together are shorter than that. *)
THEOREM LagIsBounded == Spec => []LagBounded
<1>1. LagInv => LagBounded
  BY DEF LagInv, Lag, LagBounded
<1> QED
  BY <1>1, InitLag, NextLag, IInvHolds, PTL DEF Spec

(* The interactive loop, too, handles every slot as Slot allows: a tick    *)
(* that runs on a held input leaves the mailbox and the staged frames of   *)
(* everybody else alone.                                                   *)
THEOREM InteractiveKeepsSlots == ASSUME NEW v \in Vehicles
                                 PROVE  Spec => SlotOf(v)!Spec
<1>1. Init => SlotOf(v)!Empty
  BY DEF Init, FleetInit, SlotOf!Empty
<1>2. IInv /\ StagedConnected /\ [Next]_vars => [SlotOf(v)!Next]_(SlotOf(v)!slot)
  <2> SUFFICES ASSUME IInv, StagedConnected, [Next]_vars
               PROVE  SlotOf(v)!Next \/ UNCHANGED SlotOf(v)!slot
    BY DEF SlotOf!slot
  <2> USE DEF IInv, InteractiveTypeOK, FleetTypeOK, Mail, SlotOf!Next, SlotOf!slot
  <2>1. ASSUME NEW w \in Vehicles, PollSlot(w)
        PROVE  SlotOf(v)!Poll \/ UNCHANGED SlotOf(v)!slot
    <3>1. CASE w # v \/ has_pending_input[v] \/ mail[v] = "none"
      BY <2>1, <3>1 DEF PollSlot, StagedConnected
    <3>2. CASE w = v /\ ~has_pending_input[v] /\ mail[v] # "none"
      BY <2>1, <3>2 DEF PollSlot, SlotOf!Poll
    <3>3. QED
      BY <3>1, <3>2
  <2>2. ASSUME NEW w \in Vehicles, Reply(w)
        PROVE  SlotOf(v)!Reply \/ UNCHANGED SlotOf(v)!slot
    BY <2>2 DEF Reply, ReplySlot, SlotOf!Reply
  <2>3. ASSUME NEW w \in Vehicles, Datagram(w)
        PROVE  SlotOf(v)!Land \/ UNCHANGED SlotOf(v)!slot
    BY <2>3 DEF Datagram, Land, slotVars, SlotOf!Land, SlotOf!Kinds
  <2>4. ASSUME NEW w \in Vehicles, Spawn(w) \/ Despawn(w)
        PROVE  SlotOf(v)!Leave \/ UNCHANGED SlotOf(v)!slot
    BY <2>4 DEF Spawn, SpawnSlot, Despawn, DespawnSlot, ResetSlot, SlotOf!Leave
  <2>5. CASE \/ Clock \/ Stop \/ Sleep \/ WakeUp \/ Drained
             \/ Step \/ Sweep \/ EndTick
             \/ \E w \in Vehicles : ReplyOverflow(w)
             \/ UNCHANGED vars
    BY <2>5 DEF Clock, Stop, Sleep, WakeUp, Drained, StartPolling, Step,
                Sweep, EndTick, ReplyOverflow, slotVars, vars
  <2>6. QED
    BY <2>1, <2>2, <2>3, <2>4, <2>5 DEF Next, TickThread, PollFresh, PollMissed
<1>3. QED
  BY <1>1, <1>2, IInvHolds, StagedIsConnected, PTL DEF Spec, SlotOf!Spec
==============================================================================
