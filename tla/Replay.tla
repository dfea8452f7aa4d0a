------------------------------- MODULE Replay -------------------------------
(***************************************************************************)
(* Input tapes: what step_world writes to --record-servo during a live run *)
(* and what run_replay (src/main.cpp) makes of it.                         *)
(*                                                                         *)
(* The n-th frame of a vehicle stands for its contents.  A step is the set *)
(* of <<body, frame>> pairs that drive it: the world is deterministic, so  *)
(* equal sequences of steps are equal runs.  A live step has a fresh frame *)
(* of some vehicles (in strict mode of every connected one), others are    *)
(* held, or frozen.  A replayed fleet is the one the live run started      *)
(* with.                                                                   *)
(***************************************************************************)
EXTENDS Integers, Sequences, SequencesExt

CONSTANTS
  N,             \* --vehicles
  MaxBodies,     \* bound: bodies ever created
  MaxTick        \* bound: live steps

ASSUME ReplayAssumption ==
  /\ N \in Nat \ {0} /\ MaxBodies \in Nat /\ MaxBodies >= N
  /\ MaxTick \in Nat

Bodies == 1 .. MaxBodies
StartFleet == [i \in 1 .. N |-> i]

VARIABLES
  run,           \* "live", "replay", "done" or "failed"
  fleet,         \* bodies in fleet order
  connected,     \* bodies that have sent a frame
  frame,         \* each body's last frame, 0 before the first
  bodies,        \* bodies created
  tape,          \* lines [tick, vi, frame], the unread rest in a replay
  live,          \* the live run's steps
  staged,        \* run_replay's staged
  replayed,      \* the replay's steps
  aligned        \* history: leading live steps that took a frame of each vehicle

vars == <<run, fleet, connected, frame, bodies, tape, live, staged, replayed,
          aligned>>

Init ==
  /\ run = "live" /\ fleet = StartFleet
  /\ connected = {} /\ frame = [b \in Bodies |-> 0]
  /\ bodies = N
  /\ tape = <<>> /\ live = <<>> /\ staged = 0 /\ replayed = <<>>
  /\ aligned = 0

-----------------------------------------------------------------------------
(* The live run. *)
FleetSet == ToSet(fleet)

Driven(bs, f) == {<<b, f[b]>> : b \in bs}

(* One line for each vehicle that has a frame to consume. *)
Line_Unindexed(i, f) == [tick |-> Len(live), vi |-> f[fleet[i]], frame |-> i]   \* slip
Line(i, f) == [tick |-> Len(live), vi |-> i, frame |-> f[fleet[i]]]

Recorded(fresh, f) ==
  LET lines[n \in 0 .. Len(fleet)] ==
        IF n = 0 THEN <<>>
        ELSE IF fleet[n] \in fresh THEN Append(lines[n - 1], Line(n, f)) ELSE lines[n - 1]
  IN lines[Len(fleet)]

StepWorld(fresh, frozen) ==
  /\ run = "live" /\ Len(live) < MaxTick
  /\ frozen \subseteq connected \ fresh
  /\ frame' = [b \in Bodies |-> IF b \in fresh THEN frame[b] + 1 ELSE frame[b]]
  /\ connected' = connected \cup fresh
  /\ tape' = tape \o Recorded(fresh, frame')
  /\ live' = Append(live, Driven(connected' \ frozen, frame'))
  /\ aligned' = IF aligned = Len(live) /\ fleet = StartFleet /\ fresh = FleetSet
                THEN aligned + 1 ELSE aligned
  /\ UNCHANGED <<run, fleet, bodies, staged, replayed>>

Spawn ==
  /\ run = "live" /\ bodies < MaxBodies
  /\ bodies' = bodies + 1
  /\ fleet' = Append(fleet, bodies + 1)
  /\ UNCHANGED <<run, connected, frame, tape, live, staged, replayed, aligned>>

Despawn(i) ==
  /\ run = "live"
  /\ fleet' = RemoveAt(fleet, i)
  /\ connected' = connected \ {fleet[i]}
  /\ UNCHANGED <<run, frame, bodies, tape, live, staged, replayed, aligned>>

(* The tape is complete; a new process replays it. *)
StartReplay ==
  /\ run = "live"
  /\ run' = "replay" /\ fleet' = StartFleet
  /\ connected' = {} /\ frame' = [b \in Bodies |-> 0]
  /\ UNCHANGED <<bodies, tape, live, staged, replayed, aligned>>

-----------------------------------------------------------------------------
(* run_replay *)
BadIndex ==
  /\ run = "replay" /\ tape # <<>> /\ Head(tape).vi > Len(fleet)
  /\ run' = "failed"
  /\ UNCHANGED <<fleet, connected, frame, bodies, tape, live, staged, replayed, aligned>>

Staged(n) == IF n = Len(fleet) THEN 0 ELSE n

(* A line is staged; as many lines as there are vehicles make a step. *)
ReadLine ==
  /\ run = "replay" /\ tape # <<>> /\ Head(tape).vi <= Len(fleet)
  /\ LET b == fleet[Head(tape).vi]
     IN /\ frame' = [frame EXCEPT ![b] = Head(tape).frame]
        /\ connected' = connected \cup {b}
  /\ staged' = Staged(staged + 1)
  /\ replayed' = IF staged + 1 = Len(fleet)
                 THEN Append(replayed, Driven(connected', frame')) ELSE replayed
  /\ tape' = Tail(tape)
  /\ UNCHANGED <<run, fleet, bodies, live, aligned>>

EndOfTape ==
  /\ run = "replay" /\ tape = <<>>
  /\ run' = "done"
  /\ UNCHANGED <<fleet, connected, frame, bodies, tape, live, staged, replayed, aligned>>

Next ==
  \/ \E fresh, frozen \in SUBSET FleetSet : StepWorld(fresh, frozen)
  \/ Spawn \/ StartReplay \/ BadIndex \/ ReadLine \/ EndOfTape
  \/ \E i \in DOMAIN fleet : Despawn(i)

Spec == Init /\ [][Next]_vars

-----------------------------------------------------------------------------
(* As long as every step of the live run took a frame of each vehicle it   *)
(* started with, the replay follows it, and gets that far.                 *)
AlignedTapeReplays ==
  /\ \A k \in DOMAIN replayed : k <= aligned => replayed[k] = live[k]
  /\ run \in {"done", "failed"} => Len(replayed) >= aligned
  /\ run = "done" /\ aligned = Len(live) => replayed = live
==============================================================================
