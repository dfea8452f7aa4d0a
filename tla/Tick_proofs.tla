----------------------------- MODULE Tick_proofs -----------------------------
(***************************************************************************)
(* Theorems of the strict tick, in two parts that share nothing: the loop  *)
(* that takes it (StrictLoop), for any fleet and any timeout, and the pool *)
(* that fans its replies out (ThreadPool), for any number of workers,      *)
(* calls and indices.                                                      *)
(*                                                                         *)
(* LockstepCount is not inductive by itself: that a vehicle which joins    *)
(* starts at zero, and that only connected vehicles are ever owed a reply, *)
(* is what the step and the reply preserve it with.  An abort names nobody *)
(* who has answered in time because no reply is sent while the timer runs  *)
(* (Overdue): who has no frame staged has been silent for all of it.       *)
(*                                                                         *)
(* remaining_ is tied to the workers by a set: Owing holds those that have *)
(* a chunk of the current call and have not counted it off, whether they   *)
(* have woken up for it or not.  remaining is its cardinality, and what    *)
(* was run (ran) follows from where each worker is.                        *)
(***************************************************************************)
EXTENDS StrictLoop, ThreadPool, FiniteSetTheorems, TLAPS

Stepped(v) ==
  /\ has_pending_input[v] => connected[v]
  /\ ~connected[v] => ticks[v] = 0
  /\ pc # "exited" /\ connected[v] => ticks[v] + Owed(v) = tick - joined[v]

Overdue(v) ==
  ~barrier_was_complete /\ connected[v] /\ ~has_pending_input[v] => silent[v] >= stalled

StrictInv ==
  /\ StrictTypeOK
  /\ pc # "poll" => unpolled = {}
  /\ rc # 0 => pc = "exited"
  /\ pc = "reply" => barrier_was_complete
  /\ \A v \in fleet : Stepped(v) /\ Overdue(v)
  /\ AbortNamesAStraggler

USE FleetAssumption, StrictAssumption

LEMMA InitStrictInv == Init => StrictInv
  BY DEF Init, FleetInit, StrictInv, StrictTypeOK, FleetTypeOK, Mail, Times, Stepped,
         Owed, Overdue, AbortNamesAStraggler

LEMMA NextStrictInv == StrictInv /\ [Next]_vars => StrictInv'
<1> SUFFICES ASSUME StrictInv, [Next]_vars PROVE StrictInv'
  OBVIOUS
<1> USE DEF StrictInv, StrictTypeOK, FleetTypeOK, Mail, Times, Stepped, Owed,
            Overdue, AbortNamesAStraggler, Named, history
<1>1. CASE Clock
  <2>1. /\ stalled' \in Times /\ silent' \in [Vehicles -> Times]
        /\ \A v \in fleet : silent[v] >= stalled => silent'[v] >= stalled'
    BY <1>1 DEF Clock, Later
  <2>2. /\ pc # "exited"
        /\ UNCHANGED <<pc, rc, fleet, unpolled, mail, connected, has_pending_input,
                       ticks, tick, snapshot, barrier_was_complete, joined>>
    BY <1>1 DEF Clock, slotVars
  <2>3. QED
    BY <2>1, <2>2
<1>2. CASE Stop
  BY <1>2 DEF Stop, Exit, slotVars
<1>3. CASE Enter
  BY <1>3 DEF Enter, slotVars
<1>4. CASE Drained
  BY <1>4 DEF Drained, StartPolling, slotVars
<1>5. ASSUME NEW v \in Vehicles, Poll(v) PROVE StrictInv'
  <2> DEFINE fresh == has_pending_input[v] \/ mail[v] = "fresh"
  <2>1. /\ pc = "poll" /\ v \in unpolled /\ v \in fleet
        /\ unpolled' = unpolled \ {v}
        /\ connected' = [connected EXCEPT ![v] = connected[v] \/ fresh]
        /\ has_pending_input' = [has_pending_input EXCEPT ![v] = fresh]
        /\ joined' = IF connected'[v] /\ ~connected[v]
                     THEN [joined EXCEPT ![v] = tick] ELSE joined
        /\ UNCHANGED <<pc, rc, fleet, tick, ticks, snapshot,
                       barrier_was_complete, stalled, silent>>
    BY <1>5 DEF Poll, PollSlot
  <2>2. mail' \in [Vehicles -> Mail]
    BY <1>5 DEF Poll, PollSlot
  <2>3. /\ connected' \in [Vehicles -> BOOLEAN]
        /\ has_pending_input' \in [Vehicles -> BOOLEAN]
    BY <2>1, Zenon
  <2>4. StrictTypeOK'
    BY <2>1, <2>2, <2>3
  <2>5. ASSUME NEW w \in fleet, w # v PROVE Stepped(w)' /\ Overdue(w)'
    BY <2>1, <2>5
  <2>6. Stepped(v)' /\ Overdue(v)'
    <3>1. CASE fresh
      BY <2>1, <3>1
    <3>2. CASE ~fresh
      BY <2>1, <3>2
    <3>3. QED
      BY <3>1, <3>2
  <2>7. QED
    BY <2>1, <2>4, <2>5, <2>6
<1>6. ASSUME NEW v \in Vehicles, Reply(v) PROVE StrictInv'
  BY <1>6 DEF Reply, ReplySlot
<1>7. CASE StartStall
  <2>1. barrier_was_complete' \in BOOLEAN
    BY <1>7, Zenon DEF StartStall
  <2>2. /\ pc = "poll" /\ unpolled = {} /\ pc' = "head" /\ stalled' = 0
        /\ UNCHANGED <<rc, fleet, unpolled, mail, connected, has_pending_input,
                       ticks, tick, snapshot, joined, silent>>
    BY <1>7, Zenon DEF StartStall, Polled, slotVars, history
  <2>3. QED
    BY <2>1, <2>2
<1>8. CASE KeepStalling
  BY <1>8 DEF KeepStalling, Polled, slotVars
<1>9. CASE StrictAbort
  BY <1>9 DEF StrictAbort, StallAborts, BarrierReady, AllFresh, AnyFresh,
              Polled, Exit, slotVars
<1>10. CASE Step
  BY <1>10 DEF Step, Polled, BarrierReady, AllFresh, slotVars
<1>11. CASE EndTick
  BY <1>11 DEF EndTick, AllReplied, Publish, slotVars
<1>12. ASSUME NEW v \in Vehicles, Datagram(v) PROVE StrictInv'
  BY <1>12 DEF Datagram, Land, slotVars
<1>13. ASSUME NEW v \in Vehicles, Spawn(v) PROVE StrictInv'
  BY <1>13 DEF Spawn, SpawnSlot, ResetSlot
<1>14. ASSUME NEW v \in Vehicles, Despawn(v) PROVE StrictInv'
  BY <1>14 DEF Despawn, DespawnSlot, ResetSlot
<1>15. ASSUME NEW v \in Vehicles, ReplyOverflow(v) PROVE StrictInv'
  BY <1>15 DEF ReplyOverflow, Exit, slotVars
<1>16. CASE UNCHANGED vars
  BY <1>16 DEF vars, slotVars
<1>17. QED
  BY <1>1, <1>2, <1>3, <1>4, <1>5, <1>6, <1>7, <1>8, <1>9, <1>10, <1>11,
     <1>12, <1>13, <1>14, <1>15, <1>16 DEF Next, TickThread

LEMMA AlwaysStrictInv == Spec => []StrictInv
  BY InitStrictInv, NextStrictInv, PTL DEF Spec

(* Type correctness of the strict loop. *)
THEOREM StrictTypes == Spec => []StrictTypeOK
  BY AlwaysStrictInv, PTL DEF StrictInv

(* Every connected vehicle has had exactly one frame stepped per tick of   *)
(* the world since it connected.                                           *)
THEOREM FleetInLockstep == Spec => []LockstepCount
<1>1. StrictInv => LockstepCount
  BY DEF StrictInv, Stepped, LockstepCount
<1>2. QED
  BY <1>1, AlwaysStrictInv, PTL

(* Whenever the run aborts there is a vehicle that waits and another that  *)
(* is waited for, and each one named has been silent for longer than the   *)
(* timeout.                                                                *)
THEOREM AbortHasStraggler == Spec => []AbortNamesAStraggler
  BY AlwaysStrictInv, PTL DEF StrictInv

(* The strict loop handles every slot as Slot allows: between staging a    *)
(* frame and its reply the mailbox is not read, nothing but a fresh frame  *)
(* is staged, and only a reply or a despawn unstages it.                   *)
THEOREM StrictKeepsSlots == ASSUME NEW v \in Vehicles PROVE Spec => SlotOf(v)!Spec
<1>1. Init => SlotOf(v)!Empty
  BY DEF Init, FleetInit, SlotOf!Empty
<1>2. StrictInv /\ [Next]_vars => [SlotOf(v)!Next]_(SlotOf(v)!slot)
  <2> SUFFICES ASSUME StrictInv, [Next]_vars
               PROVE  SlotOf(v)!Next \/ UNCHANGED SlotOf(v)!slot
    BY DEF SlotOf!slot
  <2> USE DEF StrictInv, StrictTypeOK, FleetTypeOK, Mail, SlotOf!Next, SlotOf!slot
  <2>1. ASSUME NEW w \in Vehicles, Poll(w)
        PROVE  SlotOf(v)!Poll \/ UNCHANGED SlotOf(v)!slot
    <3>1. CASE w # v \/ has_pending_input[v] \/ mail[v] = "none"
      BY <2>1, <3>1 DEF Poll, PollSlot, Stepped
    <3>2. CASE w = v /\ ~has_pending_input[v] /\ mail[v] # "none"
      BY <2>1, <3>2 DEF Poll, PollSlot, SlotOf!Poll
    <3>3. QED
      BY <3>1, <3>2
  <2>2. ASSUME NEW w \in Vehicles, Reply(w)
        PROVE  SlotOf(v)!Reply \/ UNCHANGED SlotOf(v)!slot
    BY <2>2 DEF Reply, ReplySlot, SlotOf!Reply
  <2>3. ASSUME NEW w \in Vehicles, Datagram(w)
        PROVE  SlotOf(v)!Land \/ UNCHANGED SlotOf(v)!slot
    BY <2>3 DEF Datagram, Land, slotVars, SlotOf!Land, SlotOf!Kinds
  <2>4. ASSUME NEW w \in Vehicles, Spawn(w) \/ Despawn(w)
        PROVE  SlotOf(v)!Leave \/ UNCHANGED SlotOf(v)!slot
    BY <2>4 DEF Spawn, SpawnSlot, Despawn, DespawnSlot, ResetSlot, SlotOf!Leave
  <2>5. CASE \/ Clock \/ Stop \/ Enter \/ Drained \/ StartStall
             \/ KeepStalling \/ StrictAbort \/ Step \/ EndTick
             \/ \E w \in Vehicles : ReplyOverflow(w)
             \/ UNCHANGED vars
    BY <2>5 DEF Clock, Stop, Enter, Drained, StartPolling, StartStall,
                KeepStalling, StrictAbort, Step, EndTick, ReplyOverflow,
                slotVars, vars
  <2>6. QED
    BY <2>1, <2>2, <2>3, <2>4, <2>5 DEF Next, TickThread
<1>3. QED
  BY <1>1, <1>2, AlwaysStrictInv, PTL DEF Spec, SlotOf!Spec

-----------------------------------------------------------------------------
(* The pool.                                                               *)
Owes(w) ==
  ~stop /\ w < chunks /\ (seen[w] # generation \/ worker[w] \in {"chunk", "count"})

Owing == {w \in Workers : Owes(w)}

Flags == stop \in BOOLEAN /\ done_held \in BOOLEAN

(* The rest of PoolTypeOK, but for the bounds of remaining. *)
Types ==
  /\ generation \in Nat
  /\ fn \in Nat /\ count \in Nat /\ chunks \in 0 .. N + 1
  /\ remaining \in Int
  /\ caller \in CallerPlaces
  /\ worker \in [Workers -> {"wait", "asleep", "chunk", "count", "last", "exited"}]
  /\ seen \in [Workers -> Nat]
  /\ local \in [Workers -> [fn : Nat, chunks : 0 .. N + 1]]
  /\ ran \in [0 .. N -> Nat]

Counted == remaining = Cardinality(Owing)

Places ==
  /\ stop <=> caller \in {"stop", "join", "gone"}
  /\ InCall => chunks >= 1
  /\ ~InCall => remaining = 0

AtWork ==
  \A w \in Workers :
    /\ seen[w] <= generation
    /\ worker[w] \in {"chunk", "count"} =>
         ~stop /\ seen[w] = generation /\ w < chunks /\ local[w].fn = fn

Ran ==
  ~stop =>
    /\ ran[0] = IF chunks > 0 /\ caller \notin {"notify", "first"} THEN 1 ELSE 0
    /\ \A w \in Workers :
         ran[w] = IF w < chunks /\ seen[w] = generation /\ worker[w] # "chunk"
                  THEN 1 ELSE 0

PoolInv == Flags /\ Types /\ Counted /\ Places /\ AtWork /\ Ran

USE PoolAssumption

(* The sets that are counted are finite. *)
LEMMA WorkersFinite ==
  /\ IsFiniteSet(Workers) /\ Cardinality(Workers) = N
  /\ \A S \in SUBSET Workers :
       IsFiniteSet(S) /\ Cardinality(S) \in Nat /\ Cardinality(S) <= N
<1>1. IsFiniteSet(Workers) /\ Cardinality(Workers) = N
  BY FS_Interval DEF Workers
<1>2. QED
  BY <1>1, FS_Subset, FS_CardinalityType

LEMMA NobodyOwes ==
  ASSUME Types, Counted, remaining = 0
  PROVE  \A w \in Workers : ~Owes(w)
<1>1. Owing \in SUBSET Workers
  BY DEF Owing
<1>2. Owing = {}
  BY <1>1, WorkersFinite, FS_EmptySet DEF Counted
<1>3. QED
  BY <1>2 DEF Owing

LEMMA SomebodyOwes ==
  ASSUME Types, Counted, NEW w \in Workers, Owes(w)
  PROVE  remaining >= 1
<1>1. Owing \in SUBSET Workers /\ Owing # {}
  BY DEF Owing
<1>2. QED
  BY <1>1, WorkersFinite, FS_EmptySet DEF Counted

LEMMA InitPoolInv == PoolInit => PoolInv
<1> SUFFICES ASSUME PoolInit PROVE PoolInv
  OBVIOUS
<1>1. Flags
  BY Zenon DEF PoolInit, Flags
<1>2. Types
  <2>1. NoJob \in [fn : Nat, chunks : 0 .. N + 1] /\ caller \in CallerPlaces
    BY DEF PoolInit, NoJob, CallerPlaces
  <2>2. QED
    BY <2>1 DEF PoolInit, Types
<1>3. Counted
  <2>1. Owing = {}
    BY DEF PoolInit, Owing, Owes, Workers
  <2>2. QED
    BY <2>1, FS_EmptySet DEF PoolInit, Counted
<1>4. Places /\ AtWork /\ Ran
  BY DEF PoolInit, Places, AtWork, Ran, InCall, Workers
<1>5. QED
  BY <1>1, <1>2, <1>3, <1>4 DEF PoolInv

(* A step that moves only the caller. *)
LEMMA CallerMoves ==
  ASSUME PoolInv, UNCHANGED <<jobVars, remaining, workerVars, ran>>,
         caller' \in CallerPlaces, done_held' \in BOOLEAN,
         Places', caller' \in {"notify", "first"} <=> caller \in {"notify", "first"}
  PROVE  PoolInv'
<1> USE DEF jobVars, workerVars
<1>1. Flags'
  BY Zenon DEF PoolInv, Flags
<1>2. Types'
  BY DEF PoolInv, Types
<1>3. Counted'
  <2>1. Owing' = Owing
    BY DEF Owing, Owes
  <2>2. QED
    BY <2>1 DEF PoolInv, Counted
<1>4. AtWork' /\ Ran'
  BY DEF PoolInv, AtWork, Ran
<1>5. QED
  BY <1>1, <1>2, <1>3, <1>4 DEF PoolInv

(* A step that moves workers between places outside their chunks. *)
LEMMA WorkersMove ==
  ASSUME PoolInv, UNCHANGED <<jobVars, remaining, done_held, seen, local, ran>>,
         caller' \in CallerPlaces, Places',
         caller' \in {"notify", "first"} <=> caller \in {"notify", "first"},
         worker' \in [Workers -> {"wait", "asleep", "chunk", "count", "last", "exited"}],
         \A w \in Workers :
           worker'[w] = worker[w] \/ {worker[w], worker'[w]} \cap {"chunk", "count"} = {}
  PROVE  PoolInv'
<1> USE DEF jobVars
<1>1. Flags'
  BY Zenon DEF PoolInv, Flags
<1>2. Types'
  BY DEF PoolInv, Types
<1>3. Counted'
  <2>1. Owing' = Owing
    BY DEF Owing, Owes
  <2>2. QED
    BY <2>1 DEF PoolInv, Counted
<1>4. AtWork'
  BY DEF PoolInv, AtWork
<1>5. Ran'
  BY DEF PoolInv, Ran
<1>6. QED
  BY <1>1, <1>2, <1>3, <1>4, <1>5 DEF PoolInv
(* parallel_for posts a call: every worker that owns a chunk of it owes it. *)
LEMMA PostIInv == ASSUME PoolInv, NEW n \in Counts, Post(n) PROVE PoolInv'
<1>1. /\ caller = "idle" /\ caller' = "notify"
      /\ fn' = fn + 1 /\ count' = n /\ chunks' = ChunksFor(n)
      /\ remaining' = ForWorkers(n) /\ generation' = generation + 1
      /\ ran' = [c \in 0 .. N |-> 0]
      /\ UNCHANGED <<stop, done_held, worker, seen, local>>
  BY DEF Post, workerVars
<1>2. chunks' \in 1 .. N + 1 /\ remaining' = chunks' - 1
  BY <1>1 DEF ChunksFor, ForWorkers
<1>3. ~stop /\ \A w \in Workers : worker[w] \notin {"chunk", "count"}
  <2>1. remaining = 0 /\ ~stop
    BY <1>1 DEF PoolInv, Places, InCall
  <2>2. \A w \in Workers : ~Owes(w)
    BY <2>1, NobodyOwes DEF PoolInv
  <2>3. QED
    BY <2>1, <2>2 DEF PoolInv, AtWork, Owes
<1>4. \A w \in Workers : seen[w] <= generation /\ seen[w] \in Nat
  BY DEF PoolInv, AtWork, Types
<1>5. Flags'
  BY <1>1, Zenon DEF PoolInv, Flags
<1>6. Types'
  BY <1>1, <1>2 DEF PoolInv, Types, CallerPlaces
<1>7. Counted'
  <2>1. \A w \in Workers : Owes(w)' <=> w < chunks'
    BY <1>1, <1>3, <1>4 DEF Owes, PoolInv, Types
  <2>2. Owing' = {w \in Workers : w < chunks'}
    BY <2>1 DEF Owing
  <2>3. {w \in Workers : w < chunks'} = 1 .. chunks' - 1
    BY <1>2 DEF Workers
  <2>4. Cardinality(1 .. chunks' - 1) = chunks' - 1
    BY <1>2, FS_Interval
  <2>5. QED
    BY <1>2, <2>2, <2>3, <2>4 DEF Counted
<1>8. Places'
  BY <1>1, <1>2, <1>3 DEF PoolInv, Places, InCall
<1>9. AtWork'
  BY <1>1, <1>3, <1>4 DEF AtWork, PoolInv, Types
<1>10. Ran'
  BY <1>1, <1>3, <1>4 DEF Ran, Workers, PoolInv, Types
<1>11. QED
  BY <1>5, <1>6, <1>7, <1>8, <1>9, <1>10 DEF PoolInv

(* The destructor: nobody is at work when it sets the flag. *)
LEMMA StopPoolIInv == ASSUME PoolInv, StopPool PROVE PoolInv'
<1>1. /\ caller = "idle" /\ caller' = "stop"
      /\ stop' = TRUE /\ generation' = generation + 1
      /\ UNCHANGED <<fn, count, chunks, remaining, done_held, worker, seen, local, ran>>
  BY DEF StopPool, workerVars
<1>2. remaining = 0 /\ ~stop
  BY <1>1 DEF PoolInv, Places, InCall
<1>3. \A w \in Workers : worker[w] \notin {"chunk", "count"}
  <2>1. \A w \in Workers : ~Owes(w)
    BY <1>2, NobodyOwes DEF PoolInv
  <2>2. QED
    BY <1>2, <2>1 DEF PoolInv, AtWork, Owes
<1>4. Flags'
  BY <1>1, Zenon DEF PoolInv, Flags
<1>5. Types'
  BY <1>1 DEF PoolInv, Types, CallerPlaces
<1>6. Counted'
  <2>1. Owing' = {}
    BY <1>1 DEF Owing, Owes
  <2>2. QED
    BY <1>1, <1>2, <2>1, FS_EmptySet DEF Counted
<1>7. Places'
  BY <1>1, <1>2 DEF Places, InCall
<1>8. AtWork'
  BY <1>1, <1>3 DEF PoolInv, AtWork, Types
<1>9. Ran'
  BY <1>1 DEF Ran
<1>10. QED
  BY <1>4, <1>5, <1>6, <1>7, <1>8, <1>9 DEF PoolInv

(* The caller runs its own chunk. *)
LEMMA RunFirstIInv == ASSUME PoolInv, RunFirst PROVE PoolInv'
<1>1. /\ caller = "first" /\ caller' = "lock"
      /\ ran' = [ran EXCEPT ![0] = @ + 1]
      /\ UNCHANGED <<jobVars, remaining, done_held, worker, seen, local>>
  BY DEF RunFirst, RunChunk, workerVars
<1> USE DEF jobVars
<1>2. Flags'
  BY <1>1, Zenon DEF PoolInv, Flags
<1>3. Types'
  BY <1>1 DEF PoolInv, Types, CallerPlaces
<1>4. Counted'
  <2>1. Owing' = Owing
    BY <1>1 DEF Owing, Owes
  <2>2. QED
    BY <1>1, <2>1 DEF PoolInv, Counted
<1>5. Places'
  BY <1>1 DEF PoolInv, Places, InCall
<1>6. AtWork'
  BY <1>1 DEF PoolInv, AtWork
<1>7. Ran'
  <2>1. ran'[0] = ran[0] + 1 /\ \A w \in Workers : ran'[w] = ran[w]
    BY <1>1 DEF PoolInv, Types, Workers
  <2>2. chunks > 0
    BY <1>1 DEF PoolInv, Types, Places, InCall
  <2>3. QED
    BY <1>1, <2>1, <2>2 DEF PoolInv, Ran
<1>8. QED
  BY <1>2, <1>3, <1>4, <1>5, <1>6, <1>7 DEF PoolInv

(* A worker sees a new generation. *)
LEMMA TakeIInv == ASSUME PoolInv, NEW w \in Workers, Take(w) PROVE PoolInv'
<1>1. /\ worker[w] = "wait" /\ generation # seen[w]
      /\ seen' = [seen EXCEPT ![w] = generation]
      /\ UNCHANGED <<jobVars, remaining, done_held, caller, ran>>
  BY DEF Take
<1> USE DEF jobVars
<1>2. CASE stop
  <2>1. worker' = [worker EXCEPT ![w] = "exited"] /\ local' = local
    BY <1>2 DEF Take, GoTo
  <2>2. Flags'
    BY <1>1, Zenon DEF PoolInv, Flags
  <2>3. Types'
    BY <1>1, <2>1 DEF PoolInv, Types
  <2>4. Counted'
    <3>1. Owing' = {} /\ Owing = {}
      BY <1>1, <1>2 DEF Owing, Owes
    <3>2. QED
      BY <1>1, <3>1 DEF PoolInv, Counted
  <2>5. Places'
    BY <1>1 DEF PoolInv, Places, InCall
  <2>6. AtWork' /\ Ran'
    BY <1>1, <1>2, <2>1 DEF PoolInv, AtWork, Ran, Types
  <2>7. QED
    BY <2>2, <2>3, <2>4, <2>5, <2>6 DEF PoolInv
<1>3. CASE ~stop
  <2>1. /\ worker' = [worker EXCEPT ![w] = IF w < chunks THEN "chunk" ELSE "wait"]
        /\ local' = [local EXCEPT ![w] = [fn |-> fn, chunks |-> chunks]]
    BY <1>3 DEF Take, GoTo, Owns
  <2>2. Flags'
    BY <1>1, Zenon DEF PoolInv, Flags
  <2>3. Types'
    BY <1>1, <2>1 DEF PoolInv, Types
  <2>4. Counted'
    <3>1. \A v \in Workers : Owes(v)' <=> Owes(v)
      BY <1>1, <1>3, <2>1 DEF Owes, PoolInv, Types
    <3>2. Owing' = Owing
      BY <3>1 DEF Owing
    <3>3. QED
      BY <1>1, <3>2 DEF PoolInv, Counted
  <2>5. Places'
    BY <1>1 DEF PoolInv, Places, InCall
  <2>6. AtWork'
    BY <1>1, <1>3, <2>1 DEF PoolInv, AtWork, Types
  <2>7. Ran'
    BY <1>1, <1>3, <2>1 DEF PoolInv, Ran, Types
  <2>8. QED
    BY <2>2, <2>3, <2>4, <2>5, <2>6, <2>7 DEF PoolInv
<1>4. QED
  BY <1>2, <1>3

(* A worker runs its chunk. *)
LEMMA RunIInv == ASSUME PoolInv, NEW w \in Workers, Run(w) PROVE PoolInv'
<1>1. /\ worker[w] = "chunk"
      /\ worker' = [worker EXCEPT ![w] = "count"]
      /\ ran' = [ran EXCEPT ![w] = @ + 1]
      /\ UNCHANGED <<jobVars, remaining, done_held, caller, seen, local>>
  BY DEF Run, RunChunk, GoTo
<1> USE DEF jobVars
<1>2. ~stop /\ seen[w] = generation /\ w < chunks
  BY <1>1 DEF PoolInv, AtWork
<1>3. Flags'
  BY <1>1, Zenon DEF PoolInv, Flags
<1>4. Types'
  <2>1. w \in 0 .. N
    BY DEF Workers
  <2>2. ran' \in [0 .. N -> Nat]
    BY <1>1, <2>1 DEF PoolInv, Types
  <2>3. QED
    BY <1>1, <2>2 DEF PoolInv, Types
<1>5. Counted'
  <2>1. \A v \in Workers : Owes(v)' <=> Owes(v)
    BY <1>1 DEF Owes, PoolInv, Types
  <2>2. Owing' = Owing
    BY <2>1 DEF Owing
  <2>3. QED
    BY <1>1, <2>2 DEF PoolInv, Counted
<1>6. Places'
  BY <1>1 DEF PoolInv, Places, InCall
<1>7. AtWork'
  BY <1>1 DEF PoolInv, AtWork, Types
<1>8. Ran'
  <2>1. /\ ran'[w] = ran[w] + 1 /\ ran[w] = 0
        /\ ran'[0] = ran[0]
        /\ \A v \in Workers : v # w => ran'[v] = ran[v]
    BY <1>1, <1>2 DEF PoolInv, Types, Workers, Ran
  <2>2. worker'[w] = "count" /\ \A v \in Workers : v # w => worker'[v] = worker[v]
    BY <1>1 DEF PoolInv, Types
  <2>3. QED
    BY <1>1, <1>2, <2>1, <2>2 DEF PoolInv, Ran
<1>9. QED
  BY <1>3, <1>4, <1>5, <1>6, <1>7, <1>8 DEF PoolInv

(* A worker counts its chunk off. *)
LEMMA CountOffIInv == ASSUME PoolInv, NEW w \in Workers, CountOff(w) PROVE PoolInv'
<1> DEFINE next == IF remaining = 1 THEN "last" ELSE "wait"
<1>1. /\ worker[w] = "count"
      /\ worker' = [worker EXCEPT ![w] = next]
      /\ remaining' = remaining - 1
      /\ UNCHANGED <<jobVars, done_held, caller, seen, local, ran>>
  BY DEF CountOff, GoTo
<1> USE DEF jobVars
<1>2. next \in {"last", "wait"}
  OBVIOUS
<1> HIDE DEF next
<1>3. ~stop /\ seen[w] = generation /\ w < chunks
  BY <1>1 DEF PoolInv, AtWork
<1>4. Flags'
  BY <1>1, Zenon DEF PoolInv, Flags
<1>5. Types'
  BY <1>1, <1>2 DEF PoolInv, Types
<1>6. Counted'
  <2>1. Owing' = Owing \ {w} /\ w \in Owing
    BY <1>1, <1>2, <1>3 DEF Owing, Owes, PoolInv, Types
  <2>2. Owing \in SUBSET Workers
    BY DEF Owing
  <2>3. Cardinality(Owing \ {w}) = Cardinality(Owing) - 1
    BY <2>1, <2>2, WorkersFinite, FS_RemoveElement
  <2>4. QED
    BY <1>1, <2>1, <2>3 DEF PoolInv, Counted
<1>7. Places'
  <2>1. remaining >= 1
    BY <1>1, <1>3, SomebodyOwes DEF PoolInv, Owes
  <2>2. InCall
    BY <2>1 DEF PoolInv, Places
  <2>3. QED
    BY <1>1, <2>2 DEF PoolInv, Places, InCall
<1>8. AtWork'
  BY <1>1, <1>2 DEF PoolInv, AtWork, Types
<1>9. Ran'
  BY <1>1, <1>2 DEF PoolInv, Ran, Types
<1>10. QED
  BY <1>4, <1>5, <1>6, <1>7, <1>8, <1>9 DEF PoolInv
LEMMA NextPoolInv == PoolInv /\ [PoolNext]_poolVars => PoolInv'
<1> SUFFICES ASSUME PoolInv, [PoolNext]_poolVars PROVE PoolInv'
  OBVIOUS
<1>1. ASSUME NEW n \in Counts, Post(n) PROVE PoolInv'
  BY <1>1, PostIInv
<1>2. CASE NotifyAll
  <2>1. caller' \in CallerPlaces /\ Places'
    BY <1>2 DEF NotifyAll, CallerPlaces, PoolInv, Places, InCall, jobVars
  <2>2. /\ worker' \in [Workers -> {"wait", "asleep", "chunk", "count", "last", "exited"}]
        /\ \A w \in Workers :
             worker'[w] = worker[w] \/ {worker[w], worker'[w]} \cap {"chunk", "count"} = {}
    BY <1>2 DEF NotifyAll, WakeWorkers, PoolInv, Types
  <2>3. caller' \in {"notify", "first"} <=> caller \in {"notify", "first"}
    BY <1>2 DEF NotifyAll
  <2>4. UNCHANGED <<jobVars, remaining, done_held, seen, local, ran>>
    BY <1>2 DEF NotifyAll
  <2>5. QED
    BY <2>1, <2>2, <2>3, <2>4, WorkersMove
<1>3. CASE RunFirst
  BY <1>3, RunFirstIInv
<1>4. CASE LockDone \/ AllDone \/ NotDone \/ FallAsleep \/ Join
  <2>1. UNCHANGED <<jobVars, remaining, workerVars, ran>>
    BY <1>4 DEF LockDone, AllDone, NotDone, FallAsleep, Join
  <2>2. done_held' \in BOOLEAN
    BY <1>4, Zenon DEF LockDone, AllDone, NotDone, FallAsleep, Join, PoolInv, Flags
  <2>3. Places'
    BY <1>4, <2>1 DEF LockDone, AllDone, NotDone, FallAsleep, Join, PoolInv, Places,
                      InCall, jobVars
  <2>4. /\ caller' \in CallerPlaces
        /\ caller' \in {"notify", "first"} <=> caller \in {"notify", "first"}
    BY <1>4 DEF LockDone, AllDone, NotDone, FallAsleep, Join, CallerPlaces
  <2>5. QED
    BY <2>1, <2>2, <2>3, <2>4, CallerMoves
<1>5. CASE StopPool
  BY <1>5, StopPoolIInv
<1>6. ASSUME NEW w \in Workers, Take(w) PROVE PoolInv'
  BY <1>6, TakeIInv
<1>7. ASSUME NEW w \in Workers, Run(w) PROVE PoolInv'
  BY <1>7, RunIInv
<1>8. ASSUME NEW w \in Workers, CountOff(w) PROVE PoolInv'
  BY <1>8, CountOffIInv
<1>9. ASSUME NEW w \in Workers, Wait(w) \/ NotifyOne(w) PROVE PoolInv'
  <2>1. /\ UNCHANGED <<jobVars, remaining, done_held, seen, local, ran>>
        /\ \/ worker[w] = "wait" /\ worker' = [worker EXCEPT ![w] = "asleep"]
           \/ worker[w] = "last" /\ worker' = [worker EXCEPT ![w] = "wait"]
        /\ caller' = caller \/ (caller = "asleep" /\ caller' = "lock")
    <3>1. UNCHANGED <<jobVars, remaining, done_held, seen, local, ran>>
      BY <1>9 DEF Wait, NotifyOne
    <3>2. \/ worker[w] = "wait" /\ worker' = [worker EXCEPT ![w] = "asleep"]
          \/ worker[w] = "last" /\ worker' = [worker EXCEPT ![w] = "wait"]
      BY <1>9, Zenon DEF Wait, NotifyOne, GoTo
    <3>3. caller' = caller \/ (caller = "asleep" /\ caller' = "lock")
      BY <1>9 DEF Wait, NotifyOne
    <3>4. QED
      BY <3>1, <3>2, <3>3
  <2>2. Places'
    BY <2>1 DEF PoolInv, Places, InCall, jobVars
  <2>3. /\ caller' \in CallerPlaces
        /\ caller' \in {"notify", "first"} <=> caller \in {"notify", "first"}
    BY <2>1 DEF PoolInv, Types, CallerPlaces
  <2>4. /\ worker' \in [Workers -> {"wait", "asleep", "chunk", "count", "last", "exited"}]
        /\ \A v \in Workers :
             worker'[v] = worker[v] \/ {worker[v], worker'[v]} \cap {"chunk", "count"} = {}
    BY <2>1 DEF PoolInv, Types
  <2>5. QED
    BY <2>1, <2>2, <2>3, <2>4, WorkersMove
<1>10. CASE SpuriousWakeUp
  <2>1. /\ UNCHANGED <<jobVars, remaining, done_held, seen, local, ran>>
        /\ \/ worker' = worker
           \/ \E w \in Workers : /\ worker[w] = "asleep"
                                 /\ worker' = [worker EXCEPT ![w] = "wait"]
        /\ caller' = caller \/ (caller = "asleep" /\ caller' = "lock")
    <3>1. UNCHANGED <<jobVars, remaining, done_held, seen, local, ran>>
      BY <1>10 DEF SpuriousWakeUp, workerVars
    <3>2. \/ worker' = worker
          \/ \E w \in Workers : /\ worker[w] = "asleep"
                                /\ worker' = [worker EXCEPT ![w] = "wait"]
      BY <1>10 DEF SpuriousWakeUp, GoTo, workerVars
    <3>3. caller' = caller \/ (caller = "asleep" /\ caller' = "lock")
      BY <1>10 DEF SpuriousWakeUp
    <3>4. QED
      BY <3>1, <3>2, <3>3
  <2>2. Places'
    BY <2>1 DEF PoolInv, Places, InCall, jobVars
  <2>3. /\ caller' \in CallerPlaces
        /\ caller' \in {"notify", "first"} <=> caller \in {"notify", "first"}
    BY <2>1 DEF PoolInv, Types, CallerPlaces
  <2>4. /\ worker' \in [Workers -> {"wait", "asleep", "chunk", "count", "last", "exited"}]
        /\ \A v \in Workers :
             worker'[v] = worker[v] \/ {worker[v], worker'[v]} \cap {"chunk", "count"} = {}
    BY <2>1 DEF PoolInv, Types
  <2>5. QED
    BY <2>1, <2>2, <2>3, <2>4, WorkersMove
<1>11. CASE UNCHANGED poolVars
  <2>1. UNCHANGED <<jobVars, remaining, done_held, seen, local, ran, worker, caller>>
    BY <1>11 DEF poolVars, workerVars
  <2>2. Places' /\ caller' \in CallerPlaces
    BY <2>1 DEF PoolInv, Types, Places, InCall, jobVars
  <2>3. QED
    BY <2>1, <2>2, WorkersMove DEF PoolInv, Types
<1>12. QED
  BY <1>1, <1>2, <1>3, <1>4, <1>5, <1>6, <1>7, <1>8, <1>9, <1>10, <1>11
  DEF PoolNext, CallerStep, WorkerStep

-----------------------------------------------------------------------------
LEMMA AlwaysPoolInv == PoolSpec => []PoolInv
  BY InitPoolInv, NextPoolInv, PTL DEF PoolSpec

(* Type correctness; in particular remaining_, unsigned in the code, does  *)
(* not wrap.                                                               *)
THEOREM PoolTypes == PoolSpec => []PoolTypeOK
<1>1. PoolInv => PoolTypeOK
  <2> SUFFICES ASSUME PoolInv PROVE PoolTypeOK
    OBVIOUS
  <2>1. Owing \in SUBSET Workers
    BY DEF Owing
  <2>2. remaining \in 0 .. N
    BY <2>1, WorkersFinite DEF PoolInv, Counted
  <2>3. stop \in BOOLEAN /\ done_held \in BOOLEAN
    BY Zenon DEF PoolInv, Flags
  <2>4. QED
    BY <2>2, <2>3, Zenon DEF PoolInv, Types, PoolTypeOK
<1>2. QED
  BY <1>1, AlwaysPoolInv, PTL

(* No worker calls a function object whose parallel_for has returned.      *)
THEOREM FunctionAlive == PoolSpec => []NoUseAfterReturn
<1>1. PoolInv => NoUseAfterReturn
  <2> SUFFICES ASSUME PoolInv, NEW w \in Workers, worker[w] = "chunk"
               PROVE  InCall /\ local[w].fn = fn
    BY DEF NoUseAfterReturn
  <2>1. Owes(w) /\ local[w].fn = fn
    BY DEF PoolInv, AtWork, Owes
  <2>2. remaining >= 1
    BY <2>1, SomebodyOwes DEF PoolInv
  <2>3. InCall
    <3>1. remaining # 0
      BY <2>2 DEF PoolInv, Types
    <3>2. QED
      BY ONLY <3>1, PoolInv DEF PoolInv, Places
  <2>4. QED
    BY <2>1, <2>3
<1>2. QED
  BY <1>1, AlwaysPoolInv, PTL

LEMMA ChunksOnce == PoolInv => ChunksRunOnce
<1> SUFFICES ASSUME PoolInv, caller = "idle", NEW c \in 0 .. N
             PROVE  ran[c] = IF c < chunks THEN 1 ELSE 0
  BY DEF ChunksRunOnce
<1>1. ~stop /\ remaining = 0
  BY Zenon DEF PoolInv, Places, InCall
<1>2. CASE c = 0
  BY <1>1, <1>2 DEF PoolInv, Ran, Types
<1>3. CASE c \in Workers
  BY <1>1, <1>3, NobodyOwes DEF PoolInv, Ran, Owes
<1>4. QED
  BY <1>2, <1>3 DEF Workers

(* When parallel_for has returned, every chunk was run exactly once. *)
THEOREM EveryChunkOnce == PoolSpec => []ChunksRunOnce
  BY ChunksOnce, AlwaysPoolInv, PTL

-----------------------------------------------------------------------------
(* Products and quotients of naturals are monotone; the provers need to be *)
(* told, as neither factor is a constant.                                  *)
LEMMA Monotone ==
  ASSUME NEW a \in Nat, NEW b \in Nat, NEW n \in Nat, a <= b
  PROVE  a * n <= b * n /\ n * a <= n * b
<1>1. PICK d \in Nat : b = a + d
  <2>1. b - a \in Nat /\ b = a + (b - a)
    OBVIOUS
  <2>2. QED
    BY <2>1
<1>2. (a + d) * n = a * n + d * n /\ n * (a + d) = n * a + n * d
  OBVIOUS
<1>3. d * n >= 0 /\ n * d >= 0
  OBVIOUS
<1>4. a * n \in Int /\ d * n \in Int /\ n * a \in Int /\ n * d \in Int
  OBVIOUS
<1>5. QED
  BY <1>1, <1>2, <1>3, <1>4

LEMMA DivLess ==
  ASSUME NEW a \in Nat, NEW b \in Nat \ {0}, NEW q \in Nat
  PROVE  a < b * q <=> a \div b < q
<1>1. a \div b \in Nat /\ b * (a \div b) <= a /\ a < b * (a \div b) + b
  OBVIOUS
<1>2. CASE a \div b < q
  <2>1. (a \div b) + 1 <= q /\ (a \div b) + 1 \in Nat
    BY <1>1, <1>2
  <2>2. b * ((a \div b) + 1) <= b * q
    BY <2>1, Monotone
  <2>3. b * ((a \div b) + 1) = b * (a \div b) + b
    BY <1>1
  <2>4. a < b * q
    BY <1>1, <2>2, <2>3
  <2>5. QED
    BY <1>2, <2>4
<1>3. CASE ~(a \div b < q)
  <2>1. b * q <= b * (a \div b)
    BY <1>1, <1>3, Monotone
  <2>2. QED
    BY <1>1, <1>3, <2>1
<1>4. QED
  BY <1>2, <1>3

(* An index is in a chunk's share iff it lies between two products.        *)
LEMMA InShare ==
  ASSUME NEW n \in Nat, NEW k \in Nat \ {0}, NEW c \in Nat, NEW i \in Nat
  PROVE  i \in Share(c, k, n) <=> n * c < k * (i + 1) /\ k * (i + 1) <= n * (c + 1)
<1>1. n * c \in Nat /\ n * (c + 1) \in Nat /\ k * (i + 1) \in Nat
  OBVIOUS
<1>2. (n * c) \div k \in Nat /\ (n * (c + 1)) \div k \in Nat
  BY <1>1
<1>3. n * c < k * (i + 1) <=> (n * c) \div k < i + 1
  BY <1>1, DivLess
<1>4. n * (c + 1) < k * (i + 1) <=> (n * (c + 1)) \div k < i + 1
  BY <1>1, DivLess
<1>5. QED
  BY <1>1, <1>2, <1>3, <1>4 DEF Share

(* The shares cover the indices ... *)
LEMMA SharesCover ==
  ASSUME NEW n \in Nat \ {0}, NEW k \in Nat \ {0}, NEW i \in 0 .. n - 1
  PROVE  \E c \in 0 .. k - 1 : i \in Share(c, k, n)
<1> DEFINE m == k * (i + 1) - 1
           c == m \div n
<1>1. m \in Nat
  <2>1. k * 1 <= k * (i + 1)
    BY Monotone
  <2>2. QED
    BY <2>1
<1> HIDE DEF m
<1>2. c \in Nat /\ n * c <= m /\ m < n * (c + 1)
  BY <1>1
<1>3. m < n * k
  <2>1. k * (i + 1) <= k * n
    BY Monotone
  <2>2. k * n = n * k /\ k * n \in Nat
    OBVIOUS
  <2>3. QED
    BY <1>1, <2>1, <2>2 DEF m
<1>4. c < k
  BY <1>1, <1>3, DivLess
<1> HIDE DEF c
<1>5. n * c \in Nat /\ n * (c + 1) \in Nat /\ k * (i + 1) \in Nat
  BY <1>2
<1>6. i \in Share(c, k, n)
  BY <1>2, <1>5, InShare DEF m
<1>7. QED
  BY <1>2, <1>4, <1>6

(* ... and do not overlap. *)
LEMMA SharesDisjoint ==
  ASSUME NEW n \in Nat, NEW k \in Nat \ {0}, NEW i \in Nat,
         NEW c \in Nat, NEW d \in Nat, i \in Share(c, k, n), i \in Share(d, k, n)
  PROVE  c = d
<1>1. ASSUME NEW a \in Nat, NEW b \in Nat, a < b,
             i \in Share(a, k, n), i \in Share(b, k, n)
      PROVE  FALSE
  <2>1. k * (i + 1) <= n * (a + 1) /\ n * b < k * (i + 1)
    BY <1>1, InShare
  <2>2. n * (a + 1) <= n * b
    BY <1>1, Monotone
  <2>3. k * (i + 1) \in Nat /\ n * (a + 1) \in Nat /\ n * b \in Nat
    OBVIOUS
  <2>4. QED
    BY <2>1, <2>2, <2>3
<1>2. ~(c < d) /\ ~(d < c)
  BY <1>1
<1>3. QED
  BY <1>2

LEMMA AlwaysNonempty == PoolSpec => [](count > 0 => chunks > 0)
<1> DEFINE Nonempty == count > 0 => chunks > 0
<1>1. PoolInit => Nonempty
  BY DEF PoolInit
<1>2. Nonempty /\ [PoolNext]_poolVars => Nonempty'
  <2> SUFFICES ASSUME Nonempty, [PoolNext]_poolVars PROVE Nonempty'
    OBVIOUS
  <2>1. ASSUME NEW n \in Counts, Post(n) PROVE Nonempty'
    BY <2>1 DEF Post, ChunksFor
  <2>2. CASE UNCHANGED <<count, chunks>>
    BY <2>2
  <2>3. QED
    BY <2>1, <2>2 DEF PoolNext, CallerStep, NotifyAll, RunFirst, LockDone, AllDone,
      NotDone, FallAsleep, Join, StopPool, WorkerStep, Wait, Take, Run, CountOff,
      NotifyOne, SpuriousWakeUp, poolVars, jobVars
<1>3. QED
  BY <1>1, <1>2, PTL DEF PoolSpec

(* When parallel_for has returned, fn has been called once for each index. *)
THEOREM EveryIndexOnce == PoolSpec => []EachIndexOnce
<1>1. PoolInv /\ (count > 0 => chunks > 0) => EachIndexOnce
  <2> SUFFICES ASSUME PoolInv, count > 0 => chunks > 0, caller = "idle",
                      NEW i \in 0 .. count - 1
               PROVE  \E c \in 0 .. chunks - 1 :
                        /\ i \in Share(c, chunks, count) /\ ran[c] = 1
                        /\ \A d \in 0 .. chunks - 1 :
                             d # c /\ ran[d] > 0 => i \notin Share(d, chunks, count)
    BY DEF EachIndexOnce
  <2>1. chunks \in 1 .. N + 1 /\ count \in Nat \ {0}
    BY DEF PoolInv, Types
  <2>2. PICK c \in 0 .. chunks - 1 : i \in Share(c, chunks, count)
    BY <2>1, SharesCover
  <2>3. ran[c] = 1
    BY <2>1, ChunksOnce DEF ChunksRunOnce
  <2>4. \A d \in 0 .. chunks - 1 : d # c => i \notin Share(d, chunks, count)
    BY <2>1, <2>2, SharesDisjoint
  <2>5. QED
    BY <2>2, <2>3, <2>4
<1>2. QED
  BY <1>1, AlwaysPoolInv, AlwaysNonempty, PTL
==============================================================================
