----------------------------- MODULE ThreadPool -----------------------------
(***************************************************************************)
(* core::ThreadPool (src/core/thread_pool.h), which fans the replies of a  *)
(* tick out over worker threads.  One caller, the tick thread.             *)
(*                                                                         *)
(* A critical section under mutex_ is one action.  done_mutex_ is a        *)
(* variable, because remaining_ changes outside it: the caller evaluates   *)
(* its predicate and goes to sleep in two steps, both holding the lock.    *)
(* Either wait may also wake up spuriously.  parallel_for(0, fn) returns   *)
(* at once and is no step.                                                 *)
(***************************************************************************)
EXTENDS Integers

CONSTANTS
  N,           \* worker threads, 1 at least (the constructor sees to it)
  Counts,      \* the index ranges parallel_for is called with
  MaxCalls     \* bound: calls of parallel_for

ASSUME PoolAssumption ==
  /\ N \in Nat \ {0} /\ Counts \subseteq Nat \ {0} /\ MaxCalls \in Nat

Workers == 1 .. N        \* worker_index + 1: the chunk the worker owns

VARIABLES
  generation, stop, fn, count, chunks,      \* under mutex_
  remaining,                                \* atomic
  done_held,                                \* the caller holds done_mutex_
  caller,      \* where the caller is
  worker,      \* where each worker is
  seen, local, \* each worker's locals; local is [fn, chunks]
  ran          \* history: how often each chunk of this call was run

jobVars == <<generation, stop, fn, count, chunks>>
workerVars == <<worker, seen, local>>
poolVars == <<jobVars, remaining, done_held, caller, workerVars, ran>>

(* The pointer fn_ is the number of the call it belongs to; that call's    *)
(* function object is gone as soon as parallel_for returns.                *)
NoJob == [fn |-> 0, chunks |-> 0]

PoolInit ==
  /\ generation = 0 /\ stop = FALSE /\ fn = 0 /\ count = 0 /\ chunks = 0
  /\ remaining = 0 /\ done_held = FALSE
  /\ caller = "idle"
  /\ worker = [w \in Workers |-> "wait"]
  /\ seen = [w \in Workers |-> 0]
  /\ local = [w \in Workers |-> NoJob]
  /\ ran = [c \in 0 .. N |-> 0]

RunChunk(c) == ran' = [ran EXCEPT ![c] = @ + 1]

-----------------------------------------------------------------------------
(* The caller. *)
ChunksFor(n) == IF n < N + 1 THEN n ELSE N + 1

(* Slip: the caller's chunk is counted off twice. *)
ForWorkers_OneShort(n) == IF n < N THEN n - 1 ELSE N - 1

ForWorkers(n) == ChunksFor(n) - 1

Post(n) ==
  /\ caller = "idle" /\ fn < MaxCalls
  /\ fn' = fn + 1 /\ count' = n /\ chunks' = ChunksFor(n)
  /\ remaining' = ForWorkers(n)
  /\ generation' = generation + 1
  /\ ran' = [c \in 0 .. N |-> 0]
  /\ caller' = "notify"
  /\ UNCHANGED <<stop, done_held, workerVars>>

WakeWorkers ==
  worker' = [w \in Workers |-> IF worker[w] = "asleep" THEN "wait" ELSE worker[w]]

NotifyAll ==
  /\ caller \in {"notify", "stop"}
  /\ WakeWorkers
  /\ caller' = IF caller = "notify" THEN "first" ELSE "join"
  /\ UNCHANGED <<jobVars, remaining, done_held, seen, local, ran>>

RunFirst ==
  /\ caller = "first"
  /\ RunChunk(0)
  /\ caller' = "lock"
  /\ UNCHANGED <<jobVars, remaining, done_held, workerVars>>

LockDone ==
  /\ caller = "lock"
  /\ done_held' = TRUE /\ caller' = "test"
  /\ UNCHANGED <<jobVars, remaining, workerVars, ran>>

AllDone ==
  /\ caller = "test" /\ remaining = 0
  /\ done_held' = FALSE /\ caller' = "idle"
  /\ UNCHANGED <<jobVars, remaining, workerVars, ran>>

NotDone ==
  /\ caller = "test" /\ remaining # 0
  /\ caller' = "sleep"
  /\ UNCHANGED <<jobVars, remaining, done_held, workerVars, ran>>

FallAsleep ==
  /\ caller = "sleep"
  /\ done_held' = FALSE /\ caller' = "asleep"
  /\ UNCHANGED <<jobVars, remaining, workerVars, ran>>

StopPool_NoGeneration ==       \* slip: the flag is set, nothing else
  /\ caller = "idle"
  /\ stop' = TRUE
  /\ caller' = "stop"
  /\ UNCHANGED <<generation, fn, count, chunks, remaining, done_held, workerVars, ran>>

StopPool ==                    \* ~ThreadPool
  /\ caller = "idle"
  /\ stop' = TRUE /\ generation' = generation + 1
  /\ caller' = "stop"
  /\ UNCHANGED <<fn, count, chunks, remaining, done_held, workerVars, ran>>

Join ==
  /\ caller = "join" /\ \A w \in Workers : worker[w] = "exited"
  /\ caller' = "gone"
  /\ UNCHANGED <<jobVars, remaining, done_held, workerVars, ran>>

-----------------------------------------------------------------------------
(* A worker. *)
GoTo(w, pc) == worker' = [worker EXCEPT ![w] = pc]

Wait(w) ==
  /\ worker[w] = "wait" /\ generation = seen[w]
  /\ GoTo(w, "asleep")
  /\ UNCHANGED <<jobVars, remaining, done_held, caller, seen, local, ran>>

Owns_Always(w, n) == TRUE      \* slip: idle workers count themselves off too

Owns(w, n) == w < n

Take(w) ==
  /\ worker[w] = "wait" /\ generation # seen[w]
  /\ seen' = [seen EXCEPT ![w] = generation]
  /\ IF stop
     THEN GoTo(w, "exited") /\ UNCHANGED local
     ELSE /\ local' = [local EXCEPT ![w] = [fn |-> fn, chunks |-> chunks]]
          /\ GoTo(w, IF Owns(w, chunks) THEN "chunk" ELSE "wait")
  /\ UNCHANGED <<jobVars, remaining, done_held, caller, ran>>

Run(w) ==
  /\ worker[w] = "chunk"
  /\ RunChunk(w)
  /\ GoTo(w, "count")
  /\ UNCHANGED <<jobVars, remaining, done_held, caller, seen, local>>

CountOff(w) ==
  /\ worker[w] = "count"
  /\ remaining' = remaining - 1
  /\ GoTo(w, IF remaining = 1 THEN "last" ELSE "wait")
  /\ UNCHANGED <<jobVars, done_held, caller, seen, local, ran>>

NotifyOne_NoLock(w) ==         \* slip: done_mutex_ is not taken
  /\ worker[w] = "last"
  /\ caller' = IF caller = "asleep" THEN "lock" ELSE caller
  /\ GoTo(w, "wait")
  /\ UNCHANGED <<jobVars, remaining, done_held, seen, local, ran>>

NotifyOne(w) ==
  /\ worker[w] = "last" /\ ~done_held
  /\ caller' = IF caller = "asleep" THEN "lock" ELSE caller
  /\ GoTo(w, "wait")
  /\ UNCHANGED <<jobVars, remaining, done_held, seen, local, ran>>

SpuriousWakeUp ==
  \/ /\ caller = "asleep" /\ caller' = "lock"
     /\ UNCHANGED <<jobVars, remaining, done_held, workerVars, ran>>
  \/ \E w \in Workers :
       /\ worker[w] = "asleep" /\ GoTo(w, "wait")
       /\ UNCHANGED <<jobVars, remaining, done_held, caller, seen, local, ran>>

-----------------------------------------------------------------------------
CallerStep ==
  NotifyAll \/ RunFirst \/ LockDone \/ AllDone \/ NotDone \/ FallAsleep \/ Join

WorkerStep(w) == Wait(w) \/ Take(w) \/ Run(w) \/ CountOff(w) \/ NotifyOne(w)

PoolNext ==
  \/ \E n \in Counts : Post(n)
  \/ CallerStep \/ StopPool
  \/ \E w \in Workers : WorkerStep(w)
  \/ SpuriousWakeUp

(* Every thread that can run does, and one that waits for done_mutex_ gets *)
(* it if it is released time and again (a caller that wakes up spuriously  *)
(* without an end does that).  Nobody need call parallel_for again.        *)
PoolSpec ==
  /\ PoolInit /\ [][PoolNext]_poolVars
  /\ WF_poolVars(CallerStep)
  /\ \A w \in Workers : WF_poolVars(WorkerStep(w)) /\ SF_poolVars(NotifyOne(w))

-----------------------------------------------------------------------------
CallerPlaces == {"idle", "notify", "first", "lock", "test", "sleep", "asleep",
                 "stop", "join", "gone"}

(* In parallel_for: the caller's function object exists. *)
InCall == caller \in {"notify", "first", "lock", "test", "sleep", "asleep"}

PoolTypeOK ==
  /\ generation \in Nat /\ stop \in BOOLEAN
  /\ fn \in Nat /\ count \in Nat /\ chunks \in 0 .. N + 1
  /\ remaining \in 0 .. N /\ done_held \in BOOLEAN
  /\ caller \in CallerPlaces
  /\ worker \in [Workers -> {"wait", "asleep", "chunk", "count", "last", "exited"}]
  /\ seen \in [Workers -> Nat]
  /\ local \in [Workers -> [fn : Nat, chunks : 0 .. N + 1]]
  /\ ran \in [0 .. N -> Nat]

(* A worker that is about to call *fn, or is in it, uses the function of   *)
(* the parallel_for under way: none outlives the call it belongs to, late  *)
(* wake-ups and skipped generations included.                              *)
NoUseAfterReturn ==
  \A w \in Workers : worker[w] = "chunk" => InCall /\ local[w].fn = fn

(* When parallel_for has returned, each of its chunks was run exactly once *)
(* and nothing else was.                                                   *)
ChunksRunOnce ==
  caller = "idle" =>
    \A c \in 0 .. N : ran[c] = IF c < chunks THEN 1 ELSE 0

(* run_chunk's [begin, end) for a chunk. *)
Share_Truncated(c, k, n) == c * (n \div k) .. (c + 1) * (n \div k) - 1   \* slip

Share(c, k, n) == (n * c) \div k .. (n * (c + 1)) \div k - 1

(* So each index (a vehicle whose reply is due) is passed to fn once: two  *)
(* replies to a frame, or none, would break that vehicle's lockstep.       *)
EachIndexOnce ==
  caller = "idle" =>
    \A i \in 0 .. count - 1 :
      \E c \in 0 .. chunks - 1 :
        /\ i \in Share(c, chunks, count) /\ ran[c] = 1
        /\ \A d \in 0 .. chunks - 1 :
             d # c /\ ran[d] > 0 => i \notin Share(d, chunks, count)

(* parallel_for returns: the last worker's wake-up cannot be lost between  *)
(* the caller's look at remaining_ and its sleep.                          *)
CallReturns == InCall ~> caller = "idle"

(* The destructor's join returns. *)
JoinReturns == caller = "stop" ~> caller = "gone"
==============================================================================
