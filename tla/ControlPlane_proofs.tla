------------------------ MODULE ControlPlane_proofs ------------------------
(***************************************************************************)
(* Theorems of ControlPlane, for any commands, fleets and numbers of       *)
(* instances, ids and requests.                                            *)
(*                                                                         *)
(* Most steps touch neither the fleet nor the manager nor the processes.   *)
(* Those that do keep the books of all three in step: every vehicle id was *)
(* given out before, so a process that is forked is a new one.             *)
(***************************************************************************)
EXTENDS ControlPlane, TLAPS

USE ControlAssumption

Managed == {"running", "stopping", "zombie"}

(* Types, as far as they are needed. *)
Typed ==
  /\ next_vehicle_id \in Nat \ {0}
  /\ \A v \in fleet : /\ v.id \in Nat \ {0} /\ v.id < next_vehicle_id
                      /\ v.instance \in Instances
  /\ sitl \in [Ids -> Managed \cup {"none", "reaped"}]
  /\ feeds \in [Ids -> Int] /\ inherited \in [Ids -> SUBSET Int]
  /\ \A p \in Ids : p >= next_vehicle_id => sitl[p] = "none"

(* The manager's instances and the world's bodies, until main returns. *)
Books ==
  tick_pc # "exited" =>
    /\ used = {v.instance : v \in fleet}
    /\ bodies = {v.id : v \in fleet}

Children == children = {p \in Ids : sitl[p] \in Managed}

Distinct == \A v, w \in fleet : v # w => v.id # w.id /\ v.instance # w.instance

(* A live SITL holds its own port, and nobody else's feeds a vehicle. *)
OwnPort ==
  /\ \A p \in Ids : Alive(p) => feeds[p] \in inherited[p]
  /\ OneSitlPerPort

CInv == Typed /\ Books /\ Children /\ Distinct /\ OwnPort

LEMMA InitCInv == Init => CInv
<1> SUFFICES ASSUME Init PROVE CInv
  OBVIOUS
<1> USE DEF Ids, Instances, None
<1>1. PICK n \in Vehicles :
        /\ fleet = {[id |-> k, instance |-> BaseInstance + k - 1, managed |-> FALSE] :
                      k \in 1 .. n}
        /\ next_vehicle_id = n + 1
        /\ bodies = 1 .. n
        /\ used = BaseInstance .. BaseInstance + n - 1
  BY DEF Init
<1>2. n \in Nat /\ n <= MaxId /\ BaseInstance \in Nat
  OBVIOUS
<1>3. /\ sitl = [p \in Ids |-> "none"] /\ feeds = [p \in Ids |-> -1]
      /\ inherited = [p \in Ids |-> {}] /\ children = {}
  BY DEF Init
<1> DEFINE V(k) == [id |-> k, instance |-> BaseInstance + k - 1, managed |-> FALSE]
<1>a. \A k \in 1 .. n : /\ V(k) \in fleet /\ V(k).id = k
                        /\ V(k).instance = BaseInstance + k - 1
  BY <1>1
<1>b. \A v \in fleet : \E k \in 1 .. n : v = V(k)
  BY <1>1
<1> HIDE DEF V
<1>4. Typed
  <2>1. next_vehicle_id \in Nat \ {0}
    BY <1>1, <1>2
  <2>2. \A v \in fleet : /\ v.id \in Nat \ {0} /\ v.id < next_vehicle_id
                         /\ v.instance \in Instances
    BY <1>1, <1>2, <1>a, <1>b
  <2> QED
    BY <1>3, <2>1, <2>2 DEF Typed
<1>5. Books
  <2>1. used = {v.instance : v \in fleet}
    <3>1. ASSUME NEW i \in used PROVE \E v \in fleet : v.instance = i
      <4> DEFINE k == i - BaseInstance + 1
      <4>1. k \in 1 .. n /\ BaseInstance + k - 1 = i
        BY <1>1, <1>2
      <4> QED
        BY <4>1, <1>a
    <3>2. \A v \in fleet : v.instance \in used
      BY <1>1, <1>2, <1>a, <1>b
    <3> QED
      BY <3>1, <3>2
  <2>2. bodies = {v.id : v \in fleet}
    BY <1>1, <1>2, <1>a, <1>b
  <2> QED
    BY <2>1, <2>2 DEF Books
<1>6. Children
  BY <1>3 DEF Children, Managed
<1>7. Distinct
  BY <1>2, <1>a, <1>b DEF Distinct
<1>8. OwnPort
  BY <1>3 DEF OwnPort, OneSitlPerPort, Alive
<1> QED
  BY <1>4, <1>5, <1>6, <1>7, <1>8 DEF CInv

(* A step that leaves the fleet, the manager and the processes alone, and  *)
(* does not undo the exit.                                                 *)
LEMMA ElsewhereKeeps ==
  ASSUME CInv, UNCHANGED <<fleetVars, managerVars, osVars>>,
         tick_pc = "exited" => tick_pc' = "exited"
  PROVE  CInv'
BY DEF CInv, Typed, Books, Children, Distinct, OwnPort, OneSitlPerPort, Alive,
       fleetVars, managerVars, osVars

(* Processes that end, or are told to, or are waited for. *)
LEMMA TerminateKeeps ==
  ASSUME Typed, NEW ps, Terminate(ps)
  PROVE  /\ sitl' \in [Ids -> Managed \cup {"none", "reaped"}]
         /\ \A p \in Ids : /\ sitl'[p] \in Managed <=> sitl[p] \in Managed
                           /\ sitl'[p] = "none" <=> sitl[p] = "none"
                           /\ Alive(p)' <=> Alive(p)
BY DEF Typed, Terminate, Managed, Alive

LEMMA RemoveKeeps ==
  ASSUME CInv, NEW v \in fleet, Remove(v), tick_pc # "exited"
  PROVE  CInv'
<1>1. Typed /\ Books /\ Children /\ Distinct /\ OwnPort
  BY DEF CInv
<1>2. /\ Terminate(IF v.managed THEN {v.id} ELSE {})
      /\ bodies' = bodies \ {v.id} /\ used' = used \ {v.instance}
      /\ fleet' = fleet \ {v}
      /\ UNCHANGED <<next_vehicle_id, children, feeds, inherited>>
  BY DEF Remove, Release
<1>3. /\ sitl' \in [Ids -> Managed \cup {"none", "reaped"}]
      /\ \A p \in Ids : /\ sitl'[p] \in Managed <=> sitl[p] \in Managed
                        /\ sitl'[p] = "none" <=> sitl[p] = "none"
                        /\ Alive(p)' <=> Alive(p)
  BY <1>1, <1>2, TerminateKeeps, Zenon
<1>4. Typed'
  BY <1>1, <1>2, <1>3 DEF Typed
<1>5. Books'
  <2>1. /\ used = {w.instance : w \in fleet} /\ bodies = {w.id : w \in fleet}
        /\ \A w \in fleet : w # v => w.id # v.id /\ w.instance # v.instance
    BY <1>1 DEF Books, Distinct
  <2>2. /\ used' = {w.instance : w \in fleet'}
        /\ bodies' = {w.id : w \in fleet'}
    BY <1>2, <2>1
  <2> QED
    BY <2>2 DEF Books
<1>6. Children'
  BY <1>1, <1>2, <1>3 DEF Children
<1>7. Distinct'
  BY <1>1, <1>2 DEF Distinct
<1>8. OwnPort'
  BY <1>1, <1>2, <1>3 DEF OwnPort, OneSitlPerPort
<1> QED
  BY <1>4, <1>5, <1>6, <1>7, <1>8 DEF CInv

(* A spawn that succeeds: the id is new, and so are instance and port. *)
LEMMA SpawnedKeeps == ASSUME CInv, Spawned PROVE CInv'
<1>1. Typed /\ Books /\ Children /\ Distinct /\ OwnPort
  BY DEF CInv
<1> DEFINE id == next_vehicle_id
<1>2. PICK i \in Instances :
        /\ Claim(i) /\ ~PortHeld(i)
        /\ used' = used \cup {i}
        /\ fleet' = fleet \cup {[id |-> id, instance |-> i, managed |-> Request.launch]}
        /\ IF Request.launch
           THEN /\ sitl' = [sitl EXCEPT ![id] = "running"]
                /\ feeds' = [feeds EXCEPT ![id] = i]
                /\ inherited' = [inherited EXCEPT ![id] = OpenAtFork(i)]
                /\ children' = children \cup {id}
           ELSE UNCHANGED <<osVars, children>>
  BY DEF Spawned, NewId
<1>3. /\ tick_pc = "drain" /\ id <= MaxId /\ next_vehicle_id' = id + 1
      /\ bodies' = bodies \cup {id} /\ tick_pc' = tick_pc
  BY DEF Spawned, NewId, Current, Resolve
<1>4. id \in Ids /\ id \in Nat \ {0} /\ sitl[id] = "none" /\ i \in Int
  BY <1>1, <1>3 DEF Typed, Ids, Instances
<1>5. \A v \in fleet : v.id # id /\ v.instance # i
  BY <1>1, <1>2, <1>3 DEF Typed, PortHeld
<1>6. \A p \in Ids : Alive(p) => feeds[p] # i
  BY <1>1, <1>2 DEF OwnPort, PortHeld
<1> DEFINE new == [id |-> id, instance |-> i, managed |-> Request.launch]
<1>7. /\ fleet' = fleet \cup {new} /\ new.id = id /\ new.instance = i
  BY <1>2
<1>8. /\ sitl' \in [Ids -> Managed \cup {"none", "reaped"}]
      /\ feeds' \in [Ids -> Int] /\ inherited' \in [Ids -> SUBSET Int]
      /\ \A p \in Ids \ {id} : /\ sitl'[p] = sitl[p] /\ feeds'[p] = feeds[p]
                               /\ inherited'[p] = inherited[p]
      /\ sitl'[id] = "running" => feeds'[id] = i /\ i \in inherited'[id]
      /\ children' = children \cup (IF Request.launch THEN {id} ELSE {})
      /\ sitl'[id] = IF Request.launch THEN "running" ELSE "none"
  <2>1. OpenAtFork(i) \in SUBSET Int /\ i \in OpenAtFork(i)
    BY <1>1, <1>4 DEF Typed, OpenAtFork, Instances
  <2>2. CASE Request.launch
    BY <1>1, <1>2, <1>4, <2>1, <2>2 DEF Typed, Managed
  <2>3. CASE ~Request.launch
    BY <1>1, <1>2, <1>4, <2>3 DEF Typed, osVars
  <2> QED
    BY <2>2, <2>3
<1> HIDE DEF new
<1>9. Typed'
  BY <1>1, <1>2, <1>3, <1>4, <1>7, <1>8 DEF Typed
<1>10. Books'
  BY <1>1, <1>2, <1>3, <1>7 DEF Books
<1>11. Children'
  BY <1>1, <1>4, <1>8 DEF Children, Managed
<1>12. Distinct'
  BY <1>1, <1>5, <1>7 DEF Distinct
<1>13. OwnPort'
  <2>1. \A p \in Ids \ {id} : Alive(p)' <=> Alive(p)
    BY <1>8 DEF Alive
  <2>2. \A p \in Ids : p = id /\ Alive(p)' => sitl'[p] = "running"
    BY <1>8 DEF Alive
  <2>3. ASSUME NEW p \in Ids, Alive(p)'
        PROVE  \/ p # id /\ Alive(p) /\ feeds'[p] = feeds[p] /\ inherited'[p] = inherited[p]
               \/ p = id /\ feeds'[p] = i /\ i \in inherited'[p]
    BY <1>8, <2>1, <2>2, <2>3
  <2>4. \A p \in Ids : Alive(p)' => feeds'[p] \in inherited'[p]
    BY <1>1, <2>3 DEF OwnPort
  <2>5. ASSUME NEW p \in Ids, NEW v \in fleet', Alive(p)', feeds'[p] = v.instance
        PROVE  p = v.id
    <3>1. CASE p = id
      BY <1>5, <1>7, <2>3, <2>5, <3>1
    <3>2. CASE p # id
      <4>1. Alive(p) /\ feeds[p] = v.instance
        BY <2>3, <2>5, <3>2
      <4>2. v # new
        BY <1>6, <1>7, <4>1
      <4> QED
        BY <1>1, <1>7, <4>1, <4>2 DEF OwnPort, OneSitlPerPort
    <3> QED
      BY <3>1, <3>2
  <2> QED
    BY <2>4, <2>5 DEF OwnPort, OneSitlPerPort
<1> QED
  BY <1>9, <1>10, <1>11, <1>12, <1>13 DEF CInv

(* A fork that fails costs an id. *)
LEMMA LaunchFailsKeeps == ASSUME CInv, LaunchFails PROVE CInv'
<1>1. /\ tick_pc = "drain" /\ tick_pc' = tick_pc
      /\ next_vehicle_id' = next_vehicle_id + 1
      /\ UNCHANGED <<fleet, bodies, used, children, sitl, feeds, inherited>>
  BY DEF LaunchFails, Resolve, Current, managerVars, osVars
<1>2. Typed'
  BY <1>1 DEF CInv, Typed, Ids
<1> QED
  BY <1>1, <1>2 DEF CInv, Books, Children, Distinct, OwnPort, OneSitlPerPort, Alive

LEMMA DieKeeps == ASSUME CInv, NEW p \in Ids, Die(p) PROVE CInv'
BY DEF CInv, Die, Typed, Books, Children, Distinct, OwnPort, OneSitlPerPort, Alive,
       Managed, fleetVars, managerVars

LEMMA ReapKeeps == ASSUME CInv, Reap PROVE CInv'
BY DEF CInv, Reap, StillChild, Typed, Books, Children, Distinct, OwnPort,
       OneSitlPerPort, Alive, Managed, fleetVars

LEMMA WaitChildKeeps == ASSUME CInv, NEW p \in Ids, WaitChild(p) PROVE CInv'
BY DEF CInv, WaitChild, Reaped, Typed, Books, Children, Distinct, OwnPort,
       OneSitlPerPort, Alive, Managed, fleetVars

LEMMA TearDownKeeps == ASSUME CInv, TearDown PROVE CInv'
<1>1. Typed /\ Children /\ OwnPort
  BY DEF CInv
<1>2. /\ Terminate(children) /\ fleet' = {} /\ tick_pc' = "exited"
      /\ UNCHANGED <<next_vehicle_id, children, feeds, inherited>>
  BY DEF TearDown, SignalChildren, managerVars
<1>3. /\ sitl' \in [Ids -> Managed \cup {"none", "reaped"}]
      /\ \A p \in Ids : /\ sitl'[p] \in Managed <=> sitl[p] \in Managed
                        /\ sitl'[p] = "none" <=> sitl[p] = "none"
                        /\ Alive(p)' <=> Alive(p)
  BY <1>1, <1>2, TerminateKeeps, Zenon
<1> QED
  BY <1>1, <1>2, <1>3 DEF CInv, Typed, Books, Children, Distinct, OwnPort, OneSitlPerPort

LEMMA NextCInv == ASSUME CInv, [Next]_vars PROVE CInv'
<1>1. ASSUME NEW r \in Requests, Answer(r) \/ TimeOut(r) PROVE CInv'
  BY <1>1, ElsewhereKeeps DEF Answer, TimeOut, Finish, fleetVars, managerVars, osVars
<1>2. ASSUME NEW r \in Requests, NEW c \in Commands, Push(r, c) PROVE CInv'
  BY <1>2, ElsewhereKeeps DEF Push
<1>3. ASSUME NEW p \in Ids, Die(p) \/ WaitChild(p) PROVE CInv'
  BY <1>3, DieKeeps, WaitChildKeeps
<1>4. CASE ListenStarts
  BY <1>4, ElsewhereKeeps DEF ListenStarts
<1>5. CASE Constructed \/ Drain \/ SignalStop \/ StopServer \/ JoinServer
  BY <1>5, ElsewhereKeeps DEF Constructed, Drain, SignalStop, StopServer, JoinServer
<1>6. CASE SpawnRefused \/ SpawnBindFails \/ BatteryReset \/ NoSuchVehicle \/ PathCheck
  BY <1>6, ElsewhereKeeps
     DEF SpawnRefused, SpawnBindFails, BatteryReset, NoSuchVehicle, PathCheck, Resolve
<1>7. CASE PublishSnapshot \/ BarrierOpen \/ LoopFails
  BY <1>7, ElsewhereKeeps DEF PublishSnapshot, BarrierOpen, LoopFails
<1>8. CASE Despawn
  BY <1>8, RemoveKeeps DEF Despawn, Current
<1>9. CASE GraceDespawn
  BY <1>9, RemoveKeeps DEF GraceDespawn
<1>10. CASE LaunchFails \/ Spawned \/ Reap \/ TearDown
  BY <1>10, LaunchFailsKeeps, SpawnedKeeps, ReapKeeps, TearDownKeeps
<1>11. CASE UNCHANGED vars
  BY <1>11, ElsewhereKeeps DEF vars
<1> QED
  BY <1>1, <1>2, <1>3, <1>4, <1>5, <1>6, <1>7, <1>8, <1>9, <1>10, <1>11
     DEF Next, TickThread

LEMMA CInvHolds == Spec => []CInv
  BY InitCInv, NextCInv, PTL DEF Spec

-----------------------------------------------------------------------------
(* No instance, body or child process leaks, whatever fails half-way in a  *)
(* spawn and whichever way a vehicle goes (main.cpp, drain_commands and    *)
(* despawn; manager.cpp).                                                  *)
THEOREM NoLeaks == Spec => []NothingLeaks
<1>1. CInv => NothingLeaks
  BY DEF CInv, Books, Children, Distinct, NothingLeaks, Managed
<1>2. QED
  BY <1>1, CInvHolds, PTL

(* The SITL of a despawned vehicle never feeds another vehicle's port, as  *)
(* it holds its own port for as long as it lives (manager.cpp, stop_sitl). *)
THEOREM OldSitlsFeedNobody == Spec => []OneSitlPerPort
<1>1. CInv => OneSitlPerPort
  BY DEF CInv, OwnPort
<1>2. QED
  BY <1>1, CInvHolds, PTL
=============================================================================
