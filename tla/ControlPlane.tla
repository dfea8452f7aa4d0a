---------------------------- MODULE ControlPlane ----------------------------
(***************************************************************************)
(* The control plane: HTTP handlers (src/api/control_server.cpp), the      *)
(* command queue, and what the tick thread does with a command             *)
(* (App::drain_commands and App::despawn in src/main.cpp,                  *)
(* src/vehicle/manager.cpp), down to child processes and UDP ports.        *)
(*                                                                         *)
(* A handler thread pushes its command and waits up to 10 s for the        *)
(* promise.  The tick thread drains the queue at a tick boundary and works *)
(* the commands off one by one; only handlers and child processes act in   *)
(* between, so one command is one action.  The tick itself is the modules  *)
(* StrictLoop and InteractiveLoop; battery and path commands change        *)
(* nothing here but their promise.                                         *)
(***************************************************************************)
EXTENDS Integers, Sequences, FiniteSets

CONSTANTS
  Commands,      \* the commands clients send
  Requests,      \* bound: 1 .. n, the HTTP requests, in the order they come
  Vehicles,      \* values of --vehicles: external vehicles there from the start
  BaseInstance, MaxInstance,
  MaxId          \* bound: vehicle ids ever given out

(* Instances that can be allocated, and vehicle ids; a managed SITL is     *)
(* named after the vehicle it was forked for.                              *)
Instances == BaseInstance .. MaxInstance
Ids == 1 .. MaxId

SpawnCommand(instance, launch) == [op |-> "spawn", instance |-> instance, launch |-> launch]
DespawnCommand(id) == [op |-> "despawn", id |-> id]
BatteryResetCommand(id) == [op |-> "battery", id |-> id]
PathCheckCommand == [op |-> "path"]
NoCommand == [op |-> "none"]

AnyInstance == -1               \* SpawnRequest::instance: skysim allocates
None == -1

ASSUME ControlAssumption ==
  /\ BaseInstance \in Nat /\ MaxId \in Nat
  /\ MaxInstance \in Nat /\ MaxInstance - BaseInstance >= MaxId
  /\ Requests \subseteq Nat \ {0} /\ Vehicles \subseteq 0 .. MaxId
  /\ \A c \in Commands : c.op \in {"spawn", "despawn", "battery", "path"}

VARIABLES
  handler,       \* per request: "new", "waiting" or "replied"
  command,       \* per request: the command it pushed
  promise,       \* per request: what the tick thread answered
  reply,         \* per request: the HTTP status, or 0
  pending,       \* CommandQueue::pending_, requests in order
  batch,         \* what drain() returned and is not worked off yet
  server,        \* the HTTP thread: "bound", "listening" or "stopped"
  tick_pc,       \* "starting", "boundary", "drain", "body", "stopped",
                 \* "joining", "joined", "exited"
  fleet,         \* [id, instance, managed] records; managed: pid has a value
  next_vehicle_id, used, children,
  bodies,        \* vehicle bodies in the world, by vehicle id
  sitl,          \* per id: the child process
  feeds,         \* per id: the instance whose port the SITL sends to, or None
  inherited,     \* per id: instances whose port the child's descriptors hold
  snapshot       \* ids in vehicle_snapshot

httpVars    == <<handler, command, promise, reply, pending, server>>
managerVars == <<used, children>>
fleetVars   == <<fleet, next_vehicle_id, bodies>>
osVars      == <<sitl, feeds, inherited>>
vars == <<httpVars, batch, tick_pc, fleetVars, managerVars, osVars, snapshot>>

Unset == [ok |-> FALSE, id |-> -1]
Failed == [ok |-> FALSE, id |-> 0]
Done(id) == [ok |-> TRUE, id |-> id]

Alive(p) == sitl[p] \in {"running", "stopping"}

Init ==
  /\ handler = [r \in Requests |-> "new"]
  /\ command = [r \in Requests |-> NoCommand]
  /\ promise = [r \in Requests |-> Unset]
  /\ reply = [r \in Requests |-> 0]
  /\ pending = <<>> /\ batch = <<>> /\ tick_pc = "starting" /\ server = "bound"
  /\ \E n \in Vehicles :         \* main's loop over opt.vehicles
       /\ fleet = {[id |-> k, instance |-> BaseInstance + k - 1, managed |-> FALSE] :
                      k \in 1 .. n}
       /\ next_vehicle_id = n + 1
       /\ bodies = 1 .. n
       /\ used = BaseInstance .. BaseInstance + n - 1
  /\ children = {}
  /\ sitl = [p \in Ids |-> "none"]
  /\ feeds = [p \in Ids |-> None]
  /\ inherited = [p \in Ids |-> {}]
  /\ snapshot = {}

-----------------------------------------------------------------------------
(* ControlServer's constructor starts a thread that listens (external: the *)
(* library sets is_running once it does) and waits for it: a stop() that   *)
(* came earlier would be lost.  The wait gives up after 1 s; a thread that *)
(* takes longer to start is left out.                                      *)
ListenStarts ==
  /\ server = "bound"
  /\ server' = "listening"
  /\ UNCHANGED <<handler, command, promise, reply, pending, batch, tick_pc, fleetVars,
                 managerVars, osVars, snapshot>>

Constructed_NoWait ==          \* slip: the constructor does not wait
  /\ tick_pc = "starting"
  /\ tick_pc' = "boundary"
  /\ UNCHANGED <<httpVars, batch, fleetVars, managerVars, osVars, snapshot>>

Constructed ==
  /\ tick_pc = "starting" /\ server = "listening"
  /\ tick_pc' = "boundary"
  /\ UNCHANGED <<httpVars, batch, fleetVars, managerVars, osVars, snapshot>>

(* HTTP handlers; the server takes no request once it has been stopped. *)
Push(r, c) ==
  /\ handler[r] = "new" /\ \A q \in Requests : q < r => handler[q] # "new"
  /\ server = "listening"
  /\ handler' = [handler EXCEPT ![r] = "waiting"]
  /\ command' = [command EXCEPT ![r] = c]
  /\ pending' = Append(pending, r)
  /\ UNCHANGED <<promise, reply, server, batch, tick_pc, fleetVars, managerVars, osVars,
                 snapshot>>

Finish(r, status) ==
  /\ handler' = [handler EXCEPT ![r] = "replied"]
  /\ reply' = [reply EXCEPT ![r] = status]
  /\ UNCHANGED <<command, promise, pending, server, batch, tick_pc, fleetVars,
                 managerVars, osVars, snapshot>>

Answer(r) ==
  /\ handler[r] = "waiting" /\ promise[r] # Unset
  /\ Finish(r, IF promise[r].ok THEN 200
               ELSE IF command[r].op = "spawn" THEN 503 ELSE 404)

(* 10 s without an answer; the tick thread may always be slower. *)
TimeOut(r) ==
  /\ handler[r] = "waiting" /\ promise[r] = Unset
  /\ Finish(r, 504)

-----------------------------------------------------------------------------
(* Child processes (external): a SITL may die at any time, and does after  *)
(* SIGTERM.  Its descriptors close when it dies.                           *)
Die(p) ==
  /\ Alive(p)
  /\ sitl' = [sitl EXCEPT ![p] = "zombie"]
  /\ inherited' = [inherited EXCEPT ![p] = {}]
  /\ UNCHANGED <<httpVars, batch, tick_pc, fleetVars, managerVars, feeds, snapshot>>

-----------------------------------------------------------------------------
(* The tick thread: while (!g_stop) drain_commands(). *)
SignalStop ==
  /\ tick_pc = "boundary"
  /\ tick_pc' = "stopped"
  /\ UNCHANGED <<httpVars, batch, fleetVars, managerVars, osVars, snapshot>>

Drain ==
  /\ tick_pc = "boundary"
  /\ batch' = pending /\ pending' = <<>>
  /\ tick_pc' = "drain"
  /\ UNCHANGED <<handler, command, promise, reply, server, fleetVars, managerVars, osVars,
                 snapshot>>

(* The command at the head of the batch is dealt with and answered. *)
Current(op) == tick_pc = "drain" /\ batch # <<>> /\ command[Head(batch)].op = op
Request == command[Head(batch)]

Resolve(result) ==
  /\ promise' = [promise EXCEPT ![Head(batch)] = result]
  /\ batch' = Tail(batch)
  /\ UNCHANGED <<handler, command, reply, pending, server, tick_pc, snapshot>>

(* A port is taken while any process has a descriptor of its socket. *)
PortHeld(i) ==
  \/ \E v \in fleet : v.instance = i
  \/ \E p \in Ids : Alive(p) /\ i \in inherited[p]

(* allocate_instance, the lowest free one, or allocate_instance_at *)
Claim(i) ==
  /\ i \in Instances \ used
  /\ IF Request.instance = AnyInstance THEN \A j \in Instances \ used : i <= j
     ELSE i = Request.instance

SpawnRefused_Silent ==         \* slip: `continue' before the promise is set
  /\ Current("spawn")
  /\ Request.instance # AnyInstance /\ Request.instance \notin Instances \ used
  /\ batch' = Tail(batch)
  /\ UNCHANGED <<httpVars, tick_pc, snapshot, fleetVars, managerVars, osVars>>

SpawnRefused ==
  /\ Current("spawn")
  /\ Request.instance # AnyInstance /\ Request.instance \notin Instances \ used
  /\ Resolve(Failed)
  /\ UNCHANGED <<fleetVars, managerVars, osVars>>

(* The endpoint's constructor throws: the port is taken, or the process    *)
(* may open no more sockets.  The instance is released again.              *)
SpawnBindFails ==
  /\ Current("spawn")
  /\ \E i \in Instances : Claim(i)
  /\ Resolve(Failed)
  /\ UNCHANGED <<fleetVars, managerVars, osVars>>

(* fork() fails: body, endpoint and instance are given back, the id is     *)
(* not.                                                                    *)
LaunchFails_KeepsBody ==       \* slip: the body stays in the world
  /\ Current("spawn") /\ Request.launch
  /\ next_vehicle_id <= MaxId
  /\ \E i \in Instances : Claim(i) /\ ~PortHeld(i)
  /\ Resolve(Failed)
  /\ next_vehicle_id' = next_vehicle_id + 1
  /\ bodies' = bodies \cup {next_vehicle_id}
  /\ UNCHANGED <<fleet, managerVars, osVars>>

LaunchFails ==
  /\ Current("spawn") /\ Request.launch
  /\ next_vehicle_id <= MaxId
  /\ \E i \in Instances : Claim(i) /\ ~PortHeld(i)
  /\ Resolve(Failed)
  /\ next_vehicle_id' = next_vehicle_id + 1
  /\ UNCHANGED <<fleet, bodies, managerVars, osVars>>

NewId == next_vehicle_id

(* What fork() copies: every socket that is open, the new one included.    *)
OpenAtFork_CloseOnExec(i) == {}     \* slip: the child gets none of them

OpenAtFork(i) == {v.instance : v \in fleet} \cup {i}

Spawned ==
  LET id == NewId
  IN /\ Current("spawn") /\ id <= MaxId
     /\ \E i \in Instances :
          /\ Claim(i) /\ ~PortHeld(i)
          /\ used' = used \cup {i}
          /\ fleet' = fleet \cup {[id |-> id, instance |-> i, managed |-> Request.launch]}
          /\ IF Request.launch
             THEN /\ sitl' = [sitl EXCEPT ![id] = "running"]
                  /\ feeds' = [feeds EXCEPT ![id] = i]
                  /\ inherited' = [inherited EXCEPT ![id] = OpenAtFork(i)]
                  /\ children' = children \cup {id}
             ELSE UNCHANGED <<osVars, children>>
     /\ next_vehicle_id' = next_vehicle_id + 1
     /\ bodies' = bodies \cup {id}
     /\ Resolve(Done(id))

(* App::despawn; stop_sitl only signals, reap() collects later. *)
Terminate(ps) ==
  sitl' = [p \in Ids |-> IF p \in ps /\ sitl[p] = "running" THEN "stopping" ELSE sitl[p]]

Release(v) == used \ {v.instance}

Remove(v) ==
  /\ Terminate(IF v.managed THEN {v.id} ELSE {})
  /\ bodies' = bodies \ {v.id}
  /\ used' = Release(v)
  /\ fleet' = fleet \ {v}
  /\ UNCHANGED <<next_vehicle_id, children, feeds, inherited>>

Despawn ==
  /\ Current("despawn")
  /\ \E v \in fleet : v.id = Request.id /\ Remove(v)
  /\ Resolve(Done(Request.id))

BatteryReset ==
  /\ Current("battery")
  /\ \E v \in fleet : v.id = Request.id
  /\ Resolve(Done(Request.id))
  /\ UNCHANGED <<fleetVars, managerVars, osVars>>

NoSuchVehicle ==
  /\ Current("despawn") \/ Current("battery")
  /\ \A v \in fleet : v.id # Request.id
  /\ Resolve(Failed)
  /\ UNCHANGED <<fleetVars, managerVars, osVars>>

PathCheck ==
  /\ Current("path")
  /\ Resolve(Done(0))
  /\ UNCHANGED <<fleetVars, managerVars, osVars>>

(* manager->reap() after the last command. *)
Reaped(p) == children' = children \ {p} /\ sitl' = [sitl EXCEPT ![p] = "reaped"]

Reap_FirstOnly ==              \* slip: only the oldest child is waited for
  /\ tick_pc = "drain" /\ batch = <<>>
  /\ IF \E p \in children : sitl[p] = "zombie" /\ \A q \in children : p <= q
     THEN \E p \in children : (\A q \in children : p <= q) /\ Reaped(p)
     ELSE UNCHANGED <<sitl, children>>
  /\ tick_pc' = "body"
  /\ UNCHANGED <<httpVars, batch, fleetVars, used, feeds, inherited, snapshot>>

StillChild(p) == sitl[p] # "zombie"

Reap ==
  /\ tick_pc = "drain" /\ batch = <<>>
  /\ children' = {p \in children : StillChild(p)}
  /\ sitl' = [p \in Ids |-> IF p \in children /\ sitl[p] = "zombie"
                            THEN "reaped" ELSE sitl[p]]
  /\ tick_pc' = "body"
  /\ UNCHANGED <<httpVars, batch, fleetVars, used, feeds, inherited, snapshot>>

(* The rest of an iteration: a frozen vehicle's grace may expire ... *)
GraceDespawn ==
  /\ tick_pc = "body"
  /\ \E v \in fleet : Remove(v)
  /\ UNCHANGED <<httpVars, batch, tick_pc, snapshot>>

(* ... and the snapshot is published, unless the strict barrier is open.   *)
PublishSnapshot ==
  /\ tick_pc = "body"
  /\ snapshot' = {v.id : v \in fleet}
  /\ tick_pc' = "boundary"
  /\ UNCHANGED <<httpVars, batch, fleetVars, managerVars, osVars>>

BarrierOpen ==
  /\ tick_pc = "body"
  /\ tick_pc' = "boundary"
  /\ UNCHANGED <<httpVars, batch, fleetVars, managerVars, osVars, snapshot>>

LoopFails ==                   \* strict abort, reply overflow
  /\ tick_pc = "body"
  /\ tick_pc' = "stopped"
  /\ UNCHANGED <<httpVars, batch, fleetVars, managerVars, osVars, snapshot>>

(* api.reset(): stop(), which does nothing before the thread listens, ...  *)
StopServer ==
  /\ tick_pc = "stopped"
  /\ server' = IF server = "listening" THEN "stopped" ELSE server
  /\ tick_pc' = "joining"
  /\ UNCHANGED <<handler, command, promise, reply, pending, batch, fleetVars, managerVars,
                 osVars, snapshot>>

(* ... and the join: the thread ends once its handlers have.               *)
JoinServer ==
  /\ tick_pc = "joining" /\ server = "stopped"
  /\ \A r \in Requests : handler[r] # "waiting"
  /\ tick_pc' = "joined"
  /\ UNCHANGED <<httpVars, batch, fleetVars, managerVars, osVars, snapshot>>

(* ~App: the slots go, then ~VehicleManager signals every child ... *)
SignalChildren_Omitted == Terminate({})      \* slip: waits, but signals nobody

SignalChildren == Terminate(children)

TearDown ==
  /\ tick_pc = "joined"
  /\ SignalChildren
  /\ fleet' = {}
  /\ tick_pc' = "exited"
  /\ UNCHANGED <<httpVars, batch, next_vehicle_id, bodies, managerVars, feeds,
                 inherited, snapshot>>

(* ... and waits for each. *)
WaitChild(p) ==
  /\ tick_pc = "exited" /\ p \in children /\ sitl[p] = "zombie"
  /\ Reaped(p)
  /\ UNCHANGED <<httpVars, batch, tick_pc, fleetVars, used, feeds, inherited, snapshot>>

-----------------------------------------------------------------------------
TickThread ==
  \/ Constructed \/ Drain
  \/ SpawnRefused \/ SpawnBindFails \/ LaunchFails \/ Spawned
  \/ Despawn \/ BatteryReset \/ NoSuchVehicle \/ PathCheck
  \/ Reap \/ PublishSnapshot \/ BarrierOpen
  \/ StopServer \/ JoinServer \/ TearDown
  \/ \E p \in Ids : WaitChild(p)

Next ==
  \/ \E r \in Requests : Answer(r) \/ TimeOut(r) \/ \E c \in Commands : Push(r, c)
  \/ \E p \in Ids : Die(p)
  \/ ListenStarts \/ TickThread \/ GraceDespawn \/ LoopFails \/ SignalStop

(* The tick thread runs, the server starts, handlers wait no longer than   *)
(* 10 s, and a SITL that is sent SIGTERM exits.                            *)
Spec ==
  /\ Init /\ [][Next]_vars
  /\ WF_vars(TickThread) /\ WF_vars(ListenStarts)
  /\ \A r \in Requests : WF_vars(Answer(r) \/ TimeOut(r))
  /\ \A p \in Ids : WF_vars(sitl[p] = "stopping" /\ Die(p))

-----------------------------------------------------------------------------
(* Whatever fails half-way, a spawn leaves nothing behind: instances in    *)
(* use and bodies in the world are those of the fleet, no two vehicles     *)
(* share an instance, hence a port, and the manager knows every child that *)
(* has not been waited for.                                                *)
NothingLeaks ==
  tick_pc # "exited" =>
    /\ used = {v.instance : v \in fleet}
    /\ bodies = {v.id : v \in fleet}
    /\ children = {p \in Ids : sitl[p] \in {"running", "stopping", "zombie"}}
    /\ \A v, w \in fleet : v # w => v.id # w.id /\ v.instance # w.instance

(* A SITL that still runs never feeds another vehicle's port, although     *)
(* despawn releases the instance without waiting for the process: its copy *)
(* of the socket keeps the port taken until it has gone.                   *)
OneSitlPerPort ==
  \A p \in Ids : \A v \in fleet :
    Alive(p) /\ feeds[p] = v.instance => p = v.id

(* Every command that was pushed is answered, refused and failed ones      *)
(* included, unless the loop has ended.                                    *)
CommandsServed ==
  \A r \in Requests :
    command[r] # NoCommand ~>
      promise[r] # Unset \/ tick_pc \in {"stopped", "joining", "joined", "exited"}

(* No child process stays a zombie. *)
ChildrenReaped == \A p \in Ids : sitl[p] = "zombie" ~> sitl[p] = "reaped"

(* Once the loop has ended the process ends: the server has heard stop()   *)
(* however early the loop ended, handlers that wait for an answer that     *)
(* will not come hold up the join for their 10 s only, and the             *)
(* destructor's waits for the children end.                                *)
ShutdownEnds ==
  tick_pc = "stopped" ~>
    tick_pc = "exited" /\ \A p \in children : sitl[p] \notin {"running", "stopping"}

(* manager.h:66, "leak-free": the port of an instance nobody uses is held  *)
(* at most by the instance's own SITL on its way out.                      *)
FreeInstancesAreFree ==
  \A i \in Instances \ used : \A p \in Ids :
    Alive(p) /\ i \in inherited[p] => feeds[p] = i
==============================================================================
