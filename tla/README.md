# skysim: TLA+ verification project

skysim is a physics server for fleets of ArduPilot SITL instances: it receives
servo outputs over UDP, steps one shared physics world, and sends state back,
one reply per frame. Its hardest part is the *lockstep*: every vehicle's
autopilot blocks on skysim's reply, skysim (in strict mode) blocks on every
vehicle's frame, and around that sit threads, processes that die, retries and
resource limits. Next come the data that cross several components: axes that
are converted twice, a battery, terrain tiles that are cooked, streamed and
swept. This directory holds TLA+
models of those parts, the TLC configurations that check them on small
instances, and TLAPS proofs of the most important results for all values of the
constants.

Paths such as `src/main.cpp` are relative to the repository root. `PROJECT.json`
maps every definition to the lines it models, every property to a slip that
breaks it, and every hazard to its line.

- [1 The system](#1-the-system)
- [2 The modules](#2-the-modules)
- [3 Component by component](#3-component-by-component)
- [4 Runs, bounds and what they show](#4-runs-bounds-and-what-they-show)
- [5 Proofs](#5-proofs)
- [6 Where code and documentation part](#6-where-code-and-documentation-part)
- [7 What is not modelled](#7-what-is-not-modelled)
- [8 Plan](#8-plan)

## 1 The system

### 1.1 Threads and processes

| actor | runs | shares with others |
|---|---|---|
| tick thread (`main`) | `run_canned`, `run_strict`, `run_interactive` or `run_replay` | everything below |
| rx thread, one per vehicle | `UdpEndpoint::Impl::rx_loop` | the endpoint's mailbox, under its mutex |
| reply workers | `ThreadPool::worker_loop` | the pool's job fields (`mutex_`), `remaining_` (atomic), `done_mutex_` |
| HTTP threads | the handlers of `ControlServer` | `CommandQueue` (mutex, promises), the vehicle snapshot, metrics |
| Jolt job threads | contact callbacks inside `World::step` | the contact queue (atomic cursor) |
| ArduPilot processes | outside the repository; forked by `VehicleManager` or started by somebody else | UDP, inherited descriptors, SIGTERM |

### 1.2 Inventory

| component | code | state it keeps | operations | what makes it correct |
|---|---|---|---|---|
| wire format | `src/protocol/packets.*` | none (the caller's `last_frame_count`) | `parse_servo_datagram`, `build_state_json` | a classification that agrees with what happened at the peer |
| UDP endpoint | `src/protocol/udp_endpoint.*` | socket, mailbox (`buf, len, sender, seq`), `consumed_seq`, `answered_up_to_seq`, `last_frame_count`, reply address, stop flag | `rx_loop`, `take_latest`, `send_reply`, `last_taken_unanswered`, destructor | latest-wins never loses the latest; takes move forward; the join ends |
| lockstep conversation | `poll_endpoint`, `reply_one` in `src/main.cpp` | `has_pending_input`, `last_json`, staged input | poll, re-send, step, reply | one reply per request; no frame drives the physics twice |
| strict loop | `run_strict` | barrier flag, stall timestamp | drain, poll, barrier, abort, step, reply | fleet and world advance together; nobody waits for ever |
| interactive loop | `run_interactive` | schedule, per vehicle `hold_ticks`, `frozen`, `frozen_at_tick` | sleep, poll, hold/freeze/thaw, grace sweep | stragglers cost nobody else; they go exactly when they should |
| thread pool | `src/core/thread_pool.h` | job fields, generation, `remaining_` | `parallel_for`, `worker_loop`, destructor | each index once, no use after return, no lost wake-up |
| control plane | `src/api/control_server.*`, `App::drain_commands` | queue, promises, snapshot | spawn, despawn, battery, path check, listing | every command answered, nothing leaks, shutdown ends |
| vehicle manager | `src/vehicle/manager.*` | instances in use, child pids | allocate, release, launch, stop, reap, destructor | no instance or process leaks; one SITL per port |
| vehicle physics | `src/vehicle/quad.cpp`, `motor_model.cpp`, `src/core/frames.h`, `step_world`, `step_battery` | motor speeds, charge, cached state | motors, wrench, battery, frame conversions, state read back | what the autopilot is told is a rigid body under Newton's laws; a battery that tells its charge |
| tile cooker | `src/terrain/cook.*`, `tools/cooker/main.cpp` | output directory, index | clean, cook a tile, write the index | the index names what is there, in the right axes |
| tile streaming | `src/terrain/tile_streamer.*`, `App::stream_tiles`, `App::apply_tile_plan`, `World::sweep_path` | resident set, world ids of tiles, throttle | update, apply plan, path check | terrain in time, bounded, no false "clear" |
| world | `src/core/world.*` | bodies, registries, contact queue, counters | add/remove vehicle and tile, load tiles, step, freeze, ray cast | registries agree; contacts are attributed to the right vehicle |
| record and replay | `step_world`, `run_replay` | tape, staged count | record, replay | a tape reproduces the run |
| canned loop | `run_canned` | none of its own | poll, reply | as the lockstep conversation |
| metrics | `src/core/metrics.h` | a window of tick times | record, snapshot | not modelled, see section 7 |

### 1.3 Interactions

- An ArduPilot sends a frame and blocks. The rx thread receives into a local
  buffer, takes the mutex and stores (overwriting what was there). The tick
  thread takes the newest datagram, classifies it, and stages it; stepping and
  replying follow, at once or much later (strict barrier). After 1 s without a
  reply the autopilot re-sends the frame.
- `send_reply` sends first and then, under the mutex, marks everything stored so
  far as answered. A duplicate is answered again only if it is newer than that
  mark.
- HTTP handlers push a command with a promise and wait 10 s for it. Commands are
  drained at the top of each iteration of a loop, so they never run during a
  step; the listing comes from a snapshot published at the end of a tick.
- `VehicleManager` forks SITLs, which inherit all open descriptors; a despawn
  only signals, `reap` collects later, and the destructor waits.
- The cooker runs before the simulator; an index file and mesh files are all they
  share. Streaming and path checks share one `TileStreamer`; each plan is applied
  to the world by the tick thread, and a path check then sweeps what is loaded.
- Servo values pass through motors, mixer and wrench (body axes), into the world
  (Jolt's axes), and come back as a cached NED state, once a tick for active and
  passive vehicles by different branches, from which the reply is built.

### 1.4 What is hard

Datagrams that land between any two steps of the tick thread; a duplicate that
overtakes its answer; losses; a peer that restarts inside a conversation; a
counter that wraps; a barrier with vehicles that join, leave and fall silent;
a schedule that falls behind; a wake-up between a predicate and a sleep; spawns
that fail half-way; processes that die at any time; commands whose client has
gone; a server that is stopped before it listens; a bounded tile set with two
users; a cook that fails half-way over an old directory; a contact queue that
overflows; three conventions for axes.
`PROJECT.json` lists 40 hazards, each at the line where it bites, with the
properties that would notice.

## 2 The modules

```
Packets ── UdpEndpoint ── Lockstep ──implements──> Exchange
                              └──────implements──> Slot <──builds on── Fleet ──┬─ StrictLoop
                                                                               └─ InteractiveLoop
Frames ──┬─ Quad ── Flight (with Reply) ──implements──> RigidBody
         └─ Cooker ── TileStreaming
ThreadPool      ControlPlane      World      Replay
```

| module | models | proofs |
|---|---|---|
| `Packets` | servo datagrams and their classification, constant-level | |
| `UdpEndpoint` | one endpoint: kernel buffer, rx thread, mailbox, `take_latest`, the two halves of `send_reply`, destructor | in `Lockstep_proofs` |
| `Lockstep` | one vehicle's conversation: endpoint + `poll_endpoint` + `reply_one` + despawn + an ArduPilot peer + network faults | `Lockstep_proofs` |
| `Exchange` | the abstract promise: one reply per request, each for the frame that is waited on | in `Lockstep_proofs` |
| `Slot` | what the loops assume of an endpoint and its slot | with `Lockstep` and both loops |
| `Fleet` | what both loops share: slots, mailboxes reduced to a kind, spawn, despawn, poll, reply, snapshot | |
| `StrictLoop` | `run_strict` | in `Tick_proofs` |
| `InteractiveLoop` | `run_interactive` | `InteractiveLoop_proofs` |
| `ThreadPool` | `parallel_for`, `worker_loop`, destructor, lock by lock | in `Tick_proofs` |
| `ControlPlane` | server start and stop, handlers, queue, `drain_commands`, `VehicleManager`, ports and processes, shutdown | `ControlPlane_proofs` |
| `Frames` | vectors, quaternions and their conversions between NED/FRD and Jolt's axes, constant-level | in `Flight_proofs` |
| `Quad` | motors, mixer, wrench, battery, constant-level | in `Flight_proofs` |
| `Reply` | the layout of a state reply and the writer that bounds it, constant-level | in `Flight_proofs` |
| `Flight` | one vehicle's tick: servo input, wrench, body, cached state, battery, freeze, reply | `Flight_proofs` |
| `RigidBody` | the abstract promise: Newton's laws in NED with four rotors and an IMU | in `Flight_proofs` |
| `Cooker` | `cook_obj_tile` and `tile_cooker` | in `TileStreaming_proofs` |
| `TileStreaming` | `TileStreamer`, `apply_tile_plan`, `stream_tiles`, path checks with `sweep_path` | `TileStreaming_proofs` |
| `World` | body and tile registries, contact queue, attribution | `World_proofs` |
| `Replay` | recording in `step_world`, `run_replay` | `Replay_proofs` |
| `MC...` | the small instances TLC checks | |

Composition goes three ways. `Lockstep` extends `UdpEndpoint` and keeps every one
of its steps, for one vehicle, with a real conversation partner. The loops
extend `Fleet`, which abstracts an endpoint to *what the next `take_latest`
would classify* (nothing, fresh, duplicate, bad) so that several vehicles and
many ticks fit. That this abstraction is right is not left to the eye: `Slot`
states it once, `Lockstep` is shown to implement it (`ImplementsSlot`), and both
loops to handle every slot as it allows (`StrictKeepsSlots`,
`InteractiveKeepsSlots`). `TileStreaming` extends `Cooker`, so the tiles it
streams are those a cook has left, failed cooks and damaged files included.

Conventions: an action has the name of the code's function or branch; variables
keep the source's names; *history* variables are marked and never guard an
action; `..._Something` operators marked *slip* are plausible bugs, used only
to show that a property can fail; a constant marked *bound* exists for TLC.
In each module the properties come last, after the final rule. `ThreadPool`'s
specification is `PoolSpec` (`PoolInit`, `PoolNext`), as the endpoint's is
`EndpointSpec`, so that `Tick_proofs` can extend it beside the loop whose replies it
fans out.

## 3 Component by component

### UdpEndpoint

| code | model |
|---|---|
| kernel receive buffer | `socket`, `Arrive`; a datagram that finds it full is dropped |
| `rx_loop`: stop test, `recvfrom`, its 100 ms timeout, critical section | `RxCheckStop`, `RxReceive`, `RxTimeout`, `RxStore` |
| `take_latest` | `TakeLatest` (mailbox, reply address, classification, `last_frame_count`) |
| `send_reply`: `sendto`, then the lock | `SendReply`, `MarkAnswered` |
| destructor: set stop, join, close | `Destroy`, `Close` |

The local buffer between `recvfrom` and the lock is a variable of its own
(`rx_local`): most of the interesting interleavings need it. Arrivals are
numbered by a history variable; the code's own `seq` is separate and the
properties relate the two.

### Lockstep and Exchange

The tick thread's side is `MayPoll`, `PollFresh`, `PollDuplicate`, `PollBad`
(the branches of `poll_endpoint`), `Step`, `Reply`/`EndReply` (`reply_one`, or
the re-send of `last_json`). Stepping may happen any time after staging, so the
strict barrier's waiting is covered. The peer is external: send, wait, parse;
re-send after a timeout; restart with a new address. As the protocol document
says, the autopilot's first reply only completes a line, so its counter advances
from the second one on. Losses, strays, restarts and impatient re-sends are
budgets that run out.

`Despawn` is the tick thread's removal of the vehicle: at any point between its
operations the endpoint is destroyed, and `Despawned` is the end of the
destructor's join.

`Lockstep` implements `Exchange` under the refinement mapping *frame = the peer's
counter, asked = the peer waits, reply = the head of its inbox*: initial state,
steps and fairness are checked as one `PROPERTY`. The refinement needs one
assumption, the constant `RxPrompt`: once the peer has re-sent an unanswered frame, the rx
thread has stored that datagram by the time the reply is sent. Without it the
race of section 6 applies, and the run `lockstep_desync` checks what is left.
The refinement of `Slot` needs no assumption: its mailbox is the classification
the newest unread datagram would get (`MailKind`).

### Fleet, StrictLoop, InteractiveLoop

`Fleet` holds `VehicleSlot`'s fields that both loops use and the steps they
share. Commands drain at the top of an iteration, so `Spawn` and `Despawn` are
enabled only at `pc = "drain"`; a datagram may land at any point.

`StrictLoop` has one action per branch after the poll: `StartStall`,
`KeepStalling`, `StrictAbort`, `Step`; replies go out in any order (the pool),
and one that does not fit its buffer ends the run (`ReplyOverflow`). The clock
counts up to one unit beyond the timeout.

`InteractiveLoop` splits the schedule into `Clock` (a period begins: `due` + 1),
`Sleep` and `WakeUp` (`due` - 1, or 0 when more than `MaxLag` behind: the code's
resync). The straggler logic is `PollFresh`/`Thaw`, `PollMissed`/`Hold`,
`GraceExpired`/`Sweep`. `Prompt` names vehicles that answer within a period; the
history `late` records that a tick has overrun its period.

### ThreadPool

A critical section under `mutex_` is one action. `done_mutex_` is modelled as a
lock, because `remaining_` is decremented outside it while the caller evaluates
its predicate and goes to sleep in two steps. Both condition variables wake up
spuriously. The function object of a call is its number; using it after the call
has returned is the property `NoUseAfterReturn` forbids.

### ControlPlane

One command is one action of the tick thread, because nothing else changes its
state during `drain_commands`; HTTP threads and processes interleave between
commands. Each way a spawn can fail is an action: refused instance
(`SpawnRefused`), `bind` or `socket` (`SpawnBindFails`), `fork` (`LaunchFails`).
A process is named after the vehicle it was forked for; `inherited` is the set
of ports its descriptors keep bound. A run begins with the vehicles of
`--vehicles` and with the server's constructor, which waits until its thread
listens (`ListenStarts`, `Constructed`): the library forgets a stop that comes
earlier. Shutdown is `SignalStop` or `LoopFails`, `StopServer`, `JoinServer`,
`TearDown`, `WaitChild`.

### Flight, Quad, Frames, Reply and RigidBody

Numbers are integers and rotations are quaternions that need not be normalised,
so that axes and signs are exact: the attitudes checked are those that turn axes
onto axes, and mass and tick are 1. `body` is what Jolt holds, in its axes;
`state` what `get_state` has cached, in NED and FRD.

| code | model |
|---|---|
| `frames.h` | `ned_to_jolt`, `quat_rotate`, `quat_ned_to_jolt`, ... |
| `step_motor`, `compute_wrench` | the operators of the same names; `Mixed` is the mixer |
| `parse_battery`, `step_battery` | `parse_battery`; `Demand`, `Current`, `Charge`, `Sagged` |
| a poll of either loop, its hold and its freeze | `PollFresh`, `PollMissed`, `Freeze`, `set_frozen` |
| `step_world` | `StepActive`, `StepPassive`, with `Refreshed` for the cached state |
| `World::step` around the solver | `step`; `Update` is external: it integrates, may turn a spinning body to any attitude, and may add the kick of a contact |
| `build_state_json`, `reply_one` | `Layout`, `build_state_json` (widths only), `Reply`, `NoReply` |

`RigidBody` says what the replies promise without any of this: forces and torques
of four rotors by where they sit and which way they turn, in NED, with an
accelerometer that does not feel gravity. Mixer signs, lever arms, two frame
conversions, the inertia's axes and the order of caching all have to be right for
`Flight` to implement it.

### Cooker

A mesh file is its name, its triangles and whether it can be read back: the
stream it is saved to is never looked at, so a full disk may truncate it. OBJ
files are sequences of vertices and faces; a cook may fail at any of them, or be
interrupted between two tiles by a file that cannot be opened. The directory
starts with the products of an earlier cook.

### TileStreaming

`Desired` is `TileStreamer::update`'s choice (in range of anyone, nearest first
by distance and index, cut at `max_resident`), `ApplyTilePlan` the diff, loads
that may fail, and the broadphase compaction. `nodes` counts broadphase nodes
with their garbage; the history `reach` keeps how far the chosen buildings are from
the points they were chosen for. `StreamTiles` is throttled as in the code, `PathCheck` is
not. Distances are squared and legs parallel to an axis. A tile's body is the
triangles of its mesh (`Shape`), hollow as Jolt's `MeshShape` is: `raycast` meets
triangles, nothing between walls, and the solid ground slab (`HitsTriangle`, `HitsBox`:
external). Whether the back of a triangle stops a ray is the constant `BackFaces`. `sweep_path` casts its five rays in Jolt's
axes; the properties look at the faces of the operator's OBJ files, in ENU
(`Crosses`).

### World

Jolt is external: `CreateBody` hands out an index with a sequence number, and its
threads report contacts in two steps (claim a slot with the atomic cursor, write
it). `EndUpdate` is `World::step` after the solver: drain at most the capacity,
attribute by the registries, reset the cursor. The ground and the tiles that a
replay loads up front are bodies without an id (`static_bodies`). `met` records what each vehicle
really met.

### Replay

A live step appends one line per consumed frame, in fleet order; a step is the
set of body and frame pairs that drove it. `ReadLine` stages and, after
fleet-size lines, steps, as `run_replay` does.

## 4 Runs, bounds and what they show

All passing runs together take about seven minutes, those that find a violation seconds;
sizes are distinct states.

| run | module, configuration | states | properties |
|---|---|---|---|
| `lockstep` | `MCLockstep`, `Lockstep.cfg` | 1.2 M | `NewestIsTaken`, `ReplyToFrameSender`, `TakenInOrder`, `DestructorReturns`, `FramesStepInOrder`, `ClassificationTruthful`, `ImplementsExchange`, `ImplementsSlot` |
| `lockstep_desync` | `MCLockstep`, `LockstepDesync.cfg` | 488 k | `DesyncBounded`, `Progress` |
| `strict` | `MCStrictLoop`, `Strict.cfg` | 713 k | `LockstepCount`, `AbortNamesAStraggler`, `StagedFrameResolved` |
| `interactive` | `MCInteractiveLoop`, `Interactive.cfg` | 467 k | `FrozenBodyAgrees`, `NoZombie`, `GraceIsExact`, `FrameTakenUp`, `PromptNeverFrozen`, `LagBounded` |
| `pool` | `MCThreadPool`, `ThreadPool.cfg` | 41 k | `NoUseAfterReturn`, `EachIndexOnce`, `CallReturns`, `JoinReturns` |
| `control` | `MCControlPlane`, `Control.cfg` | 199 k | `NothingLeaks`, `OneSitlPerPort`, `CommandsServed`, `ChildrenReaped`, `ShutdownEnds` |
| `control_ports` | `MCControlPlane`, `ControlPorts.cfg` | violated | `FreeInstancesAreFree` |
| `flight` | `MCFlight`, `Flight.cfg` | 468 k | `RepliesFit`, `FrozenHoldsPose`, `BatteryHonest`, `ImplementsRigidBody` |
| `tiles` | `MCTileStreaming`, `Tiles.cfg` | 53 k | `NodesBounded`, `StreamedInTime`, `NearTilesKept`, `NoChurn`, `ClearIsClear`, `NoPhantomTiles` |
| `tiles_geometry` | `MCTileStreaming`, `TilesGeometry.cfg` | violated | `GeometryHonest` |
| `world` | `MCWorld`, `World.cfg` | 385 k | `ContactsAttributed` |
| `replay` | `MCReplay`, `Replay.cfg` | 58 k | `AlignedTapeReplays` |

### What each shows, and why its bounds are enough

- **lockstep**: four frames modulo 3 (the counter wraps inside a session), one
  loss, one restart, one stray, one impatient re-send and the despawn, in every
  order. Two losses would only repeat the recovery of one, which ends where the
  fault-free conversation goes on. The socket holds two, so datagrams are also
  dropped for lack of room, and there can be one datagram in each of socket, local
  buffer, mailbox and tick thread at once. The despawn may come at any time, so the
  destructor meets a busy and a silent peer. The theorems of section 5 remove the
  bounds for all of the properties but `DestructorReturns` and the liveness part of
  `ImplementsExchange`.
  `ClassificationTruthful` says of every branch of `poll_endpoint` that takes a frame
  what happened to the peer: also that a frame classified as a duplicate *is* one (or
  the first frame of a peer that restarted at the same count), so that no new frame of
  a session is swallowed.
- **lockstep_desync**: two re-sends that overtake their answers anywhere, without
  `RxPrompt`. The peer gets at most one frame ahead for each, and its counter keeps
  moving. No restart, since one resets the lead. `FrameCountMod` is 4 here and must
  exceed the re-sends by more than one: with 3 and a fourth
  frame (`MaxFrames = 4`), TLC finds a run in which a frame a whole turn of the
  counter (2^32 in the code) ahead is taken for a duplicate.
- **strict**: two vehicles, three ticks, a timeout of one unit. One vehicle
  that waits and one that is waited for is what the barrier is about; three ticks
  let a vehicle connect before, between and after ticks of the other.
  The history `silent` keeps the time since each vehicle's last reply, so that
  `AbortNamesAStraggler` can tell a straggler from a vehicle that has just
  answered, or just joined.
- **interactive**: two vehicles (one prompt, one arbitrary), `hold_ticks` 1, one
  grace tick, five ticks: hold, freeze, thaw, freeze again, or hold, freeze, grace, despawn
  and respawn. The thread may fall three periods behind, so both a catch-up and a resync happen.
  `PromptNeverFrozen` is about a thread that keeps its schedule, `LagBounded` about one
  that does not: with `MaxLag` 1 a prompt vehicle is frozen in a catch-up of two ticks,
  and never misses a third poll.
- **pool**: three workers, three calls with 1, 3, 4 or 6 indices (fewer than,
  as many as and more than threads): a worker can sleep through a call and wake
  up in the next, or the one after.
- **control**: two requests of any kind, an initial fleet of none or one, two ids,
  three instances; with the grace despawn that is spawn, despawn and spawn again
  on the same instance. The loop may end before it has drained anything.
- **flight**: three ticks with servo inputs that climb and turn about each axis,
  two packs (the default, and an inverted one the parser must refuse), a steady
  wind, three attitudes that permute the axes, and contacts of which one exceeds the
  accelerometer's range. Three ticks show a freeze, a tick held and a thaw, and
  let a state cached in one tick be used in the next. Numbers in a reply are all
  as narrow, or all as wide, as they get.
- **tiles**: a street of four walls, of which the second's file may be damaged; a
  map that uses a name twice and has a house (four walls, roof, floor, nothing
  inside); files that do not cook. Paths along the street low
  enough to hit a wall and high enough to pass, long, short, malformed, with a
  repeated waypoint, and from outside to inside the house and back. Two places for
  vehicles, range 6 and bound 3: one vehicle may have four walls in range, two near
  and two far, so that distance decides which are kept; two vehicles, and a path,
  compete (symmetric: the code treats all positions alike). A period of two ticks, and five ticks. Backs of
  triangles do not count, so that a path that is blocked has met the outside of a
  wall. **tiles_geometry** takes one vehicle and a bound of two tiles (section 6, item 2).
- **world**: two job threads (symmetric), two slots, four contacts, two body
  indices used twice each, besides the ground: stale slots, overflow and re-use
  all occur, and contacts of every kind.
- **replay**: a fleet of two, one spawn, three steps: each of which may have any
  subset of fresh frames.

`CHECK_DEADLOCK FALSE` is set everywhere: every model ends, in an exited process, a
closed endpoint or an exhausted bound.

### Fairness

| module | assumed | why |
|---|---|---|
| `UdpEndpoint` | weak fairness of the rx thread and of the destructor's join | `rx_loop` never blocks for more than 100 ms (`SO_RCVTIMEO`); nothing obliges a peer to send, or to stop |
| `Lockstep` | weak fairness of rx thread, tick thread and peer | threads are scheduled, and an ArduPilot without a reply re-sends; faults need not happen, and their budgets end |
| `StrictLoop` | weak fairness of the tick thread and the clock | the loop polls without blocking; time passes. No vehicle is assumed to send |
| `InteractiveLoop` | the same, and that a prompt vehicle answers | that is what prompt means |
| `ThreadPool` | weak fairness of caller and workers; strong fairness of taking `done_mutex_` | a caller that wakes up spuriously for ever takes and releases it again and again; any mutex lets the worker in |
| `ControlPlane` | weak fairness of the tick thread, of the server's start, of each handler's answer or 10 s time-out, and of a signalled process's exit | the destructor relies on SIGTERM being obeyed, too |

`Post`, `StopPool`, arrivals, spawns and despawns are never fair.

### Slips

For every property a *slip* (an operator named after the definition it replaces,
such as `MayPoll_Always`) is recorded in `PROJECT.json` under `mutants`: with the slip
in place the run fails on that property. They are bugs somebody could have
written: a dropped guard, `>=` for `>`, a missing reset, a notification without
the lock.

## 5 Proofs

TLAPS checks the eight `_proofs` modules to the last leaf; they assume the named
`ASSUME`s of the modules (parameters are naturals, at least one worker, ...) and
nothing else. Type correctness (`EndpointTypes`, `StrictTypes`, `InteractiveTypes`,
`PoolTypes`) is proved; no run repeats it. Every invariant theorem has the shape *initial states satisfy
`IInv`, every step preserves it, `IInv` implies the property*. Seven theorems have a
hypothesis of their own, named in the table. Two hypotheses are evaluated on the
instances (`RotationsAreExact` in `MCFlight`, `VerticesAreUsed` in
`MCTileStreaming`); `RxPrompt`, the bound on re-sends and the size of `last_json`
concern constants that the configurations set.

| theorem | for all | says |
|---|---|---|
| `EndpointTypes`, `NewestNeverLost`, `TakesMoveForward` | contents, senders, buffer size, counter width | `TypeOK`, `NewestIsTaken`, `TakenInOrder` of an endpoint |
| `NewestSurvives`, `RepliesGoToSender`, `TakesStayForward` | frames, fault budgets | `NewestIsTaken`, `ReplyToFrameSender`, `TakenInOrder` of a conversation |
| `NeverStepsBack` | the same | `FramesStepInOrder` |
| `LockstepImplementsSlot` | the same | `ImplementsSlot` |
| `LockstepKeepsExchange` | the same, under `RxPrompt` | `Exchange`'s initial states and steps: `ImplementsExchange` without fairness |
| `ClassificationIsTruthful` | the same, under `RxPrompt` | `ClassificationTruthful` |
| `LeadIsBounded` | the same, if `MaxSlow + 1 < FrameCountMod` | `DesyncBounded` |
| `StrictTypes`, `FleetInLockstep`, `AbortHasStraggler` | fleets, timeouts | `StrictTypeOK`, `LockstepCount`, `AbortNamesAStraggler` |
| `InteractiveTypes`, `FrozenBody`, `NobodyLingers`, `GraceExact` | fleets, `hold_ticks`, grace, lag | `InteractiveTypeOK`, `FrozenBodyAgrees`, `NoZombie`, `GraceIsExact` |
| `PromptIsNeverFrozen`, `LagIsBounded` | the same | `PromptNeverFrozen`, `LagBounded` |
| `StrictKeepsSlots`, `InteractiveKeepsSlots` | vehicles of any fleet | the loop's steps on one slot are those of `Slot` |
| `PoolTypes`, `FunctionAlive`, `EveryChunkOnce`, `EveryIndexOnce` | numbers of workers, calls, indices | `PoolTypeOK`, `NoUseAfterReturn`, `ChunksRunOnce`, `EachIndexOnce` |
| `NoLeaks`, `OldSitlsFeedNobody` | commands, fleets, instances, ids | `NothingLeaks`, `OneSitlPerPort` |
| `VectorsRoundTrip`, `AttitudesRoundTrip`, `ConversionIsConjugation`, `RotationsAgree` | vectors, quaternions | the two frames of `frames.h` are one geometry |
| `WrenchTellsThrusts` | thrusts | the mixer is one to one |
| `PackNeverInverted`, `SagIsOrdered`, `BatteryTellsCharge` | requests, charges, flights | `BatteryHonest` and the arithmetic under it |
| `FrozenStandsStill` | flights, contacts, winds | `FrozenHoldsPose` |
| `FlightIsRigidBody` | the same, if rotations are exact (`AttitudesAreExact`) | `ImplementsRigidBody` |
| `RepliesAreShort`, `RepliesAlwaysFit` | options, packs, numbers up to 22 characters wide, if `Capacity` is 1024 or more, as the code's is | a reply takes 934 bytes at most; `RepliesFit` |
| `IndexIsDirectory` | maps, failures to cook | `NoPhantomTiles` |
| `TilesComeInTime`, `ChecksDoNotChurn`, `PlansFitBroadphase` | fleets, paths, radii, bounds, periods | `StreamedInTime`, `NoChurn`, `NodesBounded` |
| `NearestAreKept`, `ClearPathsAreClear` | the same, meshes that stop a ray from one side or both, for maps without spare vertices (`EveryVertexUsed`) | `NearTilesKept`, `ClearIsClear` |
| `EveryContactCounted` | threads, slots, bodies, ids | `ContactsAttributed` |
| `AlignedTapesReplay` | fleets, spawned vehicles, lengths of a run | `AlignedTapeReplays` |

**Endpoint.** `NewestIsTaken` says nothing about states in which a datagram is
still under way, so it is not inductive. `Chain` is: the code's `seq` equals the
arrival number of what is in the mailbox, `consumed_seq` that of what was taken,
and the socket holds consecutive arrivals up to the newest, with the rx thread's
buffer filling the gap.

**Conversation.** Every step of `Lockstep` is a step of the endpoint or leaves it
alone (`EndpointSteps`), so the endpoint's invariant carries over. `StagedInv`
adds that a staged frame has the reply address of its sender and that a vehicle
which has staged one has a last frame count. With it each step maps to one of
`Slot`: a store in the mailbox is `Land`, because a datagram is only classified as
a duplicate when there was a frame before it (`ParseResults`).

**Order of frames.** A frame's identity is its session and its number, compared
lexicographically; the code sees neither, only the count modulo 2^32. `OrderInv`
says that what is in flight is in the order it was sent, none before what was
staged last and none after what the peer asks now; `CountInv`, that the count
the code compares with is that of the frame staged last. Then a datagram that is
not a duplicate differs from that frame, hence is later, and `TickInv` carries
"later than the last one stepped" from the staging to the step. `SInv` is the whole.

**Exchange.** Under `RxPrompt` there is nothing that could still produce an answer
once the peer has got one. `ExInv` makes "could still" precise: a datagram of the
peer's session in the socket or in the rx thread's hands (`Coming`), one in the
mailbox that is not a repeat already marked answered (`News`), an answer the
tick thread has yet to send (`Owed`). All of them are for the frame the peer asks
for, none is left when it does not ask, and as long as it has not lost patience
there is at most one. Each step of `Lockstep` is then one of `Exchange` or none
of its business. `ClassInv` adds that what is in flight is at most one frame on
from what was staged last, or the start of a later session; with arithmetic on
remainders that is what `Sequence` makes of it (`SequenceTells`), and a datagram it
calls a duplicate is the frame stepped last or starts a session (`RepeatTells`).

**Desync.** Without `RxPrompt` a frame may be in flight several times and each copy
may be answered. `Balance` adds up all the ways the peer's counter can still grow:
the replies in its inbox, one if the tick thread owes one (`Due`), one for each
datagram not yet stepped that repeats the number of another or of the last stepped
frame (`Extra`), and one if what the peer is about to send is such a repeat.
`LeadInv` bounds this sum, by the frame stepped last plus one plus the re-sends that
overtook their answers. Steps keep the sum or lower it; a step of the physics moves
the base with it; only `PeerImpatient` adds one. A restarted peer whose frame 0
repeats the count of an earlier session's is answered without a step, and the
ledger is then kept from frame 0 (`Begun`, `Repeating`). A duplicate must be
recognised for what it is: that is where the lead must stay below the counter's
width, and the hypothesis is needed (section 4).

**Strict loop.** `LockstepCount` needs that only connected vehicles ever owe a reply and
that a vehicle that is not connected has zero ticks (`Stepped`); then a step adds
one on both sides for each connected vehicle, because `BarrierReady` says that
each of them has a frame. `AbortNamesAStraggler` needs `Overdue`: no reply is sent
while the timer runs, and a vehicle that connects meanwhile keeps its frame staged,
so whoever has none staged has been silent for all of it.

**Interactive loop.** `NoZombie` and `GraceIsExact` count missed polls, which the
code does not. `Accounted` ties the count to what the code keeps: `hold_ticks`
until the freeze, afterwards `frozen_at_tick` against the tick, with one poll in
advance while the poll loop is under way, and the grace bound everywhere except
between the step and the sweep. `PromptNeverFrozen` needs `InTime`: a thread that
has kept its schedule sleeps when a period begins, so a prompt vehicle has a frame
staged or waiting whenever it is about to be polled (`Ready`). For `LagBounded`, `Left`
counts the polls still to come before the next period begins: the one under way and
those of the backlog, or one if it is long enough for a resync. No period begins while
a prompt vehicle owes an answer, so its misses and `Left` together never grow
(`LagInv`).

**Thread pool.** `remaining_` is the cardinality of `Owing`, the workers with an
uncounted chunk of the current call, *awake or not*: a worker that has not woken
up yet still owes. Hence the caller only returns when nobody owes, and no worker
can hold a live reference then. `EveryIndexOnce` adds integer arithmetic: the
chunks `[n*c/k, n*(c+1)/k)` partition the range (`SharesCover`,
`SharesDisjoint`), for every number of indices and chunks.

**Control plane.** `NothingLeaks` is inductive once it is known that no process has
an id that was not given out (`Typed`), so that a fork makes a new one.
`OneSitlPerPort` needs `OwnPort`: a live SITL holds the port it feeds among those
it has inherited. A new vehicle's port is bound, hence held by nobody alive.

**Flight.** The four theorems about frames are polynomial identities; rotations
are compared before the division by the norm, so they hold for every quaternion.
`BatteryTellsCharge` needs that the pack is one the parser lets through
(`PackInv`: `full` above `empty`, a positive capacity) and two bounds on integer
division. `FrozenStandsStill` needs that a frozen body is kinematic and has no velocity left
(`HoldInv`); then `Update` leaves it where it is, and the state read back is at rest
in NED as well, because zero and the attitude survive both conversions.

`FlightIsRigidBody` puts them together. Rotating an integer vector by a quaternion
divides by its norm; the hypothesis says that for the attitudes of the instance the
division leaves no remainder, which keeps the model's integers exact (rounding is
not modelled). A rotation is then a matrix with orthogonal rows (`TurnMatrix`), so
turning there and back is the identity. `RigidInv` says that the cached state is
`Fresh`, the body's in NED, except while a freeze is under way, and that no motor is
outside its range. With it the refinement is shown step by step: the mixer's
wrench is the sum over four rotors by where they sit, the frame conversions commute
with rotation, cross product and inertia, and the accelerometer's reading is the
change of velocity without gravity.

**Replies.** The end of a reply is a fold over its layout. `ReplyEnds` computes it
piece by piece, as long as the sum of what is written so far leaves room for what the
next piece insists on; the layouts are six, told apart by the options
(`RepliesAreShort`). That is the guard of `NoReply`, so `RepliesFit` is inductive
with the options it starts with.

**Tiles.** `CookInv` follows a cook: the mesh files in the directory are those of
the entries written so far, and the index is them or none. The tiles `Desired` keeps
are those of rank below the bound in an order that has no ties (distance, then
index), so `RanksDiffer` numbers them: they are at most the bound, and exactly as
many, none of them further, where one in range is left out (`PlanIsNearest`).
`PlanInv` says that the tiles are those of the last plan. `NodesBounded` then counts what
a plan removes and adds (`ResidentInv`), `StreamedInTime` the ticks since a vehicle
was last seen (`AgeInv`), `NoChurn` says that a check's tiles stay until somebody
flies (`ChurnInv`). `NearestAreKept` needs geometry as well: the box in the index, in
NED, is that of the building in ENU. For a mesh with vertices that no face names the
cooker's box is larger than what it shows, hence the hypothesis.

**Clear paths.** `ClearIsClear` relates an OBJ file in ENU to a ray in Jolt's axes, with
cook, index, directory, plan and loading between them. `StoredInv` says that the
last tile of a name has its mesh in the directory; `LoadedInv`, that the world holds the
resident tiles that load, whatever sequence of plans made them resident; `AnswerInv`,
that an answer is looked at before anything else happens. A building near a
waypoint is then in range, hence wanted or crowded out (`PlanIsNearest`), hence
loaded or damaged. Its mesh has every triangle of every face: the reader's state after
each line holds the vertices so far, in order, and the fan of each face (`ReadSoFar`,
`VertexRead`, `FaceRead`, `FacesInMesh`). Whether a ray meets a triangle does not change
with the axes, nor from which side, because the cooker's and the ray's permutations
agree and preserve dot and cross products (`TurnedVectors`, `TurnedHits`); and the middle ray of
the sweep is the leg (`RayIsLeg`, `RayHits`). So a leg that passes through a face is
reported, and a path without such a leg is not claimed to meet anything: one that stays
inside a building is clear, as `tests/test_collision.cpp:154` expects.

**World.** While a step runs, the contacts that no counter holds yet are in slots
claimed by the atomic cursor, written or still in a thread's hands (`Reported`,
`QueueInv`). `RegistryInv` says that the reverse maps by body index are those of
the registries, so a body's second use cannot be mistaken for its first. `CountInv`
adds both up: what a vehicle has met is its counter, the reported slots that
concern it; after an overflow it is at least that, what was dropped being the rest.

**Replay.** `AlignedTapeReplays` says what has been replayed, not what the rest of the
tape will do. `Laid` describes the tape: each line of an aligned step says which one
comes next, the next vehicle's or the first one's a tick later, and the last one of a
run that is aligned throughout ends the tape (`Fits`). A live step that is not aligned
lays its lines after all of those. `LiveInv` adds that a vehicle that has always been
there has had a frame a step, `ReplayInv` that the next line is of the tick and the
vehicle the replay has come to. What a step records is a recursive function over the
fleet (`RecordedAll`).

**Only model-checked**, and why:

- liveness (`DestructorReturns`, `StagedFrameResolved`, `FrameTakenUp`, `Progress`,
  `CallReturns`, `JoinReturns`, `CommandsServed`, `ChildrenReaped`, `ShutdownEnds`,
  the fairness in `ImplementsExchange`): it needs ENABLED.

Every invariant of a passing run, and every action property, is also a theorem.
Where one is about data of any length (a tape, a path, a reply's layout) the
induction is over a set of numbers, by its least element (`LeastNat`,
`InductionUpTo`), because the library's induction theorems take an operator that the
provers cannot instantiate; the recursion is then a function, not an operator.

## 6 Where code and documentation part

Items 1 and 2 are each shown by a run of its own, in which TLC finds what a
comment or the documentation says to be violated. The others were seen in the
models while they were written; the reader can follow them in the named actions.

1. **A despawned vehicle's port stays taken** (`control_ports`). `launch_sitl`
   forks without closing the other endpoints' sockets, which are opened without
   `SOCK_CLOEXEC`, so each SITL keeps every port bound that was open when it was
   forked. After a despawn the instance is free, its port is not, and
   `allocate_instance` offers the same lowest instance for each later spawn until
   the other SITLs are gone. `docs/MILESTONES.md:30` and `manager.h:66` call the
   allocator leak-free. The same inheritance protects `OneSitlPerPort`: closing
   the sockets on exec would let a new vehicle bind a port that the old,
   still-stopping SITL sends to (that is the slip of that property), so a fix has
   to wait for the old process as well.
2. **A path check may report geometry when nothing is loaded** (`tiles_geometry`).
   `geometry_available` is `resident_count() > 0`, and a tile counts as resident
   once `update` has asked for it, whether or not the world could load it.
   `control_server.h:68` says the flag is false when there is nothing to sweep
   against.
3. **A frame answered twice** (`lockstep_desync` bounds the damage). A re-send that
   has arrived, but is still in the socket or in `rx_loop`'s local buffer while
   its frame is answered, is stored after the mark, looks unanswered and is
   answered again; the peer then runs one frame ahead. `udp_endpoint.h:28`
   says that the test looks at when a datagram arrived, and why this must not happen.
4. **The abort timer can start before anybody waits** (`StartStall`, `StallAborts`).
   `barrier_stalled_since` is stamped at the first incomplete poll, also when no
   vehicle waits. After a silence of the whole fleet longer than the timeout, the
   first frame of one vehicle, which may be one just spawned, aborts the run at once,
   although `main.cpp:719` calls it a genuine straggler stall. `AbortNamesAStraggler`
   says what does hold: the vehicles that the report names have been silent for
   longer than the timeout.
5. **A late tick thread freezes healthy vehicles** (`WakeUp`, the history `late`).
   Missed ticks run back to back and each counts as a missed poll; only beyond 100
   does the schedule start afresh. `PromptNeverFrozen` is therefore stated for
   a tick thread that has kept its schedule; `LagBounded` says how bad it gets
   otherwise: `MaxLag` + 1 polls in a row, 101 in the code, which freezes a vehicle
   with the default `hold_ticks` and despawns none with the default grace.
6. **A tape need not replay** (`ReadLine`). `run_replay` parses the tick of a
   line but steps after every fleet-size lines. When one live step had fewer
   lines (a vehicle that connects a tick later, or is held), the replay is out of
   step; a spawned vehicle's line ends it. `AlignedTapeReplays` states how far a
   tape is good.
7. **Waypoints can push out a vehicle's tiles** (`Interest`, `Desired`). When
   `max_resident` bites, a tile at a waypoint beats one that is further from a
   vehicle, or as far with a higher index, for up to 100 ticks, although
   `main.cpp:638` passes the fleet's positions so that nothing a flying vehicle needs
   gets evicted. `NearTilesKept` says which tiles may be lost that way: those no
   nearer to a vehicle than each of the kept ones is to some point asked for.
8. **A deleted vehicle may still be listed** (`Despawn`, `PublishSnapshot`). DELETE
   is answered at the start of an iteration and the listing published at the end,
   in strict mode only when the barrier was complete; `tests/app_smoke.py:132`
   reads the listing right after the DELETE.
9. **A long leg may pass an unloaded building** (`Interest`, `LeftOut`). A path check
   streams the tiles near the *waypoints* (`main.cpp:641`), while the sweep runs
   along the whole leg: a building further than the radius from both ends is not
   loaded and the leg is reported clear, although the comment above says the
   check streams "the path's own tiles". `ClearIsClear` excepts such buildings, and
   states what clear does mean.
10. **A malformed waypoint shortens the path** (`parse_waypoints`). Parsing stops at
   the first waypoint that is no triple of numbers, and what came before is
   checked and answered as if it were the path.
11. **The cooker does not notice some failures** (`CookTile`). The stream a mesh is
   saved to is not examined (`cook.cpp:111`), so a full disk leaves a file that
   cannot be read back; two inputs with the same stem overwrite each other
   (`tools/cooker/main.cpp:51`) while the index names both.
12. **A path inside a building is clear** (`Shape`, `sweep_path`). Meshes are hollow, so
   a leg that passes through no face is clear wherever it runs
   (`tests/test_collision.cpp:154-157` counts on that), and equal waypoints make no leg
   at all (`world.cpp:354`). `ClearIsClear` promises no more: a clear path passes through
   no face.
13. **Dropped contacts are not counted** (`Drained`, `overflowed`). A comment at
   `world.cpp:124` says they are; the drain discards their number.

## 7 What is not modelled

- **Rounding.** Frames, motors, wrench, battery and boxes are exact integers;
  what floating point and the three decimals of an index add is left out.
- **Jolt's solver**: `Update` in `Flight` may turn and kick a body in any of a few
  ways, `Update` in `World` may report any contact; friction, restitution and the
  broadphase's tree are not modelled. How a ray meets a triangle or a box
  (`HitsTriangle`, `HitsBox`) is Jolt's too, taken as exact geometry: a triangle stops a
  ray at its edges, too, unless the ray lies in its plane. The repository takes meshes to
  be one-sided (`cook.h:3`, `tests/test_collision.cpp:154`, which no assertion depends
  on); Jolt's plain `CastRay` may well report back faces. The runs set `BackFaces` to
  FALSE, where fewer rays hit; the theorem is for either.
- **Gusts** (a filtered random wind): `Flight` has the steady wind only, as with
  `--gust-sigma 0`.
- **Text**: the digits of a reply (its widths are), HTTP bodies other than
  waypoints and battery, GET answers, options, the text of `index.json` (a stem
  beyond 255 characters, an entry cut at 512 bytes, an index cut by a full disk).
- **`run_canned`'s replies**: two fixed states; its endpoint calls are those of
  `Lockstep`.
- **Metrics** (`metrics.h`): a window of tick times that only `GET /metrics` reads;
  no control flow depends on them.
- **The server's start beyond 1 s**: `Constructed` waits for the thread; the code
  gives up after a thousand sleeps of 1 ms and goes on.
- **Reordering by the network**: UDP on the loopback keeps order; a delayed duplicate
  after its successor would look like a reboot. The protocol document is silent on it.
- **Reuse of process ids**: processes carry unique names.

## 8 Plan

The order was: endpoint and conversation first (everything rests on them), then
the two loops, the pool under them, the control plane around them, then the
data-heavy parts: frames and flight, the cooker with streaming and path checks,
the server's start, and `Slot` between endpoints and loops. The proofs followed in the
same order and cover every safety property that is checked. Left are:

1. *Model*: `metrics.h`'s window, if something comes to depend on it; the gusts'
   filter, if a property about them is worth stating; legs across the axes, with
   directions that need not be integers.
2. *Prove*: the liveness properties, should a prover for ENABLED be at hand.
