------------------------------- MODULE Flight -------------------------------
(***************************************************************************)
(* The physics of one vehicle, from its servo input to its reply: what the *)
(* tick loops of main.cpp call on its slot, quad.cpp and motor_model.cpp,  *)
(* and its body in core/world.cpp.  Below World everything is in Jolt's    *)
(* axes (body), above it in NED and FRD (state).                           *)
(*                                                                         *)
(* Jolt itself is external: Update integrates velocity and position, turns *)
(* a spinning body into some other attitude, and a contact may kick it.    *)
(* Mass and tick are 1, float casts are exact, gusts are off (sigma = 0).  *)
(***************************************************************************)
EXTENDS Quad, Reply

CONSTANTS
  Gravity,
  InertiaInverse,    \* of the body, per FRD axis
  Pwm,               \* bound: the servo inputs, functions from Motors
  Packs,             \* bound: battery blocks of a spawn request
  Winds,             \* bound: steady winds, NED
  Attitudes,         \* bound: attitudes Update may reach, NED
  Kicks,             \* bound: [vel, spin] a contact adds, in Jolt's axes
  Options,           \* bound: [rangefinders, no_lockstep] of the command line,
                     \* whose rangefinders reply_one caps at two
  Capacity,          \* sizeof last_json
  Widths,            \* bound: widths of the numbers of a reply
  MaxTick            \* bound: ticks of a behaviour

ASSUME FlightAssumption ==
  /\ Gravity \in Nat \ {0} /\ InertiaInverse \in Vector
  /\ {MaxTick, Capacity} \subseteq Nat /\ Widths \subseteq 3 .. NumberWidth
  /\ Options \subseteq [rangefinders : 0 .. 2, no_lockstep : BOOLEAN]
  /\ Pwm \subseteq [Motors -> Nat]
  /\ Packs \subseteq [DOMAIN DefaultPack -> Int] /\ \A r \in Packs : r.full # 1
  /\ Attitudes \subseteq Quaternion /\ \A q \in Attitudes : SquaredNorm(q) > 0
  /\ Winds \subseteq Vector /\ Kicks \subseteq [vel : Vector, spin : Vector]

VARIABLES
  body,              \* [pos, vel, rot, spin, kinematic], in Jolt's axes
  prev_vel_ned,      \* VehicleEntry: velocity before the last Update
  state,             \* VehicleSlot: the BodyState of the last get_state
  motors, pwm,       \* VehicleSlot: motor speeds, the pwm of pending
  has_pending_input, connected, frozen, last_json_len,
  battery, consumed, current, voltage,
  wind, opt,         \* the world's wind; the command line
  tick, pc           \* pc: "drain", "poll", "step", "reply", "exit"

bodyVars == <<body, prev_vel_ned>>
batteryVars == <<battery, consumed, current, voltage>>
inputVars == <<pwm, has_pending_input, connected, frozen>>
fixedVars == <<wind, opt>>
vars == <<bodyVars, state, motors, inputVars, last_json_len, batteryVars,
          fixedVars, tick, pc>>

-----------------------------------------------------------------------------
(* core/world.cpp *)

StartPos == <<0, 0, 0>>

(* add_vehicle; the inertia's y and z change places with the axes, below.  *)
NewBody ==
  [pos |-> ned_to_jolt(StartPos), vel |-> Zero,
   rot |-> quat_ned_to_jolt(<<1, 0, 0, 0>>), spin |-> Zero, kinematic |-> FALSE]

InertiaInverseJolt ==
  <<InertiaInverse[1], InertiaInverse[3], InertiaInverse[2]>>

get_state(b, prev) ==
  LET vel == jolt_to_ned(b.vel)
      q == quat_jolt_to_ned(b.rot)
      a == quat_rotate_inverse(q, Minus(Minus(vel, prev), <<0, 0, Gravity>>))
      Clamped(x) == Clamp(x, -16 * Gravity, 16 * Gravity)
  IN [pos_ned |-> jolt_to_ned(b.pos), vel_ned |-> vel, quat_ned_frd |-> q,
      gyro_frd |-> quat_rotate_inverse(q, jolt_to_ned(b.spin)),
      accel_body_frd |-> <<Clamped(a[1]), Clamped(a[2]), Clamped(a[3])>>]

(* Slip: the body keeps the velocities it had. *)
set_frozen_KeepsVelocity(on) ==
  /\ body' = [body EXCEPT !.kinematic = on]
  /\ prev_vel_ned' = Zero

set_frozen(on) ==
  /\ body' = IF on THEN [body EXCEPT !.vel = Zero, !.spin = Zero, !.kinematic = TRUE]
             ELSE [body EXCEPT !.kinematic = FALSE]
  /\ prev_vel_ned' = Zero

(* PhysicsSystem::Update (external).  Forces, gravity and contacts do not  *)
(* move a kinematic body, its own velocities do.                           *)
Update(b, force, torque, kick) ==
  LET vel == IF b.kinematic THEN b.vel
             ELSE Plus(Plus(b.vel, <<0, -Gravity, 0>>), Plus(force, kick.vel))
      spin == IF b.kinematic THEN b.spin
              ELSE Plus(b.spin,
                        Plus(quat_rotate(b.rot, Scaled(InertiaInverseJolt,
                               quat_rotate_inverse(b.rot, torque))), kick.spin))
      turned == IF spin = Zero THEN {b.rot} ELSE {quat_ned_to_jolt(q) : q \in Attitudes}
  IN {[b EXCEPT !.pos = Plus(@, vel), !.vel = vel, !.spin = spin, !.rot = r] : r \in turned}

(* World::step with one pending wrench, given in FRD. *)
step(force_frd, torque_frd) ==
  \E kick \in Kicks :
    /\ prev_vel_ned' = jolt_to_ned(body.vel)
    /\ body' \in Update(body, quat_rotate(body.rot, ned_to_jolt(force_frd)),
                        quat_rotate(body.rot, ned_to_jolt(torque_frd)), kick)

-----------------------------------------------------------------------------
(* main.cpp *)

Init ==
  /\ body = NewBody /\ prev_vel_ned = Zero
  /\ state = get_state(body, prev_vel_ned)
  /\ motors = [i \in Motors |-> 0] /\ pwm = [i \in Motors |-> 0]
  /\ has_pending_input = FALSE /\ connected = FALSE /\ frozen = FALSE
  /\ last_json_len = 0
  /\ \E r \in Packs : battery = parse_battery(r)
  /\ consumed = 0 /\ current = 0 /\ voltage = 0
  /\ wind \in Winds /\ opt \in Options
  /\ tick = 0 /\ pc = "drain"

BatteryReset ==
  /\ pc = "drain" /\ tick < MaxTick
  /\ voltage' = battery.full * battery.capacity
  /\ consumed' = 0
  /\ pc' = "poll"
  /\ UNCHANGED <<bodyVars, state, motors, inputVars, last_json_len, battery,
                 current, fixedVars, tick>>

NoCommand ==
  /\ pc = "drain" /\ tick < MaxTick
  /\ pc' = "poll"
  /\ UNCHANGED <<bodyVars, state, motors, inputVars, last_json_len, batteryVars,
                 fixedVars, tick>>

(* A steppable frame is staged, and thaws a frozen vehicle. *)
PollFresh ==
  /\ pc = "poll"
  /\ pwm' \in Pwm
  /\ has_pending_input' = TRUE /\ connected' = TRUE /\ frozen' = FALSE
  /\ IF frozen THEN set_frozen(FALSE) ELSE UNCHANGED bodyVars
  /\ pc' = "step"
  /\ UNCHANGED <<state, motors, last_json_len, batteryVars, fixedVars, tick>>

(* The deadline is missed and the last pwm held ... *)
PollMissed ==
  /\ pc = "poll" /\ pc' = "step"
  /\ UNCHANGED <<bodyVars, state, motors, inputVars, last_json_len, batteryVars,
                 fixedVars, tick>>

(* ... or was held for too long. *)
Freeze ==
  /\ pc = "poll" /\ connected /\ ~frozen
  /\ frozen' = TRUE /\ set_frozen(TRUE)
  /\ pc' = "step"
  /\ UNCHANGED <<state, motors, pwm, has_pending_input, connected,
                 last_json_len, batteryVars, fixedVars, tick>>

step_battery ==
  /\ current' = Current(battery, pwm)
  /\ consumed' = consumed + Charge(current')
  /\ voltage' = Sagged(battery, consumed')
  /\ UNCHANGED battery

(* Slip: only a vehicle that took part gets a new state. *)
Refreshed_ActiveOnly ==
  state' = IF frozen \/ ~connected THEN state ELSE get_state(body', prev_vel_ned')

Refreshed == state' = get_state(body', prev_vel_ned')

AfterStep ==
  /\ Refreshed
  /\ tick' = tick + 1 /\ pc' = "reply"
  /\ UNCHANGED <<inputVars, last_json_len, fixedVars>>

(* step_world: drag comes from the state cached a tick ago. *)
StepActive ==
  /\ pc = "step" /\ connected /\ ~frozen
  /\ motors' = [i \in Motors |-> step_motor(motors[i], pwm[i])]
  /\ LET vel_air == quat_rotate_inverse(state.quat_ned_frd, Minus(state.vel_ned, wind))
         w == compute_wrench(motors', vel_air)
     IN step(w.force, w.torque)
  /\ step_battery
  /\ AfterStep

StepPassive ==
  /\ pc = "step" /\ (frozen \/ ~connected)
  /\ step(Zero, Zero)
  /\ AfterStep
  /\ UNCHANGED <<motors, batteryVars>>

ReplyLayout == Layout(opt.rangefinders, voltage > 0, opt.no_lockstep)

(* reply_one; a reply that does not fit ends the loop. *)
Reply ==
  /\ pc = "reply" /\ has_pending_input
  /\ \E w \in Widths : last_json_len' = build_state_json(ReplyLayout, Capacity, w)
  /\ has_pending_input' = (last_json_len' = 0)
  /\ pc' = IF last_json_len' = 0 THEN "exit" ELSE "drain"
  /\ UNCHANGED <<bodyVars, state, motors, pwm, connected, frozen, batteryVars,
                 fixedVars, tick>>

NoReply ==
  /\ pc = "reply" /\ ~has_pending_input
  /\ pc' = "drain"
  /\ UNCHANGED <<bodyVars, state, motors, inputVars, last_json_len, batteryVars,
                 fixedVars, tick>>

Next ==
  \/ BatteryReset \/ NoCommand
  \/ PollFresh \/ PollMissed \/ Freeze
  \/ StepActive \/ StepPassive
  \/ Reply \/ NoReply

Spec == Init /\ [][Next]_vars

-----------------------------------------------------------------------------
(* A frozen vehicle keeps its pose from tick to tick, whatever pushes it,  *)
(* and its IMU shows a body at rest from the first tick on: no drift, no   *)
(* spike of acceleration (world.h, "kinematic hold").                      *)
FrozenHoldsPose ==
  [][frozen /\ frozen' =>
       /\ body'.pos = body.pos /\ body'.rot = body.rot
       /\ StepPassive =>
            /\ state'.vel_ned = Zero /\ state'.gyro_frd = Zero
            /\ state'.accel_body_frd =
                 quat_rotate_inverse(state'.quat_ned_frd, <<0, 0, -Gravity>>)]_vars

(* The pack tells its charge: whatever the request asked for, the voltage  *)
(* a reply carries lies between empty and full; it falls only in a tick    *)
(* the vehicle flies, and rises only when a pack is fitted that, like a    *)
(* new one, has nothing drawn from it (main.cpp, "endurance is a real      *)
(* constraint"; control_server.cpp, "report a rising charge").             *)
BatteryHonest ==
  [][/\ Reply => /\ voltage > 0
                 /\ voltage \in battery.empty * battery.capacity
                                  .. battery.full * battery.capacity
     /\ voltage' < voltage => StepActive
     /\ voltage' > voltage => IF voltage = 0 THEN StepActive \/ BatteryReset
                              ELSE BatteryReset /\ consumed' = 0]_vars

(* No reply outgrows last_json, whatever the options and the numbers: the  *)
(* loops never end because of one.                                         *)
RepliesFit == pc # "exit"

(* Attitudes that turn the axes onto each other, as a multiple of 90       *)
(* degrees does: rotating by them is exact in integers.                    *)
TurnsExactly(q) ==
  \A e \in {<<1, 0, 0>>, <<0, 1, 0>>, <<0, 0, 1>>} : \A k \in 1 .. 3 :
    Sandwich(q, e)[k] % SquaredNorm(q) = 0

AttitudesAreExact == \A q \in Attitudes : TurnsExactly(q)

(* The airframe (quad.cpp:4-7 quotes ArduPilot's matrix): motors at 45,    *)
(* -135, -45 and 135 degrees clockwise from the nose.                      *)
RotorAt == <<<<Arm, Arm, 0>>, <<-Arm, -Arm, 0>>, <<Arm, -Arm, 0>>, <<-Arm, Arm, 0>>>>
RotorTurns == <<"ccw", "ccw", "cw", "cw">>

Truth == INSTANCE RigidBody WITH
  AccelLimit <- 16 * Gravity, MaxSpeed <- OmegaMax,
  Kicks <- {[vel |-> jolt_to_ned(k.vel), spin |-> jolt_to_ned(k.spin)] : k \in Kicks},
  pos <- jolt_to_ned(body.pos), vel <- jolt_to_ned(body.vel),
  att <- quat_jolt_to_ned(body.rot), omega <- jolt_to_ned(body.spin),
  speed <- motors, powered <- connected, held <- frozen,
  imu <- [accel |-> state.accel_body_frd, gyro |-> state.gyro_frd]

(* What the autopilot is told is true of a body under Newton's laws: axes, *)
(* mixer, drag from a cached state, inertia, contacts and freezing         *)
(* included (PROTOCOL.md, "specific force"; quad.cpp, motor layout).       *)
ImplementsRigidBody == Truth!Spec
==============================================================================
