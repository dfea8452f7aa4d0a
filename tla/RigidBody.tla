------------------------------ MODULE RigidBody ------------------------------
(***************************************************************************)
(* What the replies promise an autopilot about its vehicle: a rigid body   *)
(* that obeys Newton's laws in the NED frame, driven by four rotors, seen  *)
(* through an IMU fixed to its FRD axes, which measures specific force     *)
(* (not gravity) and body rates.  The vehicle may be held in place.        *)
(*                                                                         *)
(* Rotors are given by where they sit and which way they turn, not by a    *)
(* mixer's signs.  Mass and tick are 1.  Flight implements this.           *)
(***************************************************************************)
EXTENDS Frames

CONSTANTS
  Gravity, InertiaInverse, LinDrag, AccelLimit,
  RotorAt, RotorTurns, KTorque,  \* place; "ccw" or "cw", seen from above
  MaxSpeed,
  Attitudes, Kicks               \* where a turn may lead; contacts, in NED

VARIABLES pos, vel, att, omega, \* pose, velocity and angular velocity in NED
          speed, imu, powered, held, wind

bodyVars == <<pos, vel, att, omega>>
rbVars == <<bodyVars, speed, imu, powered, held, wind>>

Sum4(v) == Plus(Plus(v[1], v[2]), Plus(v[3], v[4]))

Push(i, s) == <<0, 0, -(s[i] * s[i])>>

(* Turning one way, a rotor drives the frame the other way; z is down.     *)
Reaction(i, s) ==
  <<0, 0, (IF RotorTurns[i] = "ccw" THEN KTorque ELSE -KTorque) * s[i] * s[i]>>

Forces(s) ==
  Minus(Sum4([i \in 1 .. 4 |-> Push(i, s)]),
        Scaled(LinDrag, quat_rotate_inverse(att, Minus(vel, wind))))

Torques(s) ==
  Sum4([i \in 1 .. 4 |-> Plus(Cross(RotorAt[i], Push(i, s)), Reaction(i, s))])

Limited(a) == <<Clamp(a[1], -AccelLimit, AccelLimit),
                Clamp(a[2], -AccelLimit, AccelLimit),
                Clamp(a[3], -AccelLimit, AccelLimit)>>

(* The IMU of a body that feels f besides gravity. *)
Measured(f) ==
  imu' = [accel |-> Limited(quat_rotate_inverse(att', f)),
          gyro |-> quat_rotate_inverse(att', omega')]

Move(force, torque) ==
  \E kick \in Kicks :
    LET felt == Plus(quat_rotate(att, force), kick.vel)
    IN /\ vel' = Plus(vel, Plus(felt, <<0, 0, Gravity>>))
       /\ omega' = Plus(omega, Plus(kick.spin,
                     quat_rotate(att, Scaled(InertiaInverse, torque))))
       /\ pos' = Plus(pos, vel')
       /\ att' \in IF omega' = Zero THEN {att} ELSE Attitudes
       /\ Measured(felt)

Rest ==
  /\ pos = Zero /\ vel = Zero /\ att = <<1, 0, 0, 0>> /\ omega = Zero
  /\ speed = <<0, 0, 0, 0>> /\ ~powered /\ ~held
  /\ imu = [accel |-> <<0, 0, -Gravity>>, gyro |-> Zero]

Fly ==
  /\ powered /\ ~held
  /\ speed' \in [1 .. 4 -> 0 .. MaxSpeed]
  /\ Move(Forces(speed'), Torques(speed'))
  /\ UNCHANGED <<powered, held, wind>>

Fall ==
  /\ ~powered
  /\ Move(Zero, Zero)
  /\ UNCHANGED <<speed, powered, held, wind>>

(* A held body stays where it is and feels what holds it against gravity.  *)
Hover ==
  /\ held /\ UNCHANGED bodyVars
  /\ Measured(<<0, 0, -Gravity>>)
  /\ UNCHANGED <<speed, powered, held, wind>>

Command ==
  /\ powered' = TRUE /\ held' = FALSE
  /\ UNCHANGED <<bodyVars, speed, imu, wind>>

Hold ==
  /\ powered /\ ~held /\ held' = TRUE
  /\ vel' = Zero /\ omega' = Zero
  /\ UNCHANGED <<pos, att, speed, imu, powered, wind>>

Next == Fly \/ Fall \/ Hover \/ Command \/ Hold

Spec == Rest /\ [][Next]_rbVars
==============================================================================
