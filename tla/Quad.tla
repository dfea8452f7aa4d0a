-------------------------------- MODULE Quad --------------------------------
(***************************************************************************)
(* The quad of src/vehicle: four lagging motors and the X mixer, and the   *)
(* battery pack of vehicle/manager.h as main.cpp discharges it.            *)
(*                                                                         *)
(* Units are chosen so that the model stays in the integers: k_thrust and  *)
(* the mass are 1, pwm is a pulse of 1000 .. 2000 us.                      *)
(***************************************************************************)
EXTENDS Frames

CONSTANTS
  Dt, Tau,       \* tick, and time constant of a motor
  OmegaMax,      \* motor speed at 2000 us
  Arm, KTorque,  \* lever of a motor along x and y; reaction torque per thrust
  LinDrag        \* drag per axis of the body

ASSUME QuadAssumption ==
  /\ {Dt, Arm, KTorque, OmegaMax} \subseteq Nat \ {0} /\ Tau \in Nat
  /\ LinDrag \in Vector

Motors == 1 .. 4

Total(f) == f[1] + f[2] + f[3] + f[4]

Target(pwm) == (Clamp(pwm - 1000, 0, 1000) * OmegaMax) \div 1000

step_motor(omega, pwm) ==
  omega + (Dt * (Target(pwm) - omega)) \div (Tau + Dt)

(* Where the motors sit and which way they push the nose, in servo order:  *)
(* front right and rear left counter-clockwise, the other two clockwise.   *)
Fwd   == <<1, -1, 1, -1>>
Right == <<1, -1, -1, 1>>
Yaw   == <<1, 1, -1, -1>>

Thrust(omega) == [i \in Motors |-> omega[i] * omega[i]]

(* Slip: a motor that pushes up on the right rolls the quad to the right. *)
Mixed_RollReversed(t) ==
  [force |-> <<0, 0, -Total(t)>>,
   torque |-> <<Total([i \in Motors |-> Arm * Right[i] * t[i]]),
                Total([i \in Motors |-> Arm * Fwd[i] * t[i]]),
                Total([i \in Motors |-> KTorque * Yaw[i] * t[i]])>>]

Mixed(t) ==
  [force |-> <<0, 0, -Total(t)>>,
   torque |-> <<Total([i \in Motors |-> -(Arm * Right[i] * t[i])]),
                Total([i \in Motors |-> Arm * Fwd[i] * t[i]]),
                Total([i \in Motors |-> KTorque * Yaw[i] * t[i]])>>]

(* The wrench of motors turning at omega, in air that passes at vel_air.   *)
compute_wrench(omega, vel_air_frd) ==
  LET w == Mixed(Thrust(omega))
  IN [w EXCEPT !.force = Minus(@, Scaled(LinDrag, vel_air_frd))]

-----------------------------------------------------------------------------
(* The pack.  A field of a request is Absent, or a number that may be      *)
(* anything, 0 included.  Volts and amperes are counted in tenths; a drawn *)
(* current is 64 times too large, the charge of a tick a 28th of that.     *)
(* Sagged voltages are multiplied by the capacity, which keeps them exact. *)
Absent == -1

DefaultPack == [capacity |-> 3300, full |-> 126, empty |-> 102,
                idle |-> 7, hover |-> 420]

parse_double_field(value, fallback) == IF value > 0 THEN value ELSE fallback

(* Slip: an inverted sag is let through. *)
parse_battery_Unchecked(r) ==
  [k \in DOMAIN DefaultPack |-> parse_double_field(r[k], DefaultPack[k])]

parse_battery(r) ==
  LET p == [k \in DOMAIN DefaultPack |-> parse_double_field(r[k], DefaultPack[k])]
  IN IF p.empty >= p.full THEN [p EXCEPT !.empty = (8 * p.full) \div 10] ELSE p

(* Eight times the mean throttle of the four motors, from 1100-1900 us. *)
Demand(pwm) == Total([k \in Motors |-> (2 * Clamp(pwm[k] - 1100, 0, 800)) \div 800])

Current(pack, pwm) == 64 * pack.idle + pack.hover * Demand(pwm) * Demand(pwm)

Charge(current) == (Dt * current) \div 28

Sagged(pack, consumed) ==
  pack.full * pack.capacity
    - (pack.full - pack.empty) * Clamp(consumed, 0, pack.capacity)
==============================================================================
