------------------------------- MODULE Frames -------------------------------
(***************************************************************************)
(* The two frames of core/frames.h: NED world and FRD body axes above      *)
(* core/world.h, Jolt's Y-up axes below it.  A vector is <<x, y, z>>, a    *)
(* quaternion <<w, x, y, z>>.                                              *)
(*                                                                         *)
(* Numbers are integers.  A quaternion need not have norm 1: a rotation    *)
(* divides by its squared norm, which is what normalising it first does,   *)
(* and is exact for the attitudes that turn the axes onto each other.      *)
(***************************************************************************)
EXTENDS Integers

Vector == Int \X Int \X Int
Quaternion == Int \X Int \X Int \X Int

Plus(a, b) == <<a[1] + b[1], a[2] + b[2], a[3] + b[3]>>
Minus(a, b) == <<a[1] - b[1], a[2] - b[2], a[3] - b[3]>>
Scaled(a, b) == <<a[1] * b[1], a[2] * b[2], a[3] * b[3]>>
Zero == <<0, 0, 0>>

Cross(a, b) == <<a[2] * b[3] - a[3] * b[2],
                 a[3] * b[1] - a[1] * b[3],
                 a[1] * b[2] - a[2] * b[1]>>

Clamp(x, lo, hi) == IF x < lo THEN lo ELSE IF x > hi THEN hi ELSE x

ned_to_jolt(n) == <<n[1], -n[3], n[2]>>

jolt_to_ned(j) == <<j[1], j[3], -j[2]>>

quat_multiply(a, b) ==
  <<a[1] * b[1] - a[2] * b[2] - a[3] * b[3] - a[4] * b[4],
    a[1] * b[2] + a[2] * b[1] + a[3] * b[4] - a[4] * b[3],
    a[1] * b[3] - a[2] * b[4] + a[3] * b[1] + a[4] * b[2],
    a[1] * b[4] + a[2] * b[3] - a[3] * b[2] + a[4] * b[1]>>

quat_conjugate(q) == <<q[1], -q[2], -q[3], -q[4]>>

SquaredNorm(q) == q[1] * q[1] + q[2] * q[2] + q[3] * q[3] + q[4] * q[4]

(* q * v * conj(q): the rotated vector, |q|^2 times too long. *)
Sandwich(q, v) ==
  LET r == quat_multiply(quat_multiply(q, <<0, v[1], v[2], v[3]>>),
                         quat_conjugate(q))
  IN <<r[2], r[3], r[4]>>

quat_rotate(q, v) ==
  LET r == Sandwich(q, v)
      n == SquaredNorm(q)
  IN <<r[1] \div n, r[2] \div n, r[3] \div n>>

quat_rotate_inverse(q, v) == quat_rotate(quat_conjugate(q), v)

(* kJoltFromNed is this divided by the square root of 2, which makes the   *)
(* products with it twice as long as the quaternions the code returns.     *)
JoltFromNed == <<1, 1, 0, 0>>

TwiceToJolt(q) ==
  quat_multiply(quat_multiply(JoltFromNed, q), quat_conjugate(JoltFromNed))

TwiceToNed(q) ==
  quat_multiply(quat_multiply(quat_conjugate(JoltFromNed), q), JoltFromNed)

(* The same, multiplied out and halved: Flight_proofs shows that they are. *)
quat_ned_to_jolt(q) == <<q[1], q[2], -q[4], q[3]>>

quat_jolt_to_ned(q) == <<q[1], q[2], q[4], -q[3]>>
==============================================================================
