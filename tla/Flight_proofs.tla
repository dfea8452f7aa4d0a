---------------------------- MODULE Flight_proofs ----------------------------
(***************************************************************************)
(* Proofs about Frames, Quad and Flight: the frames and the mixer for all  *)
(* vectors, attitudes and thrusts, the pack for all requests, the          *)
(* battery's and the kinematic hold's properties for every instance, and   *)
(* that Flight implements RigidBody.                                       *)
(***************************************************************************)
EXTENDS Flight, WellFoundedInduction, SequenceTheorems, TLAPS

-----------------------------------------------------------------------------
(* Frames *)

(* A vector taken to Jolt's axes and back, either way, is the same vector. *)
THEOREM VectorsRoundTrip ==
  ASSUME NEW v \in Vector
  PROVE  /\ jolt_to_ned(ned_to_jolt(v)) = v /\ ned_to_jolt(jolt_to_ned(v)) = v
         /\ ned_to_jolt(v) \in Vector /\ jolt_to_ned(v) \in Vector
BY DEF Vector, jolt_to_ned, ned_to_jolt

(* So is an attitude. *)
THEOREM AttitudesRoundTrip ==
  ASSUME NEW q \in Quaternion
  PROVE  /\ quat_jolt_to_ned(quat_ned_to_jolt(q)) = q
         /\ quat_ned_to_jolt(quat_jolt_to_ned(q)) = q
         /\ quat_ned_to_jolt(q) \in Quaternion
BY DEF Quaternion, quat_jolt_to_ned, quat_ned_to_jolt

(* Multiplying by kJoltFromNed or its conjugate on the right. *)
LEMMA TurnedRight ==
  ASSUME NEW a \in Int, NEW b \in Int, NEW c \in Int, NEW d \in Int
  PROVE  /\ quat_multiply(<<a, b, c, d>>, <<1, 1, 0, 0>>) = <<a - b, a + b, c + d, d - c>>
         /\ quat_multiply(<<a, b, c, d>>, <<1, -1, 0, 0>>) = <<a + b, b - a, c - d, c + d>>
<1>1. /\ a * 1 - b * 1 - c * 0 - d * 0 = a - b /\ a * 1 + b * 1 + c * 0 - d * 0 = a + b
      /\ a * 0 - b * 0 + c * 1 + d * 1 = c + d /\ a * 0 + b * 0 - c * 1 + d * 1 = d - c
  OBVIOUS
<1>2. /\ a * 1 - b * (-1) - c * 0 - d * 0 = a + b /\ a * (-1) + b * 1 + c * 0 - d * 0 = b - a
      /\ a * 0 - b * 0 + c * 1 + d * (-1) = c - d /\ a * 0 + b * 0 - c * (-1) + d * 1 = c + d
  OBVIOUS
<1>3. quat_multiply(<<a, b, c, d>>, <<1, 1, 0, 0>>) =
        <<a * 1 - b * 1 - c * 0 - d * 0, a * 1 + b * 1 + c * 0 - d * 0,
          a * 0 - b * 0 + c * 1 + d * 1, a * 0 + b * 0 - c * 1 + d * 1>>
  BY DEF quat_multiply
<1>4. quat_multiply(<<a, b, c, d>>, <<1, -1, 0, 0>>) =
        <<a * 1 - b * (-1) - c * 0 - d * 0, a * (-1) + b * 1 + c * 0 - d * 0,
          a * 0 - b * 0 + c * 1 + d * (-1), a * 0 + b * 0 - c * (-1) + d * 1>>
  BY DEF quat_multiply
<1> QED
  BY <1>1, <1>2, <1>3, <1>4

(* The conversions of attitudes are the conjugations by kJoltFromNed that  *)
(* the code computes (frames.h:53-60).                                     *)
THEOREM ConversionIsConjugation ==
  ASSUME NEW q \in Quaternion, NEW k \in 1 .. 4
  PROVE  /\ TwiceToJolt(q)[k] = 2 * quat_ned_to_jolt(q)[k]
         /\ TwiceToNed(q)[k] = 2 * quat_jolt_to_ned(q)[k]
<1>1. PICK w \in Int, x \in Int, y \in Int, z \in Int : q = <<w, x, y, z>>
  BY DEF Quaternion
<1>2. /\ quat_multiply(JoltFromNed, q) = <<w - x, x + w, y - z, z + y>>
      /\ quat_multiply(quat_conjugate(JoltFromNed), q) = <<w + x, x - w, y + z, z - y>>
  BY <1>1 DEF quat_multiply, quat_conjugate, JoltFromNed
<1>3. JoltFromNed = <<1, 1, 0, 0>> /\ quat_conjugate(JoltFromNed) = <<1, -1, 0, 0>>
  <2>1. quat_conjugate(JoltFromNed) = <<1, -1, -0, -0>>
    BY DEF quat_conjugate, JoltFromNed
  <2>2. \A i \in Int : i + i = i => -i = i
    OBVIOUS
  <2>3. 0 \in Int /\ 0 + 0 = 0
    OBVIOUS
  <2> QED
    BY <2>1, <2>2, <2>3 DEF JoltFromNed
<1>4. /\ \A a \in Int, b \in Int, c \in Int, d \in Int :
           quat_multiply(<<a, b, c, d>>, <<1, -1, 0, 0>>) = <<a + b, b - a, c - d, c + d>>
      /\ \A a \in Int, b \in Int, c \in Int, d \in Int :
           quat_multiply(<<a, b, c, d>>, <<1, 1, 0, 0>>) = <<a - b, a + b, c + d, d - c>>
  BY TurnedRight
<1> DEFINE s == w - x  t == x + w  u == y - z  v == z + y
           m == w + x  n == x - w  o == y + z  p == z - y
<1>t. /\ s \in Int /\ t \in Int /\ u \in Int /\ v \in Int
      /\ m \in Int /\ n \in Int /\ o \in Int /\ p \in Int
  OBVIOUS
<1>5. /\ TwiceToJolt(q) = <<s + t, t - s, u - v, u + v>>
      /\ TwiceToNed(q) = <<m - n, m + n, o + p, p - o>>
  <2> HIDE DEF s, t, u, v, m, n, o, p
  <2>1. /\ TwiceToJolt(q) = quat_multiply(<<s, t, u, v>>, <<1, -1, 0, 0>>)
        /\ TwiceToNed(q) = quat_multiply(<<m, n, o, p>>, <<1, 1, 0, 0>>)
    BY <1>2, <1>3, Zenon DEF TwiceToJolt, TwiceToNed, s, t, u, v, m, n, o, p
  <2>2. quat_multiply(<<s, t, u, v>>, <<1, -1, 0, 0>>) = <<s + t, t - s, u - v, u + v>>
    BY ONLY <1>4, <1>t
  <2>3. quat_multiply(<<m, n, o, p>>, <<1, 1, 0, 0>>) = <<m - n, m + n, o + p, p - o>>
    BY ONLY <1>4, <1>t
  <2> QED
    BY ONLY <2>1, <2>2, <2>3
<1>6. quat_ned_to_jolt(q) = <<w, x, -z, y>> /\ quat_jolt_to_ned(q) = <<w, x, z, -y>>
  BY <1>1 DEF quat_ned_to_jolt, quat_jolt_to_ned
<1>7. /\ s + t = 2 * w /\ t - s = 2 * x /\ u - v = 2 * (-z) /\ u + v = 2 * y
      /\ m - n = 2 * w /\ m + n = 2 * x /\ o + p = 2 * z /\ p - o = 2 * (-y)
  OBVIOUS
<1> HIDE DEF s, t, u, v, m, n, o, p
<1> QED
  BY <1>5, <1>6, <1>7

(* The change of axes respects products. *)
LEMMA ProductsAgree ==
  ASSUME NEW p \in Quaternion, NEW q \in Quaternion
  PROVE  /\ quat_multiply(quat_ned_to_jolt(p), quat_ned_to_jolt(q))
              = quat_ned_to_jolt(quat_multiply(p, q))
         /\ quat_multiply(p, q) \in Quaternion
<1>1. PICK w \in Int, x \in Int, y \in Int, z \in Int : p = <<w, x, y, z>>
  BY DEF Quaternion
<1>2. PICK a \in Int, b \in Int, c \in Int, d \in Int : q = <<a, b, c, d>>
  BY DEF Quaternion
<1>3. quat_multiply(p, q) =
        <<w * a - x * b - y * c - z * d, w * b + x * a + y * d - z * c,
          w * c - x * d + y * a + z * b, w * d + x * c - y * b + z * a>>
  BY <1>1, <1>2 DEF quat_multiply
<1>4. quat_multiply(<<w, x, -z, y>>, <<a, b, -d, c>>) =
        <<w * a - x * b - y * c - z * d, w * b + x * a + y * d - z * c,
          -(w * d + x * c - y * b + z * a), w * c - x * d + y * a + z * b>>
  BY DEF quat_multiply
<1>5. quat_ned_to_jolt(p) = <<w, x, -z, y>> /\ quat_ned_to_jolt(q) = <<a, b, -d, c>>
  BY <1>1, <1>2 DEF quat_ned_to_jolt
<1>6. quat_ned_to_jolt(quat_multiply(p, q)) =
        <<w * a - x * b - y * c - z * d, w * b + x * a + y * d - z * c,
          -(w * d + x * c - y * b + z * a), w * c - x * d + y * a + z * b>>
  BY <1>3 DEF quat_ned_to_jolt
<1> QED
  BY <1>3, <1>4, <1>5, <1>6 DEF Quaternion

(* Rotating in Jolt's axes and rotating in NED is the same rotation: what  *)
(* World computes below its interface agrees with what the simulator       *)
(* computes above it, for every attitude and every vector.                 *)
THEOREM RotationsAgree ==
  ASSUME NEW q \in Quaternion, NEW v \in Vector
  PROVE  Sandwich(quat_ned_to_jolt(q), ned_to_jolt(v)) = ned_to_jolt(Sandwich(q, v))
<1> DEFINE V == <<0, v[1], v[2], v[3]>>
<1>1. V \in Quaternion /\ quat_conjugate(q) \in Quaternion
  BY DEF Vector, Quaternion, quat_conjugate
<1>2. /\ quat_ned_to_jolt(V)
           = <<0, ned_to_jolt(v)[1], ned_to_jolt(v)[2], ned_to_jolt(v)[3]>>
      /\ quat_ned_to_jolt(quat_conjugate(q)) = quat_conjugate(quat_ned_to_jolt(q))
  BY DEF Vector, Quaternion, quat_ned_to_jolt, ned_to_jolt, quat_conjugate
<1> DEFINE R == quat_multiply(quat_multiply(q, V), quat_conjugate(q))
<1>3. /\ quat_multiply(quat_multiply(quat_ned_to_jolt(q), quat_ned_to_jolt(V)),
                       quat_ned_to_jolt(quat_conjugate(q))) = quat_ned_to_jolt(R)
      /\ R \in Quaternion
  BY <1>1, ProductsAgree
<1>4. Sandwich(quat_ned_to_jolt(q), ned_to_jolt(v))
        = <<quat_ned_to_jolt(R)[2], quat_ned_to_jolt(R)[3], quat_ned_to_jolt(R)[4]>>
  BY <1>2, <1>3 DEF Sandwich
<1>5. Sandwich(q, v) = <<R[2], R[3], R[4]>>
  BY DEF Sandwich
<1> QED
  BY <1>3, <1>4, <1>5 DEF Quaternion, quat_ned_to_jolt, ned_to_jolt

-----------------------------------------------------------------------------
(* The mixer *)

LEMMA FourBalances ==
  ASSUME NEW a \in Int, NEW b \in Int, NEW c \in Int, NEW d \in Int,
         NEW m \in Int, m # 0, NEW k \in Int, k # 0,
         m * (a - b - c + d) = 0, m * (a - b + c - d) = 0,
         k * (a + b - c - d) = 0, a + b + c + d = 0
  PROVE  a = 0 /\ b = 0 /\ c = 0 /\ d = 0
<1>1. \A n \in Int, x \in Int : n # 0 /\ n * x = 0 => x = 0
  BY Z3
<1>2. /\ a - b - c + d \in Int /\ a - b + c - d \in Int
      /\ a + b - c - d \in Int
  OBVIOUS
<1>3. a - b - c + d = 0 /\ a - b + c - d = 0 /\ a + b - c - d = 0
  BY <1>1, <1>2
<1> QED
  BY <1>3

(* The wrench of motors with thrusts a, b, c and d. *)
LEMMA MixedOfFour ==
  ASSUME NEW t \in [Motors -> Int],
         NEW a, NEW b, NEW c, NEW d, a = t[1], b = t[2], c = t[3], d = t[4]
  PROVE  /\ a \in Int /\ b \in Int /\ c \in Int /\ d \in Int
         /\ Mixed(t).force[3] = -(a + b + c + d)
         /\ Mixed(t).torque[1] = -(Arm * (a - b - c + d))
         /\ Mixed(t).torque[2] = Arm * (a - b + c - d)
         /\ Mixed(t).torque[3] = KTorque * (a + b - c - d)
<1>1. Arm \in Int /\ KTorque \in Int
  BY QuadAssumption
<1>2. a \in Int /\ b \in Int /\ c \in Int /\ d \in Int
  BY DEF Motors
<1>3. Total([i \in Motors |-> -(Arm * Right[i] * t[i])]) = -(Arm * (a - b - c + d))
  BY <1>1, <1>2 DEF Total, Right, Motors
<1>4. Total([i \in Motors |-> Arm * Fwd[i] * t[i]]) = Arm * (a - b + c - d)
  BY <1>1, <1>2 DEF Total, Fwd, Motors
<1>5. Total([i \in Motors |-> KTorque * Yaw[i] * t[i]]) = KTorque * (a + b - c - d)
  BY <1>1, <1>2 DEF Total, Yaw, Motors
<1>6. Total(t) = a + b + c + d
  BY DEF Total
<1> QED
  BY <1>2, <1>3, <1>4, <1>5, <1>6 DEF Mixed

(* No two different distributions of thrust give the same wrench: every    *)
(* motor is heard, and an autopilot can tell them apart.                   *)
THEOREM WrenchTellsThrusts ==
  ASSUME NEW s \in [Motors -> Int], NEW t \in [Motors -> Int], Mixed(s) = Mixed(t)
  PROVE  s = t
<1> DEFINE a == s[1]  b == s[2]  c == s[3]  d == s[4]
           e == t[1]  f == t[2]  g == t[3]  h == t[4]
<1>1. /\ a \in Int /\ b \in Int /\ c \in Int /\ d \in Int
      /\ e \in Int /\ f \in Int /\ g \in Int /\ h \in Int
  BY MixedOfFour
<1>2. /\ Mixed(s).force[3] = -(a + b + c + d)
      /\ Mixed(s).torque[1] = -(Arm * (a - b - c + d))
      /\ Mixed(s).torque[2] = Arm * (a - b + c - d)
      /\ Mixed(s).torque[3] = KTorque * (a + b - c - d)
      /\ Mixed(t).force[3] = -(e + f + g + h)
      /\ Mixed(t).torque[1] = -(Arm * (e - f - g + h))
      /\ Mixed(t).torque[2] = Arm * (e - f + g - h)
      /\ Mixed(t).torque[3] = KTorque * (e + f - g - h)
  BY MixedOfFour
<1>3. Arm \in Int /\ Arm # 0 /\ KTorque \in Int /\ KTorque # 0
  BY QuadAssumption
<1> HIDE DEF a, b, c, d, e, f, g, h
<1>4. /\ -(a + b + c + d) = -(e + f + g + h)
      /\ -(Arm * (a - b - c + d)) = -(Arm * (e - f - g + h))
      /\ Arm * (a - b + c - d) = Arm * (e - f + g - h)
      /\ KTorque * (a + b - c - d) = KTorque * (e + f - g - h)
  BY <1>2
<1>5. /\ Arm * ((a - e) - (b - f) - (c - g) + (d - h)) = 0
      /\ Arm * ((a - e) - (b - f) + (c - g) - (d - h)) = 0
      /\ KTorque * ((a - e) + (b - f) - (c - g) - (d - h)) = 0
      /\ (a - e) + (b - f) + (c - g) + (d - h) = 0
  BY <1>1, <1>3, <1>4
<1>6. a - e = 0 /\ b - f = 0 /\ c - g = 0 /\ d - h = 0
  BY <1>1, <1>3, <1>5, FourBalances
<1>7. s[1] = t[1] /\ s[2] = t[2] /\ s[3] = t[3] /\ s[4] = t[4]
  BY <1>6 DEF Motors, a, b, c, d, e, f, g, h
<1>8. \A i \in Motors : s[i] = t[i]
  BY <1>7 DEF Motors
<1> QED
  BY <1>8

-----------------------------------------------------------------------------
(* The pack *)

Request == {r \in [DOMAIN DefaultPack -> Int] : r.full # 1}

Pack(p) ==
  /\ p.capacity \in Nat \ {0} /\ p.idle \in Nat \ {0} /\ p.hover \in Nat \ {0}
  /\ p.full \in Nat /\ p.empty \in Nat \ {0} /\ p.empty < p.full

(* Whatever numbers a spawn request carries, the pack has charge, and an   *)
(* empty voltage below its full one.                                       *)
THEOREM PackNeverInverted ==
  ASSUME NEW r \in Request
  PROVE  Pack(parse_battery(r))
<1> DEFINE p == [k \in DOMAIN DefaultPack |-> parse_double_field(r[k], DefaultPack[k])]
<1>1. /\ r.capacity \in Int /\ r.full \in Int /\ r.empty \in Int
      /\ r.idle \in Int /\ r.hover \in Int /\ r.full # 1
  BY DEF Request, DefaultPack
<1>2. /\ p.capacity \in Nat \ {0} /\ p.idle \in Nat \ {0} /\ p.hover \in Nat \ {0}
      /\ p.full \in Nat \ {0, 1} /\ p.empty \in Nat \ {0}
  BY <1>1 DEF DefaultPack, parse_double_field
<1>3. CASE p.empty >= p.full
  <2>1. \A n \in Nat \ {0, 1} :
          (8 * n) \div 10 \in Nat \ {0} /\ (8 * n) \div 10 < n
    OBVIOUS
  <2>2. parse_battery(r) = [p EXCEPT !.empty = (8 * p.full) \div 10]
    BY <1>3 DEF parse_battery
  <2> QED
    BY <1>2, <2>1, <2>2 DEF Pack, DefaultPack
<1>4. CASE ~(p.empty >= p.full)
  BY <1>2, <1>4 DEF parse_battery, Pack
<1> QED
  BY <1>3, <1>4

LEMMA NonlinearBound ==
  ASSUME NEW d \in Nat, NEW x \in Nat, NEW y \in Nat, x <= y
  PROVE  d * x <= d * y
BY Z3

(* The voltage stays between empty and full, whatever has been drawn, and  *)
(* more drawn never shows as more voltage.                                 *)
THEOREM SagIsOrdered ==
  ASSUME NEW p, Pack(p), NEW c \in Nat, NEW e \in Nat, c <= e
  PROVE  /\ Sagged(p, c) \in p.empty * p.capacity .. p.full * p.capacity
         /\ Sagged(p, e) <= Sagged(p, c)
         /\ Sagged(p, c) > 0
<1> DEFINE x == Clamp(c, 0, p.capacity)
           y == Clamp(e, 0, p.capacity)
<1>1. /\ p.capacity \in Nat \ {0} /\ p.full \in Nat /\ p.empty \in Nat \ {0}
      /\ p.full - p.empty \in Nat
  BY DEF Pack
<1>2. x \in Nat /\ y \in Nat /\ x <= y /\ y <= p.capacity
  BY <1>1 DEF Clamp
<1>3. /\ (p.full - p.empty) * x <= (p.full - p.empty) * y
      /\ (p.full - p.empty) * y <= (p.full - p.empty) * p.capacity
      /\ (p.full - p.empty) * 0 <= (p.full - p.empty) * x
  BY <1>1, <1>2, NonlinearBound
<1>4. PICK full \in Int, empty \in Int, cap \in Int :
        full = p.full /\ empty = p.empty /\ cap = p.capacity
  BY <1>1
<1>5. /\ (full - empty) * cap = full * cap - empty * cap
      /\ full * cap \in Int /\ empty * cap \in Int
      /\ (full - empty) * x \in Int /\ (full - empty) * y \in Int
  BY <1>2, <1>4
<1>6. empty * cap > 0
  BY <1>1, <1>4, Z3
<1> QED
  BY <1>3, <1>4, <1>5, <1>6 DEF Sagged

LEMMA ChargeIsNat ==
  ASSUME NEW p, Pack(p), NEW w \in [Motors -> Nat]
  PROVE  Charge(Current(p, w)) \in Nat
<1>1. \A x \in Int : (2 * Clamp(x, 0, 800)) \div 800 \in Nat
  BY DEF Clamp
<1>2. Demand(w) \in Nat
  BY <1>1 DEF Demand, Total, Motors
<1>3. \A a \in Nat, b \in Nat : a * b \in Nat
  BY Z3
<1>4. p.idle \in Nat /\ p.hover \in Nat
  BY DEF Pack
<1>5. p.hover * Demand(w) * Demand(w) \in Nat
  BY <1>2, <1>3, <1>4
<1>6. Current(p, w) \in Nat
  BY <1>4, <1>5 DEF Current
<1>7. Dt * Current(p, w) \in Nat
  BY <1>3, <1>6, QuadAssumption
<1>8. \A n \in Nat : n \div 28 \in Nat
  OBVIOUS
<1> QED
  BY <1>7, <1>8 DEF Charge

(* The strengthening of BatteryHonest: the voltage is the one the drawn    *)
(* charge implies, and a staged frame means that a tick has been flown by  *)
(* the time its reply is built.                                            *)
PackInv ==
  /\ Pack(battery) /\ consumed \in Nat /\ pwm \in [Motors -> Nat]
  /\ voltage = 0 \/ voltage = Sagged(battery, consumed)
  /\ has_pending_input =>
       /\ connected /\ ~frozen /\ pc \in {"step", "reply", "exit"}
       /\ pc # "step" => voltage > 0

LEMMA FullIsSagged ==
  ASSUME NEW p, Pack(p)
  PROVE  p.full * p.capacity = Sagged(p, 0)
<1>1. /\ p.capacity \in Nat \ {0} /\ p.full \in Nat /\ p.empty \in Nat
  BY DEF Pack
<1>2. Clamp(0, 0, p.capacity) = 0
  BY <1>1 DEF Clamp
<1> DEFINE d == p.full - p.empty
<1>3. d \in Int /\ p.full * p.capacity \in Int
  BY <1>1
<1>4. p.full * p.capacity - d * 0 = p.full * p.capacity
  BY <1>3
<1> QED
  BY <1>2, <1>4 DEF Sagged

LEMMA PackInvInit == Init => PackInv
<1> SUFFICES ASSUME Init PROVE PackInv
  OBVIOUS
<1>1. Pack(battery)
  BY PackNeverInverted, FlightAssumption DEF Init, Request
<1>2. pwm \in [Motors -> Nat]
  BY DEF Init
<1> QED
  BY <1>1, <1>2 DEF Init, PackInv

(* What a tick of flight does to the pack. *)
LEMMA StepDischarges ==
  ASSUME PackInv, StepActive
  PROVE  /\ consumed' \in Nat /\ consumed <= consumed'
         /\ voltage' = Sagged(battery, consumed') /\ voltage' > 0
         /\ voltage' \in Int
         /\ voltage # 0 => voltage' <= voltage
<1>1. Charge(Current(battery, pwm)) \in Nat
  BY ChargeIsNat DEF PackInv
<1>2. consumed' = consumed + Charge(Current(battery, pwm))
  BY DEF StepActive, step_battery
<1>3. consumed \in Nat /\ consumed' \in Nat /\ consumed <= consumed'
  BY <1>1, <1>2 DEF PackInv
<1>4. voltage' = Sagged(battery, consumed')
  BY DEF StepActive, step_battery
<1>5. /\ Sagged(battery, consumed') <= Sagged(battery, consumed)
      /\ Sagged(battery, consumed') > 0 /\ Sagged(battery, consumed') \in Int
  BY <1>3, SagIsOrdered DEF PackInv
<1> QED
  BY <1>3, <1>4, <1>5 DEF PackInv

LEMMA PackInvStep == PackInv /\ [Next]_vars => PackInv'
<1> SUFFICES ASSUME PackInv, [Next]_vars PROVE PackInv'
  OBVIOUS
<1> USE DEF PackInv
<1>1. CASE BatteryReset
  BY <1>1, FullIsSagged DEF BatteryReset, inputVars
<1>2. CASE NoCommand
  BY <1>2 DEF NoCommand, inputVars, batteryVars
<1>3. CASE PollFresh
  BY <1>3, FlightAssumption DEF PollFresh, batteryVars
<1>4. CASE PollMissed
  BY <1>4 DEF PollMissed, inputVars, batteryVars
<1>5. CASE Freeze
  BY <1>5 DEF Freeze, batteryVars
<1>6. CASE StepActive
  <2>1. battery' = battery /\ pc' = "reply" /\ UNCHANGED inputVars
    BY <1>6 DEF StepActive, step_battery, AfterStep
  <2> QED
    BY <1>6, <2>1, StepDischarges DEF inputVars, StepActive
<1>7. CASE StepPassive
  <2>1. UNCHANGED batteryVars /\ UNCHANGED inputVars /\ pc = "step"
    BY <1>7 DEF StepPassive, AfterStep
  <2>2. ~has_pending_input
    BY <1>7 DEF StepPassive
  <2> QED
    BY <2>1, <2>2 DEF batteryVars, inputVars
<1>8. CASE Reply
  BY <1>8 DEF Reply, batteryVars
<1>9. CASE NoReply
  BY <1>9 DEF NoReply, inputVars, batteryVars
<1>10. CASE UNCHANGED vars
  BY <1>10 DEF vars, inputVars, batteryVars
<1> QED
  BY <1>1, <1>2, <1>3, <1>4, <1>5, <1>6, <1>7, <1>8, <1>9, <1>10 DEF Next

LEMMA PackAlways == Spec => []PackInv
  BY PackInvInit, PackInvStep, PTL DEF Spec

LEMMA BatteryHonestStep ==
  ASSUME PackInv, [Next]_vars
  PROVE  /\ Reply => /\ voltage > 0
                     /\ voltage \in battery.empty * battery.capacity
                                      .. battery.full * battery.capacity
         /\ voltage' < voltage => StepActive
         /\ voltage' > voltage => IF voltage = 0 THEN StepActive \/ BatteryReset
                                  ELSE BatteryReset /\ consumed' = 0
<1>1. /\ voltage = 0 \/ /\ voltage = Sagged(battery, consumed)
                        /\ voltage \in battery.empty * battery.capacity
                                        .. battery.full * battery.capacity
      /\ battery.empty * battery.capacity \in Nat
      /\ battery.full * battery.capacity \in Nat
      /\ voltage \in Int
  <2>1. /\ battery.empty \in Nat /\ battery.full \in Nat /\ battery.capacity \in Nat
        /\ consumed \in Nat
    BY DEF PackInv, Pack
  <2>2. \A a \in Nat, b \in Nat : a * b \in Nat
    BY Z3
  <2>3. Sagged(battery, consumed) \in battery.empty * battery.capacity
                                      .. battery.full * battery.capacity
    BY <2>1, SagIsOrdered DEF PackInv
  <2> QED
    BY <2>1, <2>2, <2>3 DEF PackInv
<1>2. Reply => voltage > 0
  BY DEF Reply, PackInv
<1>3. CASE StepActive
  BY <1>1, <1>2, <1>3, StepDischarges
<1>4. CASE BatteryReset
  <2>1. voltage' = battery.full * battery.capacity /\ consumed' = 0
    BY <1>4 DEF BatteryReset
  <2> QED
    BY <1>1, <1>2, <1>4, <2>1
<1>5. CASE UNCHANGED voltage
  BY <1>1, <1>2, <1>5
<1>6. StepActive \/ BatteryReset \/ UNCHANGED voltage
  BY DEF Next, NoCommand, PollFresh, PollMissed, Freeze, StepPassive, Reply,
         NoReply, vars, batteryVars
<1> QED
  BY <1>3, <1>4, <1>5, <1>6

(* Whatever pack was asked for and however the vehicle is flown, frozen or *)
(* given a new pack, the battery block of its replies tells the charge     *)
(* (main.cpp, step_battery; control_server.cpp, parse_battery).            *)
THEOREM BatteryTellsCharge == Spec => BatteryHonest
<1>1. PackInv /\ [Next]_vars =>
        [/\ Reply => /\ voltage > 0
                     /\ voltage \in battery.empty * battery.capacity
                                      .. battery.full * battery.capacity
         /\ voltage' < voltage => StepActive
         /\ voltage' > voltage => IF voltage = 0 THEN StepActive \/ BatteryReset
                                  ELSE BatteryReset /\ consumed' = 0]_vars
  BY BatteryHonestStep
<1> QED
  BY <1>1, PackAlways, PTL DEF Spec, BatteryHonest

-----------------------------------------------------------------------------
(* The kinematic hold *)

Attitude == {q \in Quaternion : SquaredNorm(q) > 0}
Body == [pos : Vector, vel : Vector, rot : Attitude, spin : Vector,
         kinematic : BOOLEAN]

LEMMA VectorSums ==
  ASSUME NEW a \in Vector, NEW b \in Vector
  PROVE  /\ Plus(a, b) \in Vector /\ Minus(a, b) \in Vector
         /\ Scaled(a, b) \in Vector /\ Plus(a, Zero) = a /\ Zero \in Vector
BY DEF Vector, Plus, Minus, Scaled, Zero

LEMMA NormsKept ==
  ASSUME NEW q \in Attitude
  PROVE  /\ quat_conjugate(q) \in Attitude
         /\ quat_ned_to_jolt(q) \in Attitude /\ quat_jolt_to_ned(q) \in Attitude
         /\ SquaredNorm(q) \in Nat \ {0}
<1>1. PICK w \in Int, x \in Int, y \in Int, z \in Int : q = <<w, x, y, z>>
  BY DEF Attitude, Quaternion
<1>2. \A n \in Int : (-n) * (-n) = n * n /\ n * n \in Int
  BY Z3
<1>3. w * w + x * x + y * y + z * z > 0
  BY <1>1 DEF Attitude, SquaredNorm
<1> QED
  BY <1>1, <1>2, <1>3 DEF Attitude, Quaternion, SquaredNorm, quat_conjugate,
       quat_ned_to_jolt, quat_jolt_to_ned

LEMMA RotateType ==
  ASSUME NEW q \in Attitude, NEW v \in Vector
  PROVE  quat_rotate(q, v) \in Vector /\ quat_rotate_inverse(q, v) \in Vector
<1>1. ASSUME NEW p \in Attitude PROVE quat_rotate(p, v) \in Vector
  <2>1. <<0, v[1], v[2], v[3]>> \in Quaternion /\ quat_conjugate(p) \in Quaternion
        /\ p \in Quaternion
    BY NormsKept DEF Vector, Quaternion, Attitude
  <2>2. quat_multiply(quat_multiply(p, <<0, v[1], v[2], v[3]>>), quat_conjugate(p))
          \in Quaternion
    BY <2>1, ProductsAgree
  <2>3. Sandwich(p, v) \in Vector
    BY <2>2 DEF Sandwich, Vector, Quaternion
  <2>4. SquaredNorm(p) \in Nat \ {0}
    BY NormsKept
  <2>5. \A n \in Nat \ {0}, i \in Int : i \div n \in Int
    OBVIOUS
  <2> QED
    BY <2>3, <2>4, <2>5 DEF quat_rotate, Vector
<1> QED
  BY <1>1, NormsKept DEF quat_rotate_inverse

LEMMA StateType ==
  ASSUME NEW b \in Body, NEW prev
  PROVE  /\ get_state(b, prev).vel_ned \in Vector
         /\ get_state(b, prev).quat_ned_frd \in Attitude
BY VectorsRoundTrip, NormsKept DEF get_state, Body

LEMMA MotorsType ==
  ASSUME NEW m \in [Motors -> Int], NEW w \in [Motors -> Nat], NEW i \in Motors
  PROVE  step_motor(m[i], w[i]) \in Int
<1>1. Clamp(w[i] - 1000, 0, 1000) \in Int
  BY DEF Clamp
<1>2. \A a \in Int, b \in Int : a * b \in Int
  BY Z3
<1>3. Target(w[i]) \in Int
  BY <1>1, <1>2, QuadAssumption DEF Target
<1>4. Dt * (Target(w[i]) - m[i]) \in Int
  BY <1>2, <1>3, QuadAssumption
<1>5. Tau + Dt \in Nat \ {0}
  BY QuadAssumption
<1>6. \A n \in Nat \ {0}, k \in Int : k \div n \in Int
  OBVIOUS
<1> QED
  BY <1>4, <1>5, <1>6 DEF step_motor

LEMMA WrenchType ==
  ASSUME NEW m \in [Motors -> Int], NEW v \in Vector
  PROVE  /\ compute_wrench(m, v).force \in Vector
         /\ compute_wrench(m, v).torque \in Vector
<1>1. Thrust(m) \in [Motors -> Int]
  <2>1. \A a \in Int : a * a \in Int
    BY Z3
  <2> QED
    BY <2>1 DEF Thrust
<1> DEFINE t == Thrust(m)
<1>2. /\ Total([i \in Motors |-> -(Arm * Right[i] * t[i])]) \in Int
      /\ Total([i \in Motors |-> Arm * Fwd[i] * t[i]]) \in Int
      /\ Total([i \in Motors |-> KTorque * Yaw[i] * t[i]]) \in Int
  BY <1>1, QuadAssumption DEF Total, Right, Fwd, Yaw, Motors
<1>3. -Total(t) \in Int
  BY <1>1 DEF Total, Motors
<1>4. Mixed(t).force \in Vector /\ Mixed(t).torque \in Vector
  BY <1>2, <1>3 DEF Mixed, Vector
<1>5. Minus(Mixed(t).force, Scaled(LinDrag, v)) \in Vector
  BY <1>4, VectorSums, QuadAssumption
<1> QED
  BY <1>4, <1>5 DEF compute_wrench, Mixed

(* Update keeps a body a body, and a kinematic one without velocity where  *)
(* it is.                                                                  *)
LEMMA UpdateType ==
  ASSUME NEW b \in Body, NEW f \in Vector, NEW t \in Vector, NEW kick \in Kicks,
         NEW c \in Update(b, f, t, kick)
  PROVE  /\ c \in Body
         /\ b.kinematic /\ b.vel = Zero /\ b.spin = Zero => c = b
<1> DEFINE vel == IF b.kinematic THEN b.vel
                  ELSE Plus(Plus(b.vel, <<0, -Gravity, 0>>), Plus(f, kick.vel))
           spin == IF b.kinematic THEN b.spin
                   ELSE Plus(b.spin,
                             Plus(quat_rotate(b.rot, Scaled(InertiaInverseJolt,
                                    quat_rotate_inverse(b.rot, t))), kick.spin))
           turned == IF spin = Zero THEN {b.rot}
                     ELSE {quat_ned_to_jolt(q) : q \in Attitudes}
<1>1. kick.vel \in Vector /\ kick.spin \in Vector
  BY FlightAssumption
<1>2. <<0, -Gravity, 0>> \in Vector /\ InertiaInverseJolt \in Vector
  BY FlightAssumption DEF Vector, InertiaInverseJolt
<1>3. vel \in Vector
  BY <1>1, <1>2, VectorSums DEF Body
<1>4. spin \in Vector
  BY <1>1, <1>2, VectorSums, RotateType DEF Body
<1>5. turned \subseteq Attitude
  BY FlightAssumption, NormsKept DEF Body, Attitude
<1>6. PICK r \in turned :
        c = [b EXCEPT !.pos = Plus(@, vel), !.vel = vel, !.spin = spin, !.rot = r]
  BY DEF Update
<1>7. c \in Body
  BY <1>3, <1>4, <1>5, <1>6, VectorSums DEF Body
<1>8. ASSUME b.kinematic, b.vel = Zero, b.spin = Zero PROVE c = b
  <2>1. vel = Zero /\ spin = Zero /\ r = b.rot
    BY <1>6, <1>8
  <2>2. Plus(b.pos, Zero) = b.pos
    BY VectorSums DEF Body
  <2> QED
    BY <1>6, <1>8, <2>1, <2>2 DEF Body
<1> QED
  BY <1>7, <1>8

(* Gravity alone never reaches the accelerometer's limit, in any attitude. *)
LEMMA QuotientBound ==
  ASSUME NEW c \in Int, NEW n \in Nat \ {0}, -n <= c, c <= n
  PROVE  (c * Gravity) \div n \in -Gravity .. Gravity
<1>1. PICK g \in Nat \ {0} : g = Gravity
  BY FlightAssumption
<1>2. \A a \in Int, b \in Int : a * b \in Int /\ a * b = b * a
  BY Z3
<1>3. c * g <= n * g /\ -(n * g) <= c * g
  <2>1. \A d \in Nat : d * g >= 0
    BY Z3
  <2>2. n - c \in Nat /\ c + n \in Nat
    OBVIOUS
  <2>3. (n - c) * g >= 0 /\ (c + n) * g >= 0
    BY <2>1, <2>2
  <2>4. (n - c) * g = n * g - c * g /\ (c + n) * g = c * g + n * g
    BY Z3
  <2> QED
    BY <1>2, <2>3, <2>4
<1> DEFINE k == (c * g) \div n
<1>4. k \in Int /\ n * k <= c * g /\ c * g < n * (k + 1)
  <2>1. c * g \in Int
    BY <1>2
  <2>2. \A i \in Int : i \div n \in Int /\ n * (i \div n) <= i /\ i < n * ((i \div n) + 1)
    BY Z3
  <2> QED
    BY <2>1, <2>2
<1> HIDE DEF k
<1>5. ASSUME k > g PROVE FALSE
  <2>1. n * (k - g) > 0
    BY <1>4, <1>5, Z3
  <2>2. n * (k - g) = n * k - n * g
    BY <1>4, Z3
  <2> QED
    BY <1>2, <1>3, <1>4, <2>1, <2>2
<1>6. ASSUME k < -g PROVE FALSE
  <2>1. n * (-g - (k + 1)) >= 0
    BY <1>4, <1>6, Z3
  <2>2. n * (-g - (k + 1)) = -(n * g) - n * (k + 1)
    BY <1>4, Z3
  <2> QED
    BY <1>2, <1>3, <1>4, <2>1, <2>2
<1> QED
  BY <1>1, <1>4, <1>5, <1>6 DEF k

LEMMA RestingReading ==
  ASSUME NEW q \in Attitude
  PROVE  LET a == quat_rotate_inverse(q, <<0, 0, -Gravity>>)
         IN /\ a = <<a[1], a[2], a[3]>>
            /\ \A k \in 1 .. 3 : a[k] \in -Gravity .. Gravity
<1>1. PICK w \in Int, x \in Int, y \in Int, z \in Int :
        quat_conjugate(q) = <<w, x, y, z>>
  BY NormsKept DEF Attitude, Quaternion
<1> DEFINE n == SquaredNorm(<<w, x, y, z>>)
           c1 == -(2 * (x * z + w * y))
           c2 == -(2 * (y * z - w * x))
           c3 == -(w * w - x * x - y * y + z * z)
<1>2. n \in Nat \ {0} /\ n = w * w + x * x + y * y + z * z
  BY <1>1, NormsKept DEF SquaredNorm
<1>3. Gravity \in Int
  BY FlightAssumption
<1>4. Sandwich(<<w, x, y, z>>, <<0, 0, -Gravity>>)
        = <<c1 * Gravity, c2 * Gravity, c3 * Gravity>>
  <2>1. quat_multiply(<<w, x, y, z>>, <<0, 0, 0, -Gravity>>)
          = <<z * Gravity, -(y * Gravity), x * Gravity, -(w * Gravity)>>
    BY <1>3, Z3 DEF quat_multiply
  <2>2. quat_conjugate(<<w, x, y, z>>) = <<w, -x, -y, -z>>
    BY DEF quat_conjugate
  <2>3. PICK g \in Int : g = Gravity
    BY <1>3
  <2>4. /\ (z * g) * (-x) + (-(y * g)) * w + (x * g) * (-z) - (-(w * g)) * (-y)
             = (-(2 * (x * z + w * y))) * g
        /\ (z * g) * (-y) - (-(y * g)) * (-z) + (x * g) * w + (-(w * g)) * (-x)
             = (-(2 * (y * z - w * x))) * g
        /\ (z * g) * (-z) + (-(y * g)) * (-y) - (x * g) * (-x) + (-(w * g)) * w
             = (-(w * w - x * x - y * y + z * z)) * g
    BY Z3
  <2>5. quat_multiply(<<z * g, -(y * g), x * g, -(w * g)>>, <<w, -x, -y, -z>>) =
          <<(z * g) * w - (-(y * g)) * (-x) - (x * g) * (-y) - (-(w * g)) * (-z),
            (z * g) * (-x) + (-(y * g)) * w + (x * g) * (-z) - (-(w * g)) * (-y),
            (z * g) * (-y) - (-(y * g)) * (-z) + (x * g) * w + (-(w * g)) * (-x),
            (z * g) * (-z) + (-(y * g)) * (-y) - (x * g) * (-x) + (-(w * g)) * w>>
    BY DEF quat_multiply
  <2>6. Sandwich(<<w, x, y, z>>, <<0, 0, -g>>) =
          <<(-(2 * (x * z + w * y))) * g, (-(2 * (y * z - w * x))) * g,
            (-(w * w - x * x - y * y + z * z)) * g>>
    BY <2>1, <2>2, <2>3, <2>4, <2>5 DEF Sandwich
  <2> QED
    BY <2>3, <2>6
<1>5. \A a \in Int, b \in Int : /\ a * b \in Int /\ a * a >= 0
                               /\ 2 * (a * b) <= a * a + b * b
                               /\ -(2 * (a * b)) <= a * a + b * b
  <2> SUFFICES ASSUME NEW a \in Int, NEW b \in Int
               PROVE  /\ a * b \in Int /\ a * a >= 0
                      /\ 2 * (a * b) <= a * a + b * b
                      /\ -(2 * (a * b)) <= a * a + b * b
    OBVIOUS
  <2>1. (a - b) * (a - b) >= 0 /\ (a + b) * (a + b) >= 0 /\ a * a >= 0
    BY Z3
  <2>2. /\ (a - b) * (a - b) = a * a - 2 * (a * b) + b * b
        /\ (a + b) * (a + b) = a * a + 2 * (a * b) + b * b
    BY Z3
  <2>3. a * a \in Int /\ b * b \in Int /\ a * b \in Int
    BY Z3
  <2> QED
    BY <2>1, <2>2, <2>3
<1>6. /\ c1 \in Int /\ c2 \in Int /\ c3 \in Int
      /\ -n <= c1 /\ c1 <= n /\ -n <= c2 /\ c2 <= n /\ -n <= c3 /\ c3 <= n
  BY <1>2, <1>5
<1> HIDE DEF n, c1, c2, c3
<1>7. quat_rotate_inverse(q, <<0, 0, -Gravity>>)
        = <<(c1 * Gravity) \div n, (c2 * Gravity) \div n, (c3 * Gravity) \div n>>
  BY <1>1, <1>4 DEF quat_rotate_inverse, quat_rotate, n
<1> QED
  BY <1>2, <1>6, <1>7, QuotientBound

LEMMA RotatedZero ==
  ASSUME NEW q \in Attitude
  PROVE  quat_rotate_inverse(q, Zero) = Zero
<1>1. PICK w \in Int, x \in Int, y \in Int, z \in Int :
        quat_conjugate(q) = <<w, x, y, z>>
  BY NormsKept DEF Attitude, Quaternion
<1>2. quat_multiply(<<w, x, y, z>>, <<0, 0, 0, 0>>) = <<0, 0, 0, 0>>
  BY DEF quat_multiply
<1>3. quat_conjugate(<<w, x, y, z>>) = <<w, -x, -y, -z>>
  BY DEF quat_conjugate
<1>4. quat_multiply(<<0, 0, 0, 0>>, <<w, -x, -y, -z>>) = <<0, 0, 0, 0>>
  BY DEF quat_multiply
<1>5. Sandwich(quat_conjugate(q), Zero) = <<0, 0, 0>>
  BY <1>1, <1>2, <1>3, <1>4 DEF Sandwich, Zero
<1>6. SquaredNorm(quat_conjugate(q)) \in Nat \ {0}
  BY NormsKept
<1>7. \A n \in Nat \ {0} : 0 \div n = 0
  OBVIOUS
<1> QED
  BY <1>5, <1>6, <1>7 DEF quat_rotate_inverse, quat_rotate, Zero

LEMMA ZeroKept == jolt_to_ned(Zero) = Zero
<1>1. \A k \in Int : k + k = k => -k = k
  OBVIOUS
<1>2. 0 \in Int /\ 0 + 0 = 0
  OBVIOUS
<1>3. jolt_to_ned(<<0, 0, 0>>) = <<0, 0, -0>>
  BY DEF jolt_to_ned
<1> QED
  BY <1>1, <1>2, <1>3 DEF Zero

(* A vehicle that stands still reads as a body at rest. *)
LEMMA StillReading ==
  ASSUME NEW b \in Body, b.vel = Zero, b.spin = Zero
  PROVE  LET s == get_state(b, Zero)
         IN /\ s.vel_ned = Zero /\ s.gyro_frd = Zero
            /\ s.accel_body_frd = quat_rotate_inverse(s.quat_ned_frd, <<0, 0, -Gravity>>)
<1> DEFINE q == quat_jolt_to_ned(b.rot)
           a == quat_rotate_inverse(q, <<0, 0, -Gravity>>)
<1>1. q \in Attitude /\ jolt_to_ned(Zero) = Zero
  BY NormsKept, ZeroKept DEF Body
<1>2. Minus(Minus(Zero, Zero), <<0, 0, Gravity>>) = <<0, 0, -Gravity>>
  BY FlightAssumption DEF Minus, Zero
<1>3. a = <<a[1], a[2], a[3]>> /\ \A k \in 1 .. 3 : a[k] \in -Gravity .. Gravity
  BY <1>1, RestingReading
<1>4. \A x \in -Gravity .. Gravity : Clamp(x, -16 * Gravity, 16 * Gravity) = x
  BY FlightAssumption DEF Clamp
<1> HIDE DEF a
<1>5. get_state(b, Zero).accel_body_frd = <<a[1], a[2], a[3]>>
  BY <1>1, <1>2, <1>3, <1>4 DEF get_state, a
<1> QED
  BY <1>1, <1>3, <1>5, RotatedZero DEF get_state, a

(* The strengthening of FrozenHoldsPose: the body of a frozen vehicle is   *)
(* kinematic and has no velocity left; the rest are types.                 *)
HoldInv ==
  /\ body \in Body /\ motors \in [Motors -> Int] /\ pwm \in [Motors -> Nat]
  /\ wind \in Vector
  /\ state.vel_ned \in Vector /\ state.quat_ned_frd \in Attitude
  /\ frozen => body.kinematic /\ body.vel = Zero /\ body.spin = Zero

LEMMA HoldInvInit == Init => HoldInv
<1> SUFFICES ASSUME Init PROVE HoldInv
  OBVIOUS
<1>1. <<1, 0, 0, 0>> \in Attitude
  BY DEF Attitude, Quaternion, SquaredNorm
<1>2. Zero \in Vector
  BY VectorSums DEF Vector, Zero
<1>3. NewBody \in Body
  BY <1>1, <1>2, NormsKept, VectorsRoundTrip DEF NewBody, Body, StartPos, Vector
<1>4. /\ body \in Body /\ motors \in [Motors -> Int] /\ pwm \in [Motors -> Nat]
      /\ wind \in Vector /\ ~frozen
  BY <1>3, FlightAssumption DEF Init
<1>5. state.vel_ned \in Vector /\ state.quat_ned_frd \in Attitude
  BY <1>4, StateType DEF Init
<1> QED
  BY <1>4, <1>5 DEF HoldInv

LEMMA StepTypes ==
  ASSUME HoldInv, NEW f \in Vector, NEW t \in Vector, step(f, t)
  PROVE  /\ body' \in Body
         /\ frozen => body' = body /\ prev_vel_ned' = Zero
<1>1. PICK kick \in Kicks :
        /\ prev_vel_ned' = jolt_to_ned(body.vel)
        /\ body' \in Update(body, quat_rotate(body.rot, ned_to_jolt(f)),
                            quat_rotate(body.rot, ned_to_jolt(t)), kick)
  BY DEF step
<1>2. /\ quat_rotate(body.rot, ned_to_jolt(f)) \in Vector
      /\ quat_rotate(body.rot, ned_to_jolt(t)) \in Vector
      /\ body \in Body
  BY VectorsRoundTrip, RotateType DEF HoldInv, Body
<1>3. jolt_to_ned(Zero) = Zero
  BY ZeroKept
<1> QED
  BY <1>1, <1>2, <1>3, UpdateType DEF HoldInv

LEMMA HoldInvStep == HoldInv /\ [Next]_vars => HoldInv'
<1> SUFFICES ASSUME HoldInv, [Next]_vars PROVE HoldInv'
  OBVIOUS
<1>z. Zero \in Vector
  BY DEF Vector, Zero
<1>1. CASE BatteryReset \/ NoCommand \/ PollMissed \/ Reply \/ NoReply \/ UNCHANGED vars
  <2>1. UNCHANGED <<body, motors, pwm, wind, state, frozen>>
    BY <1>1 DEF BatteryReset, NoCommand, PollMissed, Reply, NoReply, vars,
       bodyVars, inputVars, fixedVars
  <2> QED
    BY <2>1 DEF HoldInv
<1>2. CASE PollFresh
  <2>1. body' \in Body
    BY <1>2 DEF PollFresh, set_frozen, bodyVars, HoldInv, Body
  <2>2. UNCHANGED <<motors, wind, state>> /\ pwm' \in [Motors -> Nat] /\ ~frozen'
    BY <1>2, FlightAssumption DEF PollFresh, fixedVars
  <2> QED
    BY <2>1, <2>2 DEF HoldInv
<1>3. CASE Freeze
  <2>1. body' \in Body /\ body'.kinematic /\ body'.vel = Zero /\ body'.spin = Zero
    BY <1>3, <1>z DEF Freeze, set_frozen, HoldInv, Body
  <2>2. UNCHANGED <<motors, pwm, wind, state>>
    BY <1>3 DEF Freeze, fixedVars
  <2> QED
    BY <2>1, <2>2 DEF HoldInv
<1>4. CASE StepActive
  <2> DEFINE air == quat_rotate_inverse(state.quat_ned_frd, Minus(state.vel_ned, wind))
             w == compute_wrench(motors', air)
  <2>1. motors' \in [Motors -> Int]
    BY <1>4, MotorsType DEF StepActive, HoldInv
  <2>2. air \in Vector
    BY VectorSums, RotateType DEF HoldInv
  <2>3. w.force \in Vector /\ w.torque \in Vector
    BY <2>1, <2>2, WrenchType
  <2>4. step(w.force, w.torque) /\ ~frozen /\ AfterStep
    BY <1>4 DEF StepActive
  <2>5. body' \in Body
    BY <2>3, <2>4, StepTypes
  <2>6. state' = get_state(body', prev_vel_ned') /\ UNCHANGED <<pwm, wind, frozen>>
    BY <2>4 DEF AfterStep, Refreshed, inputVars, fixedVars
  <2>7. state'.vel_ned \in Vector /\ state'.quat_ned_frd \in Attitude
    BY <2>5, <2>6, StateType
  <2> QED
    BY <2>1, <2>4, <2>5, <2>6, <2>7 DEF HoldInv
<1>5. CASE StepPassive
  <2>1. step(Zero, Zero) /\ AfterStep /\ UNCHANGED motors
    BY <1>5 DEF StepPassive
  <2>2. body' \in Body /\ (frozen => body' = body)
    BY <2>1, <1>z, StepTypes
  <2>3. state' = get_state(body', prev_vel_ned') /\ UNCHANGED <<pwm, wind, frozen>>
    BY <2>1 DEF AfterStep, Refreshed, inputVars, fixedVars
  <2>4. state'.vel_ned \in Vector /\ state'.quat_ned_frd \in Attitude
    BY <2>2, <2>3, StateType
  <2> QED
    BY <2>1, <2>2, <2>3, <2>4 DEF HoldInv
<1> QED
  BY <1>1, <1>2, <1>3, <1>4, <1>5 DEF Next

LEMMA HoldAlways == Spec => []HoldInv
  BY HoldInvInit, HoldInvStep, PTL DEF Spec

Held ==
  frozen /\ frozen' =>
    /\ body'.pos = body.pos /\ body'.rot = body.rot
    /\ StepPassive =>
         /\ state'.vel_ned = Zero /\ state'.gyro_frd = Zero
         /\ state'.accel_body_frd =
              quat_rotate_inverse(state'.quat_ned_frd, <<0, 0, -Gravity>>)

LEMMA HeldStep ==
  ASSUME HoldInv, [Next]_vars PROVE Held
<1> SUFFICES ASSUME frozen, frozen' PROVE Held
  BY DEF Held
<1>z. Zero \in Vector
  BY DEF Vector, Zero
<1>1. CASE StepPassive
  <2>1. step(Zero, Zero) /\ AfterStep
    BY <1>1 DEF StepPassive
  <2>2. body' = body /\ prev_vel_ned' = Zero
    BY <2>1, <1>z, StepTypes
  <2>3. state' = get_state(body, Zero)
    BY <2>1, <2>2 DEF AfterStep, Refreshed
  <2>4. /\ state'.vel_ned = Zero /\ state'.gyro_frd = Zero
        /\ state'.accel_body_frd =
             quat_rotate_inverse(state'.quat_ned_frd, <<0, 0, -Gravity>>)
    BY <2>3, StillReading DEF HoldInv
  <2> QED
    BY <2>2, <2>4 DEF Held
<1>2. CASE ~StepPassive
  <2>1. UNCHANGED body
    BY <1>2 DEF Next, BatteryReset, NoCommand, PollFresh, PollMissed, Freeze,
       StepActive, Reply, NoReply, vars, bodyVars
  <2> QED
    BY <1>2, <2>1 DEF Held
<1> QED
  BY <1>1, <1>2

(* A frozen vehicle stays where it was frozen for as long as it is frozen, *)
(* whatever the contacts and the wind, and looks like a body at rest.      *)
THEOREM FrozenStandsStill == Spec => FrozenHoldsPose
<1>1. HoldInv /\ [Next]_vars => [Held]_vars
  BY HeldStep
<1>2. Spec => [][Held]_vars
  BY <1>1, HoldAlways, PTL DEF Spec
<1> QED
  BY <1>2 DEF FrozenHoldsPose, Held

-----------------------------------------------------------------------------
(* Rotations that are exact in integers *)

(* Division without a remainder. *)
LEMMA ExactQuotient ==
  ASSUME NEW n \in Nat \ {0}, NEW k \in Int
  PROVE  n * k \in Int /\ (n * k) \div n = k
  BY Z3

LEMMA Divided ==
  ASSUME NEW n \in Nat \ {0}, NEW i \in Int, (i % n) = 0
  PROVE  \E m \in Int : i = n * m
  BY Z3

(* The product of two vectors. *)
Dot(a, b) == a[1] * b[1] + a[2] * b[2] + a[3] * b[3]

(* Rotating by a quaternion multiplies by |q|^2 times this matrix. *)
TurnMatrix(q) ==
  LET w == q[1]
      x == q[2]
      y == q[3]
      z == q[4]
  IN <<<<w * w + x * x - y * y - z * z, 2 * (x * y - w * z), 2 * (x * z + w * y)>>,
       <<2 * (x * y + w * z), w * w - x * x + y * y - z * z, 2 * (y * z - w * x)>>,
       <<2 * (x * z - w * y), 2 * (y * z + w * x), w * w - x * x - y * y + z * z>>>>

LEMMA MatrixType ==
  ASSUME NEW q \in Quaternion, NEW i \in 1 .. 3, NEW j \in 1 .. 3
  PROVE  TurnMatrix(q)[i][j] \in Int
<1>1. PICK w \in Int, x \in Int, y \in Int, z \in Int : q = <<w, x, y, z>>
  BY DEF Quaternion
<1>2. \A a, b \in Int : a * b \in Int
  BY Z3
<1>3. /\ w * w \in Int /\ x * x \in Int /\ y * y \in Int /\ z * z \in Int
      /\ x * y \in Int /\ w * z \in Int /\ x * z \in Int /\ w * y \in Int
      /\ y * z \in Int /\ w * x \in Int
  BY <1>2
<1> QED
  BY <1>1, <1>3 DEF TurnMatrix

(* The conjugate turns by the transposed matrix. *)
LEMMA MatrixTransposed ==
  ASSUME NEW q \in Quaternion, NEW i \in 1 .. 3, NEW j \in 1 .. 3
  PROVE  TurnMatrix(quat_conjugate(q))[i][j] = TurnMatrix(q)[j][i]
<1>1. PICK w \in Int, x \in Int, y \in Int, z \in Int : q = <<w, x, y, z>>
  BY DEF Quaternion
<1>2. quat_conjugate(q) = <<w, -x, -y, -z>>
  BY <1>1 DEF quat_conjugate
<1>3. /\ (-x) * (-x) = x * x /\ (-y) * (-y) = y * y /\ (-z) * (-z) = z * z
      /\ 2 * ((-x) * (-y) - w * (-z)) = 2 * (x * y + w * z)
      /\ 2 * ((-x) * (-z) + w * (-y)) = 2 * (x * z - w * y)
      /\ 2 * ((-x) * (-y) + w * (-z)) = 2 * (x * y - w * z)
      /\ 2 * ((-y) * (-z) - w * (-x)) = 2 * (y * z + w * x)
      /\ 2 * ((-x) * (-z) - w * (-y)) = 2 * (x * z + w * y)
      /\ 2 * ((-y) * (-z) + w * (-x)) = 2 * (y * z - w * x)
  BY Z3
<1> QED
  BY <1>1, <1>2, <1>3 DEF TurnMatrix

(* The sandwich of a vector is the matrix times it. *)
LEMMA SandwichRows ==
  ASSUME NEW q \in Quaternion, NEW v \in Vector
  PROVE  /\ \A k \in 1 .. 3 : Sandwich(q, v)[k] = Dot(TurnMatrix(q)[k], v)
         /\ Sandwich(q, v) \in Vector
<1>1. PICK w \in Int, x \in Int, y \in Int, z \in Int : q = <<w, x, y, z>>
  BY DEF Quaternion
<1>2. PICK a \in Int, b \in Int, c \in Int : v = <<a, b, c>>
  BY DEF Vector
<1> DEFINE p == -(x * a) - y * b - z * c
           r == w * a + y * c - z * b
           s == w * b - x * c + z * a
           t == w * c + x * b - y * a
<1>3. p \in Int /\ r \in Int /\ s \in Int /\ t \in Int
  BY Z3
<1>4. Sandwich(q, v) = <<p * (-x) + r * w + s * (-z) - t * (-y),
                         p * (-y) - r * (-z) + s * w + t * (-x),
                         p * (-z) + r * (-y) - s * (-x) + t * w>>
  <2>1. quat_multiply(<<w, x, y, z>>, <<0, a, b, c>>) = <<p, r, s, t>>
    BY Z3 DEF quat_multiply
  <2>2. quat_conjugate(<<w, x, y, z>>) = <<w, -x, -y, -z>>
    BY DEF quat_conjugate
  <2> HIDE DEF p, r, s, t
  <2> DEFINE P == quat_multiply(quat_multiply(<<w, x, y, z>>, <<0, a, b, c>>),
                                quat_conjugate(<<w, x, y, z>>))
  <2>3. quat_multiply(<<p, r, s, t>>, <<w, -x, -y, -z>>) =
          <<p * w - r * (-x) - s * (-y) - t * (-z),
            p * (-x) + r * w + s * (-z) - t * (-y),
            p * (-y) - r * (-z) + s * w + t * (-x),
            p * (-z) + r * (-y) - s * (-x) + t * w>>
    BY DEF quat_multiply
  <2>4. P = <<p * w - r * (-x) - s * (-y) - t * (-z),
              p * (-x) + r * w + s * (-z) - t * (-y),
              p * (-y) - r * (-z) + s * w + t * (-x),
              p * (-z) + r * (-y) - s * (-x) + t * w>>
    BY <2>1, <2>2, <2>3, Zenon
  <2>5. Sandwich(q, v) = <<P[2], P[3], P[4]>>
    BY <1>1, <1>2 DEF Sandwich
  <2> HIDE DEF P
  <2> QED
    BY <2>4, <2>5
<1>5. /\ p * (-x) + r * w + s * (-z) - t * (-y)
           = (w * w + x * x - y * y - z * z) * a + (2 * (x * y - w * z)) * b + (2 * (x * z + w * y)) * c
      /\ p * (-y) - r * (-z) + s * w + t * (-x)
           = (2 * (x * y + w * z)) * a + (w * w - x * x + y * y - z * z) * b + (2 * (y * z - w * x)) * c
      /\ p * (-z) + r * (-y) - s * (-x) + t * w
           = (2 * (x * z - w * y)) * a + (2 * (y * z + w * x)) * b + (w * w - x * x - y * y + z * z) * c
  BY Z3
<1> HIDE DEF p, r, s, t
<1>6. /\ Dot(TurnMatrix(q)[1], v)
           = (w * w + x * x - y * y - z * z) * a + (2 * (x * y - w * z)) * b + (2 * (x * z + w * y)) * c
      /\ Dot(TurnMatrix(q)[2], v)
           = (2 * (x * y + w * z)) * a + (w * w - x * x + y * y - z * z) * b + (2 * (y * z - w * x)) * c
      /\ Dot(TurnMatrix(q)[3], v)
           = (2 * (x * z - w * y)) * a + (2 * (y * z + w * x)) * b + (w * w - x * x - y * y + z * z) * c
  BY <1>1, <1>2 DEF TurnMatrix, Dot
<1>7. Sandwich(q, v) = <<Dot(TurnMatrix(q)[1], v), Dot(TurnMatrix(q)[2], v), Dot(TurnMatrix(q)[3], v)>>
  BY <1>4, <1>5, <1>6, Zenon
<1>8. /\ p * (-x) + r * w + s * (-z) - t * (-y) \in Int
      /\ p * (-y) - r * (-z) + s * w + t * (-x) \in Int
      /\ p * (-z) + r * (-y) - s * (-x) + t * w \in Int
  BY <1>3, Z3
<1> QED
  BY <1>4, <1>7, <1>8 DEF Vector

(* What divides a row divides its product with every vector. *)
LEMMA DotDivides ==
  ASSUME NEW n \in Nat \ {0}, NEW r \in Vector, NEW v \in Vector,
         (r[1] % n) = 0, (r[2] % n) = 0, (r[3] % n) = 0
  PROVE  Dot(r, v) = n * (Dot(r, v) \div n)
<1>1. PICK a \in Int, b \in Int, c \in Int : v = <<a, b, c>>
  BY DEF Vector
<1>2. r[1] \in Int /\ r[2] \in Int /\ r[3] \in Int
  BY DEF Vector
<1>3. PICK d \in Int : r[1] = n * d
  BY <1>2, Divided
<1>4. PICK e \in Int : r[2] = n * e
  BY <1>2, Divided
<1>5. PICK f \in Int : r[3] = n * f
  BY <1>2, Divided
<1>6. /\ (n * d) * a + (n * e) * b + (n * f) * c = n * (d * a + e * b + f * c)
      /\ d * a + e * b + f * c \in Int
  BY Z3
<1>7. Dot(r, v) = n * (d * a + e * b + f * c)
  BY <1>1, <1>3, <1>4, <1>5, <1>6 DEF Dot
<1> QED
  BY <1>6, <1>7, ExactQuotient

LEMMA DotAxes ==
  ASSUME NEW r \in Vector
  PROVE  Dot(r, <<1, 0, 0>>) = r[1] /\ Dot(r, <<0, 1, 0>>) = r[2] /\ Dot(r, <<0, 0, 1>>) = r[3]
  BY DEF Dot, Vector

LEMMA MatrixRow ==
  ASSUME NEW q \in Quaternion, NEW k \in 1 .. 3 PROVE TurnMatrix(q)[k] \in Vector
<1>1. TurnMatrix(q)[k] = <<TurnMatrix(q)[k][1], TurnMatrix(q)[k][2], TurnMatrix(q)[k][3]>>
  BY DEF TurnMatrix
<1> QED
  BY <1>1, MatrixType DEF Vector

LEMMA ConjugateTurns ==
  ASSUME NEW q \in Attitude
  PROVE  SquaredNorm(quat_conjugate(q)) = SquaredNorm(q)
<1>1. PICK w \in Int, x \in Int, y \in Int, z \in Int : q = <<w, x, y, z>>
  BY DEF Attitude, Quaternion
<1>2. \A k \in Int : (-k) * (-k) = k * k
  BY Z3
<1> QED
  BY <1>1, <1>2 DEF SquaredNorm, quat_conjugate

(* Where the axes turn into each other, so does every vector, without a    *)
(* remainder, and back.                                                    *)
LEMMA ExactEntries ==
  ASSUME NEW q \in Attitude, TurnsExactly(q), NEW i \in 1 .. 3, NEW j \in 1 .. 3
  PROVE  (TurnMatrix(q)[i][j] % SquaredNorm(q)) = 0
<1>1. /\ <<1, 0, 0>> \in Vector /\ <<0, 1, 0>> \in Vector /\ <<0, 0, 1>> \in Vector
      /\ q \in Quaternion
  BY DEF Attitude, Vector
<1>2. /\ Sandwich(q, <<1, 0, 0>>)[i] = TurnMatrix(q)[i][1]
      /\ Sandwich(q, <<0, 1, 0>>)[i] = TurnMatrix(q)[i][2]
      /\ Sandwich(q, <<0, 0, 1>>)[i] = TurnMatrix(q)[i][3]
  BY <1>1, SandwichRows, MatrixRow, DotAxes
<1>3. /\ (Sandwich(q, <<1, 0, 0>>)[i] % SquaredNorm(q)) = 0
      /\ (Sandwich(q, <<0, 1, 0>>)[i] % SquaredNorm(q)) = 0
      /\ (Sandwich(q, <<0, 0, 1>>)[i] % SquaredNorm(q)) = 0
  BY DEF TurnsExactly
<1> QED
  BY <1>2, <1>3

LEMMA ExactTurn ==
  ASSUME NEW q \in Attitude, TurnsExactly(q), NEW v \in Vector, NEW k \in 1 .. 3
  PROVE  /\ Sandwich(q, v)[k] = SquaredNorm(q) * quat_rotate(q, v)[k]
         /\ Sandwich(quat_conjugate(q), v)[k] = SquaredNorm(q) * quat_rotate_inverse(q, v)[k]
<1> DEFINE n == SquaredNorm(q)
           c == quat_conjugate(q)
           T == TurnMatrix(q)
           U == TurnMatrix(c)
<1>1. /\ n \in Nat \ {0} /\ q \in Quaternion /\ c \in Quaternion /\ SquaredNorm(c) = n
  BY NormsKept, ConjugateTurns DEF Attitude
<1>2. /\ Sandwich(q, v)[k] = Dot(T[k], v) /\ Sandwich(c, v)[k] = Dot(U[k], v)
      /\ T[k] \in Vector /\ U[k] \in Vector
  BY <1>1, SandwichRows, MatrixRow
<1>3. (T[k][1] % n) = 0 /\ (T[k][2] % n) = 0 /\ (T[k][3] % n) = 0
  BY ExactEntries
<1>4. (U[k][1] % n) = 0 /\ (U[k][2] % n) = 0 /\ (U[k][3] % n) = 0
  BY <1>1, ExactEntries, MatrixTransposed
<1>5. /\ quat_rotate(q, v)[k] = Sandwich(q, v)[k] \div n
      /\ quat_rotate_inverse(q, v)[k] = Sandwich(c, v)[k] \div n
  BY <1>1 DEF quat_rotate, quat_rotate_inverse
<1> HIDE DEF n, c, T, U
<1>6. Dot(T[k], v) = n * (Dot(T[k], v) \div n) /\ Dot(U[k], v) = n * (Dot(U[k], v) \div n)
  BY <1>1, <1>2, <1>3, <1>4, DotDivides
<1> QED
  BY <1>2, <1>5, <1>6 DEF n, c

(* Terms that cancel. *)
LEMMA Cancelled ==
  ASSUME NEW n \in Nat \ {0}, NEW a \in Int, NEW b \in Int, n * a = n * b PROVE a = b
  BY ExactQuotient

(* The columns of the matrix are orthogonal, and |q|^2 long. *)
LEMMA Orthogonal ==
  ASSUME NEW q \in Quaternion, NEW k \in 1 .. 3, NEW l \in 1 .. 3
  PROVE  TurnMatrix(q)[1][k] * TurnMatrix(q)[1][l] + TurnMatrix(q)[2][k] * TurnMatrix(q)[2][l]
           + TurnMatrix(q)[3][k] * TurnMatrix(q)[3][l]
           = IF k = l THEN SquaredNorm(q) * SquaredNorm(q) ELSE 0
<1>1. PICK w \in Int, x \in Int, y \in Int, z \in Int : q = <<w, x, y, z>>
  BY DEF Quaternion
<1> DEFINE n == w * w + x * x + y * y + z * z
           s11 == w * w + x * x - y * y - z * z
           s12 == 2 * (x * y - w * z)
           s13 == 2 * (x * z + w * y)
           s21 == 2 * (x * y + w * z)
           s22 == w * w - x * x + y * y - z * z
           s23 == 2 * (y * z - w * x)
           s31 == 2 * (x * z - w * y)
           s32 == 2 * (y * z + w * x)
           s33 == w * w - x * x - y * y + z * z
<1>2. /\ s11 * s11 + s21 * s21 + s31 * s31 = n * n
      /\ s12 * s12 + s22 * s22 + s32 * s32 = n * n
      /\ s13 * s13 + s23 * s23 + s33 * s33 = n * n
  BY Z3
<1>3. /\ s11 * s12 + s21 * s22 + s31 * s32 = 0 /\ s12 * s11 + s22 * s21 + s32 * s31 = 0
      /\ s11 * s13 + s21 * s23 + s31 * s33 = 0 /\ s13 * s11 + s23 * s21 + s33 * s31 = 0
      /\ s12 * s13 + s22 * s23 + s32 * s33 = 0 /\ s13 * s12 + s23 * s22 + s33 * s32 = 0
  BY Z3
<1>4. TurnMatrix(q) = <<<<s11, s12, s13>>, <<s21, s22, s23>>, <<s31, s32, s33>>>>
      /\ SquaredNorm(q) = n
  BY <1>1 DEF TurnMatrix, SquaredNorm
<1> HIDE DEF n, s11, s12, s13, s21, s22, s23, s31, s32, s33
<1>5. /\ TurnMatrix(q)[1][1] = s11 /\ TurnMatrix(q)[1][2] = s12 /\ TurnMatrix(q)[1][3] = s13
      /\ TurnMatrix(q)[2][1] = s21 /\ TurnMatrix(q)[2][2] = s22 /\ TurnMatrix(q)[2][3] = s23
      /\ TurnMatrix(q)[3][1] = s31 /\ TurnMatrix(q)[3][2] = s32 /\ TurnMatrix(q)[3][3] = s33
  BY <1>4
<1>6. CASE k = l
  BY <1>2, <1>4, <1>5, <1>6
<1>7. CASE k # l
  BY <1>3, <1>5, <1>7
<1> QED
  BY <1>6, <1>7

(* Turning there and back. *)
LEMMA TurnedBack ==
  ASSUME NEW q \in Attitude, TurnsExactly(q), NEW v \in Vector
  PROVE  quat_rotate_inverse(q, quat_rotate(q, v)) = v
<1> DEFINE n == SquaredNorm(q)
           c == quat_conjugate(q)
           T == TurnMatrix(q)
           r == quat_rotate(q, v)
           R == quat_rotate_inverse(q, r)
<1>1. /\ n \in Nat \ {0} /\ q \in Quaternion /\ c \in Quaternion
      /\ r \in Vector /\ R \in Vector
  BY NormsKept, RotateType DEF Attitude
<1>2. \A j \in 1 .. 3 : n * r[j] = T[j][1] * v[1] + T[j][2] * v[2] + T[j][3] * v[3]
  BY <1>1, ExactTurn, SandwichRows DEF Dot
<1>3. \A k \in 1 .. 3 : n * R[k] = T[1][k] * r[1] + T[2][k] * r[2] + T[3][k] * r[3]
  <2> TAKE k \in 1 .. 3
  <2>1. n * R[k] = Dot(TurnMatrix(c)[k], r)
    BY <1>1, ExactTurn, SandwichRows
  <2>2. /\ TurnMatrix(c)[k][1] = T[1][k] /\ TurnMatrix(c)[k][2] = T[2][k]
        /\ TurnMatrix(c)[k][3] = T[3][k]
    BY <1>1, MatrixTransposed
  <2> QED
    BY <2>1, <2>2 DEF Dot
<1>4. \A i, j \in 1 .. 3 : T[i][j] \in Int
  BY <1>1, MatrixType
<1>5. \A k, l \in 1 .. 3 : T[1][k] * T[1][l] + T[2][k] * T[2][l] + T[3][k] * T[3][l]
                             = IF k = l THEN n * n ELSE 0
  BY <1>1, Orthogonal
<1> HIDE DEF n, c, T, r, R
<1>6. ASSUME NEW k \in 1 .. 3 PROVE R[k] = v[k]
  <2>1. PICK a \in Int, b \in Int, d \in Int : v[1] = a /\ v[2] = b /\ v[3] = d
    BY DEF Vector
  <2>2. PICK e \in Int, f \in Int, g \in Int, h \in Int :
          r[1] = e /\ r[2] = f /\ r[3] = g /\ R[k] = h
    BY <1>1 DEF Vector
  <2>3. PICK s \in Int, t \in Int, u \in Int : s = T[1][k] /\ t = T[2][k] /\ u = T[3][k]
    BY <1>4
  <2>4. PICK t11 \in Int, t12 \in Int, t13 \in Int :
          T[1][1] = t11 /\ T[1][2] = t12 /\ T[1][3] = t13
    BY <1>4
  <2>5. PICK t21 \in Int, t22 \in Int, t23 \in Int :
          T[2][1] = t21 /\ T[2][2] = t22 /\ T[2][3] = t23
    BY <1>4
  <2>6. PICK t31 \in Int, t32 \in Int, t33 \in Int :
          T[3][1] = t31 /\ T[3][2] = t32 /\ T[3][3] = t33
    BY <1>4
  <2>7. PICK i1 \in Int, i2 \in Int, i3 \in Int :
          /\ i1 = IF k = 1 THEN n * n ELSE 0
          /\ i2 = IF k = 2 THEN n * n ELSE 0
          /\ i3 = IF k = 3 THEN n * n ELSE 0
    <3>1. n * n \in Int
      BY <1>1, Z3
    <3> QED
      BY <3>1
  <2>8. /\ s * t11 + t * t21 + u * t31 = i1 /\ s * t12 + t * t22 + u * t32 = i2
        /\ s * t13 + t * t23 + u * t33 = i3
    <3>1. /\ s * t11 + t * t21 + u * t31 = IF k = 1 THEN n * n ELSE 0
          /\ s * t12 + t * t22 + u * t32 = IF k = 2 THEN n * n ELSE 0
          /\ s * t13 + t * t23 + u * t33 = IF k = 3 THEN n * n ELSE 0
      BY <1>5, <2>3, <2>4, <2>5, <2>6
    <3> QED
      BY <2>7, <3>1
  <2>9. /\ n * e = t11 * a + t12 * b + t13 * d
        /\ n * f = t21 * a + t22 * b + t23 * d
        /\ n * g = t31 * a + t32 * b + t33 * d
        /\ n * h = s * e + t * f + u * g
    BY <1>2, <1>3, <2>1, <2>2, <2>3, <2>4, <2>5, <2>6
  <2>10. n * (n * h) = i1 * a + i2 * b + i3 * d
    <3>1. n * (n * h) = s * (n * e) + t * (n * f) + u * (n * g)
      BY <1>1, <2>9, Z3
    <3>2. s * (t11 * a + t12 * b + t13 * d) + t * (t21 * a + t22 * b + t23 * d)
            + u * (t31 * a + t32 * b + t33 * d)
            = (s * t11 + t * t21 + u * t31) * a + (s * t12 + t * t22 + u * t32) * b
                + (s * t13 + t * t23 + u * t33) * d
      BY Z3
    <3> QED
      BY <2>8, <2>9, <3>1, <3>2
  <2>11. n * (n * h) = n * (n * v[k])
    <3>1. \A j \in Int : (n * n) * j = n * (n * j)
      BY <1>1, Z3
    <3>2. i1 * a + i2 * b + i3 * d = (n * n) * v[k]
      BY <1>1, <2>1, <2>7
    <3> QED
      BY <2>1, <2>10, <3>1, <3>2
  <2>12. n * h \in Int /\ n * v[k] \in Int /\ v[k] \in Int
    BY <1>1, <2>1, ExactQuotient
  <2> QED
    BY <1>1, <2>2, <2>11, <2>12, Cancelled
<1> QED
  BY <1>1, <1>6 DEF Vector, R, r

(* Turning in Jolt's axes is turning in NED. *)
LEMMA JoltTurns ==
  ASSUME NEW q \in Attitude, TurnsExactly(q), NEW v \in Vector
  PROVE  /\ quat_rotate(quat_ned_to_jolt(q), ned_to_jolt(v)) = ned_to_jolt(quat_rotate(q, v))
         /\ quat_rotate_inverse(quat_ned_to_jolt(q), ned_to_jolt(v))
               = ned_to_jolt(quat_rotate_inverse(q, v))
<1> DEFINE n == SquaredNorm(q)
<1>1. /\ n \in Nat \ {0} /\ q \in Quaternion /\ quat_conjugate(q) \in Attitude
      /\ quat_conjugate(q) \in Quaternion
  BY NormsKept DEF Attitude
<1>2. \A p \in Quaternion : /\ SquaredNorm(quat_ned_to_jolt(p)) = SquaredNorm(p)
                            /\ quat_conjugate(quat_ned_to_jolt(p)) = quat_ned_to_jolt(quat_conjugate(p))
  <2>1. \A k \in Int : (-k) * (-k) = k * k /\ k * k \in Int
    BY Z3
  <2> QED
    BY <2>1 DEF Quaternion, SquaredNorm, quat_ned_to_jolt, quat_conjugate
<1>3. ASSUME NEW p \in Quaternion, SquaredNorm(p) = n, NEW r \in Vector,
             \A k \in 1 .. 3 : Sandwich(p, v)[k] = n * r[k]
      PROVE  quat_rotate(quat_ned_to_jolt(p), ned_to_jolt(v)) = ned_to_jolt(r)
  <2>1. PICK i \in Int, j \in Int, k \in Int : r = <<i, j, k>>
    BY DEF Vector
  <2>2. /\ (n * i) \div n = i /\ -(n * k) = n * (-k) /\ (n * (-k)) \div n = -k
        /\ (n * j) \div n = j
    <3>1. -k \in Int
      OBVIOUS
    <3>2. -(n * k) = n * (-k)
      BY <1>1, Z3
    <3> QED
      BY <1>1, <3>1, <3>2, ExactQuotient
  <2>3. Sandwich(quat_ned_to_jolt(p), ned_to_jolt(v)) = ned_to_jolt(Sandwich(p, v))
    BY RotationsAgree
  <2> HIDE DEF n
  <2>4. ned_to_jolt(Sandwich(p, v)) = <<n * i, -(n * k), n * j>>
    BY <1>3, <2>1 DEF ned_to_jolt
  <2>5. quat_rotate(quat_ned_to_jolt(p), ned_to_jolt(v)) = <<i, -k, j>>
    BY <1>2, <1>3, <2>2, <2>3, <2>4 DEF quat_rotate
  <2> QED
    BY <2>1, <2>5 DEF ned_to_jolt
<1>4. quat_rotate(q, v) \in Vector /\ quat_rotate_inverse(q, v) \in Vector
  BY RotateType
<1>5. quat_rotate(quat_ned_to_jolt(q), ned_to_jolt(v)) = ned_to_jolt(quat_rotate(q, v))
  BY <1>1, <1>3, <1>4, ExactTurn
<1>6. quat_rotate(quat_ned_to_jolt(quat_conjugate(q)), ned_to_jolt(v))
        = ned_to_jolt(quat_rotate_inverse(q, v))
  BY <1>1, <1>3, <1>4, ExactTurn, ConjugateTurns
<1> QED
  BY <1>1, <1>2, <1>5, <1>6 DEF quat_rotate_inverse

-----------------------------------------------------------------------------
(* RigidBody's vectors and rotations are those of Frames. *)
LEMMA TruthVectors ==
  ASSUME NEW a, NEW b
  PROVE  /\ Truth!Plus(a, b) = Plus(a, b) /\ Truth!Minus(a, b) = Minus(a, b)
         /\ Truth!Scaled(a, b) = Scaled(a, b) /\ Truth!Cross(a, b) = Cross(a, b)
BY DEF Truth!Plus, Plus, Truth!Minus, Minus, Truth!Scaled, Scaled, Truth!Cross, Cross

LEMMA TruthClamp ==
  ASSUME NEW a, NEW b, NEW c PROVE Truth!Clamp(a, b, c) = Clamp(a, b, c)
BY DEF Truth!Clamp, Clamp

LEMMA TruthRotation ==
  ASSUME NEW q, NEW v
  PROVE  /\ Truth!quat_rotate(q, v) = quat_rotate(q, v)
         /\ Truth!quat_rotate_inverse(q, v) = quat_rotate_inverse(q, v)
<1>1. /\ \A a, b : Truth!quat_multiply(a, b) = quat_multiply(a, b)
      /\ \A a : Truth!quat_conjugate(a) = quat_conjugate(a)
      /\ \A a : Truth!SquaredNorm(a) = SquaredNorm(a)
  BY DEF Truth!SquaredNorm, SquaredNorm, Truth!quat_multiply, quat_multiply,
         Truth!quat_conjugate, quat_conjugate
<1>2. \A a, b : Truth!Sandwich(a, b) = Sandwich(a, b)
  BY <1>1 DEF Truth!Sandwich, Sandwich
<1>3. \A a, b : Truth!quat_rotate(a, b) = quat_rotate(a, b)
  BY <1>1, <1>2 DEF Truth!quat_rotate, quat_rotate
<1> QED
  BY <1>1, <1>3 DEF Truth!quat_rotate_inverse, quat_rotate_inverse

LEMMA TruthZero == Truth!Zero = Zero
BY DEF Truth!Zero, Zero

(* Changing axes is linear. *)
LEMMA NedSums ==
  ASSUME NEW a \in Vector, NEW b \in Vector
  PROVE  /\ jolt_to_ned(Plus(a, b)) = Plus(jolt_to_ned(a), jolt_to_ned(b))
         /\ Minus(Minus(Plus(a, Plus(b, <<0, 0, Gravity>>)), a), <<0, 0, Gravity>>) = b
         /\ Plus(Plus(a, <<0, 0, Gravity>>), b) = Plus(a, Plus(b, <<0, 0, Gravity>>))
         /\ Plus(a, b) = Plus(b, a)
         /\ Plus(Zero, a) = a /\ (jolt_to_ned(a) = Zero <=> a = Zero)
BY FlightAssumption DEF Vector, Plus, Minus, jolt_to_ned, Zero

(* The mixer's signs are those of four rotors in their places. *)
LEMMA MixerIsRotors ==
  ASSUME NEW m \in [Motors -> Int]
  PROVE  /\ Truth!Sum4([i \in 1 .. 4 |-> Truth!Push(i, m)]) = Mixed(Thrust(m)).force
         /\ Truth!Torques(m) = Mixed(Thrust(m)).torque
<1>1. PICK A \in Int, K \in Int : A = Arm /\ K = KTorque
  BY QuadAssumption
<1>2. PICK t1 \in Int, t2 \in Int, t3 \in Int, t4 \in Int :
        /\ m[1] * m[1] = t1 /\ m[2] * m[2] = t2 /\ m[3] * m[3] = t3 /\ m[4] * m[4] = t4
  <2>1. \A j \in Int : j * j \in Int
    BY Z3
  <2> QED
    BY <2>1 DEF Motors
<1>3. /\ Mixed(Thrust(m)).force = <<0, 0, -(t1 + t2 + t3 + t4)>>
      /\ Mixed(Thrust(m)).torque =
           <<-(A * 1 * t1) + -(A * (-1) * t2) + -(A * (-1) * t3) + -(A * 1 * t4),
             A * 1 * t1 + A * (-1) * t2 + A * 1 * t3 + A * (-1) * t4,
             K * 1 * t1 + K * 1 * t2 + K * (-1) * t3 + K * (-1) * t4>>
  BY <1>1, <1>2 DEF Mixed, Thrust, Total, Right, Fwd, Yaw, Motors
<1>4. /\ Truth!Push(1, m) = <<0, 0, -t1>> /\ Truth!Push(2, m) = <<0, 0, -t2>>
      /\ Truth!Push(3, m) = <<0, 0, -t3>> /\ Truth!Push(4, m) = <<0, 0, -t4>>
  BY <1>2 DEF Truth!Push
<1>5. Truth!Sum4([i \in 1 .. 4 |-> Truth!Push(i, m)]) = <<0, 0, -(t1 + t2 + t3 + t4)>>
  BY <1>4 DEF Truth!Sum4, Truth!Plus
<1>6. /\ Truth!Reaction(1, m) = <<0, 0, K * t1>> /\ Truth!Reaction(2, m) = <<0, 0, K * t2>>
      /\ Truth!Reaction(3, m) = <<0, 0, -(K * t3)>> /\ Truth!Reaction(4, m) = <<0, 0, -(K * t4)>>
  <2>1. /\ K * m[1] * m[1] = K * t1 /\ K * m[2] * m[2] = K * t2
        /\ (-K) * m[3] * m[3] = -(K * t3) /\ (-K) * m[4] * m[4] = -(K * t4)
    <3>1. \A j \in Int : K * j * j = K * (j * j) /\ (-K) * j * j = -(K * (j * j))
      BY Z3
    <3>2. m[1] \in Int /\ m[2] \in Int /\ m[3] \in Int /\ m[4] \in Int
      BY DEF Motors
    <3>3. /\ K * m[1] * m[1] = K * (m[1] * m[1]) /\ K * m[2] * m[2] = K * (m[2] * m[2])
          /\ (-K) * m[3] * m[3] = -(K * (m[3] * m[3])) /\ (-K) * m[4] * m[4] = -(K * (m[4] * m[4]))
      BY <3>1, <3>2, Zenon
    <3> QED
      BY <1>2, <3>3, Zenon
  <2> QED
    BY <1>1, <2>1 DEF Truth!Reaction, RotorTurns
<1>7. \A a, b, t \in Int : Cross(<<a, b, 0>>, <<0, 0, -t>>) = <<-(b * t), a * t, 0>>
  <2> TAKE a, b, t \in Int
  <2>1. b * (-t) - 0 * 0 = -(b * t) /\ 0 * 0 - a * (-t) = a * t /\ a * 0 - b * 0 = 0
    BY Z3
  <2> QED
    BY <2>1 DEF Cross
<1>8. /\ Cross(RotorAt[1], Truth!Push(1, m)) = <<-(A * t1), A * t1, 0>>
      /\ Cross(RotorAt[2], Truth!Push(2, m)) = <<-((-A) * t2), (-A) * t2, 0>>
      /\ Cross(RotorAt[3], Truth!Push(3, m)) = <<-((-A) * t3), A * t3, 0>>
      /\ Cross(RotorAt[4], Truth!Push(4, m)) = <<-(A * t4), (-A) * t4, 0>>
  BY <1>1, <1>4, <1>7 DEF RotorAt
<1>9. Truth!Torques(m) = <<-(A * t1) + -((-A) * t2) + (-((-A) * t3) + -(A * t4)),
                           A * t1 + (-A) * t2 + (A * t3 + (-A) * t4),
                           K * t1 + K * t2 + (-(K * t3) + -(K * t4))>>
  <2> DEFINE X(i) == Truth!Plus(Truth!Cross(RotorAt[i], Truth!Push(i, m)), Truth!Reaction(i, m))
  <2>1. Truth!Torques(m) = Truth!Sum4([i \in 1 .. 4 |-> X(i)])
    BY DEF Truth!Torques
  <2>2. /\ X(1) = <<-(A * t1), A * t1, K * t1>> /\ X(2) = <<-((-A) * t2), (-A) * t2, K * t2>>
        /\ X(3) = <<-((-A) * t3), A * t3, -(K * t3)>> /\ X(4) = <<-(A * t4), (-A) * t4, -(K * t4)>>
    BY <1>6, <1>8, TruthVectors DEF Plus
  <2> HIDE DEF X
  <2> QED
    BY <2>1, <2>2, TruthVectors DEF Truth!Sum4, Plus
<1>10. /\ -(A * t1) + -((-A) * t2) + (-((-A) * t3) + -(A * t4))
             = -(A * 1 * t1) + -(A * (-1) * t2) + -(A * (-1) * t3) + -(A * 1 * t4)
       /\ A * t1 + (-A) * t2 + (A * t3 + (-A) * t4)
             = A * 1 * t1 + A * (-1) * t2 + A * 1 * t3 + A * (-1) * t4
       /\ K * t1 + K * t2 + (-(K * t3) + -(K * t4))
             = K * 1 * t1 + K * 1 * t2 + K * (-1) * t3 + K * (-1) * t4
  BY Z3
<1> QED
  BY <1>3, <1>5, <1>9, <1>10, Zenon

(* compute_wrench is the forces and torques of the rotors, and drag. *)
LEMMA WrenchIsTrue ==
  ASSUME NEW m \in [Motors -> Int], NEW a \in Vector,
         a = quat_rotate_inverse(quat_jolt_to_ned(body.rot), Minus(jolt_to_ned(body.vel), wind))
  PROVE  /\ Truth!Forces(m) = compute_wrench(m, a).force
         /\ Truth!Torques(m) = compute_wrench(m, a).torque
<1>1. /\ compute_wrench(m, a).force = Minus(Mixed(Thrust(m)).force, Scaled(LinDrag, a))
      /\ compute_wrench(m, a).torque = Mixed(Thrust(m)).torque
  BY DEF compute_wrench, Mixed
<1>2. Truth!Forces(m) = Minus(Mixed(Thrust(m)).force, Scaled(LinDrag, a))
  BY MixerIsRotors, TruthVectors, TruthRotation DEF Truth!Forces
<1> QED
  BY <1>1, <1>2, MixerIsRotors

(* What Update does to a body in Jolt's axes, seen in NED. *)
LEMMA UpdateInNed ==
  ASSUME NEW b \in Body, ~b.kinematic, NEW q \in Attitude, TurnsExactly(q),
         b.rot = quat_ned_to_jolt(q), NEW f \in Vector, NEW t \in Vector, NEW kick \in Kicks,
         NEW c \in Update(b, quat_rotate(b.rot, ned_to_jolt(f)),
                           quat_rotate(b.rot, ned_to_jolt(t)), kick)
  PROVE  /\ jolt_to_ned(c.vel)
              = Plus(jolt_to_ned(b.vel), Plus(Plus(quat_rotate(q, f), jolt_to_ned(kick.vel)),
                                              <<0, 0, Gravity>>))
         /\ jolt_to_ned(c.spin)
              = Plus(jolt_to_ned(b.spin), Plus(jolt_to_ned(kick.spin),
                                               quat_rotate(q, Scaled(InertiaInverse, t))))
         /\ jolt_to_ned(c.pos) = Plus(jolt_to_ned(b.pos), jolt_to_ned(c.vel))
         /\ c.kinematic = b.kinematic
         /\ IF jolt_to_ned(c.spin) = Zero THEN c.rot = b.rot
            ELSE \E p \in Attitudes : c.rot = quat_ned_to_jolt(p)
<1> DEFINE force == quat_rotate(b.rot, ned_to_jolt(f))
           torque == quat_rotate(b.rot, ned_to_jolt(t))
           turn == quat_rotate(b.rot, Scaled(InertiaInverseJolt, quat_rotate_inverse(b.rot, torque)))
           vel == Plus(Plus(b.vel, <<0, -Gravity, 0>>), Plus(force, kick.vel))
           spin == Plus(b.spin, Plus(turn, kick.spin))
           turned == IF spin = Zero THEN {b.rot} ELSE {quat_ned_to_jolt(p) : p \in Attitudes}
<1>1. PICK r \in turned : c = [b EXCEPT !.pos = Plus(@, vel), !.vel = vel, !.spin = spin, !.rot = r]
  BY DEF Update
<1>2. /\ kick.vel \in Vector /\ kick.spin \in Vector
      /\ b.pos \in Vector /\ b.vel \in Vector /\ b.spin \in Vector
      /\ quat_rotate(q, f) \in Vector /\ quat_rotate(q, t) \in Vector
      /\ InertiaInverse \in Vector /\ Scaled(InertiaInverse, t) \in Vector
      /\ quat_rotate(q, Scaled(InertiaInverse, t)) \in Vector
  BY FlightAssumption, RotateType, VectorSums DEF Body
<1>3. force = ned_to_jolt(quat_rotate(q, f)) /\ torque = ned_to_jolt(quat_rotate(q, t))
  BY JoltTurns
<1>4. turn = ned_to_jolt(quat_rotate(q, Scaled(InertiaInverse, t)))
  <2>1. quat_rotate_inverse(b.rot, torque) = ned_to_jolt(t)
    BY <1>2, <1>3, JoltTurns, TurnedBack
  <2>2. Scaled(InertiaInverseJolt, ned_to_jolt(t)) = ned_to_jolt(Scaled(InertiaInverse, t))
    <3>1. \A i, j \in Int : i * (-j) = -(i * j)
      BY Z3
    <3> QED
      BY <1>2, <3>1 DEF Scaled, InertiaInverseJolt, ned_to_jolt, Vector
  <2> QED
    BY <1>2, <2>1, <2>2, JoltTurns
<1>5. c.vel = vel /\ c.spin = spin /\ c.pos = Plus(b.pos, vel) /\ c.rot = r
      /\ c.kinematic = b.kinematic
  BY <1>1 DEF Body
<1>6. <<0, -Gravity, 0>> \in Vector /\ <<0, 0, Gravity>> \in Vector
      /\ jolt_to_ned(<<0, -Gravity, 0>>) = <<0, 0, Gravity>>
  BY FlightAssumption DEF Vector, jolt_to_ned
<1>7. force \in Vector /\ turn \in Vector /\ vel \in Vector /\ spin \in Vector
  BY <1>2, <1>3, <1>4, <1>6, VectorsRoundTrip, VectorSums
<1>8. /\ jolt_to_ned(force) = quat_rotate(q, f)
      /\ jolt_to_ned(turn) = quat_rotate(q, Scaled(InertiaInverse, t))
  BY <1>2, <1>3, <1>4, VectorsRoundTrip
<1> HIDE DEF force, torque, turn
<1>9. jolt_to_ned(vel) = Plus(jolt_to_ned(b.vel),
                              Plus(Plus(quat_rotate(q, f), jolt_to_ned(kick.vel)), <<0, 0, Gravity>>))
  <2>1. jolt_to_ned(vel) = Plus(Plus(jolt_to_ned(b.vel), <<0, 0, Gravity>>),
                                Plus(quat_rotate(q, f), jolt_to_ned(kick.vel)))
    <3>1. Plus(b.vel, <<0, -Gravity, 0>>) \in Vector /\ Plus(force, kick.vel) \in Vector
      BY <1>2, <1>6, <1>7, VectorSums
    <3>2. jolt_to_ned(vel) = Plus(jolt_to_ned(Plus(b.vel, <<0, -Gravity, 0>>)),
                                  jolt_to_ned(Plus(force, kick.vel)))
      BY <3>1, NedSums
    <3>3. /\ jolt_to_ned(Plus(b.vel, <<0, -Gravity, 0>>)) = Plus(jolt_to_ned(b.vel), <<0, 0, Gravity>>)
          /\ jolt_to_ned(Plus(force, kick.vel)) = Plus(quat_rotate(q, f), jolt_to_ned(kick.vel))
      BY <1>2, <1>6, <1>7, <1>8, NedSums
    <3> QED
      BY <3>2, <3>3
  <2>2. /\ jolt_to_ned(b.vel) \in Vector
        /\ Plus(quat_rotate(q, f), jolt_to_ned(kick.vel)) \in Vector
    BY <1>2, VectorSums, VectorsRoundTrip
  <2> QED
    BY <2>1, <2>2, NedSums
<1>10. jolt_to_ned(spin) = Plus(jolt_to_ned(b.spin), Plus(jolt_to_ned(kick.spin),
                                               quat_rotate(q, Scaled(InertiaInverse, t))))
  <2>1. Plus(turn, kick.spin) \in Vector
    BY <1>2, <1>7, VectorSums
  <2>2. jolt_to_ned(spin) = Plus(jolt_to_ned(b.spin), jolt_to_ned(Plus(turn, kick.spin)))
    BY <1>2, <2>1, NedSums
  <2>3. jolt_to_ned(Plus(turn, kick.spin))
          = Plus(quat_rotate(q, Scaled(InertiaInverse, t)), jolt_to_ned(kick.spin))
    BY <1>2, <1>7, <1>8, NedSums
  <2>4. jolt_to_ned(kick.spin) \in Vector
    BY <1>2, VectorsRoundTrip
  <2> QED
    BY <1>2, <2>2, <2>3, <2>4, NedSums
<1>11. jolt_to_ned(Plus(b.pos, vel)) = Plus(jolt_to_ned(b.pos), jolt_to_ned(vel))
  BY <1>2, <1>7, NedSums
<1>12. jolt_to_ned(spin) = Zero <=> spin = Zero
  BY <1>7, NedSums
<1> HIDE DEF vel, spin
<1> QED
  BY <1>1, <1>5, <1>9, <1>10, <1>11, <1>12

(* A motor never overshoots its target. *)
LEMMA LagBound ==
  ASSUME NEW dt \in Nat \ {0}, NEW tau \in Nat, NEW d \in Int
  PROVE  /\ (dt * d) \div (tau + dt) \in Int
         /\ d >= 0 => 0 <= (dt * d) \div (tau + dt) /\ (dt * d) \div (tau + dt) <= d
         /\ d <= 0 => d <= (dt * d) \div (tau + dt) /\ (dt * d) \div (tau + dt) <= 0
<1> DEFINE s == tau + dt
           k == (dt * d) \div s
<1>1. s \in Nat \ {0} /\ dt * d \in Int
  BY Z3
<1> HIDE DEF s
<1>2. k \in Int /\ s * k <= dt * d /\ dt * d < s * (k + 1)
  <2>1. \A i \in Int : i \div s \in Int /\ s * (i \div s) <= i /\ i < s * ((i \div s) + 1)
    BY <1>1, Z3
  <2> QED
    BY <1>1, <2>1
<1> HIDE DEF k
<1>3. s * d = tau * d + dt * d /\ s * d \in Int
  BY Z3 DEF s
<1>4. \A i, j \in Int : /\ s * i <= s * j => i <= j
                        /\ s * i < s * j => i < j
  BY <1>1, Z3
<1>5. s * 0 = 0
  BY <1>1
<1>6. ASSUME d >= 0 PROVE 0 <= k /\ k <= d
  <2>1. tau * d >= 0 /\ dt * d >= 0 /\ tau * d \in Int
    BY <1>6, Z3
  <2>2. s * k <= s * d /\ s * 0 < s * (k + 1)
    <3>1. s * k \in Int /\ s * (k + 1) \in Int
      BY <1>1, <1>2, Z3
    <3> QED
      BY <1>1, <1>2, <1>3, <1>5, <2>1, <3>1
  <2>3. k <= d /\ 0 < k + 1
    BY <1>2, <1>4, <2>2
  <2> QED
    BY <1>2, <2>3
<1>7. ASSUME d <= 0 PROVE d <= k /\ k <= 0
  <2>1. tau * d <= 0 /\ dt * d <= 0 /\ tau * d \in Int
    BY <1>7, Z3
  <2>2. s * d < s * (k + 1) /\ s * k <= s * 0
    <3>1. s * k \in Int /\ s * (k + 1) \in Int
      BY <1>1, <1>2, Z3
    <3> QED
      BY <1>1, <1>2, <1>3, <1>5, <2>1, <3>1
  <2>3. d < k + 1 /\ k <= 0
    BY <1>2, <1>4, <2>2
  <2> QED
    BY <1>2, <2>3
<1> QED
  BY <1>2, <1>6, <1>7 DEF k, s

LEMMA MotorBound ==
  ASSUME NEW o \in 0 .. OmegaMax, NEW w \in Nat
  PROVE  step_motor(o, w) \in 0 .. OmegaMax
<1>1. PICK c \in 0 .. 1000 : c = Clamp(w - 1000, 0, 1000)
  BY DEF Clamp
<1>2. OmegaMax \in Nat /\ Dt \in Nat \ {0} /\ Tau \in Nat
  BY QuadAssumption
<1>3. Target(w) \in 0 .. OmegaMax
  <2>1. c * OmegaMax \in Int /\ 0 <= c * OmegaMax /\ c * OmegaMax <= 1000 * OmegaMax
    <3>1. (1000 - c) * OmegaMax >= 0 /\ c * OmegaMax >= 0 /\ c * OmegaMax \in Int
      BY <1>2, Z3
    <3>2. (1000 - c) * OmegaMax = 1000 * OmegaMax - c * OmegaMax
      BY <1>2, Z3
    <3> QED
      BY <1>2, <3>1, <3>2
  <2>2. \A i, m \in Int : 0 <= i /\ i <= 1000 * m => i \div 1000 \in 0 .. m
    OBVIOUS
  <2> QED
    BY <1>1, <1>2, <2>1, <2>2 DEF Target
<1> DEFINE d == Target(w) - o
<1>4. d \in Int /\ o + d = Target(w) /\ o \in Int /\ Target(w) \in Int
  BY <1>2, <1>3
<1>5. /\ (Dt * d) \div (Tau + Dt) \in Int
      /\ d >= 0 => 0 <= (Dt * d) \div (Tau + Dt) /\ (Dt * d) \div (Tau + Dt) <= d
      /\ d <= 0 => d <= (Dt * d) \div (Tau + Dt) /\ (Dt * d) \div (Tau + Dt) <= 0
  BY <1>2, <1>4, LagBound
<1>6. step_motor(o, w) = o + (Dt * d) \div (Tau + Dt)
  BY DEF step_motor
<1> HIDE DEF d
<1> QED
  BY <1>2, <1>3, <1>4, <1>5, <1>6

-----------------------------------------------------------------------------
(* The strengthening of ImplementsRigidBody: the state that drag is        *)
(* computed from is the body's, except while a vehicle is being frozen.    *)
Fresh ==
  /\ state.vel_ned = jolt_to_ned(body.vel)
  /\ state.quat_ned_frd = quat_jolt_to_ned(body.rot)

Level == <<1, 0, 0, 0>>

RigidInv ==
  /\ HoldInv
  /\ motors \in [Motors -> 0 .. OmegaMax]
  /\ frozen \in BOOLEAN /\ connected \in BOOLEAN
  /\ (body.kinematic <=> frozen)
  /\ (frozen => connected)
  /\ \E q \in Attitudes \cup {Level} : body.rot = quat_ned_to_jolt(q)
  /\ (pc = "step" /\ frozen) \/ Fresh

LEMMA LevelIsExact == Level \in Attitude /\ TurnsExactly(Level)
<1>1. Level \in Attitude /\ SquaredNorm(Level) = 1
  BY DEF Level, Attitude, Quaternion, SquaredNorm
<1>2. \A i \in Int : (i % 1) = 0
  OBVIOUS
<1>3. \A e \in {<<1, 0, 0>>, <<0, 1, 0>>, <<0, 0, 1>>} : Sandwich(Level, e) \in Vector
  BY <1>1, SandwichRows DEF Vector, Attitude
<1> QED
  BY <1>1, <1>2, <1>3 DEF TurnsExactly, Vector

(* The attitudes a vehicle has are exact. *)
LEMMA ExactBody ==
  ASSUME RigidInv, AttitudesAreExact
  PROVE  \E q \in Attitudes \cup {Level} :
           /\ q \in Attitude /\ TurnsExactly(q)
           /\ body.rot = quat_ned_to_jolt(q) /\ quat_jolt_to_ned(body.rot) = q
<1>1. PICK q \in Attitudes \cup {Level} : body.rot = quat_ned_to_jolt(q)
  BY DEF RigidInv
<1>2. q \in Attitude /\ TurnsExactly(q)
  BY LevelIsExact, FlightAssumption DEF Attitude, AttitudesAreExact
<1>3. quat_jolt_to_ned(quat_ned_to_jolt(q)) = q
  BY <1>2, AttitudesRoundTrip DEF Attitude
<1> QED
  BY <1>1, <1>2, <1>3

(* What the IMU reads is the specific force, in the vehicle's own axes. *)
LEMMA ReadingIsTrue ==
  ASSUME NEW c \in Body, NEW prev, NEW felt \in Vector,
         Minus(Minus(jolt_to_ned(c.vel), prev), <<0, 0, Gravity>>) = felt
  PROVE  LET q == quat_jolt_to_ned(c.rot)
         IN /\ get_state(c, prev).accel_body_frd
                 = Truth!Limited(Truth!quat_rotate_inverse(q, felt))
            /\ get_state(c, prev).gyro_frd = Truth!quat_rotate_inverse(q, jolt_to_ned(c.spin))
<1> DEFINE q == quat_jolt_to_ned(c.rot)
           a == quat_rotate_inverse(q, felt)
<1>1. -16 * Gravity = -(16 * Gravity)
  BY FlightAssumption
<1>2. get_state(c, prev).accel_body_frd
        = <<Clamp(a[1], -16 * Gravity, 16 * Gravity), Clamp(a[2], -16 * Gravity, 16 * Gravity),
            Clamp(a[3], -16 * Gravity, 16 * Gravity)>>
  BY DEF get_state
<1>3. Truth!Limited(a)
        = <<Clamp(a[1], -(16 * Gravity), 16 * Gravity), Clamp(a[2], -(16 * Gravity), 16 * Gravity),
            Clamp(a[3], -(16 * Gravity), 16 * Gravity)>>
  BY TruthClamp DEF Truth!Limited
<1>4. get_state(c, prev).gyro_frd = quat_rotate_inverse(q, jolt_to_ned(c.spin))
  BY DEF get_state
<1> QED
  BY <1>1, <1>2, <1>3, <1>4, TruthRotation

TruthKicks == {[vel |-> jolt_to_ned(k.vel), spin |-> jolt_to_ned(k.spin)] : k \in Kicks}

(* A step of a vehicle that is not held obeys Newton's laws in NED. *)
LEMMA StepMoves ==
  ASSUME RigidInv, AttitudesAreExact, ~frozen, NEW f \in Vector, NEW t \in Vector,
         step(f, t), Refreshed
  PROVE  /\ Truth!Move(f, t)
         /\ body' \in Body /\ ~body'.kinematic
         /\ \E q \in Attitudes \cup {Level} : body'.rot = quat_ned_to_jolt(q)
<1>1. PICK q \in Attitudes \cup {Level} :
        /\ q \in Attitude /\ TurnsExactly(q)
        /\ body.rot = quat_ned_to_jolt(q) /\ quat_jolt_to_ned(body.rot) = q
  BY ExactBody
<1>2. PICK kick \in Kicks :
        /\ prev_vel_ned' = jolt_to_ned(body.vel)
        /\ body' \in Update(body, quat_rotate(body.rot, ned_to_jolt(f)),
                            quat_rotate(body.rot, ned_to_jolt(t)), kick)
  BY DEF step
<1>3. body \in Body /\ ~body.kinematic /\ body.vel \in Vector
  BY DEF RigidInv, HoldInv, Body
<1> DEFINE K == [vel |-> jolt_to_ned(kick.vel), spin |-> jolt_to_ned(kick.spin)]
           felt == Plus(quat_rotate(q, f), jolt_to_ned(kick.vel))
<1>4. /\ jolt_to_ned(body'.vel) = Plus(jolt_to_ned(body.vel), Plus(felt, <<0, 0, Gravity>>))
      /\ jolt_to_ned(body'.spin) = Plus(jolt_to_ned(body.spin),
            Plus(jolt_to_ned(kick.spin), quat_rotate(q, Scaled(InertiaInverse, t))))
      /\ jolt_to_ned(body'.pos) = Plus(jolt_to_ned(body.pos), jolt_to_ned(body'.vel))
      /\ body'.kinematic = body.kinematic
      /\ IF jolt_to_ned(body'.spin) = Zero THEN body'.rot = body.rot
         ELSE \E p \in Attitudes : body'.rot = quat_ned_to_jolt(p)
  BY <1>1, <1>2, <1>3, UpdateInNed
<1>5. body' \in Body
  <2>1. /\ quat_rotate(body.rot, ned_to_jolt(f)) \in Vector
        /\ quat_rotate(body.rot, ned_to_jolt(t)) \in Vector
    BY <1>3, VectorsRoundTrip, RotateType DEF Body
  <2> QED
    BY <1>2, <1>3, <2>1, UpdateType
<1>6. felt \in Vector /\ jolt_to_ned(body.vel) \in Vector
  <2>1. quat_rotate(q, f) \in Vector /\ kick.vel \in Vector
    BY <1>1, RotateType, FlightAssumption
  <2> QED
    BY <1>3, <2>1, VectorsRoundTrip, VectorSums
<1> HIDE DEF felt
<1>7. Minus(Minus(jolt_to_ned(body'.vel), jolt_to_ned(body.vel)), <<0, 0, Gravity>>) = felt
  BY <1>4, <1>6, NedSums
<1>8. /\ state'.accel_body_frd
           = Truth!Limited(Truth!quat_rotate_inverse(quat_jolt_to_ned(body'.rot), felt))
      /\ state'.gyro_frd
           = Truth!quat_rotate_inverse(quat_jolt_to_ned(body'.rot), jolt_to_ned(body'.spin))
  BY <1>2, <1>5, <1>6, <1>7, ReadingIsTrue DEF Refreshed
<1>9. felt = Truth!Plus(Truth!quat_rotate(quat_jolt_to_ned(body.rot), f), K.vel)
  BY <1>1, TruthVectors, TruthRotation DEF felt
<1>10. /\ jolt_to_ned(body'.vel)
             = Truth!Plus(jolt_to_ned(body.vel), Truth!Plus(felt, <<0, 0, Gravity>>))
       /\ jolt_to_ned(body'.spin) = Truth!Plus(jolt_to_ned(body.spin),
             Truth!Plus(K.spin, Truth!quat_rotate(quat_jolt_to_ned(body.rot),
                                                  Truth!Scaled(InertiaInverse, t))))
       /\ jolt_to_ned(body'.pos) = Truth!Plus(jolt_to_ned(body.pos), jolt_to_ned(body'.vel))
  BY <1>1, <1>4, TruthVectors, TruthRotation
<1>11. /\ quat_jolt_to_ned(body'.rot)
             \in IF jolt_to_ned(body'.spin) = Truth!Zero THEN {quat_jolt_to_ned(body.rot)} ELSE Attitudes
       /\ \E p \in Attitudes \cup {Level} : body'.rot = quat_ned_to_jolt(p)
  <2>1. \A p \in Attitudes : quat_jolt_to_ned(quat_ned_to_jolt(p)) = p
    BY AttitudesRoundTrip, FlightAssumption
  <2> QED
    BY <1>1, <1>4, <2>1, TruthZero
<1>12. K \in TruthKicks
  BY DEF TruthKicks
<1> HIDE DEF K
<1>13. Truth!Measured(felt)
  BY <1>8 DEF Truth!Measured
<1>14. Truth!Move(f, t)
  BY <1>9, <1>10, <1>11, <1>12, <1>13 DEF Truth!Move, TruthKicks
<1> QED
  BY <1>3, <1>4, <1>5, <1>11, <1>14

(* The invariant holds at the start, and every step keeps it. *)
LEMMA RigidInvInit == Init => RigidInv
<1> SUFFICES ASSUME Init PROVE RigidInv
  OBVIOUS
<1>1. HoldInv
  BY HoldInvInit
<1>2. motors \in [Motors -> 0 .. OmegaMax]
  BY QuadAssumption DEF Init
<1>3. body.rot = quat_ned_to_jolt(Level) /\ body.kinematic = FALSE
  BY DEF Init, NewBody, Level
<1>4. Fresh
  BY DEF Init, Fresh, get_state
<1> QED
  BY <1>1, <1>2, <1>3, <1>4 DEF Init, RigidInv

(* A frozen vehicle stays where it is. *)
LEMMA PassiveHolds ==
  ASSUME RigidInv, StepPassive, frozen
  PROVE  /\ body' = body /\ state' = get_state(body', Zero)
         /\ body.vel = Zero /\ body.spin = Zero /\ body \in Body
<1>1. Zero \in Vector
  BY DEF Vector, Zero
<1>2. body' = body /\ prev_vel_ned' = Zero
  BY <1>1, StepTypes DEF RigidInv, StepPassive
<1> QED
  BY <1>2 DEF StepPassive, AfterStep, Refreshed, RigidInv, HoldInv

(* The wrench of an active vehicle: drag is that of its present motion.    *)
LEMMA ActiveWrench ==
  ASSUME RigidInv, StepActive
  PROVE  /\ motors' \in [Motors -> 0 .. OmegaMax]
         /\ Truth!Forces(motors') \in Vector /\ Truth!Torques(motors') \in Vector
         /\ step(Truth!Forces(motors'), Truth!Torques(motors'))
<1> DEFINE air == quat_rotate_inverse(state.quat_ned_frd, Minus(state.vel_ned, wind))
           w == compute_wrench(motors', air)
<1>1. motors' \in [Motors -> 0 .. OmegaMax]
  <2>1. \A i \in Motors : motors[i] \in 0 .. OmegaMax /\ pwm[i] \in Nat
    BY DEF RigidInv, HoldInv
  <2>2. \A i \in Motors : step_motor(motors[i], pwm[i]) \in 0 .. OmegaMax
    BY <2>1, MotorBound
  <2> QED
    BY <2>2 DEF StepActive
<1>2. motors' \in [Motors -> Int]
  BY <1>1
<1>3. air \in Vector
  BY VectorSums, RotateType DEF RigidInv, HoldInv
<1>4. air = quat_rotate_inverse(quat_jolt_to_ned(body.rot), Minus(jolt_to_ned(body.vel), wind))
  BY DEF RigidInv, Fresh, StepActive
<1>5. step(w.force, w.torque)
  BY DEF StepActive
<1> HIDE DEF air
<1>6. w.force \in Vector /\ w.torque \in Vector
  BY <1>2, <1>3, WrenchType
<1>7. Truth!Forces(motors') = w.force /\ Truth!Torques(motors') = w.torque
  BY <1>2, <1>3, <1>4, WrenchIsTrue
<1> QED
  BY <1>1, <1>5, <1>6, <1>7

LEMMA RigidInvStep ==
  ASSUME RigidInv, [Next]_vars, AttitudesAreExact PROVE RigidInv'
<1>1. HoldInv'
  BY HoldInvStep DEF RigidInv
<1>z. Zero \in Vector
  BY DEF Vector, Zero
<1>2. CASE BatteryReset \/ NoCommand \/ PollMissed \/ Reply \/ NoReply \/ UNCHANGED vars
  <2>1. /\ UNCHANGED <<body, motors, state, frozen, connected>>
        /\ pc' = pc \/ pc # "step"
    BY <1>2 DEF BatteryReset, NoCommand, PollMissed, Reply, NoReply, vars, bodyVars, inputVars
  <2> QED
    BY <1>1, <2>1 DEF RigidInv, Fresh
<1>3. CASE PollFresh
  <2>1. /\ UNCHANGED <<motors, state>> /\ connected' = TRUE /\ frozen' = FALSE /\ pc = "poll"
        /\ body'.rot = body.rot /\ body'.vel = body.vel /\ ~body'.kinematic
    BY <1>3 DEF PollFresh, set_frozen, bodyVars, RigidInv, HoldInv, Body
  <2> QED
    BY <1>1, <2>1 DEF RigidInv, Fresh
<1>4. CASE Freeze
  <2>1. /\ UNCHANGED motors /\ connected /\ connected' = connected /\ frozen' = TRUE
        /\ pc' = "step" /\ body'.rot = body.rot /\ body'.kinematic
    BY <1>4 DEF Freeze, set_frozen, RigidInv, HoldInv, Body
  <2> QED
    BY <1>1, <2>1 DEF RigidInv
<1>5. ASSUME StepActive \/ StepPassive
      PROVE  Fresh' /\ UNCHANGED <<frozen, connected>>
  BY <1>5 DEF StepActive, StepPassive, AfterStep, Refreshed, Fresh, get_state, inputVars
<1>6. CASE StepActive
  <2>1. ~frozen /\ Refreshed
    BY <1>6 DEF StepActive, AfterStep
  <2>2. /\ motors' \in [Motors -> 0 .. OmegaMax]
        /\ ~body'.kinematic
        /\ \E q \in Attitudes \cup {Level} : body'.rot = quat_ned_to_jolt(q)
    BY <1>6, <2>1, ActiveWrench, StepMoves
  <2> QED
    BY <1>1, <1>5, <1>6, <2>1, <2>2 DEF RigidInv
<1>7. CASE StepPassive /\ ~frozen
  <2>1. step(Zero, Zero) /\ Refreshed /\ UNCHANGED motors
    BY <1>7 DEF StepPassive, AfterStep
  <2>2. /\ ~body'.kinematic
        /\ \E q \in Attitudes \cup {Level} : body'.rot = quat_ned_to_jolt(q)
    BY <1>7, <1>z, <2>1, StepMoves
  <2> QED
    BY <1>1, <1>5, <1>7, <2>1, <2>2 DEF RigidInv
<1>8. CASE StepPassive /\ frozen
  <2>1. body' = body /\ UNCHANGED motors
    BY <1>8, PassiveHolds DEF StepPassive
  <2> QED
    BY <1>1, <1>5, <1>8, <2>1 DEF RigidInv
<1> QED
  BY <1>2, <1>3, <1>4, <1>6, <1>7, <1>8 DEF Next

LEMMA RigidAlways == ASSUME AttitudesAreExact PROVE Spec => []RigidInv
  BY RigidInvInit, RigidInvStep, PTL DEF Spec

(* The refinement, from the start and step by step. *)
LEMMA StartsAtRest == Init => Truth!Rest
<1> SUFFICES ASSUME Init PROVE Truth!Rest
  OBVIOUS
<1>1. body = NewBody /\ prev_vel_ned = Zero /\ state = get_state(body, prev_vel_ned)
      /\ motors = [i \in Motors |-> 0] /\ ~connected /\ ~frozen
  BY DEF Init
<1>2. NewBody \in Body /\ Zero \in Vector
  BY <1>1, HoldInvInit DEF HoldInv, Vector, Zero
<1>3. /\ jolt_to_ned(NewBody.pos) = Zero /\ jolt_to_ned(NewBody.vel) = Zero
      /\ jolt_to_ned(NewBody.spin) = Zero /\ quat_jolt_to_ned(NewBody.rot) = Level
      /\ NewBody.vel = Zero /\ NewBody.spin = Zero
  BY <1>2, ZeroKept, VectorsRoundTrip, AttitudesRoundTrip, LevelIsExact
     DEF NewBody, StartPos, Zero, Level, Attitude
<1>4. motors = <<0, 0, 0, 0>>
  BY <1>1 DEF Motors
<1>5. /\ get_state(NewBody, Zero).gyro_frd = Zero
      /\ get_state(NewBody, Zero).accel_body_frd = quat_rotate_inverse(Level, <<0, 0, -Gravity>>)
  BY <1>2, <1>3, StillReading DEF get_state
<1>6. quat_rotate_inverse(Level, <<0, 0, -Gravity>>) = <<0, 0, -Gravity>>
  <2>1. quat_conjugate(Level) = Level
    <3>1. quat_conjugate(<<1, 0, 0, 0>>) = <<1, -0, -0, -0>>
      BY DEF quat_conjugate
    <3>2. \A k \in Int : k + k = k => -k = k
      OBVIOUS
    <3>3. 0 \in Int /\ 0 + 0 = 0
      OBVIOUS
    <3>4. -0 = 0
      BY <3>2, <3>3
    <3> QED
      BY <3>1, <3>4 DEF Level
  <2>2. PICK g \in Int : g = -Gravity
    BY FlightAssumption
  <2> DEFINE v == <<0, 0, g>>
  <2>3. Level \in Quaternion /\ v \in Vector
    BY DEF Level, Quaternion, Vector
  <2>4. TurnMatrix(Level) = <<<<1, 0, 0>>, <<0, 1, 0>>, <<0, 0, 1>>>>
    BY DEF TurnMatrix, Level
  <2>5. \A i, j, k \in Int : Dot(<<i, j, k>>, v) = k * g
    BY DEF Dot
  <2>6. Sandwich(Level, v)[1] = 0 /\ Sandwich(Level, v)[2] = 0 /\ Sandwich(Level, v)[3] = g
    <3>1. 0 * g = 0 /\ 1 * g = g
      OBVIOUS
    <3> QED
      BY <2>3, <2>4, <2>5, <3>1, SandwichRows
  <2>7. SquaredNorm(Level) = 1 /\ \A i \in Int : i \div 1 = i
    BY DEF Level, SquaredNorm
  <2>8. quat_rotate(Level, v) = <<0, 0, g>>
    BY <2>6, <2>7 DEF quat_rotate
  <2> QED
    BY <2>1, <2>2, <2>8 DEF quat_rotate_inverse
<1> QED
  BY <1>1, <1>3, <1>4, <1>5, <1>6, TruthZero DEF Truth!Rest, Level

LEMMA EveryStepIsRigid ==
  ASSUME RigidInv, [Next]_vars, AttitudesAreExact
  PROVE  [Truth!Next]_(Truth!rbVars)
<1>z. Zero \in Vector
  BY DEF Vector, Zero
<1>1. CASE BatteryReset \/ NoCommand \/ PollMissed \/ Reply \/ NoReply \/ UNCHANGED vars
  <2>1. UNCHANGED <<body, motors, state, frozen, connected, wind>>
    BY <1>1 DEF BatteryReset, NoCommand, PollMissed, Reply, NoReply, vars, bodyVars, inputVars,
                fixedVars
  <2> QED
    BY <2>1 DEF Truth!rbVars, Truth!bodyVars
<1>2. CASE PollFresh
  <2>1. /\ UNCHANGED <<motors, state, wind>> /\ connected' = TRUE /\ frozen' = FALSE
        /\ body'.rot = body.rot /\ body'.vel = body.vel /\ body'.pos = body.pos
        /\ body'.spin = body.spin
    BY <1>2 DEF PollFresh, set_frozen, bodyVars, fixedVars, RigidInv, HoldInv, Body
  <2>2. Truth!Command
    BY <2>1 DEF Truth!Command, Truth!bodyVars
  <2> QED
    BY <2>2 DEF Truth!Next
<1>3. CASE Freeze
  <2>1. /\ UNCHANGED <<motors, state, wind, connected>> /\ connected /\ ~frozen /\ frozen' = TRUE
        /\ body'.rot = body.rot /\ body'.vel = Zero /\ body'.pos = body.pos
        /\ body'.spin = Zero
    BY <1>3 DEF Freeze, set_frozen, fixedVars, RigidInv, HoldInv, Body
  <2>2. Truth!Hold
    BY <2>1, ZeroKept, TruthZero DEF Truth!Hold
  <2> QED
    BY <2>2 DEF Truth!Next
<1>4. CASE StepActive
  <2>1. /\ connected /\ ~frozen /\ Refreshed /\ UNCHANGED <<connected, frozen, wind>>
    BY <1>4 DEF StepActive, AfterStep, inputVars, fixedVars
  <2>2. motors' \in [1 .. 4 -> 0 .. OmegaMax]
    BY <1>4, ActiveWrench DEF Motors
  <2>3. Truth!Move(Truth!Forces(motors'), Truth!Torques(motors'))
    BY <1>4, <2>1, ActiveWrench, StepMoves
  <2>4. Truth!Fly
    BY <2>1, <2>2, <2>3 DEF Truth!Fly
  <2> QED
    BY <2>4 DEF Truth!Next
<1>5. CASE StepPassive /\ ~frozen
  <2>1. /\ step(Zero, Zero) /\ Refreshed /\ ~connected
        /\ UNCHANGED <<motors, connected, frozen, wind>>
    BY <1>5 DEF StepPassive, AfterStep, inputVars, fixedVars
  <2>2. Truth!Move(Zero, Zero)
    BY <1>5, <1>z, <2>1, StepMoves
  <2>3. Truth!Fall
    BY <2>1, <2>2, TruthZero DEF Truth!Fall
  <2> QED
    BY <2>3 DEF Truth!Next
<1>6. CASE StepPassive /\ frozen
  <2>1. UNCHANGED <<motors, connected, frozen, wind>>
    BY <1>6 DEF StepPassive, AfterStep, inputVars, fixedVars
  <2>2. body' = body /\ state' = get_state(body', Zero) /\ body \in Body /\ body.vel = Zero
    BY <1>6, PassiveHolds
  <2>3. /\ <<0, 0, -Gravity>> \in Vector
        /\ Minus(Minus(jolt_to_ned(Zero), Zero), <<0, 0, Gravity>>) = <<0, 0, -Gravity>>
    BY ZeroKept, FlightAssumption DEF Vector, Minus, Zero
  <2>4. Truth!Measured(<<0, 0, -Gravity>>)
    BY <2>2, <2>3, ReadingIsTrue DEF Truth!Measured
  <2>5. Truth!Hover
    BY <1>6, <2>1, <2>2, <2>4 DEF Truth!Hover, Truth!bodyVars
  <2> QED
    BY <2>5 DEF Truth!Next
<1> QED
  BY <1>1, <1>2, <1>3, <1>4, <1>5, <1>6 DEF Next

(* What the autopilot is told is true of a rigid body under Newton's laws  *)
(* in NED, driven by four rotors and held at will: for every airframe,     *)
(* wind, contact and input, as far as rotations are exact.                 *)
THEOREM FlightIsRigidBody ==
  ASSUME AttitudesAreExact PROVE Spec => ImplementsRigidBody
<1>1. Init => Truth!Rest
  BY StartsAtRest
<1>2. RigidInv /\ [Next]_vars => [Truth!Next]_(Truth!rbVars)
  BY EveryStepIsRigid
<1> QED
  BY <1>1, <1>2, RigidAlways, PTL DEF Spec, ImplementsRigidBody, Truth!Spec

-----------------------------------------------------------------------------
(* Reply: the end of each piece is counted by induction over the layout,   *)
(* the set of the indices whose end is in bounds standing for the          *)
(* predicate.                                                              *)

(* A set of numbers has a least one. *)
LEMMA LeastNat ==
  ASSUME NEW S \in SUBSET Nat, S # {} PROVE \E x \in S : \A y \in S : x <= y
<1>1. PICK x \in S : \A y \in S : ~(<<y, x>> \in OpToRel(<, Nat))
  BY NatLessThanWellFounded, WFMin
<1>2. \A y \in S : ~(y < x)
  BY <1>1 DEF OpToRel
<1> QED
  BY <1>2

(* Counting up to n. *)
LEMMA InductionUpTo ==
  ASSUME NEW n \in Nat, NEW S, 0 \in S, \A k \in 0 .. n - 1 : k \in S => k + 1 \in S
  PROVE  \A k \in 0 .. n : k \in S
<1> DEFINE missed == {k \in 0 .. n : k \notin S}
<1> SUFFICES ASSUME missed # {} PROVE FALSE
  OBVIOUS
<1>1. missed \in SUBSET Nat
  OBVIOUS
<1>2. PICK x \in missed : \A y \in missed : x <= y
  BY <1>1, LeastNat
<1>3. x \in 1 .. n /\ x - 1 \in 0 .. n - 1
  BY <1>2
<1>4. x - 1 \in S
  BY <1>2, <1>3
<1> QED
  BY <1>2, <1>3, <1>4

(* The ends of the first n pieces of a layout: what build_state_json counts. *)
Ends(layout, cap, width, n, off) ==
  off = [i \in 0 .. n |-> IF i = 0 THEN 0 ELSE Put(cap, width, off[i - 1], layout[i])]

(* They exist, one after the other, ...                                    *)
LEMMA EndsExist ==
  ASSUME NEW layout, Len(layout) \in Nat, NEW cap, NEW width
  PROVE  \E off : Ends(layout, cap, width, Len(layout), off)
<1> DEFINE S == {k \in 0 .. Len(layout) : \E off : Ends(layout, cap, width, k, off)}
<1>1. 0 \in S
  <2>1. Ends(layout, cap, width, 0, [i \in 0 .. 0 |-> 0])
    BY DEF Ends
  <2> QED
    BY <2>1
<1>2. ASSUME NEW k \in 0 .. Len(layout) - 1, k \in S PROVE k + 1 \in S
  <2>1. PICK off : Ends(layout, cap, width, k, off)
    BY <1>2
  <2> DEFINE more == [i \in 0 .. k + 1 |->
                        IF i <= k THEN off[i] ELSE Put(cap, width, off[k], layout[k + 1])]
  <2>2. /\ \A i \in 0 .. k : more[i] = off[i]
        /\ more[k + 1] = Put(cap, width, off[k], layout[k + 1])
        /\ more = [i \in 0 .. k + 1 |-> more[i]]
    OBVIOUS
  <2>3. off[0] = 0 /\ \A i \in 1 .. k : off[i] = Put(cap, width, off[i - 1], layout[i])
    BY <2>1 DEF Ends
  <2> HIDE DEF more
  <2>4. \A i \in 1 .. k + 1 : more[i] = Put(cap, width, more[i - 1], layout[i])
    <3> TAKE i \in 1 .. k + 1
    <3>1. CASE i = k + 1
      <4>1. i - 1 = k /\ k \in 0 .. k
        BY <3>1
      <4>2. more[i - 1] = off[k]
        BY <2>2, <4>1
      <4> QED
        BY <2>2, <3>1, <4>2
    <3>2. CASE i # k + 1
      <4>1. i \in 1 .. k /\ i - 1 \in 0 .. k
        BY <3>2
      <4>2. more[i] = off[i] /\ more[i - 1] = off[i - 1]
        BY <2>2, <4>1
      <4> QED
        BY <2>3, <4>1, <4>2
    <3> QED
      BY <3>1, <3>2
  <2>5. \A i \in 0 .. k + 1 :
          more[i] = IF i = 0 THEN 0 ELSE Put(cap, width, more[i - 1], layout[i])
    BY <2>2, <2>3, <2>4
  <2>6. Ends(layout, cap, width, k + 1, more)
    BY <2>2, <2>5 DEF Ends
  <2> QED
    BY <2>6
<1>3. \A k \in 0 .. Len(layout) : k \in S
  <2> HIDE DEF S
  <2> QED
    BY <1>1, <1>2, InductionUpTo
<1> QED
  BY <1>3

(* ... and the last one is the size of the reply.                          *)
Sizes(layout, cap, width, off) ==
  /\ off[0] = 0
  /\ \A i \in 1 .. Len(layout) : off[i] = Put(cap, width, off[i - 1], layout[i])
  /\ build_state_json(layout, cap, width) =
       IF off[Len(layout)] = Overflow THEN 0 ELSE off[Len(layout)]

LEMMA ReplyEnds ==
  ASSUME NEW layout, Len(layout) \in Nat, NEW cap, NEW width
  PROVE  \E off : Sizes(layout, cap, width, off)
<1> DEFINE off == CHOOSE off : Ends(layout, cap, width, Len(layout), off)
<1>1. Ends(layout, cap, width, Len(layout), off)
  BY EndsExist
<1>2. build_state_json(layout, cap, width) =
        IF off[Len(layout)] = Overflow THEN 0 ELSE off[Len(layout)]
  BY DEF build_state_json, Ends
<1> HIDE DEF off
<1>3. off[0] = 0 /\ \A i \in 1 .. Len(layout) : off[i] = Put(cap, width, off[i - 1], layout[i])
  BY <1>1 DEF Ends
<1> QED
  BY <1>2, <1>3 DEF Sizes

(* Base is text and numbers in turn.                                       *)
LEMMA BasePieces ==
  /\ Len(Base) = 41 /\ Base \in Seq(0 .. 16)
  /\ \A i \in 1 .. 41 : Base[i] \in 0 .. 16 /\ (Base[i] = 0 <=> i % 2 = 0)
  BY DEF Base

LEMMA PutAdvances ==
  ASSUME NEW cap \in Nat, NEW width \in 0 .. NumberWidth, NEW most \in Nat,
         NEW off \in 0 .. most, NEW piece \in 0 .. 40, most + 40 <= cap
  PROVE  Put(cap, width, off, piece) \in 0 .. most + (IF piece = 0 THEN NumberWidth ELSE piece)
  BY DEF Put, Overflow, NumberWidth

(* off holds the ends of a layout's pieces, in a buffer like last_json.    *)
Piece == 0 .. 40

Advances(layout, cap, width, off) ==
  /\ layout \in Seq(Piece) /\ cap \in Nat /\ 1024 <= cap /\ width \in 0 .. NumberWidth
  /\ off[0] = 0
  /\ \A j \in 1 .. Len(layout) : off[j] = Put(cap, width, off[j - 1], layout[j])

LEMMA PutAdvancesTo ==
  ASSUME NEW cap, NEW width, NEW most, NEW off, NEW piece,
         cap \in Nat, width \in 0 .. NumberWidth, most \in Nat, off \in 0 .. most,
         piece \in Piece, most + 40 <= cap
  PROVE  Put(cap, width, off, piece) \in 0 .. most + (IF piece = 0 THEN NumberWidth ELSE piece)
  BY PutAdvances DEF Piece

(* One piece more, from an end that leaves it its room. *)
LEMMA OneMore ==
  ASSUME NEW layout, NEW cap, NEW width, NEW off, Advances(layout, cap, width, off),
         NEW i \in Nat, i + 1 <= Len(layout), NEW most \in Nat, most + 40 <= cap,
         off[i] \in 0 .. most
  PROVE  off[i + 1] \in 0 .. most + (IF layout[i + 1] = 0 THEN NumberWidth ELSE layout[i + 1])
<1>1. i + 1 \in 1 .. Len(layout) /\ i + 1 - 1 = i /\ layout[i + 1] \in Piece
  BY DEF Advances
<1>2. off[i + 1] = Put(cap, width, off[i], layout[i + 1])
  BY <1>1 DEF Advances
<1>3. cap \in Nat /\ width \in 0 .. NumberWidth
  BY DEF Advances
<1>4. Put(cap, width, off[i], layout[i + 1])
        \in 0 .. most + (IF layout[i + 1] = 0 THEN NumberWidth ELSE layout[i + 1])
  BY <1>1, <1>3, PutAdvancesTo
<1> QED
  BY <1>2, <1>4

(* The pieces of Base: text of up to 16 bytes, then a number of up to 22. *)
Most(i) == IF i % 2 = 0 THEN 19 * i ELSE 19 * i - 3

LEMMA MostGrows ==
  ASSUME NEW i \in 0 .. 40, NEW p \in 0 .. 16, p = 0 <=> (i + 1) % 2 = 0
  PROVE  /\ Most(i) \in Nat /\ Most(i + 1) \in Nat /\ Most(i) <= 779
         /\ Most(i) + (IF p = 0 THEN NumberWidth ELSE p) <= Most(i + 1)
  BY DEF Most, NumberWidth

LEMMA MostEnds == Most(0) = 0 /\ Most(41) = 776
  BY DEF Most

StartsWith(layout, s) == Len(s) <= Len(layout) /\ \A i \in 1 .. Len(s) : layout[i] = s[i]

(* Every layout that starts with these pieces has written at most that much *)
(* after them.                                                              *)
Writes(s, most) ==
  /\ s \in Seq(Piece) /\ most \in Nat
  /\ \A layout, cap, width, off :
       Advances(layout, cap, width, off) /\ StartsWith(layout, s)
         => off[Len(s)] \in 0 .. most

(* No end in Base lies beyond what the pieces before it can take. *)
LEMMA BaseStep ==
  ASSUME NEW layout, NEW cap, NEW width, NEW off, Advances(layout, cap, width, off),
         StartsWith(layout, Base), NEW i \in 0 .. 40, off[i] \in 0 .. Most(i)
  PROVE  off[i + 1] \in 0 .. Most(i + 1)
<1> DEFINE p == layout[i + 1]
           room == IF p = 0 THEN NumberWidth ELSE p
<1>1. i + 1 \in 1 .. 41 /\ i \in Nat
  OBVIOUS
<1>2. p \in 0 .. 16 /\ (p = 0 <=> (i + 1) % 2 = 0)
  BY <1>1, BasePieces DEF StartsWith
<1>3. i + 1 <= Len(layout)
  <2>1. layout \in Seq(Piece)
    BY DEF Advances
  <2>2. Len(layout) \in Nat /\ 41 <= Len(layout)
    BY <2>1, BasePieces DEF StartsWith
  <2> QED
    BY <2>2
<1> HIDE DEF p
<1>4. /\ Most(i) \in Nat /\ Most(i + 1) \in Nat /\ Most(i) <= 779
      /\ Most(i) + room <= Most(i + 1)
  BY <1>2, MostGrows
<1>5. room \in Nat
  BY <1>2 DEF NumberWidth
<1>6. Most(i) + 40 <= cap
  BY <1>4 DEF Advances
<1>7. off[i + 1] \in 0 .. Most(i) + room
  BY <1>1, <1>3, <1>4, <1>6, OneMore DEF p
<1> HIDE DEF room
<1> QED
  BY <1>4, <1>5, <1>7

LEMMA BaseWrites == Writes(Base, 776)
<1>1. Base \in Seq(Piece)
  BY BasePieces DEF Piece, Base
<1>2. ASSUME NEW layout, NEW cap, NEW width, NEW off, Advances(layout, cap, width, off),
             StartsWith(layout, Base)
      PROVE  off[41] \in 0 .. 776
  <2> DEFINE S == {j \in 0 .. 41 : off[j] \in 0 .. Most(j)}
  <2>1. Most(0) = 0 /\ Most(41) = 776
    BY MostEnds
  <2>2. off[0] = 0
    BY <1>2 DEF Advances
  <2>3. 0 \in S
    BY <2>1, <2>2
  <2>4. \A i \in 0 .. 41 - 1 : i \in S => i + 1 \in S
    BY <1>2, BaseStep
  <2>5. 41 \in S
    <3> HIDE DEF S
    <3> QED
      BY <2>3, <2>4, InductionUpTo
  <2> QED
    BY <2>1, <2>5
<1> QED
  BY <1>1, <1>2, BasePieces DEF Writes

LEMMA WritesAtMost ==
  ASSUME NEW s, NEW most, Writes(s, most), NEW more \in Nat, most <= more
  PROVE  Writes(s, more)
<1>1. most \in Nat /\ s \in Seq(Piece)
  BY DEF Writes
<1>2. \A x \in 0 .. most : x \in 0 .. more
  BY <1>1
<1> QED
  BY <1>1, <1>2 DEF Writes

(* After these pieces, which follow any others, the end is that much further. *)
Adds(seg, most, extra) ==
  \A layout, cap, width, off : \A at \in Nat :
    /\ Advances(layout, cap, width, off) /\ off[at] \in 0 .. most
    /\ at + Len(seg) <= Len(layout) /\ \A j \in 1 .. Len(seg) : layout[at + j] = seg[j]
    => off[at + Len(seg)] \in 0 .. most + extra

LEMMA WritesMore ==
  ASSUME NEW s, NEW most, Writes(s, most), NEW seg \in Seq(Piece), NEW extra \in Nat,
         Adds(seg, most, extra)
  PROVE  Writes(s \o seg, most + extra)
<1> DEFINE t == s \o seg
<1>1. s \in Seq(Piece) /\ Len(s) \in Nat /\ Len(seg) \in Nat /\ most \in Nat
  BY DEF Writes
<1>2. /\ t \in Seq(Piece) /\ Len(t) = Len(s) + Len(seg)
      /\ \A i \in 1 .. Len(s) : t[i] = s[i]
      /\ \A i \in 1 .. Len(seg) : t[Len(s) + i] = seg[i]
  BY <1>1
<1> HIDE DEF t
<1>3. ASSUME NEW layout, NEW cap, NEW width, NEW off, Advances(layout, cap, width, off),
             StartsWith(layout, t)
      PROVE  off[Len(t)] \in 0 .. most + extra
  <2>1. layout \in Seq(Piece) /\ cap \in Nat
    BY <1>3 DEF Advances
  <2>2. Len(layout) \in Nat
    BY <2>1
  <2>3. StartsWith(layout, s)
    <3>1. Len(t) <= Len(layout) /\ \A i \in 1 .. Len(t) : layout[i] = t[i]
      BY <1>3 DEF StartsWith
    <3>2. Len(s) <= Len(layout) /\ \A i \in 1 .. Len(s) : i \in 1 .. Len(t)
      BY <1>1, <1>2, <2>2, <3>1
    <3> QED
      BY <1>2, <3>1, <3>2 DEF StartsWith
  <2>4. off[Len(s)] \in 0 .. most
    BY <1>3, <2>3 DEF Writes
  <2>5. /\ Len(s) + Len(seg) <= Len(layout)
        /\ \A j \in 1 .. Len(seg) : layout[Len(s) + j] = seg[j]
    BY <1>1, <1>2, <1>3, <2>2 DEF StartsWith
  <2> QED
    BY <1>1, <1>2, <1>3, <2>4, <2>5 DEF Adds
<1> QED
  BY <1>1, <1>2, <1>3 DEF Writes, t

LEMMA RangefinderAdds ==
  ASSUME NEW most \in Nat, most <= 900 PROVE Adds(Rangefinder, most, 31)
<1> SUFFICES ASSUME NEW layout, NEW cap, NEW width, NEW off, NEW at \in Nat,
                    Advances(layout, cap, width, off), off[at] \in 0 .. most,
                    at + Len(Rangefinder) <= Len(layout),
                    \A j \in 1 .. Len(Rangefinder) : layout[at + j] = Rangefinder[j]
             PROVE  off[at + Len(Rangefinder)] \in 0 .. most + 31
  BY DEF Adds
<1>1. Len(Rangefinder) = 4 /\ Rangefinder[1] = 6 /\ Rangefinder[2] = 1 /\ Rangefinder[3] = 2 /\ Rangefinder[4] = 0
  BY DEF Rangefinder
<1>2. layout[at + 1] = 6 /\ layout[at + 2] = 1 /\ layout[at + 3] = 2 /\ layout[at + 4] = 0
  BY <1>1
<1>3. layout \in Seq(Piece) /\ cap \in Nat /\ 1024 <= cap /\ width \in 0 .. 22
  BY DEF Advances, NumberWidth
<1>4. Len(layout) \in Nat /\ at + 4 <= Len(layout)
  BY <1>1, <1>3
<1> DEFINE a0 == off[at]
           a1 == off[at + 1]
           a2 == off[at + 2]
           a3 == off[at + 3]
           a4 == off[at + 4]
<1>5. a1 = Put(cap, width, a0, 6)
  <2>1. at + 1 \in 1 .. Len(layout) /\ (at + 1) - 1 = at
    BY <1>4
  <2> QED
    BY <1>2, <2>1 DEF Advances
<1>6. a2 = Put(cap, width, a1, 1)
  <2>1. at + 2 \in 1 .. Len(layout) /\ (at + 2) - 1 = at + 1
    BY <1>4
  <2> QED
    BY <1>2, <2>1 DEF Advances
<1>7. a3 = Put(cap, width, a2, 2)
  <2>1. at + 3 \in 1 .. Len(layout) /\ (at + 3) - 1 = at + 2
    BY <1>4
  <2> QED
    BY <1>2, <2>1 DEF Advances
<1>8. a4 = Put(cap, width, a3, 0)
  <2>1. at + 4 \in 1 .. Len(layout) /\ (at + 4) - 1 = at + 3
    BY <1>4
  <2> QED
    BY <1>2, <2>1 DEF Advances
<1>9. a0 \in 0 .. most
  OBVIOUS
<1> HIDE DEF a0, a1, a2, a3, a4
<1>10. a1 \in 0 .. most + 6
  BY <1>3, <1>5, <1>9 DEF Put, Overflow
<1>11. a2 \in 0 .. most + 7
  BY <1>3, <1>6, <1>10 DEF Put, Overflow
<1>12. a3 \in 0 .. most + 9
  BY <1>3, <1>7, <1>11 DEF Put, Overflow
<1>13. a4 \in 0 .. most + 31
  BY <1>3, <1>8, <1>12 DEF Put, Overflow
<1> QED
  BY <1>1, <1>13 DEF a4

LEMMA BatteryAdds ==
  ASSUME NEW most \in Nat, most <= 900 PROVE Adds(Battery, most, 78)
<1> SUFFICES ASSUME NEW layout, NEW cap, NEW width, NEW off, NEW at \in Nat,
                    Advances(layout, cap, width, off), off[at] \in 0 .. most,
                    at + Len(Battery) <= Len(layout),
                    \A j \in 1 .. Len(Battery) : layout[at + j] = Battery[j]
             PROVE  off[at + Len(Battery)] \in 0 .. most + 78
  BY DEF Adds
<1>1. Len(Battery) = 5 /\ Battery[1] = 22 /\ Battery[2] = 0 /\ Battery[3] = 11 /\ Battery[4] = 0 /\ Battery[5] = 1
  BY DEF Battery
<1>2. layout[at + 1] = 22 /\ layout[at + 2] = 0 /\ layout[at + 3] = 11 /\ layout[at + 4] = 0 /\ layout[at + 5] = 1
  BY <1>1
<1>3. layout \in Seq(Piece) /\ cap \in Nat /\ 1024 <= cap /\ width \in 0 .. 22
  BY DEF Advances, NumberWidth
<1>4. Len(layout) \in Nat /\ at + 5 <= Len(layout)
  BY <1>1, <1>3
<1> DEFINE a0 == off[at]
           a1 == off[at + 1]
           a2 == off[at + 2]
           a3 == off[at + 3]
           a4 == off[at + 4]
           a5 == off[at + 5]
<1>5. a1 = Put(cap, width, a0, 22)
  <2>1. at + 1 \in 1 .. Len(layout) /\ (at + 1) - 1 = at
    BY <1>4
  <2> QED
    BY <1>2, <2>1 DEF Advances
<1>6. a2 = Put(cap, width, a1, 0)
  <2>1. at + 2 \in 1 .. Len(layout) /\ (at + 2) - 1 = at + 1
    BY <1>4
  <2> QED
    BY <1>2, <2>1 DEF Advances
<1>7. a3 = Put(cap, width, a2, 11)
  <2>1. at + 3 \in 1 .. Len(layout) /\ (at + 3) - 1 = at + 2
    BY <1>4
  <2> QED
    BY <1>2, <2>1 DEF Advances
<1>8. a4 = Put(cap, width, a3, 0)
  <2>1. at + 4 \in 1 .. Len(layout) /\ (at + 4) - 1 = at + 3
    BY <1>4
  <2> QED
    BY <1>2, <2>1 DEF Advances
<1>9. a5 = Put(cap, width, a4, 1)
  <2>1. at + 5 \in 1 .. Len(layout) /\ (at + 5) - 1 = at + 4
    BY <1>4
  <2> QED
    BY <1>2, <2>1 DEF Advances
<1>10. a0 \in 0 .. most
  OBVIOUS
<1> HIDE DEF a0, a1, a2, a3, a4, a5
<1>11. a1 \in 0 .. most + 22
  BY <1>3, <1>5, <1>10 DEF Put, Overflow
<1>12. a2 \in 0 .. most + 44
  BY <1>3, <1>6, <1>11 DEF Put, Overflow
<1>13. a3 \in 0 .. most + 55
  BY <1>3, <1>7, <1>12 DEF Put, Overflow
<1>14. a4 \in 0 .. most + 77
  BY <1>3, <1>8, <1>13 DEF Put, Overflow
<1>15. a5 \in 0 .. most + 78
  BY <1>3, <1>9, <1>14 DEF Put, Overflow
<1> QED
  BY <1>1, <1>15 DEF a5

LEMMA NoLockstepAdds ==
  ASSUME NEW most \in Nat, most <= 920 PROVE Adds(NoLockstep, most, 16)
<1> SUFFICES ASSUME NEW layout, NEW cap, NEW width, NEW off, NEW at \in Nat,
                    Advances(layout, cap, width, off), off[at] \in 0 .. most,
                    at + Len(NoLockstep) <= Len(layout),
                    \A j \in 1 .. Len(NoLockstep) : layout[at + j] = NoLockstep[j]
             PROVE  off[at + Len(NoLockstep)] \in 0 .. most + 16
  BY DEF Adds
<1>1. Len(NoLockstep) = 1 /\ NoLockstep[1] = 16
  BY DEF NoLockstep
<1>2. layout[at + 1] = 16
  BY <1>1
<1>3. layout \in Seq(Piece) /\ cap \in Nat /\ 1024 <= cap /\ width \in 0 .. 22
  BY DEF Advances, NumberWidth
<1>4. Len(layout) \in Nat /\ at + 1 <= Len(layout)
  BY <1>1, <1>3
<1> DEFINE a0 == off[at]
           a1 == off[at + 1]
<1>5. a1 = Put(cap, width, a0, 16)
  <2>1. at + 1 \in 1 .. Len(layout) /\ (at + 1) - 1 = at
    BY <1>4
  <2> QED
    BY <1>2, <2>1 DEF Advances
<1>6. a0 \in 0 .. most
  OBVIOUS
<1> HIDE DEF a0, a1
<1>7. a1 \in 0 .. most + 16
  BY <1>3, <1>5, <1>6 DEF Put, Overflow
<1> QED
  BY <1>1, <1>7 DEF a1

LEMMA SegmentsArePieces ==
  /\ Base \in Seq(Piece) /\ Rangefinder \in Seq(Piece) /\ Battery \in Seq(Piece)
  /\ NoLockstep \in Seq(Piece)
<1>1. Base \in Seq(Piece)
  BY DEF Base, Piece
<1>2. Rangefinder \in Seq(Piece)
  BY DEF Rangefinder, Piece
<1>3. Battery \in Seq(Piece)
  BY DEF Battery, Piece
<1>4. NoLockstep \in Seq(Piece)
  BY DEF NoLockstep, Piece
<1> QED
  BY <1>1, <1>2, <1>3, <1>4

(* All but the last literal, whatever the options, at the widest numbers.  *)
LaidOut(layout, s) == layout = s \o <<2>> /\ Writes(s, 932)

LEMMA LayoutWrites ==
  ASSUME NEW n \in 0 .. 2, NEW valid, NEW free
  PROVE  \E s : LaidOut(Layout(n, valid, free), s)
<1> DEFINE r == CASE n = 0 -> <<>> [] n = 1 -> Rangefinder
                  [] n = 2 -> Rangefinder \o Rangefinder
           b == IF valid THEN Battery ELSE <<>>
           l == IF free THEN NoLockstep ELSE <<>>
<1>1. Writes(Base \o r, 838)
  <2>1. Writes(Base, 838)
    BY BaseWrites, WritesAtMost
  <2>11. Writes(Base \o Rangefinder, 807)
    BY BaseWrites, RangefinderAdds, SegmentsArePieces, WritesMore
  <2>2. Writes(Base \o Rangefinder, 838)
    BY <2>11, WritesAtMost
  <2>3. Writes((Base \o Rangefinder) \o Rangefinder, 838)
    BY <2>11, RangefinderAdds, SegmentsArePieces, WritesMore
  <2>4. Base \in Seq(Piece) /\ Rangefinder \in Seq(Piece)
    BY SegmentsArePieces
  <2>5. Base \o <<>> = Base
    BY <2>4, ConcatEmptySeq
  <2>6. Base \o (Rangefinder \o Rangefinder) = (Base \o Rangefinder) \o Rangefinder
    BY <2>4, ConcatAssociative
  <2>7. r = <<>> \/ r = Rangefinder \/ r = Rangefinder \o Rangefinder
    <3>1. n = 0 \/ n = 1 \/ n = 2
      OBVIOUS
    <3>2. CASE n = 0
      BY <3>2
    <3>3. CASE n = 1
      BY <3>3
    <3>4. CASE n = 2
      BY <3>4
    <3> QED
      BY <3>1, <3>2, <3>3, <3>4
  <2> HIDE DEF r
  <2>8. CASE r = <<>>
    BY <2>1, <2>5, <2>8, Zenon
  <2>9. CASE r = Rangefinder
    BY <2>2, <2>9, Zenon
  <2>10. CASE r = Rangefinder \o Rangefinder
    BY <2>3, <2>6, <2>10, Zenon
  <2> QED
    BY <2>7, <2>8, <2>9, <2>10
<1> HIDE DEF r
<1>2. Writes((Base \o r) \o b, 916)
  <2>1. (Base \o r) \o <<>> = Base \o r
    BY <1>1, ConcatEmptySeq DEF Writes
  <2>2. Writes((Base \o r) \o <<>>, 916)
    BY <1>1, <2>1, WritesAtMost
  <2>3. Writes((Base \o r) \o Battery, 916)
    BY <1>1, BatteryAdds, SegmentsArePieces, WritesMore
  <2>4. b = Battery \/ b = <<>>
    OBVIOUS
  <2> HIDE DEF b
  <2>5. CASE b = Battery
    BY <2>3, <2>5, Zenon
  <2>6. CASE b = <<>>
    BY <2>2, <2>6, Zenon
  <2> QED
    BY <2>4, <2>5, <2>6
<1> HIDE DEF b
<1>3. Writes(((Base \o r) \o b) \o l, 932)
  <2>1. ((Base \o r) \o b) \o <<>> = (Base \o r) \o b
    BY <1>2, ConcatEmptySeq DEF Writes
  <2>2. Writes(((Base \o r) \o b) \o <<>>, 932)
    BY <1>2, <2>1, WritesAtMost
  <2>3. Writes(((Base \o r) \o b) \o NoLockstep, 932)
    BY <1>2, NoLockstepAdds, SegmentsArePieces, WritesMore
  <2>4. l = NoLockstep \/ l = <<>>
    OBVIOUS
  <2> HIDE DEF l
  <2>5. CASE l = NoLockstep
    BY <2>3, <2>5, Zenon
  <2>6. CASE l = <<>>
    BY <2>2, <2>6, Zenon
  <2> QED
    BY <2>4, <2>5, <2>6
<1> QED
  <2>1. LaidOut(Layout(n, valid, free), ((Base \o r) \o b) \o l)
    BY <1>3 DEF Layout, LaidOut, r, b, l
  <2> QED
    BY <2>1

(* Whatever the options and however wide the numbers, a reply takes 934     *)
(* bytes at most, and build_state_json never finds the 1024 of last_json   *)
(* too few: not even for the 40 it insists on before every number.         *)
THEOREM RepliesAreShort ==
  ASSUME NEW n \in 0 .. 2, NEW valid, NEW free, NEW cap \in Nat, 1024 <= cap,
         NEW width \in 0 .. NumberWidth
  PROVE  /\ build_state_json(Layout(n, valid, free), cap, width) \in Nat \ {0}
         /\ build_state_json(Layout(n, valid, free), cap, width) <= 934
<1>1. PICK s : LaidOut(Layout(n, valid, free), s)
  BY LayoutWrites
<1> DEFINE layout == s \o <<2>>
<1>2. s \in Seq(Piece) /\ <<2>> \in Seq(Piece) /\ Len(s) \in Nat
  BY <1>1 DEF Writes, Piece, LaidOut
<1>3. /\ layout \in Seq(Piece) /\ Len(layout) = Len(s) + 1
      /\ \A i \in 1 .. Len(s) : layout[i] = s[i]
      /\ layout[Len(s) + 1] = 2
  BY <1>2
<1> HIDE DEF layout
<1>4. PICK off : Sizes(layout, cap, width, off)
  <2>1. Len(layout) \in Nat
    BY <1>2, <1>3
  <2> QED
    BY <2>1, ReplyEnds
<1>5. Advances(layout, cap, width, off)
  BY <1>3, <1>4 DEF Advances, Sizes
<1>6. StartsWith(layout, s)
  BY <1>2, <1>3 DEF StartsWith
<1>7. off[Len(s)] \in 0 .. 932
  BY <1>1, <1>5, <1>6 DEF Writes, LaidOut
<1>8. Len(s) + 1 \in 1 .. Len(layout) /\ Len(s) + 1 - 1 = Len(s)
  BY <1>2, <1>3
<1>9. off[Len(layout)] = Put(cap, width, off[Len(s)], 2)
  BY <1>3, <1>4, <1>8 DEF Sizes
<1> DEFINE end == off[Len(s)]
           last == off[Len(layout)]
<1>10. end \in 0 .. 932 /\ last = Put(cap, width, end, 2)
  BY <1>7, <1>9
<1>11. build_state_json(layout, cap, width) = IF last = Overflow THEN 0 ELSE last
  BY <1>4 DEF Sizes
<1> HIDE DEF end, last
<1>12. last \in 2 .. 934
  BY <1>10 DEF Put, Overflow
<1>13. /\ build_state_json(layout, cap, width) \in Nat \ {0}
       /\ build_state_json(layout, cap, width) <= 934
  BY <1>11, <1>12 DEF Overflow
<1> QED
  BY <1>1, <1>13 DEF layout, LaidOut

LEMMA EveryReplyFits ==
  ASSUME Capacity >= 1024, NEW n \in 0 .. 2, NEW valid \in BOOLEAN, NEW free \in BOOLEAN,
         NEW w \in Widths
  PROVE  build_state_json(Layout(n, valid, free), Capacity, w) # 0
<1>1. w \in 0 .. NumberWidth
  BY FlightAssumption DEF NumberWidth
<1>2. Capacity \in Nat
  BY FlightAssumption
<1>3. 1024 <= Capacity
  BY <1>2
<1> QED
  BY <1>1, <1>2, <1>3, RepliesAreShort

ReplyInv == opt \in Options /\ RepliesFit

(* No vehicle's reply ever ends its loop, whatever the options, the pack   *)
(* and the numbers: inductive, with the options that do not change, in the *)
(* 1024 bytes main.cpp gives last_json (main.cpp:170).                     *)
THEOREM RepliesAlwaysFit ==
  ASSUME Capacity >= 1024 PROVE Spec => []RepliesFit
<1>1. Init => ReplyInv
  BY DEF Init, ReplyInv, RepliesFit
<1>2. ReplyInv /\ [Next]_vars => ReplyInv'
  <2> SUFFICES ASSUME ReplyInv, [Next]_vars PROVE ReplyInv'
    OBVIOUS
  <2>1. CASE Reply
    <3>1. PICK w \in Widths : last_json_len' = build_state_json(ReplyLayout, Capacity, w)
      BY <2>1 DEF Reply
    <3>2. opt.rangefinders \in 0 .. 2
      BY FlightAssumption DEF ReplyInv
    <3>3. (voltage > 0) \in BOOLEAN /\ opt.no_lockstep \in BOOLEAN
      BY FlightAssumption DEF ReplyInv
    <3>4. PICK n \in 0 .. 2, valid \in BOOLEAN, free \in BOOLEAN :
            last_json_len' = build_state_json(Layout(n, valid, free), Capacity, w)
      BY <3>1, <3>2, <3>3, Zenon DEF ReplyLayout
    <3>5. last_json_len' # 0
      BY <3>4, EveryReplyFits
    <3> QED
      BY <2>1, <3>5 DEF Reply, ReplyInv, RepliesFit, fixedVars
  <2>2. CASE BatteryReset \/ NoCommand \/ PollFresh \/ PollMissed \/ Freeze \/ NoReply
    BY <2>2 DEF BatteryReset, NoCommand, PollFresh, PollMissed, Freeze, NoReply,
                ReplyInv, RepliesFit, fixedVars
  <2>3. CASE StepActive \/ StepPassive
    BY <2>3 DEF StepActive, StepPassive, AfterStep, ReplyInv, RepliesFit, fixedVars
  <2>4. CASE UNCHANGED vars
    BY <2>4 DEF vars, ReplyInv, RepliesFit, fixedVars
  <2> QED
    BY <2>1, <2>2, <2>3, <2>4 DEF Next
<1>3. ReplyInv => RepliesFit
  BY DEF ReplyInv
<1> QED
  BY <1>1, <1>2, <1>3, PTL DEF Spec
==============================================================================
