---------------------------- MODULE Replay_proofs ----------------------------
(***************************************************************************)
(* AlignedTapeReplays, for any number of vehicles, spawned vehicles and    *)
(* live steps.                                                             *)
(*                                                                         *)
(* It is not inductive: it says what has been replayed, not what the rest  *)
(* of the tape will do.  The invariant therefore describes the tape: as    *)
(* long as its lines are of aligned steps each one says which line comes   *)
(* next (Fits), so that whatever has been read the next line is of the     *)
(* vehicle and the tick the replay has come to (ReplayInv).                *)
(***************************************************************************)
EXTENDS Replay, WellFoundedInduction, SequenceTheorems, TLAPS

USE ReplayAssumption

(* Induction up to a bound, over a set of numbers.                         *)
LEMMA LeastNat ==
  ASSUME NEW S \in SUBSET Nat, S # {} PROVE \E x \in S : \A y \in S : x <= y
<1>1. PICK x \in S : \A y \in S : ~(<<y, x>> \in OpToRel(<, Nat))
  BY NatLessThanWellFounded, WFMin
<1>2. \A y \in S : ~(y < x)
  BY <1>1 DEF OpToRel
<1> QED
  BY <1>2

LEMMA InductionUpTo ==
  ASSUME NEW n \in Nat, NEW S, 0 \in S, \A k \in 0 .. n - 1 : k \in S => k + 1 \in S
  PROVE  \A k \in 0 .. n : k \in S
<1> DEFINE missed == {k \in 0 .. n : k \notin S}
<1> SUFFICES ASSUME missed # {} PROVE FALSE
  OBVIOUS
<1>1. missed \in SUBSET Nat
  OBVIOUS
<1>2. PICK x \in missed : \A y \in missed : x <= y
  BY <1>1, LeastNat
<1>3. x \in 1 .. n /\ x - 1 \in 0 .. n - 1
  BY <1>2
<1>4. x - 1 \in S
  BY <1>2, <1>3
<1> QED
  BY <1>2, <1>3, <1>4

-----------------------------------------------------------------------------
(* What step_world writes: Recorded, line by line.                         *)
Lines == [tick : Nat, vi : Nat \ {0}, frame : Nat]
LinesNow == {l \in Lines : l.tick = Len(live)}
Steps == SUBSET (Bodies \X Nat)

(* What the loop leaves of a tape after one vehicle more. *)
Noted(l, i, fresh, f) == IF fleet[i] \in fresh THEN Append(l, Line(i, f)) ELSE l

(* The lines of the first n vehicles. *)
Extends(lines, n, fresh, f) ==
  lines = [i \in 0 .. n |-> IF i = 0 THEN <<>> ELSE Noted(lines[i - 1], i, fresh, f)]

LEMMA LinesExist ==
  ASSUME NEW fresh, NEW f, Len(fleet) \in Nat
  PROVE  \E lines : Extends(lines, Len(fleet), fresh, f)
<1> DEFINE S == {n \in 0 .. Len(fleet) : \E lines : Extends(lines, n, fresh, f)}
<1>1. 0 \in S
  <2>1. Extends([i \in 0 .. 0 |-> <<>>], 0, fresh, f)
    BY DEF Extends
  <2> QED
    BY <2>1
<1>2. ASSUME NEW k \in 0 .. Len(fleet) - 1, k \in S PROVE k + 1 \in S
  <2>1. PICK lines : Extends(lines, k, fresh, f)
    BY <1>2
  <2> DEFINE more == [i \in 0 .. k + 1 |-> IF i <= k THEN lines[i] ELSE Noted(lines[k], k + 1, fresh, f)]
  <2>2. \A i \in 0 .. k : more[i] = lines[i]
    OBVIOUS
  <2>3. more[k + 1] = Noted(lines[k], k + 1, fresh, f)
    OBVIOUS
  <2>4. more = [i \in 0 .. k + 1 |-> more[i]]
    OBVIOUS
  <2>5. lines[0] = <<>>
    BY <2>1 DEF Extends
  <2>6. \A i \in 1 .. k : lines[i] = Noted(lines[i - 1], i, fresh, f)
    BY <2>1 DEF Extends
  <2> HIDE DEF more
  <2>7. ASSUME NEW i \in 0 .. k + 1
        PROVE  more[i] = IF i = 0 THEN <<>> ELSE Noted(more[i - 1], i, fresh, f)
    <3>1. CASE i = 0
      <4>1. i \in 0 .. k
        BY <3>1
      <4> QED
        BY <2>2, <2>5, <3>1, <4>1
    <3>2. CASE i = k + 1
      <4>1. i - 1 = k /\ k \in 0 .. k /\ i # 0
        BY <3>2
      <4>2. more[i - 1] = lines[k]
        BY <2>2, <4>1
      <4> QED
        BY <2>3, <3>2, <4>1, <4>2
    <3>3. CASE i # k + 1 /\ i # 0
      <4>1. i \in 1 .. k /\ i \in 0 .. k /\ i - 1 \in 0 .. k
        BY <3>3
      <4>2. more[i] = lines[i]
        BY <2>2, <4>1
      <4>3. more[i - 1] = lines[i - 1]
        BY <2>2, <4>1
      <4> QED
        BY <2>6, <3>3, <4>1, <4>2, <4>3
    <3> QED
      BY <3>1, <3>2, <3>3
  <2>8. more = [i \in 0 .. k + 1 |-> IF i = 0 THEN <<>> ELSE Noted(more[i - 1], i, fresh, f)]
    BY <2>4, <2>7
  <2>9. Extends(more, k + 1, fresh, f)
    BY <2>8 DEF Extends
  <2> QED
    BY <2>9
<1>3. \A k \in 0 .. Len(fleet) : k \in S
  <2> HIDE DEF S
  <2> QED
    BY <1>1, <1>2, InductionUpTo
<1> QED
  BY <1>3

(* What Recorded computes, one vehicle after another. *)
Writing(lines, fresh, f) ==
  /\ lines[0] = <<>>
  /\ \A k \in 0 .. Len(fleet) - 1 : lines[k + 1] = Noted(lines[k], k + 1, fresh, f)
  /\ Recorded(fresh, f) = lines[Len(fleet)]

LEMMA RecordedWrites ==
  ASSUME NEW fresh, NEW f, Len(fleet) \in Nat
  PROVE  \E lines : Writing(lines, fresh, f)
<1> DEFINE lines == CHOOSE lines : Extends(lines, Len(fleet), fresh, f)
<1>1. Extends(lines, Len(fleet), fresh, f)
  BY LinesExist
<1>2. Recorded(fresh, f) = lines[Len(fleet)]
  BY DEF Recorded, Extends, Noted
<1> HIDE DEF lines
<1>3. lines[0] = <<>>
  BY <1>1 DEF Extends
<1>4. ASSUME NEW k \in 0 .. Len(fleet) - 1
      PROVE  lines[k + 1] = Noted(lines[k], k + 1, fresh, f)
  <2>1. k + 1 \in 0 .. Len(fleet) /\ k + 1 # 0 /\ k + 1 - 1 = k
    OBVIOUS
  <2>2. lines[k + 1] = Noted(lines[k + 1 - 1], k + 1, fresh, f)
    BY <1>1, <2>1 DEF Extends
  <2> QED
    BY <2>1, <2>2
<1> QED
  BY <1>2, <1>3, <1>4 DEF Writing

(* Every line is of this step.                                             *)
LEMMA RecordedType ==
  ASSUME NEW fresh, NEW f \in [Bodies -> Nat], fleet \in Seq(Bodies), live \in Seq(Steps)
  PROVE  Recorded(fresh, f) \in Seq(LinesNow)
<1>1. Len(fleet) \in Nat /\ Len(live) \in Nat
  OBVIOUS
<1>2. PICK lines : Writing(lines, fresh, f)
  BY <1>1, RecordedWrites
<1> DEFINE S == {n \in 0 .. Len(fleet) : lines[n] \in Seq(LinesNow)}
<1>3. 0 \in S
  <2>1. lines[0] = <<>>
    BY <1>2 DEF Writing
  <2>2. <<>> \in Seq(LinesNow)
    BY EmptySeq
  <2>3. lines[0] \in Seq(LinesNow)
    BY <2>1, <2>2, Zenon
  <2>4. 0 \in 0 .. Len(fleet)
    BY <1>1
  <2> QED
    BY <2>3, <2>4
<1>4. ASSUME NEW k \in 0 .. Len(fleet) - 1, k \in S PROVE k + 1 \in S
  <2>1. k + 1 \in 1 .. Len(fleet)
    BY <1>1
  <2>2. fleet[k + 1] \in Bodies
    BY <2>1, ElementOfSeq
  <2>3. Line(k + 1, f) \in LinesNow
    BY <1>1, <2>1, <2>2 DEF Line, LinesNow, Lines
  <2>4. lines[k] \in Seq(LinesNow)
    BY <1>4
  <2>5. lines[k + 1] = Noted(lines[k], k + 1, fresh, f)
    BY <1>2 DEF Writing
  <2>6. Append(lines[k], Line(k + 1, f)) \in Seq(LinesNow)
    BY <2>3, <2>4, AppendProperties
  <2>7. lines[k + 1] \in Seq(LinesNow)
    BY <2>4, <2>5, <2>6 DEF Noted
  <2> QED
    BY <1>1, <2>1, <2>7
<1>5. \A k \in 0 .. Len(fleet) : k \in S
  <2> HIDE DEF S
  <2> QED
    BY <1>1, <1>3, <1>4, InductionUpTo
<1> QED
  BY <1>1, <1>2, <1>5 DEF Writing

(* When every vehicle of the fleet at the start has a frame, each writes a *)
(* line, in order.                                                         *)
LEMMA RecordedAll ==
  ASSUME NEW fresh, NEW f \in [Bodies -> Nat], fleet = StartFleet, 1 .. N \subseteq fresh,
         live \in Seq(Steps)
  PROVE  /\ Recorded(fresh, f) \in Seq(LinesNow) /\ Len(Recorded(fresh, f)) = N
         /\ \A i \in 1 .. N : Recorded(fresh, f)[i] = Line(i, f)
<1>1. fleet \in Seq(Bodies) /\ Len(fleet) = N /\ Len(live) \in Nat
  BY DEF StartFleet, Bodies
<1>2. PICK lines : Writing(lines, fresh, f)
  BY <1>1, RecordedWrites
<1> DEFINE Good(n) == /\ lines[n] \in Seq(LinesNow) /\ Len(lines[n]) = n
                      /\ \A i \in 1 .. n : lines[n][i] = Line(i, f)
           S == {n \in 0 .. N : Good(n)}
<1>3. 0 \in S
  <2>1. lines[0] = <<>>
    BY <1>2 DEF Writing
  <2>2. <<>> \in Seq(LinesNow) /\ Len(<<>>) = 0
    BY EmptySeq
  <2>3. lines[0] \in Seq(LinesNow) /\ Len(lines[0]) = 0
    BY <2>1, <2>2, Zenon
  <2>4. 0 \in 0 .. N
    OBVIOUS
  <2> QED
    BY <2>3, <2>4
<1>4. ASSUME NEW k \in 0 .. N - 1, k \in S PROVE k + 1 \in S
  <2>1. k + 1 \in 1 .. N /\ k \in Nat
    OBVIOUS
  <2>2. fleet[k + 1] = k + 1 /\ k + 1 \in Bodies
    BY <2>1 DEF StartFleet, Bodies
  <2>3. Line(k + 1, f) \in LinesNow
    BY <1>1, <2>1, <2>2 DEF Line, LinesNow, Lines
  <2>4. lines[k + 1] = Append(lines[k], Line(k + 1, f))
    <3>1. lines[k + 1] = Noted(lines[k], k + 1, fresh, f)
      BY <1>1, <1>2 DEF Writing
    <3> QED
      BY <2>1, <2>2, <3>1 DEF Noted
  <2>5. Good(k)
    BY <1>4
  <2>6. Good(k + 1)
    <3>1. /\ lines[k + 1] \in Seq(LinesNow) /\ Len(lines[k + 1]) = k + 1
          /\ \A i \in 1 .. k : lines[k + 1][i] = lines[k][i]
          /\ lines[k + 1][k + 1] = Line(k + 1, f)
      BY <2>1, <2>3, <2>4, <2>5, AppendProperties
    <3> QED
      BY <2>1, <2>5, <3>1
  <2> HIDE DEF Good
  <2> QED
    BY <2>1, <2>6
<1>5. \A k \in 0 .. N : k \in S
  <2> HIDE DEF S
  <2> QED
    BY <1>3, <1>4, InductionUpTo
<1> QED
  BY <1>1, <1>2, <1>5 DEF Writing
-----------------------------------------------------------------------------
(* The tape.  An aligned step has the k-th frame of every vehicle.         *)
Everybody(k) == {<<b, k>> : b \in 1 .. N}

(* The j-th line l of tape t, of one of the first a of n live steps: the   *)
(* next line is of the next vehicle, or of the first one a tick later; if  *)
(* all n steps are aligned the tape ends with the last vehicle.            *)
Fits(l, t, j, a, n) ==
  /\ l.frame = l.tick + 1 /\ l.vi <= N
  /\ l.vi < N =>
       j < Len(t) /\ t[j + 1].tick = l.tick /\ t[j + 1].vi = l.vi + 1
  /\ l.vi = N /\ l.tick + 1 < a =>
       j < Len(t) /\ t[j + 1].tick = l.tick + 1 /\ t[j + 1].vi = 1
  /\ l.vi = N /\ l.tick + 1 = a /\ a = n => j = Len(t)

Laid(t, a, n) ==
  \A j \in 1 .. Len(t) : t[j].tick < n /\ (t[j].tick < a => Fits(t[j], t, j, a, n))

(* Reading a line.                                                         *)
LEMMA LaidTail ==
  ASSUME NEW t \in Seq(Lines), t # <<>>, NEW a \in Nat, NEW n \in Nat, Laid(t, a, n)
  PROVE  Laid(Tail(t), a, n)
<1>1. /\ Tail(t) \in Seq(Lines) /\ Len(Tail(t)) = Len(t) - 1 /\ Len(t) \in Nat \ {0}
      /\ \A j \in 1 .. Len(Tail(t)) : Tail(t)[j] = t[j + 1]
  BY HeadTailProperties, EmptySeq, LenProperties
<1> SUFFICES ASSUME NEW j \in 1 .. Len(Tail(t))
             PROVE  /\ Tail(t)[j].tick < n
                    /\ Tail(t)[j].tick < a => Fits(Tail(t)[j], Tail(t), j, a, n)
  BY DEF Laid
<1>2. j + 1 \in 1 .. Len(t) /\ Tail(t)[j] = t[j + 1]
  BY <1>1
<1>3. t[j + 1].tick < n /\ (t[j + 1].tick < a => Fits(t[j + 1], t, j + 1, a, n))
  BY <1>2 DEF Laid
<1>4. ASSUME j + 1 < Len(t) PROVE Tail(t)[j + 1] = t[j + 1 + 1]
  BY <1>1, <1>4
<1>5. j < Len(Tail(t)) <=> j + 1 < Len(t)
  BY <1>1
<1>6. j = Len(Tail(t)) <=> j + 1 = Len(t)
  BY <1>1
<1> QED
  BY <1>2, <1>3, <1>4, <1>5, <1>6 DEF Fits

LEMMA Glued ==
  ASSUME NEW t \in Seq(Lines), NEW new \in Seq(Lines)
  PROVE  /\ t \o new \in Seq(Lines)
         /\ Len(t \o new) = Len(t) + Len(new) /\ Len(t) \in Nat /\ Len(new) \in Nat
         /\ \A i \in 1 .. Len(t) : (t \o new)[i] = t[i]
         /\ \A i \in Len(t) + 1 .. Len(t) + Len(new) : (t \o new)[i] = new[i - Len(t)]
BY ConcatProperties, LenProperties

(* Lines of a step that is not aligned. *)
LEMMA LaidOn ==
  ASSUME NEW t \in Seq(Lines), NEW new \in Seq(Lines), NEW n \in Nat, NEW a \in 0 .. n,
         Laid(t, a, n), \A i \in 1 .. Len(new) : new[i].tick = n
  PROVE  Laid(t \o new, a, n + 1)
<1>1. /\ Len(t \o new) = Len(t) + Len(new) /\ Len(t) \in Nat /\ Len(new) \in Nat
      /\ \A i \in 1 .. Len(t) : (t \o new)[i] = t[i]
      /\ \A i \in Len(t) + 1 .. Len(t) + Len(new) : (t \o new)[i] = new[i - Len(t)]
  BY Glued
<1> DEFINE all == t \o new
<1> HIDE DEF all
<1> SUFFICES ASSUME NEW j \in 1 .. Len(all)
             PROVE  /\ all[j].tick < n + 1
                    /\ all[j].tick < a => Fits(all[j], all, j, a, n + 1)
  BY DEF Laid, all
<1>2. CASE j \in 1 .. Len(t)
  <2>1. all[j] = t[j] /\ (j < Len(t) => all[j + 1] = t[j + 1] /\ j < Len(all))
    BY <1>1, <1>2 DEF all
  <2>2. t[j].tick < n /\ (t[j].tick < a => Fits(t[j], t, j, a, n))
    BY <1>2 DEF Laid
  <2>3. t[j] \in Lines
    BY <1>2, ElementOfSeq
  <2>4. t[j].tick \in Nat /\ t[j].vi \in Nat
    BY <2>3 DEF Lines
  <2>5. ASSUME t[j].tick < a PROVE Fits(t[j], all, j, a, n + 1)
    <3>1. Fits(t[j], t, j, a, n)
      BY <2>2, <2>5
    <3> QED
      BY <2>1, <2>4, <3>1 DEF Fits
  <2> QED
    BY <2>1, <2>2, <2>4, <2>5
<1>3. CASE j \notin 1 .. Len(t)
  <2>1. j - Len(t) \in 1 .. Len(new) /\ all[j] = new[j - Len(t)]
    BY <1>1, <1>3 DEF all
  <2>2. all[j].tick = n
    BY <2>1
  <2> QED
    BY <2>2
<1> QED
  BY <1>2, <1>3

(* Lines of an aligned step. *)
LEMMA LaidFurther ==
  ASSUME NEW t \in Seq(Lines), NEW new \in Seq(Lines), NEW n \in Nat,
         Laid(t, n, n), Len(new) = N,
         \A i \in 1 .. N : new[i].tick = n /\ new[i].vi = i /\ new[i].frame = n + 1
  PROVE  Laid(t \o new, n + 1, n + 1)
<1>1. /\ Len(t \o new) = Len(t) + N /\ Len(t) \in Nat
      /\ \A i \in 1 .. Len(t) : (t \o new)[i] = t[i]
      /\ \A i \in Len(t) + 1 .. Len(t) + N : (t \o new)[i] = new[i - Len(t)]
  BY Glued
<1> DEFINE all == t \o new
<1> HIDE DEF all
<1>0. \A i \in 1 .. N : all[Len(t) + i] = new[i]
  <2> TAKE i \in 1 .. N
  <2>1. Len(t) + i \in Len(t) + 1 .. Len(t) + N /\ Len(t) + i - Len(t) = i
    BY <1>1
  <2> QED
    BY <1>1, <2>1 DEF all
<1> SUFFICES ASSUME NEW j \in 1 .. Len(all)
             PROVE  /\ all[j].tick < n + 1
                    /\ all[j].tick < n + 1 => Fits(all[j], all, j, n + 1, n + 1)
  BY DEF Laid, all
<1>2. CASE j \in 1 .. Len(t)
  <2>1. all[j] = t[j] /\ (j < Len(t) => all[j + 1] = t[j + 1]) /\ j < Len(all)
    BY <1>1, <1>2 DEF all
  <2>2. t[j].tick < n /\ Fits(t[j], t, j, n, n)
    BY <1>2 DEF Laid
  <2>3. t[j] \in Lines
    BY <1>2, ElementOfSeq
  <2>5. t[j].tick \in Nat /\ t[j].vi \in Nat
    BY <2>3 DEF Lines
  <2>4. j = Len(t) => all[j + 1].tick = n /\ all[j + 1].vi = 1
    <3>1. 1 \in 1 .. N
      OBVIOUS
    <3> QED
      BY <1>0, <3>1
  <2> QED
    <3>1. Fits(t[j], t, j, n, n)
      BY <2>2
    <3>2. Fits(t[j], all, j, n + 1, n + 1)
      <4>1. CASE j = Len(t)
        BY <1>2, <2>1, <2>2, <2>4, <2>5, <3>1, <4>1 DEF Fits
      <4>2. CASE j < Len(t)
        <5>1. all[j] = t[j] /\ all[j + 1] = t[j + 1] /\ j < Len(all) /\ j # Len(t)
          BY <1>2, <2>1, <4>2
        <5>2. t[j].tick < n
          BY <2>2
        <5> HIDE DEF Fits
        <5>3. ~ (t[j].vi = N /\ t[j].tick + 1 = n)
          BY <3>1, <5>1 DEF Fits
        <5>4. /\ t[j].frame = t[j].tick + 1 /\ t[j].vi <= N
              /\ t[j].vi < N =>
                   j < Len(all) /\ all[j + 1].tick = t[j].tick /\ all[j + 1].vi = t[j].vi + 1
          BY <3>1, <5>1 DEF Fits
        <5>5. t[j].vi = N => t[j].tick + 1 < n
          BY <2>5, <5>2, <5>3
        <5>6. t[j].vi = N => all[j + 1].tick = t[j].tick + 1 /\ all[j + 1].vi = 1
          BY <3>1, <5>1, <5>5 DEF Fits
        <5>7. ~ (t[j].tick + 1 = n + 1)
          BY <2>5, <5>2
        <5> QED
          BY <5>1, <5>4, <5>6, <5>7 DEF Fits
      <4> QED
        BY <1>1, <1>2, <4>1, <4>2
    <3> QED
      BY <2>1, <2>2, <2>5, <3>2
<1>3. CASE j \notin 1 .. Len(t)
  <2>1. PICK i \in 1 .. N : j = Len(t) + i
    <3>1. j - Len(t) \in 1 .. N /\ j = Len(t) + (j - Len(t))
      BY <1>1, <1>3 DEF all
    <3> QED
      BY <3>1
  <2>2. all[j].tick = n /\ all[j].vi = i /\ all[j].frame = n + 1
    BY <1>0, <2>1
  <2>3. j < Len(all) <=> i < N
    BY <1>1, <2>1 DEF all
  <2>4. i < N => all[j + 1].tick = n /\ all[j + 1].vi = i + 1
    <3> SUFFICES ASSUME i < N PROVE all[j + 1].tick = n /\ all[j + 1].vi = i + 1
      OBVIOUS
    <3>1. i + 1 \in 1 .. N /\ j + 1 = Len(t) + (i + 1)
      BY <1>1, <2>1
    <3> QED
      BY <1>0, <3>1
  <2>5. i = N => j = Len(all)
    BY <1>1, <2>1 DEF all
  <2> QED
    BY <2>2, <2>3, <2>4, <2>5 DEF Fits
<1> QED
  BY <1>2, <1>3
-----------------------------------------------------------------------------
(* Taking a vehicle out of the fleet takes out no other. *)
LEMMA RemovedProperties ==
  ASSUME NEW s \in Seq(Bodies), NEW i \in 1 .. Len(s)
  PROVE  /\ RemoveAt(s, i) \in Seq(Bodies)
         /\ \A j \in 1 .. Len(s) : j # i => \E k \in DOMAIN RemoveAt(s, i) : RemoveAt(s, i)[k] = s[j]
<1>0. Len(s) \in Nat /\ \A j \in 1 .. Len(s) : s[j] \in Bodies
  BY LenProperties, ElementOfSeq
<1> DEFINE a == SubSeq(s, 1, i - 1)
           b == SubSeq(s, i + 1, Len(s))
<1>1. /\ a \in Seq(Bodies) /\ Len(a) = i - 1
      /\ \A j \in 1 .. i - 1 : a[j] = s[j]
  <2>1. 1 \in Int /\ i - 1 \in Int /\ \A j \in 1 .. i - 1 : s[j] \in Bodies
    BY <1>0
  <2>2. /\ a \in Seq(Bodies) /\ Len(a) = IF 1 <= i - 1 THEN i - 1 - 1 + 1 ELSE 0
        /\ \A j \in 1 .. i - 1 - 1 + 1 : a[j] = s[1 + j - 1]
    BY <2>1, SubSeqProperties
  <2> HIDE DEF a
  <2> QED
    BY <2>2
<1>2. /\ b \in Seq(Bodies) /\ Len(b) = Len(s) - i
      /\ \A j \in 1 .. Len(s) - i : b[j] = s[i + j]
  <2>1. i + 1 \in Int /\ Len(s) \in Int /\ \A j \in i + 1 .. Len(s) : s[j] \in Bodies
    BY <1>0
  <2>2. /\ b \in Seq(Bodies)
        /\ Len(b) = IF i + 1 <= Len(s) THEN Len(s) - (i + 1) + 1 ELSE 0
        /\ \A j \in 1 .. Len(s) - (i + 1) + 1 : b[j] = s[i + 1 + j - 1]
    BY <2>1, SubSeqProperties
  <2> HIDE DEF b
  <2>3. Len(b) = Len(s) - i
    BY <1>0, <2>2
  <2>4. ASSUME NEW j \in 1 .. Len(s) - i PROVE b[j] = s[i + j]
    <3>1. j \in 1 .. Len(s) - (i + 1) + 1 /\ i + 1 + j - 1 = i + j
      BY <1>0
    <3> QED
      BY <2>2, <3>1
  <2> QED
    BY <2>2, <2>3, <2>4
<1> HIDE DEF a, b
<1>3. RemoveAt(s, i) = a \o b
  BY DEF RemoveAt, a, b
<1>4. /\ a \o b \in Seq(Bodies) /\ Len(a \o b) = Len(s) - 1
      /\ \A j \in 1 .. i - 1 : (a \o b)[j] = s[j]
      /\ \A j \in i .. Len(s) - 1 : (a \o b)[j] = s[j + 1]
  <2>1. /\ a \o b \in Seq(Bodies) /\ Len(a \o b) = Len(a) + Len(b)
        /\ \A j \in 1 .. Len(a) + Len(b) :
             (a \o b)[j] = IF j <= Len(a) THEN a[j] ELSE b[j - Len(a)]
    BY <1>1, <1>2, ConcatProperties
  <2>2. Len(a) + Len(b) = Len(s) - 1
    BY <1>0, <1>1, <1>2
  <2>3. ASSUME NEW j \in 1 .. i - 1 PROVE (a \o b)[j] = s[j]
    BY <1>0, <1>1, <2>1, <2>2
  <2>4. ASSUME NEW j \in i .. Len(s) - 1 PROVE (a \o b)[j] = s[j + 1]
    <3>1. j \in 1 .. Len(a) + Len(b) /\ ~(j <= Len(a)) /\ j - Len(a) \in 1 .. Len(s) - i
      BY <1>0, <1>1, <2>2
    <3>2. i + (j - Len(a)) = j + 1
      BY <1>0, <1>1
    <3> QED
      BY <1>2, <2>1, <3>1, <3>2
  <2> QED
    BY <2>1, <2>2, <2>3, <2>4
<1> DEFINE r == a \o b
<1> HIDE DEF r
<1>5. /\ Len(r) = Len(s) - 1 /\ r \in Seq(Bodies)
      /\ \A j \in 1 .. i - 1 : r[j] = s[j]
      /\ \A j \in i .. Len(s) - 1 : r[j] = s[j + 1]
  BY <1>4 DEF r
<1>6. ASSUME NEW j \in 1 .. Len(s), j # i PROVE \E k \in DOMAIN r : r[k] = s[j]
  <2>1. DOMAIN r = 1 .. Len(s) - 1
    BY <1>5
  <2>2. CASE j < i
    <3>1. j \in 1 .. i - 1 /\ j \in 1 .. Len(s) - 1
      BY <1>0, <2>2
    <3> QED
      BY <1>5, <2>1, <3>1
  <2>3. CASE j > i
    <3>1. j - 1 \in i .. Len(s) - 1 /\ j - 1 \in 1 .. Len(s) - 1 /\ j - 1 + 1 = j
      BY <1>0, <2>3
    <3>2. r[j - 1] = s[j]
      BY <1>5, <3>1
    <3> QED
      BY <2>1, <3>1, <3>2
  <2> QED
    BY <1>6, <2>2, <2>3
<1> QED
  BY <1>3, <1>5, <1>6 DEF r

-----------------------------------------------------------------------------
(* The inductive invariant. *)
Types ==
  /\ run \in {"live", "replay", "done", "failed"}
  /\ fleet \in Seq(Bodies) /\ connected \in SUBSET Bodies
  /\ frame \in [Bodies -> Nat] /\ bodies \in N .. MaxBodies
  /\ tape \in Seq(Lines) /\ live \in Seq(Steps) /\ replayed \in Seq(Steps)
  /\ staged \in Nat /\ aligned \in 0 .. Len(live)

LiveInv ==
  run = "live" =>
    /\ connected \subseteq FleetSet
    /\ staged = 0 /\ replayed = <<>>
    /\ aligned > 0 => tape # <<>> /\ tape[1].tick = 0 /\ tape[1].vi = 1
    /\ aligned = Len(live) => \A b \in 1 .. N : frame[b] = aligned

ReplayInv ==
  run = "replay" =>
    /\ fleet = StartFleet /\ connected \subseteq 1 .. N
    /\ staged \in 0 .. N - 1
    /\ Len(replayed) < aligned =>
         /\ tape # <<>> /\ tape[1].tick = Len(replayed) /\ tape[1].vi = staged + 1
         /\ \A b \in 1 .. staged : b \in connected /\ frame[b] = Len(replayed) + 1
    /\ Len(replayed) >= aligned /\ aligned = Len(live) =>
         tape = <<>> /\ Len(replayed) = aligned

EndInv ==
  /\ run \in {"done", "failed"} => Len(replayed) >= aligned
  /\ run = "done" /\ aligned = Len(live) => Len(replayed) = aligned

LiveSteps == \A k \in 1 .. Len(live) : k <= aligned => live[k] = Everybody(k)
ReplayedSteps == \A k \in 1 .. Len(replayed) : k <= aligned => replayed[k] = Everybody(k)

IInv ==
  /\ Types
  /\ LiveSteps /\ ReplayedSteps /\ Laid(tape, aligned, Len(live))
  /\ LiveInv /\ ReplayInv /\ EndInv

LEMMA InitIInv == Init => IInv
<1> SUFFICES ASSUME Init PROVE IInv
  OBVIOUS
<1>1. StartFleet \in Seq(Bodies) /\ <<>> \in Seq(Lines) /\ <<>> \in Seq(Steps) /\ Len(<<>>) = 0
  BY EmptySeq DEF StartFleet, Bodies
<1>2. Types
  BY <1>1 DEF Init, Types, Bodies
<1>3. LiveSteps /\ ReplayedSteps /\ Laid(tape, aligned, Len(live))
  BY <1>1 DEF Init, LiveSteps, ReplayedSteps, Laid
<1>4. LiveInv /\ ReplayInv /\ EndInv
  BY <1>1 DEF Init, LiveInv, ReplayInv, EndInv, Bodies
<1> QED
  BY <1>2, <1>3, <1>4 DEF IInv

LEMMA InFleetSet ==
  ASSUME fleet \in Seq(Bodies)
  PROVE  /\ FleetSet \subseteq Bodies
         /\ \A i \in 1 .. Len(fleet) : fleet[i] \in FleetSet
         /\ fleet = StartFleet => FleetSet = 1 .. N
<1>1. FleetSet = {fleet[i] : i \in 1 .. Len(fleet)}
  BY DEF FleetSet, ToSet
<1>2. \A i \in 1 .. Len(fleet) : fleet[i] \in Bodies
  BY ElementOfSeq
<1>3. ASSUME fleet = StartFleet PROVE FleetSet = 1 .. N
  <2>1. Len(fleet) = N /\ \A i \in 1 .. N : fleet[i] = i
    BY <1>3 DEF StartFleet
  <2> QED
    BY <1>1, <2>1
<1> QED
  BY <1>1, <1>2, <1>3

LEMMA SpawnStep == IInv /\ Spawn => IInv'
<1> SUFFICES ASSUME IInv, Spawn PROVE IInv'
  OBVIOUS
<1> USE DEF Spawn
<1>1. Types /\ LiveSteps /\ ReplayedSteps /\ Laid(tape, aligned, Len(live))
  BY DEF IInv
<1>2. bodies + 1 \in Bodies
  BY <1>1 DEF Types, Bodies
<1>3. /\ fleet' \in Seq(Bodies) /\ Len(fleet') = Len(fleet) + 1 /\ Len(fleet) \in Nat
      /\ \A i \in 1 .. Len(fleet) : fleet'[i] = fleet[i]
  BY <1>1, <1>2, AppendProperties, LenProperties DEF Types
<1>4. FleetSet \subseteq FleetSet'
  <2>1. DOMAIN fleet = 1 .. Len(fleet) /\ DOMAIN fleet' = 1 .. Len(fleet')
    BY <1>1, <1>3, LenProperties DEF Types
  <2>2. \A i \in DOMAIN fleet : i \in DOMAIN fleet' /\ fleet'[i] = fleet[i]
    BY <1>3, <2>1
  <2> QED
    BY <2>2, Zenon DEF FleetSet, ToSet
<1>5. Types'
  BY <1>1, <1>3 DEF Types
<1>6. (LiveSteps /\ ReplayedSteps /\ Laid(tape, aligned, Len(live)))'
  BY <1>1 DEF LiveSteps, ReplayedSteps
<1>7. LiveInv'
  <2>1. LiveInv
    BY DEF IInv
  <2> QED
    BY <1>4, <2>1 DEF LiveInv
<1>8. ReplayInv' /\ EndInv'
  BY DEF ReplayInv, EndInv
<1> QED
  BY <1>5, <1>6, <1>7, <1>8 DEF IInv

LEMMA DespawnStep == \A i \in DOMAIN fleet : IInv /\ Despawn(i) => IInv'
<1> SUFFICES ASSUME IInv, NEW i \in DOMAIN fleet, Despawn(i) PROVE IInv'
  OBVIOUS
<1> USE DEF Despawn
<1>1. Types /\ LiveSteps /\ ReplayedSteps /\ Laid(tape, aligned, Len(live))
  BY DEF IInv
<1>2. i \in 1 .. Len(fleet)
  BY <1>1 DEF Types
<1>3. /\ fleet' \in Seq(Bodies)
      /\ \A j \in 1 .. Len(fleet) : j # i => \E k \in DOMAIN fleet' : fleet'[k] = fleet[j]
  BY <1>1, <1>2, RemovedProperties DEF Types
<1>4. FleetSet \ {fleet[i]} \subseteq FleetSet'
  <2>1. DOMAIN fleet = 1 .. Len(fleet)
    BY <1>1, LenProperties DEF Types
  <2>2. \A j \in DOMAIN fleet : j # i => \E k \in DOMAIN fleet' : fleet'[k] = fleet[j]
    BY <1>3, <2>1
  <2> SUFFICES ASSUME NEW b \in FleetSet, b # fleet[i] PROVE b \in FleetSet'
    OBVIOUS
  <2>3. PICK j \in DOMAIN fleet : b = fleet[j]
    BY DEF FleetSet, ToSet
  <2>4. PICK k \in DOMAIN fleet' : fleet'[k] = b
    BY <2>2, <2>3
  <2> QED
    BY <2>4 DEF FleetSet, ToSet
<1>5. Types'
  BY <1>1, <1>3 DEF Types
<1>6. (LiveSteps /\ ReplayedSteps /\ Laid(tape, aligned, Len(live)))'
  BY <1>1 DEF LiveSteps, ReplayedSteps
<1>7. LiveInv'
  <2>1. LiveInv
    BY DEF IInv
  <2> QED
    BY <1>4, <2>1 DEF LiveInv
<1>8. ReplayInv' /\ EndInv'
  BY DEF ReplayInv, EndInv
<1> QED
  BY <1>5, <1>6, <1>7, <1>8 DEF IInv

LEMMA StartReplayStep == IInv /\ StartReplay => IInv'
<1> SUFFICES ASSUME IInv, StartReplay PROVE IInv'
  OBVIOUS
<1> USE DEF StartReplay
<1>1. Types /\ LiveSteps /\ ReplayedSteps /\ Laid(tape, aligned, Len(live)) /\ LiveInv
  BY DEF IInv
<1>2. Types'
  BY <1>1 DEF Types, StartFleet, Bodies
<1>3. (LiveSteps /\ ReplayedSteps /\ Laid(tape, aligned, Len(live)))'
  BY <1>1 DEF LiveSteps, ReplayedSteps
<1>4. Len(replayed) = 0 /\ staged = 0
  BY <1>1, EmptySeq DEF LiveInv
<1>5. aligned = 0 /\ aligned = Len(live) => tape = <<>>
  <2> SUFFICES ASSUME aligned = 0, aligned = Len(live), tape # <<>> PROVE FALSE
    OBVIOUS
  <2>1. 1 \in 1 .. Len(tape)
    BY <1>1, EmptySeq, LenProperties DEF Types
  <2>2. tape[1].tick < 0 /\ tape[1] \in Lines
    BY <1>1, <2>1, ElementOfSeq DEF Laid, Types
  <2> QED
    BY <2>2 DEF Lines
<1>6. ReplayInv'
  BY <1>1, <1>4, <1>5 DEF ReplayInv, LiveInv, Types
<1>7. LiveInv' /\ EndInv'
  BY DEF LiveInv, EndInv
<1> QED
  BY <1>2, <1>3, <1>6, <1>7 DEF IInv

(* A live step: one of those that are aligned, or not. *)
LEMMA StepWorldStep ==
  \A fresh, frozen \in SUBSET FleetSet : IInv /\ StepWorld(fresh, frozen) => IInv'
<1> SUFFICES ASSUME IInv, NEW fresh \in SUBSET FleetSet, NEW frozen \in SUBSET FleetSet,
                    StepWorld(fresh, frozen)
             PROVE  IInv'
  OBVIOUS
<1>1. Types /\ LiveSteps /\ ReplayedSteps /\ Laid(tape, aligned, Len(live)) /\ LiveInv
  BY DEF IInv
<1>2. /\ run = "live" /\ frozen \subseteq connected \ fresh
      /\ UNCHANGED <<run, fleet, bodies, staged, replayed>>
      /\ connected' = connected \cup fresh
      /\ tape' = tape \o Recorded(fresh, frame')
      /\ live' = Append(live, Driven(connected' \ frozen, frame'))
  BY DEF StepWorld
<1>3. frame' = [b \in Bodies |-> IF b \in fresh THEN frame[b] + 1 ELSE frame[b]]
  BY DEF StepWorld
<1>4. aligned' = IF aligned = Len(live) /\ fleet = StartFleet /\ fresh = FleetSet
                 THEN aligned + 1 ELSE aligned
  BY DEF StepWorld
<1>5. FleetSet \subseteq Bodies /\ (fleet = StartFleet => FleetSet = 1 .. N)
  BY <1>1, InFleetSet DEF Types
<1>6. frame' \in [Bodies -> Nat] /\ connected' \in SUBSET Bodies
  <2>1. frame \in [Bodies -> Nat]
    BY <1>1 DEF Types
  <2> QED
    BY <1>1, <1>2, <1>3, <1>5, <2>1 DEF Types
<1> DEFINE n == Len(live)
           new == Recorded(fresh, frame')
           step == Driven(connected' \ frozen, frame')
<1>7. n \in Nat /\ aligned \in 0 .. n /\ live \in Seq(Steps) /\ tape \in Seq(Lines)
  BY <1>1, LenProperties DEF Types
<1>8. /\ new \in Seq(Lines) /\ \A i \in 1 .. Len(new) : new[i].tick = n
  <2>1. new \in Seq(LinesNow)
    BY <1>1, <1>6, RecordedType DEF Types
  <2> HIDE DEF new
  <2>2. \A i \in 1 .. Len(new) : new[i] \in LinesNow
    BY <2>1, ElementOfSeq
  <2>3. new \in Seq(Lines)
    BY <2>1 DEF LinesNow
  <2> QED
    BY <2>2, <2>3 DEF LinesNow
<1>9. step \in Steps
  <2>1. \A b \in Bodies : frame'[b] \in Nat
    BY <1>6
  <2> QED
    BY <1>6, <2>1 DEF Driven, Steps
<1> HIDE DEF new, step
<1>10. /\ live' \in Seq(Steps) /\ Len(live') = n + 1 /\ live'[n + 1] = step
       /\ \A k \in 1 .. n : live'[k] = live[k]
  BY <1>2, <1>7, <1>9, AppendProperties DEF step
<1> HIDE DEF n
<1>11. /\ tape' \in Seq(Lines) /\ Len(tape') = Len(tape) + Len(new)
       /\ Len(tape) \in Nat /\ Len(new) \in Nat
       /\ \A i \in 1 .. Len(tape) : tape'[i] = tape[i]
       /\ \A i \in Len(tape) + 1 .. Len(tape) + Len(new) : tape'[i] = new[i - Len(tape)]
  BY <1>2, <1>7, <1>8, Glued DEF new
<1>12. aligned' \in 0 .. n + 1
  BY <1>4, <1>7 DEF n
<1>13. Types'
  BY <1>1, <1>2, <1>6, <1>10, <1>11, <1>12 DEF Types
<1>14. ReplayInv' /\ EndInv'
  BY <1>2 DEF ReplayInv, EndInv
<1>15. ReplayedSteps'
  <2>1. replayed = <<>>
    BY <1>1, <1>2 DEF LiveInv
  <2>2. Len(replayed') = 0
    BY <1>2, <2>1, EmptySeq
  <2> QED
    BY <2>2 DEF ReplayedSteps
<1>16. connected' \subseteq FleetSet'
  BY <1>1, <1>2 DEF LiveInv, FleetSet
<1>17. \A k \in 1 .. n : k <= aligned => live'[k] = Everybody(k)
  BY <1>1, <1>10 DEF LiveSteps, n
<1>18. tape # <<>> => tape' # <<>> /\ tape'[1] = tape[1]
  <2> SUFFICES ASSUME tape # <<>> PROVE tape' # <<>> /\ tape'[1] = tape[1]
    OBVIOUS
  <2>1. 1 \in 1 .. Len(tape)
    BY <1>7, EmptySeq, LenProperties
  <2>2. Len(tape') # 0
    BY <1>11, <2>1
  <2> QED
    BY <1>11, <2>1, <2>2, EmptySeq
<1>19. CASE ~ (aligned = n /\ fleet = StartFleet /\ fresh = FleetSet)
  <2>1. aligned' = aligned
    BY <1>4, <1>19 DEF n
  <2>2. LiveSteps'
    BY <1>7, <1>10, <1>17, <2>1 DEF LiveSteps
  <2>3. Laid(tape', aligned', Len(live'))
    <3>1. Laid(tape, aligned, n)
      BY <1>1 DEF n
    <3>2. Laid(tape \o new, aligned, n + 1)
      BY <1>7, <1>8, <3>1, LaidOn
    <3> QED
      BY <1>2, <1>10, <2>1, <3>2 DEF new
  <2>4. LiveInv'
    BY <1>1, <1>2, <1>7, <1>10, <1>16, <1>18, <2>1 DEF LiveInv
  <2> QED
    BY <1>13, <1>14, <1>15, <2>2, <2>3, <2>4 DEF IInv
<1>20. CASE aligned = n /\ fleet = StartFleet /\ fresh = FleetSet
  <2>1. aligned' = n + 1 /\ fresh = 1 .. N
    BY <1>4, <1>5, <1>20 DEF n
  <2>2. \A b \in 1 .. N : b \in Bodies /\ frame'[b] = n + 1
    <3> TAKE b \in 1 .. N
    <3>1. b \in Bodies
      BY DEF Bodies
    <3>2. frame[b] = n
      BY <1>1, <1>2, <1>20 DEF LiveInv, n
    <3> QED
      BY <1>3, <2>1, <3>1, <3>2
  <2>3. connected' \ frozen = 1 .. N
    BY <1>1, <1>2, <1>5, <1>20, <2>1 DEF LiveInv
  <2>4. step = Everybody(n + 1)
    BY <2>2, <2>3 DEF step, Driven, Everybody
  <2>5. LiveSteps'
    <3> SUFFICES ASSUME NEW k \in 1 .. n + 1 PROVE live'[k] = Everybody(k)
      BY <1>10 DEF LiveSteps
    <3>1. CASE k = n + 1
      BY <1>10, <2>4, <3>1
    <3>2. CASE k # n + 1
      BY <1>7, <1>17, <1>20, <3>2
    <3> QED
      BY <3>1, <3>2
  <2>6. Len(new) = N /\ \A i \in 1 .. N : new[i].tick = n /\ new[i].vi = i /\ new[i].frame = n + 1
    <3>1. /\ Len(new) = N /\ \A i \in 1 .. N : new[i] = Line(i, frame')
      BY <1>6, <1>7, <1>20, <2>1, RecordedAll DEF new
    <3>2. \A i \in 1 .. N : fleet[i] = i
      BY <1>20 DEF StartFleet
    <3> QED
      BY <2>2, <3>1, <3>2 DEF Line, n
  <2>7. Laid(tape', aligned', Len(live'))
    <3>1. Laid(tape, n, n)
      BY <1>1, <1>20 DEF n
    <3>2. Laid(tape \o new, n + 1, n + 1)
      BY <1>7, <1>8, <2>6, <3>1, LaidFurther
    <3> QED
      BY <1>2, <1>10, <2>1, <3>2 DEF new
  <2>8. tape' # <<>> /\ tape'[1].tick = 0 /\ tape'[1].vi = 1
    <3>1. CASE n > 0
      <4>1. tape # <<>> /\ tape[1].tick = 0 /\ tape[1].vi = 1
        BY <1>1, <1>2, <1>20, <3>1 DEF LiveInv
      <4> QED
        BY <1>18, <4>1
    <3>2. CASE n = 0
      <4>1. Len(tape) = 0
        <5> SUFFICES ASSUME Len(tape) # 0 PROVE FALSE
          OBVIOUS
        <5>1. 1 \in 1 .. Len(tape)
          BY <1>11
        <5>2. tape[1].tick < 0 /\ tape[1] \in Lines
          BY <1>1, <1>7, <3>2, <5>1, ElementOfSeq DEF Laid, n
        <5> QED
          BY <5>2 DEF Lines
      <4>2. 1 \in Len(tape) + 1 .. Len(tape) + Len(new) /\ 1 - Len(tape) = 1
        BY <2>6, <4>1
      <4>3. tape'[1] = new[1]
        BY <1>11, <4>2
      <4>4. Len(tape') # 0
        BY <1>11, <2>6, <4>1
      <4>5. 1 \in 1 .. N
        OBVIOUS
      <4> QED
        BY <2>6, <3>2, <4>3, <4>4, <4>5, EmptySeq
    <3> QED
      BY <1>7, <3>1, <3>2
  <2>9. LiveInv'
    BY <1>1, <1>2, <1>10, <1>16, <2>1, <2>2, <2>8 DEF LiveInv
  <2> QED
    BY <1>13, <1>14, <1>15, <2>5, <2>7, <2>9 DEF IInv
<1> QED
  BY <1>19, <1>20

-----------------------------------------------------------------------------
(* The replay.                                                             *)
LEMMA BadIndexStep == IInv /\ BadIndex => IInv'
<1> SUFFICES ASSUME IInv, BadIndex PROVE IInv'
  OBVIOUS
<1> USE DEF BadIndex
<1>1. /\ Types /\ LiveSteps /\ ReplayedSteps /\ Laid(tape, aligned, Len(live))
      /\ ReplayInv
  BY DEF IInv
<1>2. Len(replayed) >= aligned
  <2> SUFFICES ASSUME Len(replayed) < aligned PROVE FALSE
    BY <1>1, LenProperties DEF Types
  <2>1. tape[1].vi <= N
    BY <1>1 DEF ReplayInv
  <2>2. Head(tape) = tape[1] /\ Len(fleet) = N
    BY <1>1 DEF ReplayInv, StartFleet
  <2>3. tape[1].vi > N
    BY <2>2
  <2>4. tape[1].vi \in Nat
    BY <2>1, <1>1 DEF ReplayInv
  <2> QED
    BY <2>1, <2>3, <2>4
<1>3. Types'
  BY <1>1 DEF Types
<1>4. (LiveSteps /\ ReplayedSteps /\ Laid(tape, aligned, Len(live)))'
  BY <1>1 DEF LiveSteps, ReplayedSteps
<1>5. LiveInv' /\ ReplayInv'
  BY DEF LiveInv, ReplayInv
<1>6. EndInv'
  BY <1>2 DEF EndInv
<1> QED
  BY <1>3, <1>4, <1>5, <1>6 DEF IInv

LEMMA EndOfTapeStep == IInv /\ EndOfTape => IInv'
<1> SUFFICES ASSUME IInv, EndOfTape PROVE IInv'
  OBVIOUS
<1> USE DEF EndOfTape
<1>1. /\ Types /\ LiveSteps /\ ReplayedSteps /\ Laid(tape, aligned, Len(live))
      /\ ReplayInv
  BY DEF IInv
<1>2. Len(replayed) >= aligned
  BY <1>1, LenProperties DEF Types, ReplayInv
<1>3. Types'
  BY <1>1 DEF Types
<1>4. (LiveSteps /\ ReplayedSteps /\ Laid(tape, aligned, Len(live)))'
  BY <1>1 DEF LiveSteps, ReplayedSteps
<1>5. LiveInv' /\ ReplayInv'
  BY DEF LiveInv, ReplayInv
<1>6. EndInv'
  BY <1>1, <1>2 DEF EndInv, ReplayInv
<1> QED
  BY <1>3, <1>4, <1>5, <1>6 DEF IInv

LEMMA ReadLineStep == IInv /\ ReadLine => IInv'
<1> SUFFICES ASSUME IInv, ReadLine PROVE IInv'
  OBVIOUS
<1>1. /\ Types /\ LiveSteps /\ ReplayedSteps /\ Laid(tape, aligned, Len(live))
      /\ ReplayInv
  BY DEF IInv
<1> DEFINE vi == tape[1].vi
           n == Len(replayed)
<1>2. /\ run = "replay" /\ tape # <<>> /\ fleet = StartFleet /\ connected \subseteq 1 .. N
      /\ staged \in 0 .. N - 1 /\ n \in Nat /\ aligned \in Nat
      /\ replayed \in Seq(Steps) /\ tape \in Seq(Lines) /\ frame \in [Bodies -> Nat]
  BY <1>1, LenProperties DEF ReadLine, ReplayInv, Types
<1>3. /\ Head(tape) = tape[1] /\ Len(tape) \in Nat \ {0} /\ tape[1] \in Lines
      /\ Tail(tape) \in Seq(Lines) /\ Len(Tail(tape)) = Len(tape) - 1
      /\ \A j \in 1 .. Len(tape) - 1 : Tail(tape)[j] = tape[j + 1]
  <2>1. Len(tape) \in Nat \ {0} /\ Head(tape) = tape[1]
    BY <1>2, EmptySeq, LenProperties
  <2>2. tape[1] \in Lines
    BY <1>2, <2>1, ElementOfSeq
  <2> QED
    BY <1>2, <2>1, <2>2, HeadTailProperties
<1>4. Len(fleet) = N /\ \A i \in 1 .. N : fleet[i] = i
  BY <1>2 DEF StartFleet
<1>5. vi \in 1 .. N /\ fleet[vi] = vi /\ vi \in Bodies
  <2>1. vi \in Nat \ {0} /\ vi <= N
    BY <1>3, <1>4 DEF ReadLine, Lines
  <2> QED
    BY <1>4, <2>1 DEF Bodies
<1>6. /\ frame' = [frame EXCEPT ![vi] = tape[1].frame]
      /\ connected' = connected \cup {vi}
      /\ staged' = Staged(staged + 1)
      /\ replayed' = IF staged + 1 = N
                     THEN Append(replayed, Driven(connected', frame')) ELSE replayed
      /\ tape' = Tail(tape)
      /\ UNCHANGED <<run, fleet, bodies, live, aligned>>
  BY <1>3, <1>4, <1>5 DEF ReadLine
<1>7. frame' \in [Bodies -> Nat] /\ connected' \subseteq 1 .. N /\ connected' \subseteq Bodies
  <2>1. tape[1].frame \in Nat
    BY <1>3 DEF Lines
  <2>2. frame' \in [Bodies -> Nat]
    BY <1>2, <1>6, <2>1
  <2>3. connected' \subseteq 1 .. N
    BY <1>2, <1>5, <1>6
  <2> QED
    BY <2>2, <2>3 DEF Bodies
<1> DEFINE step == Driven(connected', frame')
<1>8. step \in Steps
  <2>1. \A b \in Bodies : frame'[b] \in Nat
    BY <1>7
  <2> QED
    BY <1>7, <2>1 DEF Driven, Steps
<1> HIDE DEF step, n, vi
<1>9. staged + 1 = N =>
        /\ replayed' \in Seq(Steps) /\ Len(replayed') = n + 1 /\ replayed'[n + 1] = step
        /\ \A k \in 1 .. n : replayed'[k] = replayed[k]
  <2>1. /\ Append(replayed, step) \in Seq(Steps) /\ Len(Append(replayed, step)) = n + 1
        /\ Append(replayed, step)[n + 1] = step
        /\ \A k \in 1 .. n : Append(replayed, step)[k] = replayed[k]
    BY <1>2, <1>8, AppendProperties DEF n
  <2> QED
    BY <1>6, <2>1 DEF step
<1>10. staged' \in 0 .. N - 1 /\ (staged + 1 = N => staged' = 0)
       /\ (staged + 1 # N => staged' = staged + 1)
  BY <1>2, <1>4, <1>6 DEF Staged
<1>11. Types'
  <2>1. replayed' \in Seq(Steps)
    BY <1>2, <1>6, <1>9
  <2> QED
    BY <1>1, <1>3, <1>6, <1>7, <1>10, <2>1 DEF Types
<1>12. LiveSteps' /\ LiveInv' /\ EndInv'
  BY <1>1, <1>2, <1>6 DEF LiveSteps, LiveInv, EndInv
<1>13. Laid(tape', aligned', Len(live'))
  <2>1. Len(live) \in Nat
    BY <1>1, LenProperties DEF Types
  <2> QED
    BY <1>1, <1>2, <1>6, <2>1, LaidTail
<1>14. ASSUME n < aligned
       PROVE  /\ tape[1].tick = n /\ vi = staged + 1 /\ Fits(tape[1], tape, 1, aligned, Len(live))
              /\ \A b \in 1 .. staged + 1 : b \in connected' /\ frame'[b] = n + 1
  <2>1. /\ tape[1].tick = n /\ vi = staged + 1
        /\ \A b \in 1 .. staged : b \in connected /\ frame[b] = n + 1
    BY <1>1, <1>2, <1>14 DEF ReplayInv, n, vi
  <2>2. Fits(tape[1], tape, 1, aligned, Len(live))
    BY <1>1, <1>3, <1>14, <2>1 DEF Laid
  <2>3. tape[1].frame = n + 1
    BY <2>1, <2>2 DEF Fits
  <2>4. ASSUME NEW b \in 1 .. staged + 1 PROVE b \in connected' /\ frame'[b] = n + 1
    <3>1. b \in Bodies
      BY <1>2, <2>4 DEF Bodies
    <3>2. CASE b = vi
      BY <1>2, <1>6, <2>3, <3>1, <3>2
    <3>3. CASE b # vi
      <4>1. b \in 1 .. staged
        BY <1>2, <2>1, <3>3
      <4> QED
        BY <1>2, <1>6, <2>1, <3>1, <3>3, <4>1
    <3> QED
      BY <3>2, <3>3
  <2> QED
    BY <2>1, <2>2, <2>4
<1>15. ReplayedSteps'
  <2>1. ReplayedSteps
    BY <1>1
  <2>2. CASE staged + 1 # N
    BY <1>6, <2>1, <2>2 DEF ReplayedSteps
  <2>3. CASE staged + 1 = N
    <3>1. ASSUME n < aligned PROVE step = Everybody(n + 1)
      <4>1. connected' = 1 .. N
        BY <1>7, <1>14, <2>3, <3>1
      <4>2. \A b \in 1 .. N : frame'[b] = n + 1
        BY <1>14, <2>3, <3>1
      <4> QED
        BY <4>1, <4>2 DEF step, Driven, Everybody
    <3> SUFFICES ASSUME NEW k \in 1 .. n + 1, k <= aligned
                 PROVE  replayed'[k] = Everybody(k)
      BY <1>6, <1>9, <2>3 DEF ReplayedSteps
    <3>2. CASE k = n + 1
      BY <1>2, <1>9, <2>3, <3>1, <3>2
    <3>3. CASE k # n + 1
      <4>1. k \in 1 .. n
        BY <1>2, <3>3
      <4> QED
        BY <1>9, <2>1, <2>3, <4>1 DEF ReplayedSteps, n
    <3> QED
      BY <3>2, <3>3
  <2> QED
    BY <2>2, <2>3
<1>16a. /\ tape' \in Seq(Lines) /\ Len(tape') = Len(tape) - 1
        /\ \A j \in 1 .. Len(tape) - 1 : tape'[j] = tape[j + 1]
  BY <1>3, <1>6
<1>16. ReplayInv'
  <2>0. n \in Nat /\ Len(replayed) = n
    BY <1>2 DEF n
  <2>1. CASE n >= aligned
    <3>1. aligned # Len(live)
      BY <1>1, <1>2, <2>1 DEF ReplayInv, n
    <3>2. Len(replayed') >= aligned
      BY <1>2, <1>6, <1>9, <2>0, <2>1
    <3> QED
      BY <1>2, <1>6, <1>7, <1>10, <3>1, <3>2 DEF ReplayInv
  <2>2. CASE n < aligned /\ staged + 1 # N
    <3>1. Len(replayed') = n /\ staged' = staged + 1
      BY <1>6, <1>10, <2>0, <2>2
    <3>2. 1 < Len(tape) /\ tape[2].tick = n /\ tape[2].vi = staged + 2
      BY <1>2, <1>14, <2>2 DEF Fits, vi
    <3>3. tape'[1] = tape[2] /\ tape' # <<>>
      <4>1. 1 \in 1 .. Len(tape) - 1 /\ 1 + 1 = 2
        BY <1>3, <3>2
      <4>2. tape'[1] = tape[2] /\ Len(tape') # 0
        BY <1>16a, <4>1
      <4> QED
        BY <4>2, EmptySeq
    <3>4. \A b \in 1 .. staged' : b \in connected' /\ frame'[b] = n + 1
      BY <1>14, <2>2, <3>1
    <3>5. ASSUME Len(replayed') < aligned'
          PROVE  /\ tape' # <<>> /\ tape'[1].tick = Len(replayed') /\ tape'[1].vi = staged' + 1
                 /\ \A b \in 1 .. staged' : b \in connected' /\ frame'[b] = Len(replayed') + 1
      <4>1. staged' + 1 = staged + 2
        BY <1>2, <3>1
      <4> QED
        BY <3>1, <3>2, <3>3, <3>4, <4>1
    <3>6. ~ (Len(replayed') >= aligned')
      BY <1>2, <1>6, <2>2, <3>1
    <3>7. fleet' = StartFleet
      BY <1>2, <1>6
    <3> QED
      BY <1>7, <1>10, <3>5, <3>6, <3>7 DEF ReplayInv
  <2>3. CASE n < aligned /\ staged + 1 = N
    <3>1. Len(replayed') = n + 1 /\ staged' = 0 /\ vi = N
      BY <1>9, <1>10, <1>14, <2>3
    <3>2. n + 1 < aligned => 1 < Len(tape) /\ tape[2].tick = n + 1 /\ tape[2].vi = 1
      BY <1>2, <1>14, <2>3, <3>1 DEF Fits, vi
    <3>3. n + 1 < aligned => tape'[1] = tape[2] /\ tape' # <<>>
      <4> SUFFICES ASSUME n + 1 < aligned PROVE tape'[1] = tape[2] /\ tape' # <<>>
        OBVIOUS
      <4>1. 1 \in 1 .. Len(tape) - 1 /\ 1 + 1 = 2
        BY <1>3, <3>2
      <4>2. tape'[1] = tape[2] /\ Len(tape') # 0
        BY <1>16a, <4>1
      <4> QED
        BY <4>2, EmptySeq
    <3>4. n + 1 = aligned /\ aligned = Len(live) => tape' = <<>>
      <4> SUFFICES ASSUME n + 1 = aligned, aligned = Len(live) PROVE tape' = <<>>
        OBVIOUS
      <4>1. Len(tape) = 1
        BY <1>14, <2>3, <3>1 DEF Fits, vi
      <4>2. Len(tape') = 0
        BY <1>16a, <4>1
      <4> QED
        BY <1>16a, <4>2, EmptySeq
    <3>5. ASSUME Len(replayed') < aligned'
          PROVE  /\ tape' # <<>> /\ tape'[1].tick = Len(replayed') /\ tape'[1].vi = staged' + 1
                 /\ \A b \in 1 .. staged' : b \in connected' /\ frame'[b] = Len(replayed') + 1
      <4>1. n + 1 < aligned
        BY <1>6, <3>1, <3>5
      <4>2. staged' + 1 = 1 /\ 1 .. staged' = {}
        BY <3>1
      <4> QED
        BY <3>1, <3>2, <3>3, <4>1, <4>2
    <3>6. ASSUME Len(replayed') >= aligned', aligned' = Len(live')
          PROVE  tape' = <<>> /\ Len(replayed') = aligned'
      <4>1. n + 1 = aligned /\ aligned = Len(live)
        BY <1>2, <1>6, <2>0, <2>3, <3>1, <3>6
      <4> QED
        BY <1>6, <3>1, <3>4, <4>1
    <3>7. fleet' = StartFleet
      BY <1>2, <1>6
    <3> QED
      BY <1>7, <1>10, <3>5, <3>6, <3>7 DEF ReplayInv
  <2> QED
    BY <1>2, <2>1, <2>2, <2>3 DEF n
<1> QED
  BY <1>11, <1>12, <1>13, <1>15, <1>16 DEF IInv

-----------------------------------------------------------------------------
LEMMA NextIInv == IInv /\ [Next]_vars => IInv'
<1> SUFFICES ASSUME IInv, [Next]_vars PROVE IInv'
  OBVIOUS
<1>1. CASE Next
  BY <1>1, StepWorldStep, SpawnStep, DespawnStep, StartReplayStep, BadIndexStep,
     ReadLineStep, EndOfTapeStep DEF Next
<1>2. CASE UNCHANGED vars
  BY <1>2 DEF vars, IInv, Types, LiveSteps, ReplayedSteps, LiveInv, ReplayInv, EndInv, FleetSet
<1> QED
  BY <1>1, <1>2

LEMMA Conclusion == IInv => AlignedTapeReplays
<1> SUFFICES ASSUME IInv PROVE AlignedTapeReplays
  OBVIOUS
<1>1. /\ Types /\ LiveSteps /\ ReplayedSteps /\ EndInv
  BY DEF IInv
<1>2. /\ Len(live) \in Nat /\ Len(replayed) \in Nat /\ aligned \in 0 .. Len(live)
      /\ live \in Seq(Steps) /\ replayed \in Seq(Steps)
      /\ DOMAIN replayed = 1 .. Len(replayed)
  BY <1>1, LenProperties DEF Types
<1>3. ASSUME NEW k \in DOMAIN replayed, k <= aligned PROVE replayed[k] = live[k]
  BY <1>1, <1>2, <1>3 DEF LiveSteps, ReplayedSteps
<1>4. ASSUME run = "done", aligned = Len(live) PROVE replayed = live
  <2>1. Len(replayed) = Len(live)
    BY <1>1, <1>4 DEF EndInv
  <2>2. \A k \in 1 .. Len(live) : replayed[k] = live[k]
    BY <1>2, <1>3, <1>4, <2>1
  <2> QED
    BY <1>2, <2>1, <2>2, SeqEqual
<1> QED
  BY <1>1, <1>3, <1>4 DEF AlignedTapeReplays, EndInv

(* As long as each step of the live run took a frame of every vehicle it   *)
(* started with, run_replay makes the same steps, and the whole run of a   *)
(* tape with no other lines.                                               *)
THEOREM AlignedTapesReplay == Spec => []AlignedTapeReplays
<1>1. Spec => []IInv
  BY InitIInv, NextIInv, PTL DEF Spec
<1> QED
  BY <1>1, Conclusion, PTL
==============================================================================
