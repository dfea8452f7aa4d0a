------------------------------- MODULE Packets -------------------------------
(***************************************************************************)
(* Servo datagrams and their classification: src/protocol/packets.{h,cpp}. *)
(*                                                                         *)
(* A datagram is reduced to what parse_servo_datagram looks at: its size,  *)
(* its magic and its frame_count.  The PWM payload is carried by the frame *)
(* identity the modules above add to it.                                   *)
(***************************************************************************)
EXTENDS Integers

CONSTANT FrameCountMod   \* 2^32 in the code: frame_count is a uint32_t

ASSUME FrameCountAssumption == FrameCountMod \in Nat /\ FrameCountMod > 1

FrameCounts == 0 .. FrameCountMod - 1

NoFrameCount == -1       \* std::nullopt

Size16  == 40            \* sizeof(ServoPacket16)
Size32  == 72            \* sizeof(ServoPacket32)
Magic16 == 18458         \* kServoMagic16
Magic32 == 29569         \* kServoMagic32

ExpectedMagic(size) == IF size = Size16 THEN Magic16 ELSE Magic32

Steppable == {"Ok", "Gap", "Reboot"}
FrameStatus == Steppable \cup {"Duplicate", "BadMagic", "BadSize"}

(* Slip: a count behind the last one is taken for a late re-send. *)
Sequence_OlderIsDuplicate(count, last) ==
  CASE last = NoFrameCount                 -> "Ok"
    [] last # NoFrameCount /\ count <= last -> "Duplicate"
    [] last # NoFrameCount /\ count > last  ->
         IF count = (last + 1) % FrameCountMod THEN "Ok" ELSE "Gap"

(* The place of a valid frame count after the last one accepted.  `last + 1' *)
(* is computed in uint32_t, the comparison `<' is not modular.               *)
Sequence(count, last) ==
  CASE last = NoFrameCount                   -> "Ok"
    [] last # NoFrameCount /\ count = last   -> "Duplicate"
    [] last # NoFrameCount /\ count < last   -> "Reboot"
    [] last # NoFrameCount /\ count > last   ->
         IF count = (last + 1) % FrameCountMod THEN "Ok" ELSE "Gap"

(* A plausible slip: taking the re-sent frame for a new one. *)
Parse_DuplicateAsOk(d, last) ==
  IF d.size \notin {Size16, Size32} THEN "BadSize"
  ELSE IF d.magic # ExpectedMagic(d.size) THEN "BadMagic"
  ELSE IF Sequence(d.frame_count, last) = "Duplicate" THEN "Ok"
  ELSE Sequence(d.frame_count, last)

(* parse_servo_datagram: size first, then magic, then the sequence. *)
Parse(d, last) ==
  IF d.size \notin {Size16, Size32} THEN "BadSize"
  ELSE IF d.magic # ExpectedMagic(d.size) THEN "BadMagic"
  ELSE Sequence(d.frame_count, last)

(* Slip: a bad datagram, whose count parses as 0, moves the state too.      *)
NextLast_OnBad(d, last) ==
  IF Parse(d, last) \in Steppable THEN d.frame_count ELSE 0

(* take_latest: the sequence state advances on Ok, Gap and Reboot only. *)
NextLast(d, last) ==
  IF Parse(d, last) \in Steppable THEN d.frame_count ELSE last
==============================================================================
