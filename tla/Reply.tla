-------------------------------- MODULE Reply --------------------------------
(***************************************************************************)
(* The size of a reply: build_state_json writes literals and numbers into  *)
(* a buffer of fixed size and gives up (0) when one might not fit, which   *)
(* stops the simulator.  A literal is its length; a number is 0 and takes  *)
(* up to 22 characters: sign, point and the 20 digits of a uint64_t.       *)
(***************************************************************************)
EXTENDS Integers, Sequences

NumberWidth == 22

(* timestamp, gyro, accel_body, position, velocity, attitude, quaternion *)
Base == <<13, 0,  16, 0, 1, 0, 1, 0,  16, 0, 1, 0, 1, 0,  15, 0, 1, 0, 1, 0,
          14, 0, 1, 0, 1, 0,  14, 0, 1, 0, 1, 0,  16, 0, 1, 0, 1, 0, 1, 0,  1>>

Rangefinder == <<6, 1, 2, 0>>
Battery == <<22, 0, 11, 0, 1>>
NoLockstep == <<16>>

Layout(rangefinders, battery_valid, no_lockstep) ==
  Base
    \o (CASE rangefinders = 0 -> <<>>
          [] rangefinders = 1 -> Rangefinder
          [] rangefinders = 2 -> Rangefinder \o Rangefinder)
    \o (IF battery_valid THEN Battery ELSE <<>>)
    \o (IF no_lockstep THEN NoLockstep ELSE <<>>)
    \o <<2>>

Overflow == -1

(* Slip: a number moves the end by what it reserved, not what it wrote. *)
Put_ReservesRoom(cap, width, off, piece) ==
  LET room == IF piece = 0 THEN 40 ELSE piece
  IN IF off = Overflow \/ off + room > cap THEN Overflow ELSE off + room

(* append_lit and append_fixed; the latter insists on 40 free bytes. *)
Put(cap, width, off, piece) ==
  LET room == IF piece = 0 THEN 40 ELSE piece
  IN IF off = Overflow \/ off + room > cap THEN Overflow
     ELSE off + (IF piece = 0 THEN width ELSE piece)

build_state_json(layout, cap, width) ==
  LET off[i \in 0 .. Len(layout)] ==
        IF i = 0 THEN 0 ELSE Put(cap, width, off[i - 1], layout[i])
      end == off[Len(layout)]
  IN IF end = Overflow THEN 0 ELSE end
==============================================================================
