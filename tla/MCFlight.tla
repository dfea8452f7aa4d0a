------------------------------ MODULE MCFlight ------------------------------
(* Instances of Flight for TLC. *)
EXTENDS Flight

MCInertiaInverse == <<2, 2, 1>>
MCLinDrag == <<1, 1, 2>>

(* Climb, and a turn about each axis. *)
MCPwm == {<<2000, 2000, 2000, 2000>>, <<1500, 2000, 2000, 1500>>,
          <<2000, 1000, 2000, 1000>>, <<1500, 1500, 900, 1000>>}

Request(capacity, full, empty) ==
  [capacity |-> capacity, full |-> full, empty |-> empty,
   idle |-> Absent, hover |-> Absent]

(* The default pack; a small one whose zero field makes it inverted. *)
MCPacks == {Request(Absent, Absent, Absent), Request(900, 50, 0)}

MCWinds == {<<0, 8, 0>>}

(* Level, rolled by 90 degrees, and nose, right wing and belly permuted. *)
MCAttitudes == {<<1, 0, 0, 0>>, <<1, 1, 0, 0>>, <<1, 1, 1, 1>>}
ASSUME RotationsAreExact == AttitudesAreExact

(* Nothing; the ground; a collision beyond the accelerometer's range. *)
MCKicks == {[vel |-> Zero, spin |-> Zero],
            [vel |-> <<-5000, 64, 32>>, spin |-> <<0, 3, 0>>]}
MCOptions == {[rangefinders |-> 2, no_lockstep |-> TRUE]}

==============================================================================
