-------------------------------- MODULE Slot --------------------------------
(***************************************************************************)
(* What the tick loops may assume of one vehicle: a mailbox that holds the *)
(* kind of its newest unread datagram, and a slot that stages one frame at *)
(* a time and keeps it until its reply is out.  Lockstep, with the rx      *)
(* thread, the sequence state and the socket, implements this; Fleet       *)
(* builds the strict and the interactive loop on it.                       *)
(***************************************************************************)

(* none; a steppable frame (Ok, Gap, Reboot); a re-send of the last one;   *)
(* a datagram of a bad size or magic.                                      *)
Kinds == {"fresh", "duplicate", "bad"}

VARIABLES mail, connected, has_pending_input

slot == <<mail, connected, has_pending_input>>

Empty == mail = "none" /\ ~connected /\ ~has_pending_input

(* A datagram replaces whatever was unread.  Only a vehicle that has sent  *)
(* a frame can repeat it.                                                  *)
Land ==
  /\ mail' \in Kinds
  /\ mail' = "duplicate" => connected
  /\ UNCHANGED <<connected, has_pending_input>>

(* The mailbox is read, unless a frame is staged. *)
Poll ==
  /\ ~has_pending_input /\ mail # "none"
  /\ mail' = "none"
  /\ has_pending_input' = (mail = "fresh")
  /\ connected' = (connected \/ mail = "fresh")

Reply ==
  /\ has_pending_input
  /\ has_pending_input' = FALSE
  /\ UNCHANGED <<mail, connected>>

(* Despawned, or spawned again. *)
Leave == mail' = "none" /\ connected' = FALSE /\ has_pending_input' = FALSE

Next == Land \/ Poll \/ Reply \/ Leave

Spec == Empty /\ [][Next]_slot
==============================================================================
