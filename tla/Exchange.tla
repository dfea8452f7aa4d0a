------------------------------ MODULE Exchange ------------------------------
(***************************************************************************)
(* What the lockstep protocol promises a vehicle's autopilot: one reply    *)
(* per request, and each reply answers the frame the autopilot is waiting  *)
(* on.  The autopilot moves to the next frame on a reply only (or repeats  *)
(* the frame, as its handshake does), and a request is answered in the     *)
(* end, unless the vehicle is despawned.  Lockstep implements this.        *)
(***************************************************************************)
EXTENDS Naturals

CONSTANTS NoReply, MaxFrames, MaxSessions

VARIABLES
  session,       \* restarts of the autopilot so far
  frame,         \* its frame_counter
  asked,         \* it waits for a reply
  reply,         \* the frame the reply on its way answers, or NoReply
  serving        \* the vehicle is in the fleet

exchangeVars == <<session, frame, asked, reply, serving>>

Init ==
  /\ session = 0 /\ frame = 0
  /\ asked = FALSE /\ reply = NoReply /\ serving = TRUE

Ask ==
  /\ ~asked /\ frame < MaxFrames
  /\ asked' = TRUE
  /\ UNCHANGED <<session, frame, reply, serving>>

Answer ==
  /\ serving /\ asked /\ reply = NoReply
  /\ reply' = <<session, frame>>
  /\ UNCHANGED <<session, frame, asked, serving>>

Accept ==
  /\ asked /\ reply # NoReply
  /\ frame' \in {frame, frame + 1}
  /\ asked' = FALSE /\ reply' = NoReply
  /\ UNCHANGED <<session, serving>>

Restart ==
  /\ session < MaxSessions
  /\ session' = session + 1 /\ frame' = 0
  /\ asked' = FALSE /\ reply' = NoReply
  /\ UNCHANGED serving

Withdraw ==
  /\ serving /\ serving' = FALSE
  /\ UNCHANGED <<session, frame, asked, reply>>

Next == Ask \/ Answer \/ Accept \/ Restart \/ Withdraw

Spec ==
  /\ Init /\ [][Next]_exchangeVars
  /\ WF_exchangeVars(Ask) /\ WF_exchangeVars(Answer) /\ WF_exchangeVars(Accept)
==============================================================================
