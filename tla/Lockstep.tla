------------------------------ MODULE Lockstep ------------------------------
(***************************************************************************)
(* The lockstep conversation of one vehicle: its UdpEndpoint, the tick     *)
(* thread's poll_endpoint and reply_one (src/main.cpp), and, outside src/, *)
(* ArduPilot's side of the JSON protocol as docs/PROTOCOL.md describes it. *)
(*                                                                         *)
(* The tick thread's loop is left open: between staging a frame and        *)
(* stepping it any time may pass, as at a strict barrier, and the vehicle  *)
(* may be despawned while its peer is still talking to it.  The peer's     *)
(* address changes with its session (a restarted SITL binds a new port).   *)
(* Faults are counted down from budgets, so that they end.                 *)
(***************************************************************************)
EXTENDS UdpEndpoint

CONSTANTS
  MaxFrames,     \* bound: frames of one session of the peer
  MaxLosses,     \* bound: datagrams and replies the network loses
  MaxReboots,    \* bound: restarts of the peer
  MaxStrays,     \* bound: datagrams of a foreign sender
  MaxSlow,       \* bound: re-sends while the simulator still holds the frame
  RxPrompt       \* the rx thread has stored a re-send when a reply is sent

Sessions == 0 .. MaxReboots
Stray == -1

(* A servo datagram; session and n are its identity, which the code does   *)
(* not see.  Noise is a datagram of a size no servo packet has.            *)
Frame(s, n) == [size |-> Size16, magic |-> Magic16,
                frame_count |-> n % FrameCountMod, session |-> s, n |-> n]
Noise == [size |-> 17, magic |-> Magic16, frame_count |-> 0,
          session |-> Stray, n |-> 0]

LockstepContent == {Frame(s, n) : s \in Sessions, n \in 0 .. MaxFrames - 1}
                     \cup {Noise}
LockstepSenders == Sessions \cup {Stray}

ASSUME LockstepAssumption ==
  /\ {MaxFrames, MaxLosses, MaxReboots, MaxStrays, MaxSlow} \subseteq Nat
  /\ RxPrompt \in BOOLEAN
  /\ Content = LockstepContent /\ Senders = LockstepSenders

VARIABLES
  has_pending_input, pending,     \* VehicleSlot: the staged frame
  has_json,                       \* VehicleSlot: last_json_len > 0
  tick_pc,       \* "loop", "resend" (inside poll_endpoint), "reply", "mark"
  session, peer_n, peer_pc, have_line,   \* the peer (external)
  inbox,         \* replies on their way to the peer's current address
  faults,        \* what is left of the fault budgets
  last_stepped   \* history: identity of the newest frame stepped

slotVars == <<has_pending_input, pending, has_json, tick_pc, last_stepped>>
peerVars == <<session, peer_n, peer_pc, have_line>>
vars == <<endpointVars, slotVars, peerVars, inbox, faults>>

Init ==
  /\ EndpointInit
  /\ has_pending_input = FALSE /\ pending = NoDatagram
  /\ has_json = FALSE /\ tick_pc = "loop" /\ last_stepped = <<0, -1>>
  /\ session = 0 /\ peer_n = 0 /\ peer_pc = "send" /\ have_line = FALSE
  /\ inbox = <<>>
  /\ faults = [loss |-> MaxLosses, stray |-> MaxStrays, slow |-> MaxSlow]

Spend(fault) ==
  /\ faults[fault] > 0
  /\ faults' = [faults EXCEPT ![fault] = @ - 1]

-----------------------------------------------------------------------------
(* poll_endpoint.  It returns at once while a staged frame is unanswered,  *)
(* so a take only happens with has_pending_input = FALSE.                  *)

(* Slip: poll_endpoint without its early return. *)
MayPoll_Always == tick_pc = "loop"

MayPoll == tick_pc = "loop" /\ ~has_pending_input

PollFresh ==
  /\ MayPoll /\ TakeLatest
  /\ Parse(mail.content, last_frame_count) \in Steppable
  /\ pending' = mail
  /\ has_pending_input' = TRUE
  /\ UNCHANGED <<has_json, tick_pc, last_stepped, peerVars, inbox, faults>>

(* Slips: a duplicate is never, or always, answered again. *)
ReAnswer_Never == FALSE
ReAnswer_Always == has_json

ReAnswer == has_json /\ consumed_seq' > answered_up_to_seq

PollDuplicate ==
  /\ MayPoll /\ TakeLatest
  /\ Parse(mail.content, last_frame_count) = "Duplicate"
  /\ tick_pc' = IF ReAnswer THEN "resend" ELSE "loop"
  /\ UNCHANGED <<has_pending_input, pending, has_json, last_stepped,
                 peerVars, inbox, faults>>

PollBad ==
  /\ MayPoll /\ TakeLatest
  /\ Parse(mail.content, last_frame_count) \in {"BadMagic", "BadSize"}
  /\ UNCHANGED <<slotVars, peerVars, inbox, faults>>

(* step_world with this vehicle's staged frame. *)
Step ==
  /\ tick_pc = "loop" /\ life = "open" /\ has_pending_input
  /\ last_stepped' = <<pending.content.session, pending.content.n>>
  /\ tick_pc' = "reply"
  /\ UNCHANGED <<endpointVars, has_pending_input, pending, has_json,
                 peerVars, inbox, faults>>

(* sendto: the reply is lost, or reaches the peer if it still has the      *)
(* address.  It answers the datagram that was taken last.                  *)
Deliver ==
  LET reply == <<taken.content.session, taken.content.n>>
  IN \/ /\ inbox' = IF reply_addr = session THEN Append(inbox, reply) ELSE inbox
        /\ UNCHANGED faults
     \/ Spend("loss") /\ UNCHANGED inbox

(* Once the peer has lost patience, its re-send must not be under way in    *)
(* the rx thread while a reply is sent (only where RxPrompt assumes it).   *)
RxIsPrompt ==
  RxPrompt /\ faults.slow < MaxSlow => socket = <<>> /\ rx_pc # "store"

(* reply_one up to sendto, and the re-send of last_json in poll_endpoint.  *)
Reply ==
  /\ tick_pc \in {"reply", "resend"} /\ RxIsPrompt
  /\ SendReply /\ Deliver
  /\ has_json' = TRUE
  /\ UNCHANGED <<has_pending_input, pending, tick_pc, last_stepped, peerVars>>

(* Slip: the input stays pending after its reply. *)
EndReply_KeepsPending ==
  /\ MarkAnswered
  /\ tick_pc' = "loop"
  /\ UNCHANGED <<has_pending_input, pending, has_json, last_stepped, peerVars,
                 inbox, faults>>

(* The end of send_reply, and of reply_one when that was the caller. *)
EndReply ==
  /\ MarkAnswered
  /\ has_pending_input' = IF tick_pc = "reply" THEN FALSE ELSE has_pending_input
  /\ tick_pc' = "loop"
  /\ UNCHANGED <<pending, has_json, last_stepped, peerVars, inbox, faults>>

(* The slot is erased from the fleet: its endpoint's destructor runs on    *)
(* the tick thread, and whatever was staged goes unanswered.               *)
Despawn ==
  /\ tick_pc = "loop" /\ Destroy
  /\ UNCHANGED <<slotVars, peerVars, inbox, faults>>

Despawned == Close /\ UNCHANGED <<slotVars, peerVars, inbox, faults>>

RxStep == RxThread /\ UNCHANGED <<slotVars, peerVars, inbox, faults>>

TickStep ==
  \/ PollFresh \/ PollDuplicate \/ PollBad
  \/ Step \/ Reply \/ EndReply \/ Despawned

-----------------------------------------------------------------------------
(* The peer: send the frame, wait for a reply, parse it.  The first reply  *)
(* only completes a line; frame_counter advances from the second one on.   *)
ToSimulator ==
  \/ Arrive(Frame(session, peer_n), session) /\ UNCHANGED faults
  \/ Spend("loss") /\ UNCHANGED endpointVars
  \/ /\ Len(socket) = SocketCap \/ life = "closed"
     /\ UNCHANGED <<endpointVars, faults>>

PeerSend ==
  /\ peer_pc = "send" /\ peer_n < MaxFrames
  /\ ToSimulator
  /\ peer_pc' = "wait"
  /\ UNCHANGED <<slotVars, session, peer_n, have_line, inbox>>

PeerReceive ==
  /\ peer_pc = "wait" /\ inbox # <<>>
  /\ inbox' = Tail(inbox)
  /\ peer_n' = IF have_line THEN peer_n + 1 ELSE peer_n
  /\ have_line' = TRUE
  /\ peer_pc' = "send"
  /\ UNCHANGED <<endpointVars, slotVars, session, faults>>

(* Nothing is under way any more: the frame or its reply was lost, or the  *)
(* vehicle is gone.                                                        *)
Quiet ==
  /\ inbox = <<>>
  /\ \/ life # "open"
     \/ /\ socket = <<>> /\ rx_pc # "store" /\ ~HasNew
        /\ ~has_pending_input /\ tick_pc = "loop"

(* The re-send after 1 s without a reply, because something was lost ... *)
PeerTimeout ==
  /\ peer_pc = "wait" /\ Quiet
  /\ ToSimulator
  /\ UNCHANGED <<slotVars, peerVars, inbox>>

(* ... or because the simulator has not answered yet. *)
PeerImpatient ==
  /\ peer_pc = "wait" /\ ~Quiet /\ inbox = <<>> /\ ~sending
  /\ Spend("slow")
  /\ Arrive(Frame(session, peer_n), session)
  /\ UNCHANGED <<slotVars, peerVars, inbox>>

PeerReboot ==
  /\ session < MaxReboots
  /\ session' = session + 1
  /\ peer_n' = 0 /\ peer_pc' = "send" /\ have_line' = FALSE
  /\ inbox' = <<>>
  /\ UNCHANGED <<endpointVars, slotVars, faults>>

(* Somebody else's datagram reaches the vehicle's port. *)
StrayArrives ==
  /\ Spend("stray")
  /\ Arrive(Noise, Stray)
  /\ UNCHANGED <<slotVars, peerVars, inbox>>

PeerStep == PeerSend \/ PeerReceive \/ PeerTimeout

Next ==
  \/ RxStep \/ TickStep \/ PeerStep
  \/ PeerImpatient \/ PeerReboot \/ StrayArrives \/ Despawn

Spec ==
  /\ Init /\ [][Next]_vars
  /\ WF_vars(RxStep) /\ WF_vars(TickStep) /\ WF_vars(PeerStep)

-----------------------------------------------------------------------------
Later(f, g) == f[1] > g[1] \/ (f[1] = g[1] /\ f[2] > g[2])

(* No frame drives the physics twice, nor after a newer one, whatever is   *)
(* lost, repeated or answered late (PROTOCOL.md:55, "don't re-step").      *)
FramesStepInOrder ==
  [][Step => Later(last_stepped', last_stepped)]_vars

(* The reply to a staged frame goes to the address the frame came from,    *)
(* whoever else has sent to the port while it was being stepped.           *)
ReplyToFrameSender == has_pending_input => reply_addr = pending.from

(* What the classification says of a frame is what happened to the peer:   *)
(* Ok is the frame after the one stepped last, Reboot a restart or the     *)
(* counter's wrap, Duplicate a re-send of the frame stepped last (or the   *)
(* first frame of a peer that restarted at the same count): no new frame   *)
(* of a session is swallowed, and Gap never happens while nothing desyncs. *)
ClassificationTruthful ==
  [][LET c == mail.content
         st == Parse(c, last_frame_count)
     IN /\ PollFresh /\ last_frame_count # NoFrameCount =>
             /\ st # "Gap"
             /\ st = "Ok" => \/ c.session = last_stepped[1] /\ c.n = last_stepped[2] + 1
                             \/ c.session > last_stepped[1]
             /\ st = "Reboot" => \/ c.session > last_stepped[1]
                                 \/ c.frame_count = 0 /\ c.n = last_stepped[2] + 1
        /\ PollDuplicate => \/ <<c.session, c.n>> = last_stepped
                            \/ c.session > last_stepped[1] /\ c.n = 0]_vars

(* The frame counter moves on, through losses, restarts and the two-reply  *)
(* handshake: nobody waits for ever, as long as the vehicle exists.        *)
Progress ==
  \A n \in 0 .. MaxFrames - 1 : peer_n = n ~> peer_n # n \/ life # "open"

(* Every re-send that overtakes its answer puts the peer at most one frame *)
(* ahead of the physics.                                                   *)
DesyncBounded ==
  last_stepped[1] = session =>
    peer_n <= last_stepped[2] + 1 + (MaxSlow - faults.slow)

Promise == INSTANCE Exchange WITH
  NoReply <- <<>>, MaxSessions <- MaxReboots,
  frame <- peer_n, asked <- peer_pc = "wait", serving <- life = "open",
  reply <- IF inbox = <<>> THEN <<>> ELSE Head(inbox)

(* With the re-send timeout longer than a round trip the simulator and the *)
(* peer exchange exactly one reply per request.                            *)
ImplementsExchange == Promise!Spec

(* The kind of a datagram, as a take would classify it. *)
Kind(d, last) ==
  CASE Parse(d, last) \in Steppable               -> "fresh"
    [] Parse(d, last) = "Duplicate"              -> "duplicate"
    [] Parse(d, last) \in {"BadMagic", "BadSize"} -> "bad"

MailKind == IF HasNew THEN Kind(mail.content, last_frame_count) ELSE "none"

AsSlot == INSTANCE Slot WITH
  mail <- IF life = "open" THEN MailKind ELSE "none",
  connected <- life = "open" /\ last_frame_count # NoFrameCount,
  has_pending_input <- life = "open" /\ has_pending_input

(* Towards the tick loops the endpoint behaves as the mailbox and the slot *)
(* they are built on: no frame is staged that was not fresh when it was    *)
(* read, none is dropped between staging and reply, and a vehicle that has *)
(* sent nothing steppable is never taken to repeat itself.                 *)
ImplementsSlot == AsSlot!Spec
==============================================================================
