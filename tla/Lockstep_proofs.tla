--------------------------- MODULE Lockstep_proofs ---------------------------
(***************************************************************************)
(* Theorems of UdpEndpoint, for any contents, senders and buffer size, and *)
(* of Lockstep, for any fault budgets and any number of frames.            *)
(*                                                                         *)
(* The endpoint's argument is a count.  Datagrams are stored one by one in *)
(* the order they arrived, so the code's seq is the arrival number of what *)
(* is in the mailbox and consumed_seq that of what was taken last; what is *)
(* still in the socket or in the rx thread's hands makes up the            *)
(* difference.                                                             *)
(*                                                                         *)
(* Every step of the conversation is a step of the endpoint or leaves it   *)
(* alone, so what holds of the endpoint holds there; to it come what ties  *)
(* the staged frame to the sequence state, the order of the frames, what a *)
(* prompt rx thread adds, and a ledger of the answers the peer can still   *)
(* get, which bounds how far it runs ahead of the physics.                 *)
(***************************************************************************)
EXTENDS Lockstep, FiniteSetTheorems, TLAPS

USE FrameCountAssumption, EndpointAssumption

-----------------------------------------------------------------------------
(* The endpoint. *)
Chain ==
  /\ seq = mail.arrival
  /\ consumed_seq = taken.arrival
  /\ \A i \in 1 .. Len(socket) : socket[i].arrival = arrived - Len(socket) + i
  /\ rx_pc = "store" => /\ rx_local.arrival = arrived - Len(socket)
                        /\ mail.arrival = rx_local.arrival - 1
  /\ rx_pc # "store" => mail.arrival = arrived - Len(socket)

IInv == TypeOK /\ Chain

LEMMA NoDatagramArrival == NoDatagram.arrival = 0
  BY DEF NoDatagram

LEMMA ZeroRange == 0 \in Nat /\ 0 \in 0 .. 0
  OBVIOUS

LEMMA EmptySeq == \A S : <<>> \in Seq(S)
  OBVIOUS

LEMMA InitIInv == EndpointInit => IInv
<1> SUFFICES ASSUME EndpointInit PROVE IInv
  OBVIOUS
<1>1. TypeOK
  <2>1. socket \in Seq(Datagrams) /\ sending \in BOOLEAN
    <3>1. socket = <<>> /\ sending = FALSE
      BY DEF EndpointInit
    <3>2. QED
      BY <3>1, Zenon, EmptySeq
  <2>2. QED
    BY <2>1, Zenon, ZeroRange DEF EndpointInit, TypeOK
<1>2. Chain
  <2>1. Len(socket) = 0
    BY DEF EndpointInit
  <2>2. /\ seq = 0 /\ mail = NoDatagram /\ consumed_seq = 0
        /\ taken = NoDatagram /\ arrived = 0 /\ rx_pc = "check"
    BY Zenon DEF EndpointInit
  <2>3. QED
    BY ONLY NoDatagramArrival, <2>1, <2>2 DEF Chain
<1>3. QED
  BY <1>1, <1>2 DEF IInv

(* What the mailbox holds once something is unread is a datagram. *)
LEMMA UnreadIsDatagram == IInv /\ HasNew => mail \in Datagrams /\ consumed_seq < seq
  BY NoDatagramArrival DEF IInv, TypeOK, Chain, HasNew

(* The sequence state only ever holds frame counts. *)
LEMMA NextLastType ==
  ASSUME NEW d \in Content, NEW last \in FrameCounts \cup {NoFrameCount}
  PROVE  NextLast(d, last) \in FrameCounts \cup {NoFrameCount}
  BY DEF NextLast

LEMMA NextIInv == IInv /\ [EndpointNext]_endpointVars => IInv'
<1> SUFFICES ASSUME IInv, [EndpointNext]_endpointVars PROVE IInv'
  OBVIOUS
<1> USE DEF IInv, kernelVars, rxVars, boxVars, seqVars, replyVars
<1>1. ASSUME NEW c \in Content, NEW s \in Senders, Arrive(c, s) PROVE IInv'
  <2> DEFINE d == [content |-> c, from |-> s, arrival |-> arrived + 1]
  <2>1. d \in Datagrams /\ socket' = Append(socket, d) /\ arrived' = arrived + 1
    BY <1>1 DEF Arrive, TypeOK, Datagrams
  <2>2. TypeOK'
    BY <1>1, <2>1 DEF Arrive, TypeOK
  <2>3. Chain'
    <3>1. /\ Len(socket') = Len(socket) + 1
          /\ \A i \in 1 .. Len(socket) : socket'[i] = socket[i]
          /\ socket'[Len(socket) + 1] = d
      BY <2>1 DEF TypeOK
    <3>2. arrived' - Len(socket') = arrived - Len(socket)
      BY <2>1, <3>1 DEF TypeOK
    <3>3. ASSUME NEW i \in 1 .. Len(socket')
          PROVE  socket'[i].arrival = arrived' - Len(socket') + i
      <4>1. CASE i \in 1 .. Len(socket)
        BY <3>1, <3>2, <4>1 DEF Chain
      <4>2. CASE i = Len(socket) + 1
        BY <2>1, <3>1, <3>2, <4>2 DEF TypeOK
      <4>3. QED
        BY <2>1, <3>1, <4>1, <4>2 DEF TypeOK
    <3>4. QED
      BY <1>1, <3>2, <3>3 DEF Arrive, Chain
  <2>4. QED
    BY <2>2, <2>3
<1>2. CASE RxCheckStop
  BY <1>2 DEF RxCheckStop, TypeOK, Chain
<1>3. CASE RxReceive
  <2>1. /\ Len(socket) > 0 /\ Len(socket') = Len(socket) - 1
        /\ socket' \in Seq(Datagrams)
        /\ \A i \in 1 .. Len(socket') : socket'[i] = socket[i + 1]
        /\ rx_local' = socket[1] /\ socket[1] \in Datagrams
    BY <1>3 DEF RxReceive, TypeOK
  <2>2. TypeOK'
    BY <1>3, <2>1 DEF RxReceive, TypeOK
  <2>3. Chain'
    <3>1. /\ rx_pc = "recv" /\ rx_pc' = "store"
          /\ UNCHANGED <<arrived, mail, seq, consumed_seq, taken>>
      BY <1>3, Zenon DEF RxReceive, boxVars, seqVars
    <3>2. mail.arrival = arrived - Len(socket)
      BY <3>1 DEF Chain
    <3>3. Len(socket) \in Nat /\ arrived \in Nat
      BY DEF TypeOK
    <3>4. rx_local'.arrival = arrived - Len(socket) + 1
      BY <2>1, <3>3 DEF Chain
    <3>5. ASSUME NEW i \in 1 .. Len(socket')
          PROVE  socket'[i].arrival = arrived - Len(socket') + i
      <4>1. i + 1 \in 1 .. Len(socket) /\ socket'[i] = socket[i + 1]
        BY <2>1, <3>3
      <4>2. QED
        BY <2>1, <3>3, <4>1 DEF Chain
    <3>6. /\ rx_local'.arrival = arrived - Len(socket')
          /\ mail.arrival = rx_local'.arrival - 1
      BY ONLY <2>1, <3>2, <3>3, <3>4
    <3>7. QED
      BY <3>1, <3>5, <3>6 DEF Chain
  <2>4. QED
    BY <2>2, <2>3
<1>4. CASE RxTimeout
  BY <1>4 DEF RxTimeout, TypeOK, Chain
<1>5. CASE RxStore
  BY <1>5 DEF RxStore, TypeOK, Chain
<1>6. CASE TakeLatest
  <2>1. mail \in Datagrams
    BY <1>6, UnreadIsDatagram DEF TakeLatest
  <2>2. /\ last_frame_count' \in FrameCounts \cup {NoFrameCount}
        /\ reply_addr' \in Senders
    BY <1>6, <2>1, NextLastType DEF TakeLatest, TypeOK, Datagrams
  <2>3. /\ consumed_seq' = seq /\ taken' = mail
        /\ UNCHANGED <<kernelVars, rxVars, boxVars, replyVars, life>>
    BY <1>6, Zenon DEF TakeLatest
  <2>4. TypeOK'
    BY <2>1, <2>2, <2>3 DEF TypeOK
  <2>5. Chain'
    BY <2>3 DEF Chain
  <2>6. QED
    BY <2>4, <2>5
<1>7. CASE SendReply
  BY <1>7 DEF SendReply, TypeOK, Chain
<1>8. CASE MarkAnswered
  <2>1. sending' \in BOOLEAN
    BY <1>8, Zenon DEF MarkAnswered
  <2>2. /\ answered_up_to_seq' = seq
        /\ UNCHANGED <<kernelVars, rxVars, boxVars, seqVars, life>>
    BY <1>8, Zenon DEF MarkAnswered
  <2>3. QED
    BY <2>1, <2>2 DEF TypeOK, Chain
<1>9. CASE Destroy
  BY <1>9 DEF Destroy, TypeOK, Chain
<1>10. CASE Close
  BY <1>10 DEF Close, TypeOK, Chain
<1>11. CASE UNCHANGED endpointVars
  BY <1>11 DEF endpointVars, TypeOK, Chain
<1>12. QED
  BY <1>1, <1>2, <1>3, <1>4, <1>5, <1>6, <1>7, <1>8, <1>9, <1>10, <1>11
     DEF EndpointNext, RxThread, TickThread

LEMMA IInvHolds == EndpointSpec => []IInv
  BY InitIInv, NextIInv, PTL DEF EndpointSpec

(* Type correctness: both marks stay within what has been stored. *)
THEOREM EndpointTypes == EndpointSpec => []TypeOK
  BY IInvHolds, PTL DEF IInv

(* The newest datagram is never lost between the three actors.            *)
THEOREM NewestNeverLost == EndpointSpec => []NewestIsTaken
<1>1. IInv => NewestIsTaken
  BY DEF IInv, TypeOK, Chain, NewestIsTaken, HasNew
<1>2. QED
  BY <1>1, IInvHolds, PTL

(* A step that moves the mark is a take, and what it takes came later. *)
LEMMA TakeIsForward ==
  ASSUME IInv, [EndpointNext]_endpointVars
  PROVE  [consumed_seq' # consumed_seq
            => taken'.arrival > taken.arrival]_endpointVars
<1> SUFFICES ASSUME consumed_seq' # consumed_seq
             PROVE  taken'.arrival > taken.arrival
  OBVIOUS
<1>1. TakeLatest
  BY DEF EndpointNext, RxThread, TickThread, Arrive, RxCheckStop, RxReceive,
         RxTimeout, RxStore, SendReply, MarkAnswered, Destroy, Close,
         endpointVars, seqVars
<1>2. taken' = mail /\ consumed_seq < seq
  BY <1>1, UnreadIsDatagram DEF TakeLatest
<1>3. QED
  BY <1>2 DEF IInv, Chain, TypeOK

(* take_latest only ever moves forward. *)
THEOREM TakesMoveForward == EndpointSpec => TakenInOrder
  BY TakeIsForward, IInvHolds, PTL DEF EndpointSpec, TakenInOrder

-----------------------------------------------------------------------------
(* The conversation. *)
USE LockstepAssumption

PeerInv ==
  /\ session \in Sessions /\ peer_n \in 0 .. MaxFrames
  /\ peer_pc = "wait" => peer_n \in 0 .. MaxFrames - 1

StagedInv ==
  /\ has_pending_input \in BOOLEAN
  /\ ReplyToFrameSender
  /\ tick_pc = "reply" => has_pending_input
  /\ has_pending_input => last_frame_count # NoFrameCount

LInv == IInv /\ PeerInv /\ StagedInv

(* What the classification can say, and when it says Duplicate. *)
LEMMA ParseResults ==
  ASSUME NEW d \in Content, NEW last \in FrameCounts \cup {NoFrameCount}
  PROVE  /\ Parse(d, last) \in FrameStatus
         /\ Parse(d, last) = "Duplicate" => last # NoFrameCount
         /\ Parse(d, last) \in Steppable => NextLast(d, last) # NoFrameCount
         /\ Parse(d, last) \notin Steppable => NextLast(d, last) = last
<1>1. d.frame_count \in FrameCounts
  OBVIOUS
<1>2. /\ Sequence(d.frame_count, last) \in {"Ok", "Duplicate", "Reboot", "Gap"}
      /\ Sequence(d.frame_count, last) = "Duplicate" => last # NoFrameCount
  BY <1>1 DEF Sequence, FrameCounts, NoFrameCount
<1>3. QED
  BY <1>1, <1>2 DEF Parse, NextLast, FrameStatus, Steppable, FrameCounts,
                    NoFrameCount

LEMMA FramesAreContent ==
  ASSUME PeerInv, peer_n < MaxFrames
  PROVE  Frame(session, peer_n) \in Content /\ session \in Senders
<1>1. peer_n \in 0 .. MaxFrames - 1
  BY DEF PeerInv
<1>2. Frame(session, peer_n) \in LockstepContent
  BY <1>1 DEF PeerInv, LockstepContent
<1>3. QED
  BY <1>2 DEF PeerInv, LockstepSenders

LEMMA NoiseIsContent == Noise \in Content /\ Stray \in Senders
  BY DEF LockstepContent, LockstepSenders

(* Every step is one of the endpoint's, or not the endpoint's at all. *)
LEMMA EndpointSteps ==
  ASSUME PeerInv, [Next]_vars PROVE [EndpointNext]_endpointVars
<1>1. ASSUME ToSimulator, peer_n < MaxFrames
      PROVE  [EndpointNext]_endpointVars
  BY <1>1, FramesAreContent, Zenon DEF ToSimulator, EndpointNext
<1>2. CASE PeerStep
  <2>1. CASE PeerSend
    BY <2>1, <1>1, Zenon DEF PeerSend
  <2>2. CASE PeerTimeout
    <3>1. peer_n < MaxFrames /\ ToSimulator
      BY <2>2 DEF PeerTimeout, PeerInv
    <3>2. QED
      BY <3>1, <1>1
  <2>3. CASE PeerReceive
    BY <2>3, Zenon DEF PeerReceive
  <2>4. QED
    BY <1>2, <2>1, <2>2, <2>3 DEF PeerStep
<1>3. CASE PeerImpatient
  <2>1. peer_n < MaxFrames /\ Arrive(Frame(session, peer_n), session)
    BY <1>3 DEF PeerImpatient, PeerInv
  <2>2. QED
    BY <2>1, FramesAreContent, Zenon DEF EndpointNext
<1>4. CASE StrayArrives
  BY <1>4, NoiseIsContent, Zenon DEF StrayArrives, EndpointNext
<1>5. CASE TickStep \/ RxStep \/ Despawn
  BY <1>5, Zenon DEF TickStep, RxStep, Despawn, PollFresh, PollDuplicate, PollBad,
       Step, Reply, EndReply, Despawned, EndpointNext, TickThread
<1>6. CASE PeerReboot \/ UNCHANGED vars
  BY <1>6, Zenon DEF PeerReboot, vars
<1>7. QED
  BY <1>2, <1>3, <1>4, <1>5, <1>6 DEF Next

-----------------------------------------------------------------------------
LEMMA InitLInv == Init => LInv
<1>1. Init => IInv
  BY InitIInv DEF Init
<1>2. Init => PeerInv /\ StagedInv
  <2> SUFFICES ASSUME Init PROVE PeerInv /\ StagedInv
    OBVIOUS
  <2>1. /\ session = 0 /\ peer_n = 0 /\ peer_pc = "send"
        /\ has_pending_input = FALSE /\ tick_pc = "loop"
    BY Zenon DEF Init
  <2>2. QED
    <3>1. PeerInv
      BY <2>1 DEF PeerInv, Sessions
    <3>2. StagedInv
      BY <2>1, Zenon DEF StagedInv, ReplyToFrameSender
    <3>3. QED
      BY <3>1, <3>2
<1>3. QED
  BY <1>1, <1>2 DEF LInv

LEMMA PeerPreserved == ASSUME PeerInv, [Next]_vars PROVE PeerInv'
<1> USE DEF PeerInv
<1>1. CASE PeerStep
  BY <1>1 DEF PeerStep, PeerSend, PeerReceive, PeerTimeout, peerVars
<1>2. CASE PeerReboot
  BY <1>2 DEF PeerReboot, Sessions
<1>3. CASE \/ RxStep \/ TickStep \/ PeerImpatient \/ StrayArrives \/ Despawn
           \/ UNCHANGED vars
  BY <1>3 DEF RxStep, TickStep, PeerImpatient, StrayArrives, Despawn, PollFresh,
       PollDuplicate, PollBad, Step, Reply, EndReply, Despawned, peerVars, vars
<1>4. QED
  BY <1>1, <1>2, <1>3 DEF Next

(* A take is a read of a datagram that was not read before. *)
LEMMA TakeFacts ==
  ASSUME IInv, TakeLatest
  PROVE  /\ mail \in Datagrams /\ mail.content \in Content
         /\ last_frame_count \in FrameCounts \cup {NoFrameCount}
         /\ consumed_seq' = seq /\ seq' = seq /\ mail' = mail
         /\ reply_addr' = mail.from /\ life = "open" /\ life' = life
         /\ last_frame_count' = NextLast(mail.content, last_frame_count)
<1>1. mail \in Datagrams
  BY UnreadIsDatagram DEF TakeLatest
<1>2. QED
  BY <1>1 DEF TakeLatest, TickIdle, IInv, TypeOK, Datagrams, boxVars

LEMMA StagedPreserved == ASSUME LInv, [Next]_vars PROVE StagedInv'
<1> USE DEF StagedInv, ReplyToFrameSender, LInv
<1>1. CASE PollFresh
  <2>1. /\ TakeLatest /\ has_pending_input' = TRUE /\ pending' = mail
        /\ Parse(mail.content, last_frame_count) \in Steppable
    BY <1>1 DEF PollFresh
  <2>2. QED
    BY <2>1, TakeFacts, ParseResults
<1>2. CASE PollDuplicate
  <2>1. /\ TakeLatest /\ ~has_pending_input /\ tick_pc = "loop"
        /\ tick_pc' \in {"resend", "loop"}
        /\ has_pending_input' = has_pending_input
    BY <1>2 DEF PollDuplicate, MayPoll
  <2>2. QED
    BY <2>1
<1>3. CASE PollBad
  <2>1. /\ ~has_pending_input /\ tick_pc = "loop"
        /\ tick_pc' = tick_pc /\ has_pending_input' = has_pending_input
    BY <1>3 DEF PollBad, MayPoll, slotVars
  <2>2. QED
    BY <2>1
<1>4. CASE Step \/ Reply \/ Despawned \/ Despawn
  <2>1. /\ has_pending_input' = has_pending_input /\ pending' = pending
        /\ reply_addr' = reply_addr /\ last_frame_count' = last_frame_count
        /\ tick_pc' = tick_pc \/ has_pending_input
    BY <1>4, Zenon DEF Step, Reply, Despawned, Despawn, SendReply, Close,
         Destroy, seqVars, endpointVars, slotVars
  <2>2. QED
    BY <2>1
<1>8. CASE EndReply
  <2>1. /\ pending' = pending /\ tick_pc' = "loop" /\ reply_addr' = reply_addr
        /\ last_frame_count' = last_frame_count
    BY <1>8, Zenon DEF EndReply, MarkAnswered, seqVars
  <2>2. CASE has_pending_input' = FALSE
    BY <2>1, <2>2
  <2>3. CASE has_pending_input' = has_pending_input
    BY <2>1, <2>3
  <2>4. QED
    BY <1>8, <2>2, <2>3, Zenon DEF EndReply
<1>5. CASE RxStep
  BY <1>5 DEF RxStep, RxThread, RxCheckStop, RxReceive, RxTimeout, RxStore,
              seqVars, slotVars
<1>6. CASE \/ PeerStep \/ PeerImpatient \/ PeerReboot \/ StrayArrives
           \/ UNCHANGED vars
  BY <1>6 DEF PeerStep, PeerSend, PeerReceive, PeerTimeout, PeerImpatient,
              PeerReboot, StrayArrives, ToSimulator, Arrive, endpointVars,
              seqVars, slotVars, vars
<1>7. QED
  BY <1>1, <1>2, <1>3, <1>4, <1>5, <1>6, <1>8 DEF Next, TickStep

LEMMA NextLInv == LInv /\ [Next]_vars => LInv'
  BY EndpointSteps, NextIInv, PeerPreserved, StagedPreserved DEF LInv

LEMMA LInvHolds == Spec => []LInv
  BY InitLInv, NextLInv, PTL DEF Spec

-----------------------------------------------------------------------------
(* The newest datagram survives the whole conversation: losses, restarts,  *)
(* strays, and the vehicle's removal.                                      *)
THEOREM NewestSurvives == Spec => []NewestIsTaken
<1>1. LInv => NewestIsTaken
  BY DEF LInv, IInv, TypeOK, Chain, NewestIsTaken, HasNew
<1>2. QED
  BY <1>1, LInvHolds, PTL

(* The reply to a staged frame goes to its sender, whoever else sends.     *)
THEOREM RepliesGoToSender == Spec => []ReplyToFrameSender
  BY LInvHolds, PTL DEF LInv, StagedInv

(* What a slot's mailbox is said to hold. *)
LEMMA KindFacts ==
  ASSUME NEW d \in Content, NEW last \in FrameCounts \cup {NoFrameCount}
  PROVE  /\ Kind(d, last) \in AsSlot!Kinds
         /\ Kind(d, last) = "fresh" <=> Parse(d, last) \in Steppable
         /\ Kind(d, last) = "duplicate" => last # NoFrameCount
  BY ParseResults DEF Kind, AsSlot!Kinds, FrameStatus, Steppable

(* The endpoint and the slot behave as the mailbox the tick loops build on *)
(* (StrictKeepsSlots and InteractiveKeepsSlots show they do build on it).  *)
THEOREM LockstepImplementsSlot == Spec => ImplementsSlot
<1>1. Init => AsSlot!Empty
  BY Zenon DEF Init, EndpointInit, HasNew, MailKind, AsSlot!Empty
<1>2. LInv /\ [Next]_vars => [AsSlot!Next]_(AsSlot!slot)
  <2> SUFFICES ASSUME LInv, [Next]_vars
               PROVE  AsSlot!Next \/ UNCHANGED AsSlot!slot
    BY DEF AsSlot!slot
  <2> USE DEF AsSlot!Next, AsSlot!slot
  <2>1. IInv /\ IInv'
    BY EndpointSteps, NextIInv DEF LInv
  <2>2. CASE RxStep /\ life = "open"
    <3>1. CASE RxStore
      <4>1. /\ seq' = seq + 1 /\ UNCHANGED <<consumed_seq, last_frame_count, life>>
            /\ has_pending_input' = has_pending_input
        BY <2>2, <3>1 DEF RxStep, RxStore, seqVars, slotVars
      <4>2. HasNew'
        BY <2>1, <4>1 DEF IInv, TypeOK, HasNew
      <4>3. /\ mail'.content \in Content
            /\ last_frame_count' \in FrameCounts \cup {NoFrameCount}
        <5>1. /\ mail' \in Datagrams \cup {NoDatagram} /\ mail'.arrival = seq'
              /\ consumed_seq' \in 0 .. seq' /\ seq' \in Nat
              /\ last_frame_count' \in FrameCounts \cup {NoFrameCount}
          BY <2>1, Zenon DEF IInv, TypeOK, Chain
        <5>2. mail' \in Datagrams
          BY <4>2, <5>1, NoDatagramArrival DEF HasNew
        <5>3. QED
          BY <5>1, <5>2 DEF Datagrams
      <4>4. /\ MailKind' \in AsSlot!Kinds
            /\ MailKind' = "duplicate" => last_frame_count' # NoFrameCount
        BY <4>2, <4>3, KindFacts DEF MailKind
      <4>5. QED
        BY <2>2, <4>1, <4>4 DEF AsSlot!Land
    <3>2. CASE ~RxStore
      BY <2>2, <3>2 DEF RxStep, RxThread, RxCheckStop, RxReceive, RxTimeout,
         MailKind, HasNew, boxVars, seqVars, slotVars
    <3>3. QED
      BY <3>1, <3>2
  <2>3. CASE PollFresh
    <3>1. /\ TakeLatest /\ ~has_pending_input /\ has_pending_input' = TRUE
          /\ Parse(mail.content, last_frame_count) \in Steppable
      BY <2>3 DEF PollFresh, MayPoll
    <3>2. HasNew /\ ~HasNew' /\ life = "open" /\ life' = "open"
      BY <2>1, <3>1, TakeFacts DEF HasNew, TakeLatest
    <3>3. MailKind = "fresh" /\ last_frame_count' # NoFrameCount
      BY <2>1, <3>1, <3>2, TakeFacts, KindFacts, ParseResults DEF MailKind
    <3>4. MailKind' = "none"
      BY <3>2 DEF MailKind
    <3>5. QED
      BY <3>1, <3>2, <3>3, <3>4 DEF AsSlot!Poll
  <2>4. CASE PollDuplicate \/ PollBad
    <3>1. /\ TakeLatest /\ ~has_pending_input
          /\ has_pending_input' = has_pending_input
          /\ Parse(mail.content, last_frame_count) \notin Steppable
      BY <2>4 DEF PollDuplicate, PollBad, MayPoll, slotVars, Steppable
    <3>2. HasNew /\ ~HasNew' /\ life = "open" /\ life' = "open"
      BY <2>1, <3>1, TakeFacts DEF HasNew, TakeLatest
    <3>3. /\ MailKind \in AsSlot!Kinds /\ MailKind # "fresh"
          /\ last_frame_count' = last_frame_count
      BY <2>1, <3>1, <3>2, TakeFacts, KindFacts, ParseResults DEF MailKind
    <3>4. MailKind' = "none" /\ MailKind # "none"
      BY <3>2, <3>3 DEF MailKind, AsSlot!Kinds
    <3>5. QED
      BY <3>1, <3>2, <3>3, <3>4 DEF AsSlot!Poll
  <2>5. CASE EndReply
    <3>1. /\ MailKind' = MailKind /\ UNCHANGED <<life, last_frame_count>>
      BY <2>5, Zenon DEF EndReply, MarkAnswered, MailKind, HasNew, boxVars, seqVars
    <3>2. CASE tick_pc = "reply"
      <4>1. has_pending_input /\ has_pending_input' = FALSE
        BY <2>5, <3>2 DEF LInv, StagedInv, EndReply
      <4>2. QED
        BY <3>1, <4>1 DEF AsSlot!Reply
    <3>3. CASE tick_pc # "reply"
      <4>1. has_pending_input' = has_pending_input
        BY <2>5, <3>3 DEF EndReply
      <4>2. QED
        BY <3>1, <4>1
    <3>4. QED
      BY <3>2, <3>3
  <2>6. CASE Despawn
    <3>1. life' # "open"
      BY <2>6 DEF Despawn, Destroy
    <3>2. AsSlot!Leave
      <4>1. (life' = "open") = FALSE
        BY <3>1
      <4>2. QED
        BY <3>1, <4>1 DEF AsSlot!Leave
    <3>3. QED
      BY <3>2
  <2>7. CASE \/ Step \/ Reply \/ PeerStep \/ PeerImpatient \/ PeerReboot \/ StrayArrives
             \/ UNCHANGED vars
    <3>1. UNCHANGED <<mail, seq, consumed_seq, last_frame_count, life,
                      has_pending_input>>
      BY <2>7, Zenon DEF Step, Reply, SendReply, PeerStep, PeerSend, PeerReceive, PeerTimeout,
         PeerImpatient, PeerReboot, StrayArrives, ToSimulator, Arrive,
         endpointVars, boxVars, seqVars, slotVars, vars
    <3>2. QED
      BY <3>1, Zenon DEF MailKind, HasNew
  <2>8. CASE Despawned \/ (RxStep /\ life # "open")
    <3>1. /\ life # "open" /\ life' # "open"
      BY <2>8, Zenon DEF Despawned, Close, RxStep, RxThread, RxCheckStop,
         RxReceive, RxTimeout, RxStore
    <3>2. QED
      BY <3>1, Zenon
  <2>9. QED
    BY <2>2, <2>3, <2>4, <2>5, <2>6, <2>7, <2>8 DEF Next, TickStep
<1>3. QED
  BY <1>1, <1>2, LInvHolds, PTL DEF Spec, ImplementsSlot, AsSlot!Spec

-----------------------------------------------------------------------------
(* Order.  Frames have an identity, <<session, n>>, which only grows at    *)
(* the peer; the datagrams between the kernel and the tick thread are in   *)
(* the order they were sent, so what is taken never goes back.             *)
Underway ==
  {socket[i] : i \in 1 .. Len(socket)} \cup (IF rx_pc = "store" THEN {rx_local} ELSE {})

InFlight == Underway \cup (IF HasNew THEN {mail} ELSE {})

Idents == Int \X Int

IsFrame(d) == d.content.session # Stray
Id(d) == <<d.content.session, d.content.n>>
Now == <<session, peer_n>>
Staged == IF has_pending_input THEN Id(pending) ELSE last_stepped

NotAfter(f, g) == f[1] < g[1] \/ (f[1] = g[1] /\ f[2] <= g[2])

LEMMA IdentOrder ==
  ASSUME NEW f \in Idents, NEW g \in Idents
  PROVE  /\ NotAfter(f, f)
         /\ NotAfter(f, g) /\ f # g => Later(g, f)
         /\ Later(g, f) => NotAfter(f, g)
         /\ NotAfter(f, g) /\ NotAfter(g, f) => f = g
         /\ \A h \in Idents : NotAfter(f, g) /\ NotAfter(g, h) => NotAfter(f, h)
  BY DEF Idents, NotAfter, Later

(* What datagrams hold: a frame of some session, or noise no parse accepts. *)
LEMMA ContentFacts ==
  ASSUME NEW c \in Content
  PROVE  \/ /\ c.session \in Sessions /\ c.session # Stray /\ c.n \in 0 .. MaxFrames - 1
            /\ c.frame_count = c.n % FrameCountMod
            /\ \A last : Parse(c, last) = Sequence(c.frame_count, last)
         \/ /\ c.session = Stray /\ c.n = 0
            /\ \A last : Parse(c, last) = "BadSize"
<1>1. CASE c = Noise
  BY <1>1 DEF Noise, Parse, Size16, Size32
<1>2. CASE \E s \in Sessions, n \in 0 .. MaxFrames - 1 : c = Frame(s, n)
  <2>1. PICK s \in Sessions, n \in 0 .. MaxFrames - 1 : c = Frame(s, n)
    BY <1>2
  <2>2. /\ c.session = s /\ c.n = n /\ c.frame_count = n % FrameCountMod
        /\ c.size = Size16 /\ c.magic = Magic16
    BY <2>1 DEF Frame
  <2>3. s # Stray
    BY DEF Sessions, Stray
  <2>4. \A last : Parse(c, last) = Sequence(c.frame_count, last)
    BY <2>2, Zenon DEF Parse, ExpectedMagic
  <2> QED
    BY <2>2, <2>3, <2>4
<1> QED
  BY <1>1, <1>2 DEF LockstepContent

LEMMA IdType ==
  ASSUME NEW d \in Datagrams
  PROVE  /\ Id(d) \in Idents /\ d.content \in Content
         /\ IsFrame(d) => d.content.session \in Sessions /\ d.content.n \in Nat
<1>1. d.content \in Content
  BY DEF Datagrams
<1> QED
  BY <1>1, ContentFacts DEF Id, IsFrame, Idents, Sessions, Stray

(* What each step does to the datagrams in flight. *)
LEMMA FlightTypes ==
  ASSUME IInv
  PROVE  /\ InFlight \subseteq Datagrams
         /\ \A d \in InFlight : d.arrival \in Nat /\ d.arrival <= arrived
         /\ \A d \in Underway : mail.arrival < d.arrival
         /\ HasNew => mail \in InFlight
         /\ arrived \in Nat
<1>1. /\ socket \in Seq(Datagrams) /\ arrived \in Nat /\ Len(socket) \in Nat
      /\ rx_local \in Datagrams \cup {NoDatagram} /\ mail \in Datagrams \cup {NoDatagram}
      /\ seq \in Nat /\ consumed_seq \in 0 .. seq /\ seq = mail.arrival
      /\ mail.arrival >= 0
  BY DEF IInv, TypeOK, Chain
<1>2. ASSUME NEW i \in 1 .. Len(socket)
      PROVE  /\ socket[i] \in Datagrams
             /\ socket[i].arrival <= arrived /\ mail.arrival < socket[i].arrival
  <2>1. socket[i] \in Datagrams /\ socket[i].arrival = arrived - Len(socket) + i
    BY <1>1 DEF IInv, Chain
  <2>2. mail.arrival <= arrived - Len(socket)
    BY <1>1 DEF IInv, Chain
  <2> QED
    BY <1>1, <2>1, <2>2
<1>3. ASSUME rx_pc = "store"
      PROVE  /\ rx_local \in Datagrams
             /\ rx_local.arrival <= arrived /\ mail.arrival < rx_local.arrival
  <2>1. /\ rx_local.arrival = arrived - Len(socket) /\ mail.arrival = rx_local.arrival - 1
    BY <1>3 DEF IInv, Chain
  <2>2. rx_local.arrival # 0
    BY <1>1, <2>1
  <2> QED
    BY <1>1, <2>1, <2>2, NoDatagramArrival
<1>4. ASSUME HasNew PROVE mail \in Datagrams /\ mail.arrival <= arrived
  <2>1. mail \in Datagrams
    BY <1>4, UnreadIsDatagram
  <2>2. mail.arrival <= arrived
    BY <1>1 DEF IInv, Chain
  <2> QED
    BY <2>1, <2>2
<1>5. \A d \in Datagrams : d.arrival \in Nat
  BY DEF Datagrams
<1> QED
  BY <1>1, <1>2, <1>3, <1>4, <1>5 DEF InFlight, Underway

(* Underway is what came after the mailbox's datagram, now and next. *)
LEMMA LaterUnderway ==
  IInv => \A d \in Underway : mail.arrival < d.arrival /\ d.arrival \in Nat
BY FlightTypes DEF InFlight

LEMMA LaterUnderwayNext ==
  (IInv => \A d \in Underway : mail.arrival < d.arrival /\ d.arrival \in Nat)'
BY LaterUnderway, PTL

LEMMA NothingMoves ==
  ASSUME UNCHANGED <<socket, rx_pc, rx_local, mail, seq, consumed_seq>>
  PROVE  InFlight' = InFlight /\ Underway' = Underway /\ HasNew' = HasNew
  BY Zenon DEF InFlight, Underway, HasNew

LEMMA ArrivalJoins ==
  ASSUME IInv, NEW c, NEW s, Arrive(c, s)
  PROVE  LET d == [content |-> c, from |-> s, arrival |-> arrived + 1]
         IN /\ InFlight' = InFlight \cup {d} /\ Underway' = Underway \cup {d}
            /\ \A e \in InFlight : e.arrival < d.arrival
<1> DEFINE d == [content |-> c, from |-> s, arrival |-> arrived + 1]
<1>1. /\ socket' = Append(socket, d) /\ socket \in Seq(Datagrams)
      /\ UNCHANGED <<rx_pc, rx_local, mail, seq, consumed_seq>>
  BY DEF Arrive, rxVars, boxVars, seqVars, IInv, TypeOK
<1>2. {socket'[i] : i \in 1 .. Len(socket')} = {socket[i] : i \in 1 .. Len(socket)} \cup {d}
  BY <1>1
<1>3. /\ Underway' = Underway \cup {d} /\ HasNew' = HasNew
  BY <1>1, <1>2, Zenon DEF Underway, HasNew
<1>4. InFlight' = InFlight \cup {d}
  BY <1>1, <1>3, Zenon DEF InFlight
<1>5. \A e \in InFlight : e.arrival < arrived + 1
  BY FlightTypes
<1> QED
  BY <1>3, <1>4, <1>5

(* The rx thread moves datagrams on, and overwrites what was not read. *)
LEMMA RxMovesOn ==
  ASSUME IInv, RxThread
  PROVE  /\ InFlight' \subseteq InFlight /\ Underway' \subseteq Underway
         /\ \/ HasNew' = HasNew /\ mail' = mail /\ seq' = seq
            \/ mail' \in Underway /\ seq' = seq + 1
<1>1. CASE RxCheckStop \/ RxTimeout
  <2>1. /\ UNCHANGED <<socket, rx_local, mail, seq, consumed_seq>>
        /\ rx_pc # "store" /\ rx_pc' # "store"
    BY <1>1, Zenon DEF RxCheckStop, RxTimeout, kernelVars, boxVars, seqVars
  <2> QED
    BY <2>1, Zenon DEF InFlight, Underway, HasNew
<1>2. CASE RxReceive
  <2>1. /\ UNCHANGED <<mail, seq, consumed_seq>> /\ rx_pc' = "store"
        /\ socket # <<>> /\ socket' = Tail(socket) /\ rx_local' = Head(socket)
        /\ socket \in Seq(Datagrams)
    BY <1>2 DEF RxReceive, boxVars, seqVars, IInv, TypeOK
  <2>2. /\ \A i \in 1 .. Len(socket') : socket'[i] = socket[i + 1] /\ i + 1 \in 1 .. Len(socket)
        /\ rx_local' = socket[1] /\ 1 \in 1 .. Len(socket)
    BY <2>1
  <2>3. Underway' \subseteq Underway
    BY <2>1, <2>2 DEF Underway
  <2>4. HasNew' = HasNew
    BY <2>1 DEF HasNew
  <2> QED
    BY <2>1, <2>3, <2>4 DEF InFlight
<1>3. CASE RxStore
  <2>1. /\ socket' = socket /\ rx_pc = "store" /\ rx_pc' = "check"
        /\ mail' = rx_local /\ seq' = seq + 1
    BY <1>3, Zenon DEF RxStore, kernelVars
  <2>2. /\ Underway' \subseteq Underway /\ mail' \in Underway
    BY <2>1, Zenon DEF Underway
  <2> QED
    BY <2>1, <2>2 DEF InFlight
<1> QED
  BY <1>1, <1>2, <1>3 DEF RxThread

(* A take leaves what has not been stored yet; all of it came later. *)
LEMMA TakeLeaves ==
  ASSUME IInv, TakeLatest
  PROVE  /\ InFlight' = Underway /\ Underway' = Underway
         /\ mail \in InFlight /\ mail \in Datagrams /\ ~HasNew' /\ HasNew
         /\ taken' = mail /\ consumed_seq' = seq /\ seq' = seq /\ ~sending
         /\ \A d \in Underway : d \in InFlight /\ mail.arrival < d.arrival
         /\ UNCHANGED <<answered_up_to_seq, sending, life>> /\ reply_addr' = mail.from
         /\ last_frame_count' = NextLast(mail.content, last_frame_count)
<1>1. /\ UNCHANGED <<socket, rx_pc, rx_local, mail, seq, answered_up_to_seq, sending, life>>
      /\ consumed_seq' = seq /\ HasNew /\ ~sending /\ taken' = mail
      /\ reply_addr' = mail.from
      /\ last_frame_count' = NextLast(mail.content, last_frame_count)
  BY DEF TakeLatest, TickIdle, kernelVars, rxVars, boxVars, replyVars
<1>2. Underway' = Underway /\ ~HasNew'
  BY <1>1, Zenon DEF Underway, HasNew
<1>3. InFlight' = Underway
  BY <1>2 DEF InFlight
<1>4. Underway \subseteq InFlight
  BY DEF InFlight
<1> QED
  BY <1>1, <1>2, <1>3, <1>4, FlightTypes

(* The tick thread's own state, and the count it compares with. *)
TickInv ==
  /\ tick_pc \in {"loop", "resend", "reply"} /\ last_stepped \in Idents
  /\ has_pending_input => pending \in Datagrams /\ IsFrame(pending)
  /\ has_pending_input =>
       IF tick_pc = "reply" THEN last_stepped = Id(pending)
                            ELSE Later(Id(pending), last_stepped)
  /\ tick_pc = "resend" => ~has_pending_input
  /\ tick_pc = "loop" => ~sending

CountInv ==
  \/ last_frame_count = NoFrameCount /\ Staged = <<0, -1>>
  \/ /\ last_frame_count # NoFrameCount /\ Staged[2] \in Nat
     /\ last_frame_count = Staged[2] % FrameCountMod

OrderInv ==
  /\ \A d \in InFlight : IsFrame(d) => NotAfter(Staged, Id(d)) /\ NotAfter(Id(d), Now)
  /\ \A d \in InFlight, e \in InFlight :
       IsFrame(d) /\ IsFrame(e) /\ d.arrival < e.arrival => NotAfter(Id(d), Id(e))
  /\ NotAfter(Staged, Now)

SInv == LInv /\ TickInv /\ CountInv /\ OrderInv

LEMMA SInvTypes ==
  ASSUME LInv, TickInv
  PROVE  Staged \in Idents /\ Now \in Idents /\ IInv
<1>1. Now \in Idents
  BY DEF LInv, PeerInv, Sessions, Now, Idents
<1>2. Staged \in Idents
  <2>1. CASE has_pending_input
    BY <2>1, IdType DEF TickInv, Staged
  <2>2. CASE ~has_pending_input
    BY <2>2 DEF TickInv, Staged
  <2> QED
    BY <2>1, <2>2
<1> QED
  BY <1>1, <1>2 DEF LInv

LEMMA OrderShrinks ==
  ASSUME SInv, LInv', TickInv', InFlight' \subseteq InFlight, Staged' = Staged,
         NotAfter(Now, Now')
  PROVE  OrderInv'
<1>1. /\ Staged \in Idents /\ Now \in Idents
      /\ \A d \in InFlight : Id(d) \in Idents
  BY SInvTypes, FlightTypes, IdType DEF SInv
<1>t. Now' \in Idents
  BY DEF LInv, PeerInv, Sessions, Now, Idents
<1>2. \A f \in Idents : NotAfter(f, Now) => NotAfter(f, Now')
  BY <1>1, <1>t, IdentOrder
<1>3. \A d \in InFlight' :
        /\ d \in InFlight
        /\ IsFrame(d) => NotAfter(Staged', Id(d)) /\ NotAfter(Id(d), Now')
  BY <1>1, <1>2 DEF SInv, OrderInv
<1>4. NotAfter(Staged', Now')
  BY <1>1, <1>2 DEF SInv, OrderInv
<1> HIDE DEF Now, Staged, IsFrame, Id, NotAfter
<1> QED
  BY <1>3, <1>4 DEF SInv, OrderInv

LEMMA OrderGrows ==
  ASSUME SInv, NEW d \in Datagrams, InFlight' = InFlight \cup {d},
         \A e \in InFlight : e.arrival < d.arrival,
         IsFrame(d) => Id(d) = Now, Staged' = Staged, Now' = Now
  PROVE  OrderInv'
<1>1. Staged \in Idents /\ Now \in Idents /\ NotAfter(Now, Now) /\ NotAfter(Staged, Now)
  BY SInvTypes, IdentOrder DEF SInv, OrderInv
<1>2. /\ \A e \in InFlight : e \in Datagrams /\ e.arrival \in Nat
      /\ d.arrival \in Nat
  BY SInvTypes, FlightTypes DEF SInv, Datagrams
<1>3. \A e \in InFlight' :
        IsFrame(e) => NotAfter(Staged, Id(e)) /\ NotAfter(Id(e), Now)
  BY <1>1 DEF SInv, OrderInv
<1>4. ASSUME NEW x \in InFlight', NEW y \in InFlight',
             IsFrame(x), IsFrame(y), x.arrival < y.arrival
      PROVE  NotAfter(Id(x), Id(y))
  <2>1. CASE y = d
    BY <1>3, <1>4, <2>1
  <2>2. CASE y # d /\ x = d
    BY <1>2, <1>4, <2>2
  <2>3. CASE y # d /\ x # d
    BY <1>4, <2>3 DEF SInv, OrderInv
  <2> QED
    BY <2>1, <2>2, <2>3
<1> QED
  BY <1>1, <1>3, <1>4 DEF OrderInv

(* A take that stages: the frame is later than everything before it. *)
LEMMA FreshIsLater ==
  ASSUME SInv, TakeLatest, Parse(mail.content, last_frame_count) \in Steppable
  PROVE  /\ IsFrame(mail) /\ Later(Id(mail), Staged)
         /\ last_frame_count' = mail.content.n % FrameCountMod
         /\ mail.content.n \in Nat
<1> DEFINE c == mail.content
<1>1. mail \in Datagrams /\ mail \in InFlight /\ c \in Content
  BY SInvTypes, TakeLeaves, IdType DEF SInv
<1>2. /\ c.session \in Sessions /\ c.session # Stray /\ c.n \in 0 .. MaxFrames - 1
      /\ c.frame_count = c.n % FrameCountMod
      /\ Parse(c, last_frame_count) = Sequence(c.frame_count, last_frame_count)
  BY <1>1, ContentFacts DEF Steppable
<1>3. IsFrame(mail) /\ NotAfter(Staged, Id(mail))
  BY <1>1, <1>2 DEF SInv, OrderInv, IsFrame
<1>4. Id(mail) # Staged
  <2> SUFFICES ASSUME Id(mail) = Staged PROVE FALSE
    OBVIOUS
  <2>1. Staged[2] = c.n
    BY DEF Id
  <2>2. last_frame_count # NoFrameCount /\ last_frame_count = c.frame_count
    BY <1>2, <2>1 DEF SInv, CountInv
  <2>3. Sequence(c.frame_count, last_frame_count) = "Duplicate"
    BY <1>1, <2>2 DEF Sequence, FrameCounts
  <2> QED
    BY <1>2, <2>3 DEF Steppable
<1>5. Later(Id(mail), Staged)
  BY <1>1, <1>3, <1>4, IdType, SInvTypes, IdentOrder DEF SInv
<1>6. last_frame_count' = c.frame_count
  BY SInvTypes, TakeLeaves DEF SInv, NextLast
<1> QED
  BY <1>2, <1>3, <1>5, <1>6

LEMMA OrderFresh ==
  ASSUME SInv, PollFresh
  PROVE  /\ TickInv' /\ CountInv' /\ OrderInv'
         /\ Staged' = Id(mail) /\ Now' = Now
<1>1. /\ TakeLatest /\ Parse(mail.content, last_frame_count) \in Steppable
      /\ pending' = mail /\ has_pending_input' = TRUE /\ ~has_pending_input
      /\ tick_pc = "loop"
      /\ UNCHANGED <<tick_pc, last_stepped, peerVars>>
  BY DEF PollFresh, MayPoll
<1>2. /\ IInv /\ InFlight' = Underway /\ mail \in InFlight /\ mail \in Datagrams
      /\ \A d \in Underway : d \in InFlight /\ mail.arrival < d.arrival
      /\ sending' = sending /\ ~sending
  BY <1>1, SInvTypes, TakeLeaves DEF SInv
<1>3. /\ IsFrame(mail) /\ Later(Id(mail), Staged)
      /\ last_frame_count' = mail.content.n % FrameCountMod
      /\ mail.content.n \in Nat
  BY <1>1, FreshIsLater
<1>4. Staged = last_stepped /\ Staged' = Id(mail) /\ Now' = Now
  BY <1>1 DEF Staged, Now, peerVars, Id
<1>5. TickInv'
  BY <1>1, <1>2, <1>3, <1>4 DEF TickInv, SInv, Id, IsFrame, Later
<1>6. CountInv'
  <2>1. Staged'[2] = mail.content.n
    BY <1>4 DEF Id
  <2>2. last_frame_count' # NoFrameCount
    BY <1>1, <1>2, TakeFacts, ParseResults
  <2> QED
    BY <1>3, <2>1, <2>2 DEF CountInv
<1>7. OrderInv'
  BY <1>2, <1>3, <1>4 DEF SInv, OrderInv
<1> QED
  BY <1>4, <1>5, <1>6, <1>7

(* A datagram that is not steppable leaves the count alone. *)
LEMMA OrderPolled ==
  ASSUME SInv, LInv', PollDuplicate \/ PollBad
  PROVE  /\ TickInv' /\ CountInv' /\ OrderInv'
         /\ InFlight' \subseteq InFlight /\ Staged' = Staged /\ Now' = Now
<1>1. /\ TakeLatest /\ Parse(mail.content, last_frame_count) \notin Steppable
      /\ ~has_pending_input /\ has_pending_input' = has_pending_input
      /\ tick_pc = "loop" /\ tick_pc' \in {"loop", "resend"}
      /\ UNCHANGED <<last_stepped, pending, peerVars>>
  BY Zenon DEF PollDuplicate, PollBad, MayPoll, slotVars, Steppable
<1>2. /\ IInv /\ InFlight' \subseteq InFlight /\ sending' = sending /\ ~sending
      /\ last_frame_count' = last_frame_count
  BY <1>1, SInvTypes, TakeLeaves DEF SInv, NextLast
<1>3. Staged' = Staged /\ Now' = Now
  BY <1>1 DEF Staged, Now, peerVars, Id
<1>4. TickInv'
  BY <1>1, <1>2 DEF TickInv, SInv
<1>5. CountInv'
  BY <1>2, <1>3 DEF CountInv, SInv
<1> QED
  BY <1>2, <1>3, <1>4, <1>5, SInvTypes, IdentOrder, OrderShrinks DEF SInv

(* Steps that leave the tick thread and the slot alone. *)
LEMMA SlotKept ==
  ASSUME SInv, UNCHANGED <<has_pending_input, pending, tick_pc, last_stepped, sending,
                           last_frame_count>>
  PROVE  TickInv' /\ CountInv' /\ Staged' = Staged
<1>1. Staged' = Staged
  BY DEF Staged, Id
<1> QED
  BY <1>1 DEF SInv, TickInv, CountInv, Id, IsFrame, Later

(* An arrival is the peer's newest frame, or noise. *)
LEMMA OrderArrival ==
  ASSUME SInv, LInv', NEW c \in Content, NEW s \in Senders, Arrive(c, s),
         c = Noise \/ c = Frame(session, peer_n),
         UNCHANGED <<has_pending_input, pending, tick_pc, last_stepped, session, peer_n>>
  PROVE  TickInv' /\ CountInv' /\ OrderInv'
<1> DEFINE d == [content |-> c, from |-> s, arrival |-> arrived + 1]
<1>1. IInv /\ arrived \in Nat
  BY DEF SInv, LInv, IInv, TypeOK
<1>2. /\ d \in Datagrams /\ InFlight' = InFlight \cup {d}
      /\ \A e \in InFlight : e.arrival < d.arrival
  BY <1>1, ArrivalJoins DEF Datagrams
<1>3. IsFrame(d) => Id(d) = Now
  BY DEF IsFrame, Id, Now, Noise, Frame
<1>4. /\ UNCHANGED <<sending, last_frame_count>> /\ Now' = Now
  BY Zenon DEF Arrive, replyVars, seqVars, Now
<1> QED
  BY <1>2, <1>3, <1>4, SlotKept, OrderGrows

LEMMA OrderPeer ==
  ASSUME SInv, LInv', PeerStep \/ PeerImpatient \/ StrayArrives \/ PeerReboot
  PROVE  TickInv' /\ CountInv' /\ OrderInv'
<1>1. ASSUME UNCHANGED endpointVars, UNCHANGED slotVars, NotAfter(Now, Now')
      PROVE  TickInv' /\ CountInv' /\ OrderInv'
  <2>1. /\ UNCHANGED <<socket, rx_pc, rx_local, mail, seq, consumed_seq>>
        /\ UNCHANGED <<has_pending_input, pending, tick_pc, last_stepped, sending,
                       last_frame_count>>
    BY <1>1, Zenon DEF endpointVars, slotVars, kernelVars, rxVars, boxVars, seqVars, replyVars
  <2> QED
    BY <1>1, <2>1, NothingMoves, SlotKept, OrderShrinks
<1>2. Now \in Idents /\ NotAfter(Now, Now)
  BY SInvTypes, IdentOrder DEF SInv
<1>3. ASSUME ToSimulator, peer_n < MaxFrames, UNCHANGED <<slotVars, session, peer_n>>
      PROVE  TickInv' /\ CountInv' /\ OrderInv'
  <2>1. CASE Arrive(Frame(session, peer_n), session)
    BY <1>3, <2>1, FramesAreContent, OrderArrival DEF SInv, LInv, slotVars
  <2>2. CASE UNCHANGED endpointVars
    BY <1>1, <1>2, <1>3, <2>2 DEF Now
  <2> QED
    BY <1>3, <2>1, <2>2 DEF ToSimulator
<1>4. CASE PeerSend
  BY <1>3, <1>4, Zenon DEF PeerSend
<1>5. CASE PeerTimeout
  <2>1. peer_n < MaxFrames
    BY <1>5 DEF PeerTimeout, SInv, LInv, PeerInv
  <2> QED
    BY <1>3, <1>5, <2>1, Zenon DEF PeerTimeout, peerVars
<1>6. CASE PeerImpatient
  <2>1. peer_n < MaxFrames
    BY <1>6 DEF PeerImpatient, SInv, LInv, PeerInv
  <2> QED
    BY <1>6, <2>1, FramesAreContent, OrderArrival
       DEF PeerImpatient, peerVars, slotVars, SInv, LInv
<1>7. CASE StrayArrives
  BY <1>7, NoiseIsContent, OrderArrival DEF StrayArrives, peerVars, slotVars
<1>8. CASE PeerReceive
  <2>1. peer_n' = peer_n \/ peer_n' = peer_n + 1
    BY <1>8 DEF PeerReceive
  <2>2. NotAfter(Now, Now')
    BY <1>8, <2>1 DEF PeerReceive, SInv, LInv, PeerInv, Sessions, Now, NotAfter
  <2> QED
    BY <1>1, <1>8, <2>2, Zenon DEF PeerReceive
<1>9. CASE PeerReboot
  <2>1. NotAfter(Now, Now')
    BY <1>9 DEF PeerReboot, SInv, LInv, PeerInv, Sessions, Now, NotAfter
  <2> QED
    BY <1>1, <1>9, <2>1, Zenon DEF PeerReboot
<1> QED
  BY <1>4, <1>5, <1>6, <1>7, <1>8, <1>9 DEF PeerStep

(* Stepping and answering a staged frame make it the last one stepped. *)
LEMMA OrderServed ==
  ASSUME SInv, LInv', Step \/ Reply \/ EndReply
  PROVE  /\ TickInv' /\ CountInv' /\ OrderInv'
         /\ InFlight' \subseteq InFlight /\ Staged' = Staged /\ Now' = Now
<1>1. /\ UNCHANGED <<socket, rx_pc, rx_local, mail, seq, consumed_seq, last_frame_count,
                     pending, peerVars>>
  BY Zenon DEF Step, Reply, EndReply, SendReply, MarkAnswered, endpointVars,
     kernelVars, rxVars, boxVars, seqVars
<1>2. InFlight' \subseteq InFlight /\ Now' = Now /\ NotAfter(Now, Now')
  BY <1>1, NothingMoves, SInvTypes, IdentOrder DEF SInv, Now, peerVars
<1>3. TickInv' /\ Staged' = Staged
  <2>1. CASE Step
    <3>1. /\ tick_pc = "loop" /\ tick_pc' = "reply" /\ has_pending_input
          /\ has_pending_input' = has_pending_input /\ pending' = pending
          /\ last_stepped' = Id(pending) /\ Id(pending) \in Idents
      BY <2>1, IdType DEF Step, Id, SInv, TickInv
    <3> QED
      BY <3>1 DEF SInv, TickInv, Staged, Id, IsFrame
  <2>2. CASE Reply
    <3>1. /\ tick_pc \in {"reply", "resend"} /\ UNCHANGED <<tick_pc, has_pending_input,
                  pending, last_stepped>>
      BY <2>2, Zenon DEF Reply
    <3> QED
      BY <3>1 DEF SInv, TickInv, Staged, Id, IsFrame, Later
  <2>3. CASE EndReply
    <3>1. /\ sending /\ ~sending' /\ tick_pc' = "loop" /\ UNCHANGED <<pending, last_stepped>>
          /\ has_pending_input' = IF tick_pc = "reply" THEN FALSE ELSE has_pending_input
      BY <2>3, Zenon DEF EndReply, MarkAnswered
    <3>2. CASE tick_pc = "reply"
      <4>1. has_pending_input /\ ~has_pending_input' /\ last_stepped = Id(pending)
        BY <3>1, <3>2 DEF SInv, LInv, StagedInv, TickInv
      <4> QED
        BY <3>1, <4>1 DEF SInv, TickInv, Staged, Id
    <3>3. CASE tick_pc = "resend"
      <4>1. ~has_pending_input /\ has_pending_input' = has_pending_input
        BY <3>1, <3>3 DEF SInv, TickInv
      <4> QED
        BY <3>1, <4>1 DEF SInv, TickInv, Staged
    <3> QED
      BY <3>1, <3>2, <3>3 DEF SInv, TickInv
  <2> QED
    BY <2>1, <2>2, <2>3
<1>4. CountInv'
  BY <1>1, <1>3 DEF SInv, CountInv
<1> QED
  BY <1>2, <1>3, <1>4, OrderShrinks

(* The rx thread and the destructor move datagrams on, or drop them. *)
LEMMA OthersKeep ==
  ASSUME SInv, RxStep \/ Despawn \/ Despawned \/ UNCHANGED vars
  PROVE  /\ TickInv' /\ CountInv'
         /\ InFlight' \subseteq InFlight /\ Staged' = Staged /\ Now' = Now
<1>1. /\ UNCHANGED <<has_pending_input, pending, tick_pc, last_stepped, sending,
                     last_frame_count>>
      /\ Now' = Now
  BY Zenon DEF RxStep, RxThread, RxCheckStop, RxReceive, RxTimeout, RxStore, Despawn,
     Destroy, Despawned, Close, vars, endpointVars, slotVars, seqVars, replyVars, peerVars, Now
<1>2. InFlight' \subseteq InFlight
  <2>1. CASE RxStep
    BY <2>1, RxMovesOn DEF RxStep, SInv, LInv
  <2>2. CASE ~RxStep
    <3>1. UNCHANGED <<socket, rx_pc, rx_local, mail, seq, consumed_seq>>
      BY <2>2, Zenon DEF Despawn, Destroy, Despawned, Close, vars, endpointVars,
         kernelVars, rxVars, boxVars, seqVars
    <3> QED
      BY <3>1, NothingMoves
  <2> QED
    BY <2>1, <2>2
<1> QED
  BY <1>1, <1>2, SlotKept

LEMMA NextSInv == ASSUME SInv, [Next]_vars PROVE SInv'
<1>1. LInv'
  BY NextLInv DEF SInv
<1>2. CASE PollFresh
  BY <1>1, <1>2, OrderFresh DEF SInv
<1>3. CASE PollDuplicate \/ PollBad
  BY <1>1, <1>3, OrderPolled DEF SInv
<1>4. CASE Step \/ Reply \/ EndReply
  BY <1>1, <1>4, OrderServed DEF SInv
<1>5. CASE PeerStep \/ PeerImpatient \/ StrayArrives \/ PeerReboot
  BY <1>1, <1>5, OrderPeer DEF SInv
<1>6. CASE RxStep \/ Despawn \/ Despawned \/ UNCHANGED vars
  <2>1. NotAfter(Now, Now')
    BY <1>6, OthersKeep, SInvTypes, IdentOrder DEF SInv
  <2> QED
    BY <1>1, <1>6, <2>1, OthersKeep, OrderShrinks DEF SInv
<1> QED
  BY <1>2, <1>3, <1>4, <1>5, <1>6 DEF Next, TickStep

LEMMA InitSInv == Init => SInv
<1> SUFFICES ASSUME Init PROVE SInv
  OBVIOUS
<1>1. LInv
  BY InitLInv
<1>2. /\ has_pending_input = FALSE /\ tick_pc = "loop" /\ last_stepped = <<0, -1>>
      /\ sending = FALSE /\ last_frame_count = NoFrameCount
      /\ session = 0 /\ peer_n = 0
      /\ socket = <<>> /\ rx_pc = "check" /\ seq = 0 /\ consumed_seq = 0
  BY Zenon DEF Init, EndpointInit
<1>3. InFlight = {}
  <2>1. \A i \in 1 .. Len(socket) : FALSE
    BY <1>2
  <2> QED
    BY <1>2, <2>1 DEF InFlight, Underway, HasNew
<1>4. TickInv /\ CountInv /\ Staged = <<0, -1>>
  BY <1>2 DEF TickInv, CountInv, Staged, Idents
<1>5. OrderInv
  BY <1>2, <1>3, <1>4 DEF OrderInv, NotAfter, Now
<1> QED
  BY <1>1, <1>4, <1>5 DEF SInv

LEMMA SInvHolds == Spec => []SInv
  BY InitSInv, NextSInv, PTL DEF Spec

(* No frame drives the physics twice, nor after a newer one: for any       *)
(* counter width, any number of sessions, losses, re-sends and strays.     *)
THEOREM NeverStepsBack == Spec => FramesStepInOrder
<1>1. SInv /\ [Next]_vars => [Step => Later(last_stepped', last_stepped)]_vars
  <2> SUFFICES ASSUME SInv, Step PROVE Later(last_stepped', last_stepped)
    OBVIOUS
  <2>1. has_pending_input /\ tick_pc = "loop" /\ last_stepped' = Id(pending)
    BY DEF Step, Id
  <2> QED
    BY <2>1 DEF SInv, TickInv
<1> QED
  BY <1>1, SInvHolds, PTL DEF Spec, FramesStepInOrder

(* take_latest only ever moves forward in the whole conversation too. *)
THEOREM TakesStayForward == Spec => TakenInOrder
<1>1. LInv /\ [Next]_vars =>
        [consumed_seq' # consumed_seq => taken'.arrival > taken.arrival]_endpointVars
  BY EndpointSteps, TakeIsForward DEF LInv
<1> QED
  BY <1>1, LInvHolds, PTL DEF Spec, TakenInOrder

-----------------------------------------------------------------------------
(* The exchange, where the re-send timeout is longer than a round trip     *)
(* (RxPrompt).  What can still make the simulator answer the peer's        *)
(* address is a datagram of its session that is Coming, one in the mailbox *)
(* that is News, or an answer Owed for one that was taken.  All of them    *)
(* are the frame the peer waits on, and none is left once its reply is out *)
(* -- except a repeat in the mailbox that send_reply has marked answered.  *)
Asked == peer_pc = "wait" /\ inbox = <<>>

Coming == {d \in Underway : d.content.session = session}

Owed == /\ ~sending /\ reply_addr = session
        /\ has_pending_input \/ tick_pc = "resend"

MarkedRepeat ==
  /\ sending \/ seq <= answered_up_to_seq
  /\ mail.content.frame_count = last_frame_count

News == HasNew /\ mail.content.session = session /\ ~MarkedRepeat

AddrInv ==
  /\ \A d \in InFlight : d.from = d.content.session
  /\ reply_addr # NoAddr =>
       /\ taken \in Datagrams /\ reply_addr = taken.content.session
       /\ reply_addr <= session

PeerTypes ==
  /\ peer_pc \in {"send", "wait"} /\ faults.slow \in 0 .. MaxSlow
  /\ faults = [loss |-> faults.loss, stray |-> faults.stray, slow |-> faults.slow]

OneReply == inbox = <<>> \/ (inbox = <<Now>> /\ peer_pc = "wait")

NothingComes == ~Asked => Coming = {} /\ ~Owed /\ ~News

CurrentOnly ==
  /\ \A d \in Coming : Id(d) = Now
  /\ Owed => Id(taken) = Now
  /\ News => Id(mail) = Now

AnswersCurrent ==
  inbox # <<>> \/ Owed =>
    /\ last_frame_count = peer_n % FrameCountMod
    /\ \A d \in InFlight : IsFrame(d) => Id(d) = Now

(* As long as the peer has not lost patience there is one copy at most. *)
OneCopy ==
  faults.slow = MaxSlow /\ life = "open" =>
    /\ Owed => Coming = {} /\ ~News
    /\ News => Coming = {}
    /\ \A d \in Coming, e \in Coming : d = e

ExInv ==
  /\ AddrInv /\ PeerTypes /\ OneReply
  /\ NothingComes /\ CurrentOnly /\ AnswersCurrent /\ OneCopy

Exchanging == SInv /\ ExInv

(* A frame's fields, where one is in flight. *)
LEMMA FlightFrames ==
  ASSUME SInv, NEW d \in InFlight
  PROVE  /\ d \in Datagrams /\ Id(d) \in Idents /\ d.content \in Content
         /\ d.content.session \in Int /\ d.content.session <= session
         /\ session \in Nat /\ Stray # session
         /\ IsFrame(d) => /\ NotAfter(Id(d), Now) /\ d.content.n \in Nat
                          /\ d.content.frame_count = d.content.n % FrameCountMod
         /\ ~IsFrame(d) => Parse(d.content, last_frame_count) = "BadSize"
<1>1. d \in Datagrams /\ d.content \in Content /\ Id(d) \in Idents
  BY FlightTypes, SInvTypes, IdType DEF SInv
<1>2. session \in Nat /\ session # Stray /\ peer_n \in Nat
  BY DEF SInv, LInv, PeerInv, Sessions, Stray
<1>3. IsFrame(d) => NotAfter(Id(d), Now)
  BY DEF SInv, OrderInv
<1>4. d.content.session \in Int /\ d.content.session <= session
  <2>1. CASE IsFrame(d)
    BY <1>1, <1>2, <1>3, <2>1 DEF NotAfter, Id, Now, Idents
  <2>2. CASE ~IsFrame(d)
    BY <1>2, <2>2 DEF IsFrame, Stray
  <2> QED
    BY <2>1, <2>2
<1>5. /\ IsFrame(d) => /\ d.content.n \in Nat
                       /\ d.content.frame_count = d.content.n % FrameCountMod
      /\ ~IsFrame(d) => Parse(d.content, last_frame_count) = "BadSize"
  BY <1>1, ContentFacts DEF IsFrame
<1> QED
  BY <1>1, <1>2, <1>3, <1>4, <1>5

LEMMA ComingFlies ==
  /\ Coming \subseteq InFlight
  /\ News => mail \in InFlight
BY DEF Coming, News, InFlight

(* The state the exchange looks at. *)
LEMMA NothingOwedMoves ==
  ASSUME UNCHANGED <<socket, rx_pc, rx_local, mail, seq, consumed_seq, sending, reply_addr,
                     answered_up_to_seq, last_frame_count, taken, session, peer_n,
                     has_pending_input>>,
         tick_pc' = "resend" <=> tick_pc = "resend"
  PROVE  /\ InFlight' = InFlight /\ Coming' = Coming /\ Owed' = Owed /\ News' = News
         /\ Now' = Now
<1>1. InFlight' = InFlight /\ Underway' = Underway /\ HasNew' = HasNew
  BY NothingMoves
<1>2. MarkedRepeat' = MarkedRepeat
  BY Zenon DEF MarkedRepeat
<1> QED
  BY <1>1, <1>2 DEF Coming, Owed, News, Now

LEMMA ExchangeRx ==
  ASSUME Exchanging, SInv', RxStep
  PROVE  ExInv'
<1>1. /\ IInv /\ IInv' /\ RxThread
      /\ UNCHANGED <<sending, reply_addr, answered_up_to_seq, last_frame_count, taken,
                     session, peer_n, peer_pc, has_pending_input, tick_pc, inbox, faults, life>>
  BY Zenon DEF RxStep, RxThread, RxCheckStop, RxReceive, RxTimeout, RxStore, seqVars, replyVars,
     slotVars, peerVars, SInv, LInv, Exchanging
<1>2. /\ InFlight' \subseteq InFlight /\ Underway' \subseteq Underway
      /\ \/ HasNew' = HasNew /\ mail' = mail /\ seq' = seq
         \/ mail' \in Underway /\ seq' = seq + 1
  BY <1>1, RxMovesOn
<1>3. /\ Coming' \subseteq Coming /\ Owed' = Owed /\ Asked' = Asked /\ Now' = Now
  BY <1>1, <1>2 DEF Coming, Owed, Asked, Now
<1>4. News' => \/ News /\ mail' = mail
               \/ mail' \in Coming /\ mail' \notin Coming'
  <2> SUFFICES ASSUME News' PROVE \/ News /\ mail' = mail
                                  \/ mail' \in Coming /\ mail' \notin Coming'
    OBVIOUS
  <2>1. CASE HasNew' = HasNew /\ mail' = mail /\ seq' = seq
    BY <1>1, <2>1 DEF News, MarkedRepeat
  <2>2. CASE mail' \in Underway
    <3>1. mail' \in Coming
      BY <1>1, <2>2 DEF News, Coming
    <3>2. \A d \in Underway' : mail'.arrival < d.arrival /\ d.arrival \in Nat
      BY <1>1, LaterUnderwayNext
    <3> QED
      BY <3>1, <3>2 DEF Coming
  <2> QED
    BY <1>2, <2>1, <2>2
<1> USE DEF Exchanging
<1>5. AddrInv' /\ PeerTypes' /\ OneReply'
  BY <1>1, <1>2, <1>3 DEF ExInv, AddrInv, PeerTypes, OneReply
<1>6. NothingComes' /\ CurrentOnly'
  BY <1>1, <1>3, <1>4 DEF ExInv, NothingComes, CurrentOnly
<1>7. AnswersCurrent'
  BY <1>1, <1>2, <1>3 DEF ExInv, AnswersCurrent
<1>8. OneCopy'
  BY <1>1, <1>3, <1>4 DEF ExInv, OneCopy
<1> QED
  BY <1>5, <1>6, <1>7, <1>8 DEF ExInv

(* A datagram taken for fresh, or answered again, was News; then nothing   *)
(* else of the peer's can be behind it but copies.                         *)
LEMMA TakenNews ==
  ASSUME Exchanging, TakeLatest, News, mail.content.frame_count = last_frame_count'
  PROVE  /\ last_frame_count' = peer_n % FrameCountMod /\ Id(mail) = Now /\ Asked
         /\ \A d \in Underway : IsFrame(d) => Id(d) = Now
<1>1. Id(mail) = Now /\ Asked /\ mail \in InFlight /\ SInv /\ IInv
  BY ComingFlies DEF Exchanging, ExInv, NothingComes, CurrentOnly, SInv, LInv
<1>2. mail.content.session = session /\ mail.content.n = peer_n
  BY <1>1 DEF Id, Now
<1>3. IsFrame(mail) /\ mail.content.frame_count = peer_n % FrameCountMod
  BY <1>1, <1>2, FlightFrames DEF IsFrame
<1>4. ASSUME NEW d \in Underway, IsFrame(d) PROVE Id(d) = Now
  <2>1. d \in InFlight /\ mail.arrival < d.arrival
    BY <1>1, TakeLeaves
  <2>2. NotAfter(Now, Id(d)) /\ NotAfter(Id(d), Now)
    BY <1>1, <1>3, <1>4, <2>1 DEF SInv, OrderInv
  <2>3. Id(d) \in Idents /\ Now \in Idents
    BY <1>1, <2>1, FlightFrames, SInvTypes DEF SInv
  <2> QED
    BY <2>2, <2>3, IdentOrder
<1> QED
  BY <1>1, <1>3, <1>4

LEMMA ExchangeTake ==
  ASSUME Exchanging, SInv', PollFresh \/ PollDuplicate \/ PollBad
  PROVE  ExInv'
<1> USE DEF Exchanging
<1>1. /\ TakeLatest /\ ~has_pending_input /\ tick_pc = "loop"
      /\ UNCHANGED <<session, peer_n, peer_pc, inbox, faults>>
  BY Zenon DEF PollFresh, PollDuplicate, PollBad, MayPoll, peerVars
<1>2. /\ IInv /\ InFlight' = Underway /\ Underway' = Underway /\ Underway \subseteq InFlight
      /\ mail \in InFlight /\ HasNew /\ ~HasNew' /\ taken' = mail /\ ~sending /\ ~sending'
      /\ life' = life /\ reply_addr' = mail.from /\ consumed_seq' = seq
      /\ last_frame_count' = NextLast(mail.content, last_frame_count)
  BY <1>1, TakeLeaves DEF SInv, LInv
<1>3. /\ Coming' = Coming /\ Asked' = Asked /\ ~News' /\ Now' = Now /\ ~Owed
  BY <1>1, <1>2 DEF Coming, Asked, News, Now, Owed
<1>4. /\ mail \in Datagrams /\ mail.from = mail.content.session
      /\ mail.content.session <= session
  BY <1>2, FlightFrames DEF ExInv, AddrInv
<1>5. AddrInv' /\ PeerTypes' /\ OneReply'
  BY <1>1, <1>2, <1>3, <1>4 DEF ExInv, AddrInv, PeerTypes, OneReply
(* Whatever makes an answer owed was News, and is the count kept now. *)
<1>6. Owed' => News /\ mail.content.frame_count = last_frame_count'
  <2> SUFFICES ASSUME Owed' PROVE News /\ mail.content.frame_count = last_frame_count'
    OBVIOUS
  <2>1. mail.content.session = session
    BY <1>1, <1>2, <1>4 DEF Owed
  <2>2. IsFrame(mail) /\ mail.content.frame_count \in FrameCounts
    BY <1>2, <2>1, FlightFrames DEF IsFrame
  <2>3. CASE PollFresh
    <3>1. Parse(mail.content, last_frame_count) \in Steppable
      BY <2>3 DEF PollFresh
    <3>2. last_frame_count' = mail.content.frame_count
      BY <1>2, <3>1 DEF NextLast
    <3>3. Parse(mail.content, last_frame_count)
            = Sequence(mail.content.frame_count, last_frame_count)
      BY <1>2, <2>2, FlightFrames, ContentFacts DEF IsFrame
    <3>4. mail.content.frame_count # last_frame_count
      <4> SUFFICES ASSUME mail.content.frame_count = last_frame_count PROVE FALSE
        OBVIOUS
      <4>1. Sequence(mail.content.frame_count, last_frame_count) = "Duplicate"
        BY <2>2 DEF Sequence, FrameCounts, NoFrameCount
      <4> QED
        BY <3>1, <3>3, <4>1 DEF Steppable
    <3> QED
      BY <1>2, <2>1, <3>2, <3>4 DEF News, MarkedRepeat
  <2>4. CASE PollDuplicate
    <3>1. /\ Parse(mail.content, last_frame_count) = "Duplicate"
          /\ tick_pc' = "resend" /\ ReAnswer
      BY <1>1, <2>4 DEF PollDuplicate, Owed
    <3>2. last_frame_count' = last_frame_count
      BY <1>2, <3>1 DEF NextLast, Steppable
    <3>3. mail.content.frame_count = last_frame_count
      <4>1. Parse(mail.content, last_frame_count)
              = Sequence(mail.content.frame_count, last_frame_count)
        BY <1>2, <2>2, FlightFrames, ContentFacts DEF IsFrame
      <4>2. last_frame_count \in FrameCounts \cup {NoFrameCount}
        BY <1>2 DEF IInv, TypeOK
      <4> QED
        BY <2>2, <3>1, <4>1, <4>2 DEF Sequence, FrameCounts, NoFrameCount
    <3>4. seq > answered_up_to_seq /\ seq \in Nat /\ answered_up_to_seq \in Nat
      BY <1>2, <3>1 DEF ReAnswer, IInv, TypeOK
    <3> QED
      BY <1>2, <2>1, <3>2, <3>3, <3>4 DEF News, MarkedRepeat
  <2>5. CASE PollBad
    BY <1>1, <2>5 DEF PollBad, Owed, slotVars
  <2> QED
    BY <2>3, <2>4, <2>5
<1>7. NothingComes' /\ CurrentOnly' /\ OneCopy'
  <2>1. Owed' => Asked /\ Id(taken') = Now
    BY <1>1, <1>2, <1>6, TakenNews
  <2>2. NothingComes'
    BY <1>3, <2>1 DEF ExInv, NothingComes
  <2>3. CurrentOnly'
    BY <1>3, <2>1 DEF ExInv, CurrentOnly
  <2>4. OneCopy'
    BY <1>1, <1>2, <1>3, <1>6 DEF ExInv, OneCopy
  <2> QED
    BY <2>2, <2>3, <2>4
<1>8. AnswersCurrent'
  <2>1. CASE Owed'
    BY <1>1, <1>2, <1>3, <1>6, <2>1, TakenNews DEF AnswersCurrent
  <2>2. CASE inbox # <<>>
    <3>1. last_frame_count = peer_n % FrameCountMod
      BY <2>2 DEF ExInv, AnswersCurrent
    <3>2. last_frame_count' \in {last_frame_count, mail.content.frame_count}
      BY <1>2 DEF NextLast
    <3>3. CASE ~IsFrame(mail)
      <4>1. last_frame_count' = last_frame_count
        BY <1>2, <3>3, FlightFrames DEF NextLast, Steppable
      <4> QED
        BY <1>1, <1>2, <1>3, <2>2, <3>1, <4>1 DEF ExInv, AnswersCurrent
    <3>4. CASE IsFrame(mail)
      <4>1. mail.content.n = peer_n
        BY <1>2, <2>2, <3>4 DEF ExInv, AnswersCurrent, Id, Now
      <4>2. mail.content.frame_count = peer_n % FrameCountMod
        BY <1>2, <3>4, <4>1, FlightFrames
      <4> QED
        BY <1>1, <1>2, <1>3, <2>2, <3>1, <3>2, <4>2 DEF ExInv, AnswersCurrent
    <3> QED
      BY <3>3, <3>4
  <2> QED
    BY <1>1, <2>1, <2>2 DEF AnswersCurrent
<1> QED
  BY <1>5, <1>7, <1>8 DEF ExInv

(* An answer goes out: to the peer only if one is owed, and then nothing   *)
(* that could bring another is left.                                       *)
LEMMA ExchangeReply ==
  ASSUME Exchanging, SInv', RxPrompt, Reply
  PROVE  /\ ExInv'
         /\ inbox' # inbox => /\ inbox = <<>> /\ inbox' = <<Now>>
                              /\ peer_pc = "wait" /\ life = "open"
<1> USE DEF Exchanging
<1>1. /\ tick_pc \in {"reply", "resend"} /\ RxIsPrompt /\ Deliver
      /\ ~sending /\ sending' /\ life = "open" /\ reply_addr # NoAddr
      /\ UNCHANGED <<has_pending_input, pending, tick_pc, session, peer_n, peer_pc>>
      /\ UNCHANGED <<socket, rx_pc, rx_local, mail, seq, consumed_seq, reply_addr,
                     answered_up_to_seq, last_frame_count, taken, life>>
  BY Zenon DEF Reply, SendReply, TickIdle, peerVars, kernelVars, rxVars, boxVars, seqVars
<1>2. /\ InFlight' = InFlight /\ Underway' = Underway /\ HasNew' = HasNew
      /\ Coming' = Coming /\ Now' = Now /\ ~Owed'
  BY <1>1, NothingMoves DEF Coming, Now, Owed
<1>3. News' => News
  BY <1>1, <1>2 DEF News, MarkedRepeat
<1>4. faults'.slow = faults.slow /\ PeerTypes'
  <2>1. UNCHANGED faults \/ Spend("loss")
    BY <1>1 DEF Deliver
  <2> QED
    BY <1>1, <2>1 DEF ExInv, PeerTypes, Spend
<1>5. AddrInv'
  BY <1>1, <1>2 DEF ExInv, AddrInv
<1>6. CASE inbox' = inbox
  <2>1. Asked' = Asked
    BY <1>1, <1>6 DEF Asked
  <2>2. NothingComes' /\ CurrentOnly' /\ OneReply'
    BY <1>1, <1>2, <1>3, <1>6, <2>1 DEF ExInv, NothingComes, CurrentOnly, OneReply
  <2>3. AnswersCurrent' /\ OneCopy'
    BY <1>1, <1>2, <1>3, <1>4, <1>6 DEF ExInv, AnswersCurrent, OneCopy
  <2> QED
    BY <1>4, <1>5, <1>6, <2>2, <2>3 DEF ExInv
<1>7. CASE inbox' # inbox
  <2>1. /\ reply_addr = session /\ inbox' = Append(inbox, Id(taken)) /\ faults' = faults
    BY <1>1, <1>7 DEF Deliver, Id
  <2>2. Owed
    BY <1>1, <2>1 DEF Owed, SInv, LInv, StagedInv
  <2>3. /\ Asked /\ inbox = <<>> /\ peer_pc = "wait" /\ Id(taken) = Now
        /\ last_frame_count = peer_n % FrameCountMod
        /\ \A d \in InFlight : IsFrame(d) => Id(d) = Now
    BY <2>2 DEF ExInv, NothingComes, CurrentOnly, AnswersCurrent, Asked
  <2>4. inbox' = <<Now>> /\ inbox' # <<>>
    BY <2>1, <2>3
  <2>5. Coming = {}
    <3>1. CASE faults.slow = MaxSlow
      BY <1>1, <2>2, <3>1 DEF ExInv, OneCopy
    <3>2. CASE faults.slow # MaxSlow
      <4>1. socket = <<>> /\ rx_pc # "store"
        BY <1>1, <3>2 DEF RxIsPrompt, ExInv, PeerTypes
      <4>2. \A i \in 1 .. Len(socket) : FALSE
        BY <4>1
      <4> QED
        BY <4>1, <4>2 DEF Coming, Underway
    <3> QED
      BY <3>1, <3>2
  <2>6. ~News'
    <3> SUFFICES ASSUME HasNew, mail.content.session = session
                 PROVE  mail.content.frame_count = last_frame_count
      BY <1>1, <1>2 DEF News, MarkedRepeat
    <3>1. mail \in InFlight /\ IsFrame(mail)
      <4>1. session # Stray
        BY DEF SInv, LInv, PeerInv, Sessions, Stray
      <4> QED
        BY <4>1 DEF InFlight, IsFrame
    <3>2. mail.content.n = peer_n
      BY <2>3, <3>1 DEF Id, Now
    <3> QED
      BY <2>3, <3>1, <3>2, FlightFrames
  <2>7. NothingComes' /\ CurrentOnly' /\ OneReply'
    BY <1>1, <1>2, <2>3, <2>4, <2>5, <2>6 DEF NothingComes, CurrentOnly, OneReply
  <2>8. AnswersCurrent' /\ OneCopy'
    BY <1>1, <1>2, <2>3, <2>5, <2>6 DEF AnswersCurrent, OneCopy
  <2> QED
    BY <1>1, <1>4, <1>5, <2>3, <2>4, <2>7, <2>8 DEF ExInv
<1> QED
  BY <1>6, <1>7

(* send_reply's end, and the steps that leave all of this alone. *)
LEMMA ExchangeTick ==
  ASSUME Exchanging, SInv', Step \/ EndReply \/ Despawn \/ Despawned \/ UNCHANGED vars
  PROVE  ExInv'
<1> USE DEF Exchanging
<1>1. /\ UNCHANGED <<socket, rx_pc, rx_local, mail, seq, consumed_seq, reply_addr,
                     last_frame_count, taken, session, peer_n, peer_pc, inbox, faults>>
      /\ life' = "open" => life = "open"
  BY Zenon DEF Step, EndReply, MarkAnswered, Despawn, Destroy, Despawned, Close, vars,
     endpointVars, peerVars, kernelVars, rxVars, boxVars, seqVars
<1>2. /\ InFlight' = InFlight /\ Underway' = Underway /\ HasNew' = HasNew
      /\ Coming' = Coming /\ Now' = Now /\ Asked' = Asked
  BY <1>1, NothingMoves DEF Coming, Now, Asked
<1>3. (Owed' => Owed) /\ (News' => News)
  <2>1. CASE EndReply
    <3>1. /\ sending /\ tick_pc' = "loop" /\ answered_up_to_seq' = seq
          /\ has_pending_input' = IF tick_pc = "reply" THEN FALSE ELSE has_pending_input
      BY <2>1 DEF EndReply, MarkAnswered
    <3>2. ~has_pending_input'
      BY <3>1 DEF SInv, TickInv
    <3>3. ~Owed'
      BY <3>1, <3>2 DEF Owed
    <3>4. seq' <= answered_up_to_seq' /\ seq \in Nat
      BY <1>1, <3>1 DEF SInv, LInv, IInv, TypeOK
    <3> QED
      BY <1>1, <1>2, <3>1, <3>3, <3>4 DEF News, MarkedRepeat
  <2>2. CASE ~EndReply
    <3>1. UNCHANGED <<sending, answered_up_to_seq, has_pending_input>>
          /\ (tick_pc' = "resend" <=> tick_pc = "resend")
      BY <2>2 DEF Step, Despawn, Destroy, Despawned, Close, vars, endpointVars, replyVars,
         slotVars
    <3> QED
      BY <1>1, <1>2, <3>1 DEF Owed, News, MarkedRepeat
  <2> QED
    BY <2>1, <2>2
<1>4. AddrInv' /\ PeerTypes' /\ OneReply'
  BY <1>1, <1>2 DEF ExInv, AddrInv, PeerTypes, OneReply
<1>5. NothingComes' /\ CurrentOnly' /\ AnswersCurrent' /\ OneCopy'
  BY <1>1, <1>2, <1>3 DEF ExInv, NothingComes, CurrentOnly, AnswersCurrent, OneCopy
<1> QED
  BY <1>4, <1>5 DEF ExInv

(* A datagram of the peer's joins: it is the frame the peer waits on. *)
LEMMA ExchangeArrival ==
  ASSUME Exchanging, SInv', Asked', inbox' = <<>>, OneReply',
         NEW c \in Content, NEW s \in Senders, Arrive(c, s), s = c.session,
         c = Frame(session, peer_n) \/ (c = Noise /\ peer_pc' = peer_pc),
         UNCHANGED <<has_pending_input, tick_pc, session, peer_n, inbox>>, PeerTypes',
         c = Frame(session, peer_n) /\ life = "open" =>
           \/ faults'.slow # MaxSlow
           \/ Coming = {} /\ ~Owed /\ ~News,
         faults'.slow = MaxSlow => faults.slow = MaxSlow
  PROVE  ExInv'
<1> USE DEF Exchanging
<1> DEFINE d == [content |-> c, from |-> s, arrival |-> arrived + 1]
<1>1. /\ InFlight' = InFlight \cup {d} /\ Underway' = Underway \cup {d}
  BY ArrivalJoins DEF SInv, LInv
<1>2. /\ UNCHANGED <<mail, seq, consumed_seq, sending, reply_addr, answered_up_to_seq,
                     last_frame_count, taken, life>>
  BY Zenon DEF Arrive, boxVars, seqVars, replyVars
<1>3. /\ Owed' = Owed /\ News' = News /\ Now' = Now
  BY <1>2 DEF Owed, News, HasNew, MarkedRepeat, Now
<1>4. \/ c = Noise /\ ~IsFrame(d) /\ Coming' = Coming
      \/ c = Frame(session, peer_n) /\ Id(d) = Now /\ Coming' = Coming \cup {d}
  <2>1. CASE c = Noise
    <3>1. session # Stray
      BY DEF SInv, LInv, PeerInv, Sessions, Stray
    <3> QED
      BY <1>1, <2>1, <3>1 DEF Noise, IsFrame, Coming
  <2>2. CASE c = Frame(session, peer_n)
    BY <1>1, <2>2 DEF Frame, Id, Now, Coming
  <2> QED
    BY <2>1, <2>2
<1>5. AddrInv'
  BY <1>1, <1>2 DEF ExInv, AddrInv
<1>6. NothingComes' /\ CurrentOnly'
  BY <1>2, <1>3, <1>4 DEF ExInv, NothingComes, CurrentOnly
<1>7. AnswersCurrent'
  BY <1>1, <1>2, <1>3, <1>4 DEF ExInv, AnswersCurrent
<1>8. OneCopy'
  BY <1>2, <1>3, <1>4 DEF ExInv, OneCopy
<1> QED
  BY <1>5, <1>6, <1>7, <1>8 DEF ExInv

(* A stray changes nothing the peer's exchange looks at. *)
LEMMA ExchangeStray ==
  ASSUME Exchanging, SInv', StrayArrives
  PROVE  ExInv'
<1> USE DEF Exchanging
<1> DEFINE d == [content |-> Noise, from |-> Stray, arrival |-> arrived + 1]
<1>1. /\ InFlight' = InFlight \cup {d} /\ Underway' = Underway \cup {d}
  BY ArrivalJoins DEF SInv, LInv, StrayArrives
<1>2. /\ UNCHANGED <<mail, seq, consumed_seq, sending, reply_addr, answered_up_to_seq,
                     last_frame_count, taken, life>>
      /\ UNCHANGED <<has_pending_input, tick_pc, session, peer_n, peer_pc, inbox>>
      /\ Spend("stray")
  BY Zenon DEF StrayArrives, Arrive, boxVars, seqVars, replyVars, slotVars, peerVars
<1>3. /\ Owed' = Owed /\ News' = News /\ Now' = Now /\ Asked' = Asked
  BY <1>2 DEF Owed, News, HasNew, MarkedRepeat, Now, Asked
<1>4. ~IsFrame(d) /\ Coming' = Coming
  <2>1. session # Stray
    BY DEF SInv, LInv, PeerInv, Sessions, Stray
  <2> QED
    BY <1>1, <1>2, <2>1 DEF Noise, IsFrame, Coming
<1>5. faults'.slow = faults.slow /\ PeerTypes'
  BY <1>2 DEF ExInv, PeerTypes, Spend
<1>6. AddrInv' /\ OneReply'
  BY <1>1, <1>2, <1>3 DEF ExInv, AddrInv, OneReply, Noise
<1>7. NothingComes' /\ CurrentOnly' /\ AnswersCurrent' /\ OneCopy'
  BY <1>1, <1>2, <1>3, <1>4, <1>5
     DEF ExInv, NothingComes, CurrentOnly, AnswersCurrent, OneCopy
<1> QED
  BY <1>5, <1>6, <1>7 DEF ExInv

LEMMA ExchangePeer ==
  ASSUME Exchanging, SInv', PeerStep \/ PeerImpatient \/ PeerReboot
  PROVE  ExInv'
<1> USE DEF Exchanging
<1>1. CASE PeerSend
  <2>1. /\ peer_pc = "send" /\ peer_n < MaxFrames /\ ToSimulator /\ peer_pc' = "wait"
        /\ UNCHANGED <<has_pending_input, tick_pc, session, peer_n, inbox>>
    BY <1>1, Zenon DEF PeerSend, slotVars
  <2>2. /\ ~Asked /\ Coming = {} /\ ~Owed /\ ~News /\ inbox = <<>>
    BY <2>1 DEF Asked, ExInv, NothingComes, OneReply
  <2>3. Asked' /\ OneReply'
    BY <2>1, <2>2 DEF Asked, OneReply
  <2>4. CASE Arrive(Frame(session, peer_n), session) /\ UNCHANGED faults
    <3>1. PeerTypes' /\ faults'.slow = faults.slow
      BY <2>1, <2>4 DEF ExInv, PeerTypes
    <3>2. /\ Frame(session, peer_n) \in Content /\ session \in Senders
          /\ Frame(session, peer_n).session = session
      BY <2>1, FramesAreContent DEF SInv, LInv, Frame
    <3> QED
      BY <2>1, <2>2, <2>3, <2>4, <3>1, <3>2, ExchangeArrival
  <2>5. CASE UNCHANGED endpointVars /\ (UNCHANGED faults \/ Spend("loss"))
    <3>1. PeerTypes' /\ faults'.slow = faults.slow
      BY <2>1, <2>5 DEF ExInv, PeerTypes, Spend
    <3>2. /\ InFlight' = InFlight /\ Coming' = {} /\ ~Owed' /\ ~News' /\ Now' = Now
          /\ UNCHANGED <<reply_addr, taken, life>>
      <4>1. UNCHANGED <<socket, rx_pc, rx_local, mail, seq, consumed_seq, sending, reply_addr,
                        answered_up_to_seq, last_frame_count, taken, life>>
        BY <2>5, Zenon DEF endpointVars, kernelVars, rxVars, boxVars, seqVars, replyVars
      <4> QED
        BY <2>1, <2>2, <4>1, NothingOwedMoves
    <3> QED
      BY <2>1, <2>2, <2>3, <3>1, <3>2
         DEF ExInv, AddrInv, NothingComes, CurrentOnly, AnswersCurrent, OneCopy
  <2> QED
    BY <2>1, <2>4, <2>5 DEF ToSimulator
<1>2. CASE PeerTimeout
  <2>1. /\ peer_pc = "wait" /\ Quiet /\ ToSimulator /\ inbox = <<>>
        /\ UNCHANGED <<has_pending_input, tick_pc, session, peer_n, peer_pc, inbox>>
    BY <1>2, Zenon DEF PeerTimeout, Quiet, slotVars, peerVars
  <2>2. life = "open" => Coming = {} /\ ~Owed /\ ~News
    <3> SUFFICES ASSUME life = "open" PROVE Coming = {} /\ ~Owed /\ ~News
      OBVIOUS
    <3>1. /\ socket = <<>> /\ rx_pc # "store" /\ ~HasNew /\ ~has_pending_input
          /\ tick_pc = "loop"
      BY <2>1 DEF Quiet
    <3>2. \A i \in 1 .. Len(socket) : FALSE
      BY <3>1
    <3> QED
      BY <3>1, <3>2 DEF Coming, Underway, Owed, News
  <2>3. Asked /\ Asked' /\ OneReply' /\ inbox' = <<>>
    BY <2>1 DEF Asked, OneReply
  <2>4. CASE Arrive(Frame(session, peer_n), session) /\ UNCHANGED faults
    <3>1. PeerTypes' /\ faults'.slow = faults.slow
      BY <2>1, <2>4 DEF ExInv, PeerTypes
    <3>2. /\ Frame(session, peer_n) \in Content /\ session \in Senders
          /\ Frame(session, peer_n).session = session
      BY <2>1, FramesAreContent DEF SInv, LInv, PeerInv, Frame
    <3> QED
      BY <2>1, <2>2, <2>3, <2>4, <3>1, <3>2, ExchangeArrival
  <2>5. CASE UNCHANGED endpointVars /\ (UNCHANGED faults \/ Spend("loss"))
    <3>1. PeerTypes' /\ faults'.slow = faults.slow
      BY <2>1, <2>5 DEF ExInv, PeerTypes, Spend
    <3>2. /\ InFlight' = InFlight /\ Coming' = Coming /\ Owed' = Owed /\ News' = News
          /\ Now' = Now /\ UNCHANGED <<reply_addr, taken, mail, life, last_frame_count>>
      <4>1. UNCHANGED <<socket, rx_pc, rx_local, mail, seq, consumed_seq, sending, reply_addr,
                        answered_up_to_seq, last_frame_count, taken, life>>
        BY <2>5, Zenon DEF endpointVars, kernelVars, rxVars, boxVars, seqVars, replyVars
      <4>2. UNCHANGED <<socket, rx_pc, rx_local, mail, seq, consumed_seq, sending, reply_addr,
                        answered_up_to_seq, last_frame_count, taken, session, peer_n,
                        has_pending_input>>
        BY <2>1, <4>1, Zenon
      <4>3. tick_pc' = "resend" <=> tick_pc = "resend"
        BY <2>1
      <4>4. /\ InFlight' = InFlight /\ Coming' = Coming /\ Owed' = Owed /\ News' = News
            /\ Now' = Now
        BY ONLY <4>2, <4>3, NothingOwedMoves
      <4> QED
        BY <4>1, <4>4
    <3>3. AddrInv' /\ NothingComes'
      BY <2>1, <2>3, <3>2 DEF ExInv, AddrInv, NothingComes
    <3>4. CurrentOnly'
      BY <3>2 DEF ExInv, CurrentOnly
    <3>5. AnswersCurrent'
      BY <2>1, <3>2 DEF ExInv, AnswersCurrent
    <3>6. OneCopy'
      BY <3>1, <3>2 DEF ExInv, OneCopy
    <3> QED
      BY <2>3, <3>1, <3>3, <3>4, <3>5, <3>6 DEF ExInv
  <2> QED
    BY <2>1, <2>4, <2>5 DEF ToSimulator
<1>3. CASE PeerImpatient
  <2>1. /\ peer_pc = "wait" /\ inbox = <<>> /\ Spend("slow")
        /\ Arrive(Frame(session, peer_n), session)
        /\ UNCHANGED <<has_pending_input, tick_pc, session, peer_n, peer_pc, inbox>>
    BY <1>3, Zenon DEF PeerImpatient, slotVars, peerVars
  <2>2. PeerTypes' /\ faults'.slow # MaxSlow
    <3>1. /\ faults = [loss |-> faults.loss, stray |-> faults.stray, slow |-> faults.slow]
          /\ faults.slow \in 0 .. MaxSlow /\ peer_pc \in {"send", "wait"}
      BY DEF ExInv, PeerTypes
    <3>2. /\ faults.slow > 0
          /\ faults' = [loss |-> faults.loss, stray |-> faults.stray, slow |-> faults.slow - 1]
      BY <2>1, <3>1 DEF Spend
    <3>3. /\ faults'.loss = faults.loss /\ faults'.stray = faults.stray
          /\ faults'.slow = faults.slow - 1
      BY <3>2
    <3> QED
      BY <2>1, <3>1, <3>2, <3>3 DEF PeerTypes
  <2>3. Asked' /\ OneReply' /\ inbox' = <<>>
    BY <2>1 DEF Asked, OneReply
  <2>4. /\ Frame(session, peer_n) \in Content /\ session \in Senders
        /\ Frame(session, peer_n).session = session
    BY <2>1, FramesAreContent DEF SInv, LInv, PeerInv, Frame
  <2> QED
    BY <2>1, <2>2, <2>3, <2>4, ExchangeArrival
<1>4. CASE PeerReceive
  <2>1. /\ inbox # <<>> /\ inbox' = Tail(inbox) /\ peer_pc' = "send"
        /\ UNCHANGED <<socket, rx_pc, rx_local, mail, seq, consumed_seq, sending, reply_addr,
                       answered_up_to_seq, last_frame_count, taken, life>>
        /\ UNCHANGED <<has_pending_input, tick_pc, session, faults>>
    BY <1>4, Zenon DEF PeerReceive, endpointVars, kernelVars, rxVars, boxVars, seqVars,
       replyVars, slotVars
  <2>2. /\ ~Asked /\ Coming = {} /\ ~Owed /\ ~News /\ inbox = <<Now>>
    BY <2>1 DEF Asked, ExInv, NothingComes, OneReply
  <2>3. inbox' = <<>>
    BY <2>1, <2>2
  <2>4. /\ InFlight' = InFlight /\ Coming' = {} /\ ~Owed' /\ ~News'
    <3>1. /\ InFlight' = InFlight /\ Underway' = Underway /\ HasNew' = HasNew
      BY <2>1, NothingMoves
    <3> QED
      BY <2>1, <2>2, <3>1 DEF Coming, Owed, News, MarkedRepeat
  <2> QED
    BY <2>1, <2>3, <2>4 DEF ExInv, AddrInv, PeerTypes, OneReply, NothingComes, CurrentOnly,
       AnswersCurrent, OneCopy
<1>5. CASE PeerReboot
  <2>1. /\ session' = session + 1 /\ peer_pc' = "send" /\ inbox' = <<>>
        /\ UNCHANGED <<socket, rx_pc, rx_local, mail, seq, consumed_seq, sending, reply_addr,
                       answered_up_to_seq, last_frame_count, taken, life>>
        /\ UNCHANGED <<has_pending_input, tick_pc, faults>>
    BY <1>5, Zenon DEF PeerReboot, endpointVars, kernelVars, rxVars, boxVars, seqVars,
       replyVars, slotVars
  <2>2. InFlight' = InFlight /\ Underway' = Underway /\ HasNew' = HasNew
    BY <2>1, NothingMoves
  <2>3. \A d \in InFlight : d.content.session <= session /\ d.content.session \in Int
    BY FlightFrames
  <2>4. /\ session \in Nat /\ session' \in Sessions /\ NoAddr # session'
    BY <1>5, <2>1 DEF PeerReboot, SInv, LInv, PeerInv, Sessions, LockstepSenders
  <2>5. Coming' = {} /\ ~News'
    <3>1. \A d \in InFlight : d.content.session # session'
      BY <2>1, <2>3, <2>4
    <3> QED
      BY <2>1, <2>2, <3>1 DEF Coming, News, InFlight
  <2>6. reply_addr # session'
    BY <2>1, <2>4 DEF ExInv, AddrInv
  <2>7. ~Owed'
    BY <2>1, <2>6 DEF Owed
  <2>8. AddrInv'
    <3>1. /\ \A d \in InFlight' : d.from = d.content.session
          /\ reply_addr' # NoAddr => /\ taken' \in Datagrams
                                    /\ reply_addr' = taken'.content.session
      BY <2>1, <2>2 DEF ExInv, AddrInv
    <3>2. ASSUME reply_addr # NoAddr PROVE reply_addr <= session + 1
      <4>1. reply_addr \in Int
        BY <3>2 DEF SInv, LInv, IInv, TypeOK, LockstepSenders, Sessions, Stray
      <4> QED
        BY <2>4, <3>2, <4>1 DEF ExInv, AddrInv
    <3> QED
      BY <2>1, <3>1, <3>2 DEF AddrInv
  <2> QED
    BY <2>1, <2>5, <2>7, <2>8 DEF ExInv, PeerTypes, OneReply, NothingComes, CurrentOnly,
       AnswersCurrent, OneCopy
<1> QED
  BY <1>1, <1>2, <1>3, <1>4, <1>5 DEF PeerStep

LEMMA InitExInv == Init => ExInv
<1> SUFFICES ASSUME Init PROVE ExInv
  OBVIOUS
<1>1. /\ has_pending_input = FALSE /\ tick_pc = "loop" /\ sending = FALSE
      /\ reply_addr = NoAddr /\ inbox = <<>> /\ peer_pc = "send"
      /\ socket = <<>> /\ rx_pc = "check" /\ seq = 0 /\ consumed_seq = 0
      /\ faults = [loss |-> MaxLosses, stray |-> MaxStrays, slow |-> MaxSlow]
  BY Zenon DEF Init, EndpointInit
<1>2. Coming = {} /\ InFlight = {} /\ ~News /\ ~Owed
  <2>1. \A i \in 1 .. Len(socket) : FALSE
    BY <1>1
  <2> QED
    BY <1>1, <2>1 DEF InFlight, Coming, Underway, HasNew, News, Owed
<1>3. PeerTypes
  BY <1>1 DEF PeerTypes
<1> QED
  BY <1>1, <1>2, <1>3 DEF ExInv, AddrInv, OneReply, NothingComes, CurrentOnly,
     AnswersCurrent, OneCopy

LEMMA NextExchanging ==
  ASSUME RxPrompt, Exchanging, [Next]_vars PROVE Exchanging'
<1>1. SInv'
  BY NextSInv DEF Exchanging
<1>2. ExInv'
  BY <1>1, ExchangeRx, ExchangeTake, ExchangeReply, ExchangeTick, ExchangeStray, ExchangePeer
     DEF Next, TickStep
<1> QED
  BY <1>1, <1>2 DEF Exchanging

LEMMA ExchangingHolds == ASSUME RxPrompt PROVE Spec => []Exchanging
<1>1. Init => Exchanging
  BY InitSInv, InitExInv DEF Exchanging
<1>2. Exchanging /\ [Next]_vars => Exchanging'
  BY NextExchanging
<1> QED
  BY <1>1, <1>2, PTL DEF Spec

(* Where the re-send timeout is longer than a round trip, the simulator    *)
(* and the peer exchange one reply per request, each for the frame the     *)
(* peer waits on: every step is one of Exchange's, or none, through        *)
(* losses, restarts, strays and re-sends.  (ImplementsExchange without     *)
(* its fairness.)                                                          *)
THEOREM LockstepKeepsExchange ==
  ASSUME RxPrompt
  PROVE  Spec => Promise!Init /\ [][Promise!Next]_(Promise!exchangeVars)
<1>1. Init => Promise!Init
  <2> SUFFICES ASSUME Init PROVE Promise!Init
    OBVIOUS
  <2>1. session = 0 /\ peer_n = 0 /\ peer_pc = "send" /\ inbox = <<>> /\ life = "open"
    BY Zenon DEF Init, EndpointInit
  <2> QED
    BY <2>1 DEF Promise!Init
<1>2. Exchanging /\ [Next]_vars => [Promise!Next]_(Promise!exchangeVars)
  <2> SUFFICES ASSUME Exchanging, [Next]_vars
               PROVE  Promise!Next \/ UNCHANGED Promise!exchangeVars
    BY DEF Promise!exchangeVars
  <2>1. CASE Reply
    <3>1. UNCHANGED <<session, peer_n, peer_pc, life>>
      BY <2>1, Zenon DEF Reply, SendReply, peerVars
    <3>2. CASE inbox' = inbox
      BY <3>1, <3>2, Zenon DEF Promise!exchangeVars
    <3>3. CASE inbox' # inbox
      <4>1. SInv'
        BY NextSInv DEF Exchanging
      <4>2. inbox = <<>> /\ inbox' = <<Now>> /\ peer_pc = "wait" /\ life = "open"
        BY <2>1, <3>3, <4>1, ExchangeReply
      <4>3. inbox' # <<>> /\ Head(inbox') = <<session, peer_n>>
        BY <4>2 DEF Now
      <4> QED
        BY <3>1, <4>2, <4>3 DEF Promise!Next, Promise!Answer
    <3> QED
      BY <3>2, <3>3
  <2>2. CASE PeerSend
    <3>1. /\ peer_pc = "send" /\ peer_pc' = "wait" /\ peer_n < MaxFrames
          /\ UNCHANGED <<session, peer_n, inbox>>
      BY <2>2, Zenon DEF PeerSend
    <3>2. life' = life
      BY <2>2 DEF PeerSend, ToSimulator, Arrive, endpointVars
    <3> QED
      BY <3>1, <3>2 DEF Promise!Next, Promise!Ask
  <2>3. CASE PeerReceive
    <3>1. /\ peer_pc = "wait" /\ peer_pc' = "send" /\ inbox # <<>> /\ inbox' = Tail(inbox)
          /\ UNCHANGED <<session, life>>
          /\ peer_n' \in {peer_n, peer_n + 1}
      BY <2>3 DEF PeerReceive, endpointVars
    <3>2. inbox = <<Now>>
      BY <3>1 DEF Exchanging, ExInv, OneReply
    <3>3. inbox' = <<>> /\ Head(inbox) = Now /\ Now # <<>>
      BY <3>1, <3>2 DEF Now
    <3> QED
      BY <3>1, <3>3 DEF Promise!Next, Promise!Accept
  <2>4. CASE PeerReboot
    <3>1. /\ session < MaxReboots /\ session' = session + 1 /\ peer_n' = 0
          /\ peer_pc' = "send" /\ inbox' = <<>> /\ life' = life
      BY <2>4, Zenon DEF PeerReboot, endpointVars
    <3> QED
      BY <3>1 DEF Promise!Next, Promise!Restart
  <2>5. CASE Despawn
    <3>1. /\ life = "open" /\ life' = "joining"
          /\ UNCHANGED <<session, peer_n, peer_pc, inbox>>
      BY <2>5, Zenon DEF Despawn, Destroy, TickIdle, peerVars
    <3>2. (life = "open") = TRUE /\ (life' = "open") = FALSE
      BY <3>1
    <3> QED
      BY <3>1, <3>2 DEF Promise!Next, Promise!Withdraw
  <2>6. CASE Despawned
    <3>1. /\ life = "joining" /\ life' = "closed"
          /\ UNCHANGED <<session, peer_n, peer_pc, inbox>>
      BY <2>6, Zenon DEF Despawned, Close, peerVars
    <3> QED
      BY <3>1 DEF Promise!exchangeVars
  <2>7. CASE \/ RxStep \/ PollFresh \/ PollDuplicate \/ PollBad \/ Step \/ EndReply
             \/ PeerTimeout \/ PeerImpatient \/ StrayArrives \/ UNCHANGED vars
    <3>1. UNCHANGED <<session, peer_n, peer_pc, inbox, life>>
      BY <2>7, Zenon DEF RxStep, RxThread, RxCheckStop, RxReceive, RxTimeout, RxStore,
         PollFresh, PollDuplicate, PollBad, TakeLatest, Step, EndReply, MarkAnswered,
         PeerTimeout, PeerImpatient, StrayArrives, ToSimulator, Arrive, endpointVars,
         peerVars, vars
    <3> QED
      BY <3>1, Zenon DEF Promise!exchangeVars
  <2> QED
    BY <2>1, <2>2, <2>3, <2>4, <2>5, <2>6, <2>7 DEF Next, TickStep, PeerStep
<1> QED
  BY <1>1, <1>2, ExchangingHolds, PTL DEF Spec

-----------------------------------------------------------------------------
(* Truth.  What is under way is a frame, the one before it or the first of *)
(* a later session: with one answer per request nothing is skipped.  The   *)
(* frame staged may also be one behind a session that began on its count:  *)
(* that session's frame 0 was taken for a repeat.                          *)
OneOn(f, g) == \/ f[1] = g[1] /\ f[2] \in {g[2], g[2] + 1}
               \/ f[1] > g[1] /\ f[2] = 0

Follows(f, g) == OneOn(f, g) \/ (f[1] > g[1] /\ f[2] = 1 /\ g[2] % FrameCountMod = 0)

ClassInv ==
  /\ Follows(Now, Staged)
  /\ \A d \in InFlight : IsFrame(d) => Follows(Id(d), Staged) /\ OneOn(Now, Id(d))
  /\ \A d \in InFlight, e \in InFlight :
       IsFrame(d) /\ IsFrame(e) /\ d.arrival < e.arrival => OneOn(Id(e), Id(d))

(* Remainders, which no prover knows much of. *)
LEMMA RemainderRange ==
  ASSUME NEW m \in Nat \ {0}, NEW n \in Int PROVE n % m \in 0 .. m - 1
  BY Z3

LEMMA RemainderSplit ==
  ASSUME NEW m \in Nat \ {0}, NEW n \in Int PROVE \E q \in Int : n = m * q + (n % m)
<1>1. n \div m \in Int /\ n = m * (n \div m) + (n % m)
  BY Z3
<1> QED
  BY <1>1

LEMMA RemainderUnique ==
  ASSUME NEW m \in Nat \ {0}, NEW p \in Int, NEW q \in Int,
         NEW r \in 0 .. m - 1, NEW s \in 0 .. m - 1, m * p + r = m * q + s
  PROVE  r = s
<1>1. /\ m * p \in Int /\ m * q \in Int /\ m * p - m * q = m * (p - q)
      /\ p - q >= 1 => m * (p - q) >= m
      /\ p - q <= -1 => m * (p - q) <= -m
  BY Z3
<1>2. p = q
  BY <1>1
<1>3. m * p = m * q
  BY <1>2
<1> QED
  BY <1>1, <1>3

LEMMA RemainderOf ==
  ASSUME NEW m \in Nat \ {0}, NEW q \in Int, NEW r \in 0 .. m - 1
  PROVE  (m * q + r) % m = r
<1>1. m * q + r \in Int
  BY Z3
<1>2. (m * q + r) % m \in 0 .. m - 1
  BY <1>1, RemainderRange
<1>3. PICK p \in Int : m * q + r = m * p + ((m * q + r) % m)
  BY <1>1, RemainderSplit
<1> QED
  BY <1>2, <1>3, RemainderUnique, Zenon

LEMMA SmallRemainder == ASSUME NEW m \in Nat \ {0}, NEW r \in 0 .. m - 1 PROVE r % m = r
<1>1. r = m * 0 + r
  BY Z3
<1> QED
  BY <1>1, RemainderOf

(* The uint32_t counter: it counts up by one, or starts over at 0. *)
LEMMA NextCount ==
  ASSUME NEW n \in Int
  PROVE  /\ n % FrameCountMod \in FrameCounts
         /\ (n + 1) % FrameCountMod =
              IF n % FrameCountMod = FrameCountMod - 1 THEN 0 ELSE (n % FrameCountMod) + 1
<1> DEFINE m == FrameCountMod
           r == n % m
<1>1. r \in 0 .. m - 1 /\ m \in Nat \ {0}
  BY RemainderRange
<1>2. PICK p \in Int : n = m * p + r
  BY <1>1, RemainderSplit
<1>3. m * (p + 1) = m * p + m /\ m * p \in Int
  BY Z3
<1> HIDE DEF r
<1>4. CASE r = m - 1
  <2>1. n + 1 = m * (p + 1) + 0
    BY <1>1, <1>2, <1>3, <1>4
  <2>2. (m * (p + 1) + 0) % m = 0
    BY <1>1, RemainderOf
  <2> QED
    BY <1>1, <1>4, <2>1, <2>2 DEF r, FrameCounts
<1>5. CASE r # m - 1
  <2>1. n + 1 = m * p + (r + 1) /\ r + 1 \in 0 .. m - 1
    BY <1>1, <1>2, <1>3, <1>5
  <2>2. (m * p + (r + 1)) % m = r + 1
    BY <1>1, <2>1, RemainderOf
  <2> QED
    BY <1>1, <1>5, <2>1, <2>2 DEF r, FrameCounts
<1> QED
  BY <1>4, <1>5

LEMMA ClassTypes ==
  ASSUME Exchanging
  PROVE  /\ SInv /\ IInv /\ Staged \in Idents /\ Now \in Idents
         /\ \A d \in InFlight : Id(d) \in Idents /\ d \in Datagrams /\ d.arrival \in Nat
         /\ \A d \in InFlight : IsFrame(d) => NotAfter(Id(d), Now)
         /\ NotAfter(Staged, Now)
BY SInvTypes, FlightTypes, IdType DEF Exchanging, SInv, OrderInv

LEMMA ClassShrinks ==
  ASSUME ClassInv, InFlight' \subseteq InFlight, Staged' = Staged, Now' = Now
  PROVE  ClassInv'
<1>1. \A d \in InFlight' :
        d \in InFlight /\ (IsFrame(d) => Follows(Id(d), Staged') /\ OneOn(Now', Id(d)))
  BY DEF ClassInv
<1>2. Follows(Now', Staged')
  BY DEF ClassInv
<1> HIDE DEF Now, Staged, IsFrame, Id, Follows, OneOn
<1> QED
  BY <1>1, <1>2 DEF ClassInv

LEMMA ClassGrows ==
  ASSUME Exchanging, ClassInv, NEW d \in Datagrams, InFlight' = InFlight \cup {d},
         \A e \in InFlight : e.arrival < d.arrival,
         IsFrame(d) => Id(d) = Now, Staged' = Staged, Now' = Now
  PROVE  ClassInv'
<1>1. /\ Follows(Now, Staged) /\ OneOn(Now, Now)
      /\ \A e \in InFlight : e.arrival \in Nat
      /\ d.arrival \in Nat
  BY ClassTypes DEF ClassInv, OneOn, Idents, Datagrams
<1>2. \A e \in InFlight' : IsFrame(e) => Follows(Id(e), Staged) /\ OneOn(Now, Id(e))
  BY <1>1 DEF ClassInv
<1>3. ASSUME NEW x \in InFlight', NEW y \in InFlight',
             IsFrame(x), IsFrame(y), x.arrival < y.arrival
      PROVE  OneOn(Id(y), Id(x))
  <2>1. CASE y = d
    BY <1>2, <1>3, <2>1
  <2>2. CASE y # d /\ x = d
    BY <1>1, <1>3, <2>2
  <2>3. CASE y # d /\ x # d
    BY <1>3, <2>3 DEF ClassInv
  <2> QED
    BY <2>1, <2>2, <2>3
<1> QED
  BY <1>1, <1>2, <1>3 DEF ClassInv

(* A take that stages: the frames behind it are one on from it. *)
LEMMA ClassFresh ==
  ASSUME Exchanging, ClassInv, PollFresh
  PROVE  ClassInv'
<1>1. /\ TakeLatest /\ Staged' = Id(mail) /\ Now' = Now /\ IsFrame(mail)
  BY OrderFresh, FreshIsLater DEF PollFresh, Exchanging
<1>2. /\ InFlight' = Underway /\ mail \in InFlight
      /\ \A d \in Underway : d \in InFlight /\ mail.arrival < d.arrival
  BY <1>1, ClassTypes, TakeLeaves
<1>3. Follows(Now, Id(mail))
  BY <1>1, <1>2 DEF ClassInv, Follows
<1>4. \A d \in InFlight' : IsFrame(d) => Follows(Id(d), Id(mail)) /\ OneOn(Now, Id(d))
  BY <1>1, <1>2 DEF ClassInv, Follows
<1> QED
  BY <1>1, <1>2, <1>3, <1>4 DEF ClassInv

LEMMA ClassArrival ==
  ASSUME Exchanging, ClassInv, NEW c \in Content, NEW s \in Senders, Arrive(c, s),
         c = Noise \/ c = Frame(session, peer_n),
         UNCHANGED <<has_pending_input, pending, tick_pc, last_stepped, session, peer_n>>
  PROVE  ClassInv'
<1> DEFINE d == [content |-> c, from |-> s, arrival |-> arrived + 1]
<1>1. IInv /\ SInv /\ arrived \in Nat
  BY DEF Exchanging, SInv, LInv, IInv, TypeOK
<1>2. /\ d \in Datagrams /\ InFlight' = InFlight \cup {d}
      /\ \A e \in InFlight : e.arrival < d.arrival
  BY <1>1, ArrivalJoins DEF Datagrams
<1>3. IsFrame(d) => Id(d) = Now
  BY DEF IsFrame, Id, Now, Noise, Frame
<1>4. /\ UNCHANGED <<sending, last_frame_count>> /\ Now' = Now
  BY Zenon DEF Arrive, replyVars, seqVars, Now
<1> QED
  BY <1>1, <1>2, <1>3, <1>4, SlotKept, ClassGrows

(* The reply the peer reads was for the frame it waits on, which the       *)
(* simulator has staged, or whose count it takes for a repeat.             *)
LEMMA ClassReceive ==
  ASSUME Exchanging, ClassInv, PeerReceive, InFlight' = InFlight, Staged' = Staged
  PROVE  ClassInv'
<1>1. inbox # <<>> /\ session' = session /\ peer_n' \in {peer_n, peer_n + 1}
  BY DEF PeerReceive
<1>2. CASE peer_n' = peer_n
  BY <1>1, <1>2, ClassShrinks DEF Now
<1>3. CASE peer_n' = peer_n + 1
  <2> DEFINE g == Staged
  <2>1. /\ session \in Nat /\ peer_n \in Nat /\ g[1] \in Int /\ g[2] \in Int
    BY ClassTypes DEF Exchanging, SInv, LInv, PeerInv, Sessions, Idents
  <2>2. /\ last_frame_count = peer_n % FrameCountMod
        /\ \A d \in InFlight : IsFrame(d) => Id(d) = Now
    BY <1>1 DEF Exchanging, ExInv, AnswersCurrent
  <2>3. peer_n % FrameCountMod = g[2] % FrameCountMod
    <3>1. last_frame_count # NoFrameCount
      BY <2>1, <2>2, NextCount DEF FrameCounts, NoFrameCount
    <3> QED
      BY <2>2, <3>1 DEF Exchanging, SInv, CountInv
  <2>4. Now = <<session, peer_n>> /\ Now' = <<session, peer_n + 1>>
    BY <1>1, <1>3 DEF Now
  <2>5. Follows(Now, g)
    BY DEF ClassInv
  <2> HIDE DEF g
  <2>6. Follows(Now', g)
    <3>1. CASE session = g[1] /\ peer_n = g[2]
      BY <2>1, <2>4, <3>1 DEF Follows, OneOn
    <3>2. CASE session = g[1] /\ peer_n = g[2] + 1
      <4>1. peer_n % FrameCountMod # g[2] % FrameCountMod
        <5>1. /\ g[2] % FrameCountMod \in FrameCounts
              /\ (g[2] + 1) % FrameCountMod =
                   IF g[2] % FrameCountMod = FrameCountMod - 1 THEN 0
                                                              ELSE (g[2] % FrameCountMod) + 1
          BY <2>1, NextCount
        <5>2. (g[2] + 1) % FrameCountMod # g[2] % FrameCountMod
          BY <5>1 DEF FrameCounts
        <5> QED
          BY <3>2, <5>2
      <4> QED
        BY <2>3, <4>1
    <3>3. CASE session > g[1] /\ peer_n = 0
      <4>1. 0 % FrameCountMod = 0
        BY SmallRemainder
      <4>2. g[2] % FrameCountMod = 0
        BY <2>3, <3>3, <4>1
      <4> QED
        BY <2>4, <3>3, <4>2 DEF Follows
    <3>4. CASE session > g[1] /\ peer_n = 1 /\ g[2] % FrameCountMod = 0
      <4>1. 1 % FrameCountMod = 1
        BY SmallRemainder
      <4> QED
        BY <2>3, <3>4, <4>1
    <3> QED
      BY <2>4, <2>5, <3>1, <3>2, <3>3, <3>4 DEF Follows, OneOn
  <2>7. OneOn(Now', Now) /\ OneOn(Now, Now)
    BY <2>1, <2>4 DEF OneOn
  <2>8. \A d \in InFlight' : IsFrame(d) => Id(d) = Now
    BY <2>2
  <2>9. Follows(Now', Staged') /\ Follows(Now, Staged')
    BY <2>5, <2>6 DEF g
  <2> HIDE DEF Now, Staged, IsFrame, Id, Follows, OneOn
  <2> QED
    BY <2>7, <2>8, <2>9 DEF ClassInv
<1> QED
  BY <1>1, <1>2, <1>3

(* A restarted peer begins at 0, after everything that is under way. *)
LEMMA ClassReboot ==
  ASSUME Exchanging, ClassInv, PeerReboot, InFlight' = InFlight, Staged' = Staged
  PROVE  ClassInv'
<1>1. session \in Nat /\ Now' = <<session + 1, 0>> /\ Now = <<session, peer_n>>
  BY DEF PeerReboot, Now, Exchanging, SInv, LInv, PeerInv, Sessions
<1>2. \A f \in Idents : NotAfter(f, Now) => OneOn(Now', f)
  BY <1>1 DEF Idents, NotAfter, OneOn
<1>3. Follows(Now', Staged')
  BY <1>2, ClassTypes DEF Follows
<1>4. \A d \in InFlight' : d \in InFlight /\ (IsFrame(d) => Follows(Id(d), Staged') /\ OneOn(Now', Id(d)))
  BY <1>2, ClassTypes DEF ClassInv
<1> HIDE DEF Now, Staged, IsFrame, Id, Follows, OneOn
<1> QED
  BY <1>3, <1>4 DEF ClassInv

LEMMA ClassPeer ==
  ASSUME Exchanging, ClassInv, PeerStep \/ PeerImpatient \/ StrayArrives \/ PeerReboot
  PROVE  ClassInv'
<1>1. ASSUME UNCHANGED endpointVars, UNCHANGED slotVars
      PROVE  InFlight' = InFlight /\ Staged' = Staged
  <2>1. /\ UNCHANGED <<socket, rx_pc, rx_local, mail, seq, consumed_seq>>
        /\ UNCHANGED <<has_pending_input, pending, tick_pc, last_stepped, sending,
                       last_frame_count>>
    BY <1>1, Zenon DEF endpointVars, slotVars, kernelVars, rxVars, boxVars, seqVars, replyVars
  <2> QED
    BY <2>1, NothingMoves, SlotKept DEF Exchanging
<1>2. ASSUME ToSimulator, peer_n < MaxFrames, UNCHANGED <<slotVars, session, peer_n>>
      PROVE  ClassInv'
  <2>1. CASE Arrive(Frame(session, peer_n), session)
    BY <1>2, <2>1, FramesAreContent, ClassArrival DEF Exchanging, SInv, LInv, slotVars
  <2>2. CASE UNCHANGED endpointVars
    BY <1>1, <1>2, <2>2, ClassShrinks DEF Now
  <2> QED
    BY <1>2, <2>1, <2>2 DEF ToSimulator
<1>3. CASE PeerSend
  BY <1>2, <1>3, Zenon DEF PeerSend
<1>4. CASE PeerTimeout
  <2>1. peer_n < MaxFrames
    BY <1>4 DEF PeerTimeout, Exchanging, SInv, LInv, PeerInv
  <2> QED
    BY <1>2, <1>4, <2>1, Zenon DEF PeerTimeout, peerVars
<1>5. CASE PeerImpatient
  <2>1. peer_n < MaxFrames
    BY <1>5 DEF PeerImpatient, Exchanging, SInv, LInv, PeerInv
  <2> QED
    BY <1>5, <2>1, FramesAreContent, ClassArrival
       DEF PeerImpatient, peerVars, slotVars, Exchanging, SInv, LInv
<1>6. CASE StrayArrives
  BY <1>6, NoiseIsContent, ClassArrival DEF StrayArrives, peerVars, slotVars
<1>7. CASE PeerReceive
  BY <1>1, <1>7, ClassReceive, Zenon DEF PeerReceive
<1>8. CASE PeerReboot
  BY <1>1, <1>8, ClassReboot, Zenon DEF PeerReboot
<1> QED
  BY <1>3, <1>4, <1>5, <1>6, <1>7, <1>8 DEF PeerStep

LEMMA NextClassInv ==
  ASSUME Exchanging, ClassInv, [Next]_vars PROVE ClassInv'
<1>1. SInv /\ LInv'
  BY NextLInv DEF Exchanging, SInv
<1>2. CASE PollDuplicate \/ PollBad
  BY <1>1, <1>2, OrderPolled, ClassShrinks
<1>3. CASE Step \/ Reply \/ EndReply
  BY <1>1, <1>3, OrderServed, ClassShrinks
<1>4. CASE RxStep \/ Despawn \/ Despawned \/ UNCHANGED vars
  BY <1>1, <1>4, OthersKeep, ClassShrinks
<1>5. CASE PeerStep \/ PeerImpatient \/ StrayArrives \/ PeerReboot
  BY <1>5, ClassPeer
<1>6. CASE PollFresh
  BY <1>6, ClassFresh
<1> QED
  BY <1>2, <1>3, <1>4, <1>5, <1>6 DEF Next, TickStep

LEMMA InitClassInv == Init => ClassInv
<1> SUFFICES ASSUME Init PROVE ClassInv
  OBVIOUS
<1>1. /\ has_pending_input = FALSE /\ last_stepped = <<0, -1>>
      /\ session = 0 /\ peer_n = 0
      /\ socket = <<>> /\ rx_pc = "check" /\ seq = 0 /\ consumed_seq = 0
  BY Zenon DEF Init, EndpointInit
<1>2. InFlight = {}
  <2>1. \A i \in 1 .. Len(socket) : FALSE
    BY <1>1
  <2> QED
    BY <1>1, <2>1 DEF InFlight, Underway, HasNew
<1>3. Staged = <<0, -1>> /\ Now = <<0, 0>>
  BY <1>1 DEF Staged, Now
<1>4. Follows(Now, Staged)
  BY <1>3 DEF Follows, OneOn
<1> QED
  BY <1>2, <1>4 DEF ClassInv

(* A fresh frame's count, after the one before it or a later session's. *)
LEMMA SequenceTells ==
  ASSUME NEW f \in Idents, NEW g \in Idents, Follows(f, g), Later(f, g), g[2] \in Nat
  PROVE  LET count == f[2] % FrameCountMod
             st    == Sequence(count, g[2] % FrameCountMod)
         IN /\ st # "Gap"
            /\ f[1] > g[1] \/ (f[1] = g[1] /\ f[2] = g[2] + 1)
            /\ f[1] = g[1] /\ st = "Reboot" => count = 0
<1> DEFINE last == g[2] % FrameCountMod
           count == f[2] % FrameCountMod
<1>1. /\ last \in FrameCounts /\ last # NoFrameCount /\ last \in Int
      /\ count \in FrameCounts /\ count \in Int
  <2>1. g[2] \in Int /\ f[2] \in Int
    BY DEF Idents
  <2>2. last \in FrameCounts /\ count \in FrameCounts
    BY <2>1, NextCount
  <2> QED
    BY <2>2 DEF FrameCounts, NoFrameCount
<1>2. (last + 1) % FrameCountMod = IF last = FrameCountMod - 1 THEN 0 ELSE last + 1
  <2>1. CASE last = FrameCountMod - 1
    <3>1. FrameCountMod = FrameCountMod * 1 + 0 /\ last + 1 = FrameCountMod
      BY <1>1, <2>1, Z3 DEF FrameCounts
    <3>2. (FrameCountMod * 1 + 0) % FrameCountMod = 0
      BY RemainderOf
    <3> QED
      BY <2>1, <3>1, <3>2
  <2>2. CASE last # FrameCountMod - 1
    <3>1. last + 1 \in 0 .. FrameCountMod - 1
      BY <1>1, <2>2 DEF FrameCounts
    <3> QED
      BY <2>2, <3>1, SmallRemainder
  <2> QED
    BY <2>1, <2>2
<1>3. CASE f[1] = g[1]
  <2>1. f[2] = g[2] + 1
    BY <1>3 DEF Follows, OneOn, Later, Idents
  <2>2. count = IF last = FrameCountMod - 1 THEN 0 ELSE last + 1
    BY <2>1, NextCount DEF Idents
  <2> HIDE DEF last, count
  <2>3. count = (last + 1) % FrameCountMod
    BY <1>2, <2>2
  <2>4. Sequence(count, last) # "Gap"
    BY <1>1, <2>3 DEF Sequence
  <2>5. Sequence(count, last) = "Reboot" => count = 0
    BY <1>1, <2>2 DEF Sequence, FrameCounts
  <2> QED
    BY <1>3, <2>1, <2>4, <2>5 DEF last, count
<1>4. CASE f[1] > g[1]
  <2>1. f[1] # g[1] /\ (f[2] = 0 \/ (f[2] = 1 /\ last = 0))
    BY <1>4 DEF Follows, OneOn, Idents
  <2>2. 0 % FrameCountMod = 0 /\ 1 % FrameCountMod = 1
    BY SmallRemainder
  <2>3. count = 0 \/ (count = 1 /\ last = 0)
    BY <2>1, <2>2
  <2> HIDE DEF last, count
  <2>4. Sequence(count, last) # "Gap"
    <3>1. CASE count = 0
      BY <1>1, <3>1 DEF Sequence, FrameCounts
    <3>2. CASE count = 1 /\ last = 0
      <4>1. (0 + 1) % FrameCountMod = 1
        BY <2>2
      <4> QED
        BY <1>1, <3>2, <4>1 DEF Sequence
    <3> QED
      BY <2>3, <3>1, <3>2
  <2> QED
    BY <1>4, <2>1, <2>4 DEF last, count
<1> QED
  BY <1>3, <1>4 DEF Follows, OneOn

(* The count stepped last again: the same frame, as its successor's count  *)
(* is another one, or the first frame of a later session.                  *)
LEMMA RepeatTells ==
  ASSUME NEW f \in Idents, NEW g \in Idents, Follows(f, g), g[2] \in Int,
         f[2] % FrameCountMod = g[2] % FrameCountMod
  PROVE  f = g \/ (f[1] > g[1] /\ f[2] = 0)
<1> DEFINE last == g[2] % FrameCountMod
<1>1. last \in FrameCounts /\ last \in Int
  <2>1. last \in FrameCounts
    BY NextCount
  <2> HIDE DEF last
  <2> QED
    BY <2>1 DEF FrameCounts
<1>2. (g[2] + 1) % FrameCountMod # last
  <2>1. (g[2] + 1) % FrameCountMod = IF last = FrameCountMod - 1 THEN 0 ELSE last + 1
    BY NextCount
  <2> HIDE DEF last
  <2> QED
    BY <1>1, <2>1, FrameCountAssumption
<1>3. 0 % FrameCountMod = 0 /\ 1 % FrameCountMod = 1
  BY SmallRemainder, FrameCountAssumption
<1>4. CASE f[1] = g[1]
  <2>1. f[2] \in {g[2], g[2] + 1}
    BY <1>4 DEF Follows, OneOn, Idents
  <2>2. f[2] = g[2]
    BY <1>2, <2>1
  <2> QED
    BY <1>4, <2>2 DEF Idents
<1>5. CASE f[1] # g[1]
  <2>1. f[1] > g[1] /\ (f[2] = 0 \/ (f[2] = 1 /\ last = 0))
    BY <1>5 DEF Follows, OneOn, Idents
  <2>2. ~(f[2] = 1 /\ last = 0)
    BY <1>3
  <2> QED
    BY <2>1, <2>2
<1> QED
  BY <1>4, <1>5

(* What the classification says of a frame is what happened to its sender, *)
(* for any counter width, where the re-send timeout is longer than a round *)
(* trip: Ok is the next frame or a restart, Reboot a restart or the wrap,  *)
(* Duplicate the frame stepped last or a restart at its count, and a Gap   *)
(* never happens, whatever is lost, repeated or restarted.                 *)
THEOREM ClassificationIsTruthful ==
  ASSUME RxPrompt
  PROVE  Spec => ClassificationTruthful
<1> DEFINE Inv == Exchanging /\ ClassInv
           Truth(c, st) ==
             /\ st # "Gap"
             /\ st = "Ok" => \/ c.session = last_stepped[1] /\ c.n = last_stepped[2] + 1
                             \/ c.session > last_stepped[1]
             /\ st = "Reboot" => \/ c.session > last_stepped[1]
                                 \/ c.frame_count = 0 /\ c.n = last_stepped[2] + 1
           Repeat(c) == \/ <<c.session, c.n>> = last_stepped
                        \/ c.session > last_stepped[1] /\ c.n = 0
           f == Id(mail)
<1>1. Init => Inv
  BY InitSInv, InitExInv, InitClassInv DEF Exchanging
<1>2. Inv /\ [Next]_vars => Inv'
  BY NextExchanging, NextClassInv
<1>3. ASSUME Inv, TakeLatest, ~has_pending_input, IsFrame(mail)
      PROVE  /\ f \in Idents /\ Follows(f, last_stepped) /\ last_stepped \in Idents
             /\ f[1] = mail.content.session /\ f[2] = mail.content.n
  <2>1. SInv /\ Staged = last_stepped
    BY <1>3 DEF Exchanging, Staged
  <2>2. mail \in InFlight
    BY <1>3, <2>1, TakeLeaves, ClassTypes
  <2> QED
    BY <1>3, <2>1, <2>2, ClassTypes DEF ClassInv, Id
<1>4. ASSUME SInv, TakeLatest, ~has_pending_input, last_frame_count # NoFrameCount
      PROVE  /\ last_stepped[2] \in Nat
             /\ last_frame_count = last_stepped[2] % FrameCountMod
             /\ mail.content \in Content
  <2>1. mail \in Datagrams
    BY <1>4, SInvTypes, TakeLeaves DEF SInv
  <2> QED
    BY <1>4, <2>1, IdType DEF SInv, CountInv, Staged
<1>5. ASSUME Inv, PollFresh, last_frame_count # NoFrameCount
      PROVE  Truth(mail.content, Parse(mail.content, last_frame_count))
  <2> DEFINE c == mail.content
  <2>1. TakeLatest /\ ~has_pending_input /\ Parse(c, last_frame_count) \in Steppable
    BY <1>5 DEF PollFresh, MayPoll
  <2>2. SInv /\ Staged = last_stepped
    BY <1>5, <2>1 DEF Exchanging, Staged
  <2>3. IsFrame(mail) /\ Later(f, last_stepped)
    BY <2>1, <2>2, FreshIsLater
  <2>4. /\ f \in Idents /\ Follows(f, last_stepped) /\ last_stepped \in Idents
        /\ f[1] = c.session /\ f[2] = c.n
    BY <1>3, <1>5, <2>1, <2>3
  <2>5. /\ last_stepped[2] \in Nat
        /\ last_frame_count = last_stepped[2] % FrameCountMod
        /\ c \in Content
    BY <1>4, <1>5, <2>1, <2>2
  <2>6. /\ c.frame_count = c.n % FrameCountMod
        /\ Parse(c, last_frame_count) = Sequence(c.frame_count, last_frame_count)
    BY <2>1, <2>5, ContentFacts DEF Steppable
  <2> HIDE DEF c, f
  <2>7. /\ Parse(c, last_frame_count) # "Gap"
        /\ f[1] > last_stepped[1] \/ (f[1] = last_stepped[1] /\ f[2] = last_stepped[2] + 1)
        /\ f[1] = last_stepped[1] /\ Parse(c, last_frame_count) = "Reboot" => c.frame_count = 0
    BY <2>3, <2>4, <2>5, <2>6, SequenceTells
  <2>8. Truth(c, Parse(c, last_frame_count))
    BY <2>4, <2>7
  <2> QED
    BY <2>8 DEF c
<1>6. ASSUME Inv, PollDuplicate PROVE Repeat(mail.content)
  <2> DEFINE c == mail.content
  <2>1. TakeLatest /\ ~has_pending_input /\ Parse(c, last_frame_count) = "Duplicate"
    BY <1>6 DEF PollDuplicate, MayPoll
  <2>2. SInv
    BY <1>6 DEF Exchanging
  <2>3. c \in Content
    <3>1. mail \in Datagrams
      BY <2>1, <2>2, SInvTypes, TakeLeaves DEF SInv
    <3> QED
      BY <3>1, IdType
  <2>4. /\ c.session # Stray /\ c.n \in Int /\ c.frame_count = c.n % FrameCountMod
        /\ Sequence(c.frame_count, last_frame_count) = "Duplicate"
    BY <2>1, <2>3, ContentFacts
  <2>5. last_frame_count # NoFrameCount /\ c.frame_count = last_frame_count
    <3>1. last_frame_count # NoFrameCount
      BY <2>4 DEF Sequence
    <3>2. last_stepped[2] \in Int /\ last_frame_count = last_stepped[2] % FrameCountMod
      BY <1>4, <2>1, <2>2, <3>1
    <3>3. last_frame_count \in FrameCounts /\ c.frame_count \in FrameCounts
      BY <2>4, <3>2, NextCount
    <3> QED
      BY <2>4, <3>1, <3>3 DEF Sequence, FrameCounts
  <2>6. IsFrame(mail)
    BY <2>4 DEF IsFrame
  <2>7. /\ f \in Idents /\ Follows(f, last_stepped) /\ last_stepped \in Idents
        /\ f[1] = c.session /\ f[2] = c.n
    BY <1>3, <1>6, <2>1, <2>6
  <2>8. /\ last_stepped[2] \in Nat
        /\ last_frame_count = last_stepped[2] % FrameCountMod
    BY <1>4, <2>1, <2>2, <2>5
  <2>9. f = last_stepped \/ (f[1] > last_stepped[1] /\ f[2] = 0)
    BY <2>4, <2>5, <2>7, <2>8, RepeatTells
  <2> QED
    BY <2>7, <2>9 DEF Id
<1>7. Inv /\ [Next]_vars =>
        [LET c == mail.content
             st == Parse(c, last_frame_count)
         IN /\ PollFresh /\ last_frame_count # NoFrameCount =>
                 /\ st # "Gap"
                 /\ st = "Ok" => \/ c.session = last_stepped[1] /\ c.n = last_stepped[2] + 1
                                 \/ c.session > last_stepped[1]
                 /\ st = "Reboot" => \/ c.session > last_stepped[1]
                                     \/ c.frame_count = 0 /\ c.n = last_stepped[2] + 1
            /\ PollDuplicate => \/ <<c.session, c.n>> = last_stepped
                                \/ c.session > last_stepped[1] /\ c.n = 0]_vars
  BY <1>5, <1>6
<1> QED
  BY <1>1, <1>2, <1>7, PTL DEF Spec, ClassificationTruthful

-----------------------------------------------------------------------------
(* The desync bound.  A frame may be in flight several times, and each     *)
(* copy may be answered; the peer counts one frame further with each       *)
(* answer.  So the copies are counted: among a set of datagrams, those     *)
(* whose frame number is there already, or is b, the frame stepped last.   *)
Numbers(M) == {d.content.n : d \in M}
Extra(M, b) == Cardinality(M) - Cardinality(Numbers(M) \ {b})

LEMMA NumbersFinite ==
  ASSUME NEW M, IsFiniteSet(M)
  PROVE  IsFiniteSet(Numbers(M)) /\ Cardinality(Numbers(M)) <= Cardinality(M)
<1> DEFINE f == [d \in M |-> d.content.n]
<1>1. f \in Surjection(M, Numbers(M))
  BY DEF Surjection, Numbers
<1> QED
  BY <1>1, FS_Surjection

LEMMA ExtraType ==
  ASSUME NEW M, IsFiniteSet(M), NEW b
  PROVE  Extra(M, b) \in Nat
<1>1. /\ IsFiniteSet(Numbers(M)) /\ Cardinality(Numbers(M)) <= Cardinality(M)
  BY NumbersFinite
<1>2. /\ IsFiniteSet(Numbers(M) \ {b})
      /\ Cardinality(Numbers(M) \ {b}) <= Cardinality(Numbers(M))
  BY <1>1, FS_Subset
<1>3. /\ Cardinality(M) \in Nat /\ Cardinality(Numbers(M)) \in Nat
      /\ Cardinality(Numbers(M) \ {b}) \in Nat
  BY <1>1, <1>2, FS_CardinalityType
<1> QED
  BY <1>1, <1>2, <1>3 DEF Extra

(* One more: a repeat if its number is there. *)
LEMMA ExtraJoins ==
  ASSUME NEW M, IsFiniteSet(M), NEW d, d \notin M, NEW b
  PROVE  Extra(M \cup {d}, b) =
           Extra(M, b) + IF d.content.n \in Numbers(M) \cup {b} THEN 1 ELSE 0
<1> DEFINE n == d.content.n
           N == Numbers(M) \ {b}
<1>1. IsFiniteSet(M \cup {d}) /\ Cardinality(M \cup {d}) = Cardinality(M) + 1
  BY FS_AddElement
<1>2. IsFiniteSet(N)
  BY NumbersFinite, FS_Subset
<1>3. Cardinality(M) \in Nat /\ Cardinality(N) \in Nat
  BY <1>2, FS_CardinalityType
<1>4. Numbers(M \cup {d}) = Numbers(M) \cup {n}
  BY DEF Numbers
<1>5. CASE n \in Numbers(M) \cup {b}
  <2>1. Numbers(M \cup {d}) \ {b} = N
    BY <1>4, <1>5
  <2>2. /\ Extra(M \cup {d}, b) = Cardinality(M \cup {d}) - Cardinality(N)
        /\ Extra(M, b) = Cardinality(M) - Cardinality(N)
    BY <2>1 DEF Extra
  <2> HIDE DEF N
  <2> QED
    BY <1>1, <1>3, <1>5, <2>2
<1>6. CASE n \notin Numbers(M) \cup {b}
  <2>1. Numbers(M \cup {d}) \ {b} = N \cup {n} /\ n \notin N
    BY <1>4, <1>6
  <2>2. Cardinality(N \cup {n}) = Cardinality(N) + 1
    BY <1>2, <2>1, FS_AddElement
  <2>3. /\ Extra(M \cup {d}, b) = Cardinality(M \cup {d}) - Cardinality(N \cup {n})
        /\ Extra(M, b) = Cardinality(M) - Cardinality(N)
    BY <2>1 DEF Extra
  <2> HIDE DEF N
  <2> QED
    BY <1>1, <1>3, <1>6, <2>2, <2>3
<1> QED
  BY <1>5, <1>6

(* Fewer: never more repeats. *)
LEMMA ExtraShrinks ==
  ASSUME NEW M, IsFiniteSet(M), NEW L, L \subseteq M, NEW b
  PROVE  Extra(L, b) <= Extra(M, b)
<1> DEFINE R == M \ L
           A == Numbers(L) \ {b}
           B == Numbers(R) \ {b}
           C == Numbers(M) \ {b}
<1>1. IsFiniteSet(L) /\ IsFiniteSet(R)
  BY FS_Subset
<1>2. /\ IsFiniteSet(Numbers(R)) /\ Cardinality(Numbers(R)) <= Cardinality(R)
      /\ IsFiniteSet(Numbers(L)) /\ IsFiniteSet(Numbers(M))
  BY <1>1, NumbersFinite
<1>3. /\ IsFiniteSet(A) /\ IsFiniteSet(B) /\ IsFiniteSet(C)
      /\ Cardinality(B) <= Cardinality(Numbers(R))
  BY <1>2, FS_Subset
<1>4. Cardinality(M) = Cardinality(L) + Cardinality(R)
  <2>1. L \cup R = M /\ L \cap R = {}
    OBVIOUS
  <2>2. Cardinality(L \cup R) = Cardinality(L) + Cardinality(R) - Cardinality(L \cap R)
    BY <1>1, FS_Union
  <2>3. Cardinality(L) \in Nat /\ Cardinality(R) \in Nat /\ Cardinality({}) = 0
    BY <1>1, FS_CardinalityType, FS_EmptySet
  <2>4. Cardinality(M) = Cardinality(L) + Cardinality(R) - 0
    BY <2>1, <2>2, <2>3
  <2> QED
    BY <2>3, <2>4
<1>5. Cardinality(C) <= Cardinality(A) + Cardinality(B)
  <2>1. C \subseteq A \cup B
    BY DEF Numbers
  <2>2. /\ IsFiniteSet(A \cup B)
        /\ Cardinality(A \cup B) = Cardinality(A) + Cardinality(B) - Cardinality(A \cap B)
    BY <1>3, FS_Union
  <2>3. Cardinality(C) <= Cardinality(A \cup B)
    BY <2>1, <2>2, FS_Subset
  <2>4. IsFiniteSet(A \cap B)
    BY <1>3, FS_Subset
  <2>5. /\ Cardinality(A) \in Nat /\ Cardinality(B) \in Nat /\ Cardinality(A \cap B) \in Nat
        /\ Cardinality(C) \in Nat /\ Cardinality(A \cup B) \in Nat
    BY <1>3, <2>2, <2>4, FS_CardinalityType
  <2> QED
    BY <2>2, <2>3, <2>5
<1>6. /\ Cardinality(L) \in Nat /\ Cardinality(R) \in Nat /\ Cardinality(M) \in Nat
      /\ Cardinality(A) \in Nat /\ Cardinality(B) \in Nat /\ Cardinality(C) \in Nat
      /\ Cardinality(Numbers(R)) \in Nat
  BY <1>1, <1>2, <1>3, FS_CardinalityType
<1> QED
  BY <1>2, <1>3, <1>4, <1>5, <1>6 DEF Extra

LEMMA ExtraEmpty == \A b : Extra({}, b) = 0
<1> SUFFICES ASSUME NEW b PROVE Extra({}, b) = 0
  OBVIOUS
<1>1. Numbers({}) \ {b} = {}
  BY DEF Numbers
<1>2. Extra({}, b) = Cardinality({}) - Cardinality({})
  BY <1>1 DEF Extra
<1> QED
  BY <1>2, FS_EmptySet

(* The first of them is stepped: the rest are counted from it. *)
LEMMA ExtraSteps ==
  ASSUME NEW M, IsFiniteSet(M), NEW d, d \notin M, NEW b,
         b \notin Numbers(M \cup {d})
  PROVE  Extra(M, d.content.n) = Extra(M \cup {d}, b)
<1> DEFINE n == d.content.n
           N == Numbers(M) \ {n}
<1>1. Cardinality(M \cup {d}) = Cardinality(M) + 1
  BY FS_AddElement
<1>2. IsFiniteSet(N)
  BY NumbersFinite, FS_Subset
<1>3. Cardinality(M) \in Nat /\ Cardinality(N) \in Nat
  BY <1>2, FS_CardinalityType
<1>4. Numbers(M \cup {d}) \ {b} = N \cup {n} /\ n \notin N
  BY DEF Numbers
<1>5. Cardinality(N \cup {n}) = Cardinality(N) + 1
  BY <1>2, <1>4, FS_AddElement
<1>6. /\ Extra(M, n) = Cardinality(M) - Cardinality(N)
      /\ Extra(M \cup {d}, b) = Cardinality(M \cup {d}) - Cardinality(N \cup {n})
  BY <1>4 DEF Extra
<1> HIDE DEF N
<1> QED
  BY <1>1, <1>3, <1>5, <1>6

(* Counting from nothing, or from frame 0. *)
LEMMA ExtraFromZero ==
  ASSUME NEW M, IsFiniteSet(M), -1 \notin Numbers(M)
  PROVE  Extra(M, 0) = Extra(M, -1) + IF 0 \in Numbers(M) THEN 1 ELSE 0
<1> DEFINE N == Numbers(M)
<1>1. N \ {-1} = N /\ IsFiniteSet(N)
  BY NumbersFinite
<1>2. Cardinality(N \ {0}) = IF 0 \in N THEN Cardinality(N) - 1 ELSE Cardinality(N)
  BY <1>1, FS_RemoveElement
<1>3. Cardinality(M) \in Nat /\ Cardinality(N) \in Nat
  BY <1>1, FS_CardinalityType
<1>4. /\ Extra(M, 0) = Cardinality(M) - Cardinality(N \ {0})
      /\ Extra(M, -1) = Cardinality(M) - Cardinality(N)
  BY <1>1 DEF Extra
<1> HIDE DEF N
<1>5. Extra(M, 0) = Extra(M, -1) + IF 0 \in N THEN 1 ELSE 0
  BY <1>2, <1>3, <1>4
<1> QED
  BY <1>5 DEF N

-----------------------------------------------------------------------------
Slow == MaxSlow - faults.slow

(* Frames the tick thread has not stepped yet, and those of the peer's     *)
(* present session among them.                                             *)
Unstepped == InFlight \cup (IF has_pending_input /\ tick_pc = "loop" THEN {pending} ELSE {})

Mine == {d \in Unstepped : d.content.session = session}

(* An answer the tick thread still owes to the peer's present address. *)
Due == ~sending /\ reply_addr = session /\ tick_pc \in {"reply", "resend"}

(* What the peer may yet count, when frame b is the last one stepped: the  *)
(* replies under way, one owed, one for each repeat, and one for the frame *)
(* it is about to send if that is a repeat as well.                        *)
Balance(b) ==
  peer_n + Len(inbox) + (IF Due THEN 1 ELSE 0) + Extra(Mine, b)
    + IF peer_pc = "send" /\ peer_n \in Numbers(Mine) \cup {b} THEN 1 ELSE 0

Ledger(b) == Balance(b) <= b + 1 + Slow

(* Something of the peer's present session has been answered already.      *)
Begun == peer_n > 0 \/ inbox # <<>> \/ Due

(* A restarted peer whose frame 0 was taken for the repeat of an earlier   *)
(* session's, and answered without a step.                                 *)
Repeating ==
  /\ \A d \in InFlight : IsFrame(d) => d.content.session = session
  /\ IF has_pending_input
     THEN pending.content.session = session /\ pending.content.n # 0
     ELSE last_frame_count = 0

LeadInv ==
  IF life = "open"
  THEN IF last_stepped[1] = session
       THEN Ledger(last_stepped[2])
       ELSE /\ Ledger(0)
            /\ ~Begun => Ledger(-1)
            /\ Begun => Repeating
  ELSE last_stepped[1] = session => peer_n + Len(inbox) <= last_stepped[2] + 1 + Slow

PendingInv ==
  /\ inbox \in Seq(Idents)
  /\ has_pending_input => pending = taken /\ pending.content.session = pending.from

LeadTypes == SInv /\ AddrInv /\ PeerTypes /\ PendingInv

LEMMA FlightFinite == ASSUME IInv PROVE IsFiniteSet(InFlight)
<1>1. Len(socket) \in Nat
  BY DEF IInv, TypeOK
<1>2. IsFiniteSet(1 .. Len(socket))
  BY <1>1, FS_Interval
<1> DEFINE S == {socket[i] : i \in 1 .. Len(socket)}
           f == [i \in 1 .. Len(socket) |-> socket[i]]
<1>3. IsFiniteSet(S)
  <2>1. f \in Surjection(1 .. Len(socket), S)
    BY DEF Surjection
  <2> QED
    BY <1>2, <2>1, FS_Surjection
<1>4. \A X, x : IsFiniteSet(X) => IsFiniteSet(X \cup {x})
  BY FS_AddElement
<1>5. \A X : X \cup {} = X
  OBVIOUS
<1> HIDE DEF S
<1>6. Underway = S \cup (IF rx_pc = "store" THEN {rx_local} ELSE {})
  BY DEF Underway, S
<1>7. IsFiniteSet(Underway)
  BY <1>3, <1>4, <1>5, <1>6
<1> QED
  BY <1>4, <1>5, <1>7 DEF InFlight

(* What counts as unstepped, and where it stands. *)
LEMMA MineFacts ==
  ASSUME LeadTypes
  PROVE  /\ IsFiniteSet(Mine) /\ IsFiniteSet(Unstepped) /\ Unstepped \subseteq Datagrams
         /\ \A d \in Mine : /\ d.content.n \in Nat /\ d.content.n <= peer_n
                            /\ d.from = session /\ IsFrame(d)
                            /\ d.content.frame_count = d.content.n % FrameCountMod
         /\ peer_n \in Nat /\ session \in Nat /\ session # Stray
         /\ Slow \in 0 .. MaxSlow /\ Len(inbox) \in Nat
         /\ last_stepped \in Idents
         /\ last_stepped[1] = session =>
              /\ last_stepped[2] <= peer_n
              /\ \A d \in Mine : last_stepped[2] <= d.content.n
<1>1. /\ IInv /\ peer_n \in Nat /\ session \in Nat /\ session # Stray
      /\ last_stepped \in Idents /\ Staged \in Idents /\ Now \in Idents
      /\ tick_pc \in {"loop", "resend", "reply"}
  BY SInvTypes DEF LeadTypes, SInv, LInv, PeerInv, Sessions, Stray, TickInv
<1>2. Slow \in 0 .. MaxSlow /\ Len(inbox) \in Nat
  <2>1. inbox \in Seq(Idents)
    BY DEF LeadTypes, PendingInv
  <2>2. faults.slow \in 0 .. MaxSlow
    BY Zenon DEF LeadTypes, PeerTypes
  <2>3. MaxSlow \in Nat
    OBVIOUS
  <2> QED
    BY <2>1, <2>2, <2>3 DEF Slow
<1>3. IsFiniteSet(Unstepped)
  <2>1. \A X, x : IsFiniteSet(X) => IsFiniteSet(X \cup {x})
    BY FS_AddElement
  <2>2. \A X : X \cup {} = X
    OBVIOUS
  <2> QED
    BY <1>1, <2>1, <2>2, FlightFinite DEF Unstepped
<1>4. IsFiniteSet(Mine)
  BY <1>3, FS_Subset DEF Mine
<1>5. \A d \in InFlight : d \in Datagrams /\ d.from = d.content.session
  BY <1>1, FlightTypes DEF LeadTypes, AddrInv
<1>6. has_pending_input => /\ pending \in Datagrams /\ IsFrame(pending) /\ Staged = Id(pending)
                           /\ pending.from = pending.content.session
  BY DEF LeadTypes, SInv, TickInv, PendingInv, Staged
<1>7. /\ \A d \in InFlight : IsFrame(d) => NotAfter(Staged, Id(d)) /\ NotAfter(Id(d), Now)
      /\ NotAfter(Staged, Now)
  BY DEF LeadTypes, SInv, OrderInv
<1>8. NotAfter(last_stepped, Staged)
  <2>1. CASE has_pending_input
    BY <1>1, <1>6, <2>1, IdentOrder DEF LeadTypes, SInv, TickInv
  <2>2. CASE ~has_pending_input
    BY <1>1, <2>2, IdentOrder DEF Staged
  <2> QED
    BY <2>1, <2>2
<1>9. ASSUME NEW d \in Mine
      PROVE  /\ d \in Datagrams /\ IsFrame(d) /\ d.from = session /\ Id(d)[1] = session
             /\ NotAfter(Staged, Id(d)) /\ NotAfter(Id(d), Now)
  <2>1. d.content.session = session /\ IsFrame(d)
    BY <1>1 DEF Mine, IsFrame
  <2>2. CASE d \in InFlight
    BY <1>5, <1>7, <2>1, <2>2 DEF Id
  <2>3. CASE d = pending /\ has_pending_input
    BY <1>1, <1>6, <1>7, <2>1, <2>3, IdentOrder DEF Id
  <2> QED
    BY <2>2, <2>3 DEF Mine, Unstepped
<1>10. \A d \in Mine : d.content.n \in Nat /\ d.content.frame_count = d.content.n % FrameCountMod
  BY <1>9, IdType, ContentFacts DEF IsFrame
<1>11. \A d \in Mine : d.content.n <= peer_n
  BY <1>1, <1>9, <1>10 DEF NotAfter, Now, Id
<1>12. last_stepped[1] = session =>
         /\ last_stepped[2] <= peer_n
         /\ \A d \in Mine : last_stepped[2] <= d.content.n
  <2> SUFFICES ASSUME last_stepped[1] = session
               PROVE  /\ last_stepped[2] <= peer_n
                      /\ \A d \in Mine : last_stepped[2] <= d.content.n
    OBVIOUS
  <2>1. NotAfter(last_stepped, Now)
    BY <1>1, <1>7, <1>8, IdentOrder
  <2>2. \A d \in Mine : NotAfter(last_stepped, Id(d)) /\ Id(d) = <<session, d.content.n>>
    <3> SUFFICES ASSUME NEW d \in Mine
                 PROVE  NotAfter(last_stepped, Id(d)) /\ Id(d) = <<session, d.content.n>>
      OBVIOUS
    <3>1. Id(d) \in Idents /\ NotAfter(Staged, Id(d))
      BY <1>9, IdType
    <3>2. Id(d) = <<session, d.content.n>>
      BY <1>9 DEF Id
    <3> QED
      BY <1>1, <1>8, <3>1, <3>2, IdentOrder
  <2> QED
    BY <1>1, <1>10, <2>1, <2>2 DEF NotAfter, Now, Idents
<1>13. Unstepped \subseteq Datagrams
  BY <1>5, <1>6 DEF Unstepped
<1>14. \A d \in Mine : /\ d.content.n \in Nat /\ d.content.n <= peer_n
                       /\ d.from = session /\ IsFrame(d)
                       /\ d.content.frame_count = d.content.n % FrameCountMod
  BY <1>9, <1>10, <1>11
<1> HIDE DEF Mine, Unstepped, Slow, Idents
<1> QED
  BY <1>1, <1>2, <1>3, <1>4, <1>12, <1>13, <1>14

LEMMA LeadBounds == ASSUME LeadTypes, LeadInv PROVE DesyncBounded
<1>1. /\ IsFiniteSet(Mine) /\ peer_n \in Nat /\ Len(inbox) \in Nat /\ Slow \in Nat
      /\ last_stepped[2] \in Int
  BY MineFacts DEF Idents
<1>2. Extra(Mine, last_stepped[2]) \in Nat
  BY <1>1, ExtraType
<1>3. ASSUME last_stepped[1] = session PROVE peer_n <= last_stepped[2] + 1 + Slow
  <2>1. CASE life = "open"
    BY <1>1, <1>2, <1>3, <2>1 DEF LeadInv, Ledger, Balance
  <2>2. CASE life # "open"
    BY <1>1, <1>3, <2>2 DEF LeadInv
  <2> QED
    BY <2>1, <2>2
<1> QED
  BY <1>3 DEF DesyncBounded, Slow

-----------------------------------------------------------------------------
LEMMA AddrKept ==
  ASSUME SInv, AddrInv, InFlight' \subseteq InFlight, UNCHANGED <<taken, reply_addr>>,
         session' \in {session, session + 1}
  PROVE  AddrInv'
<1>1. session \in Nat /\ (reply_addr # NoAddr => taken \in Datagrams)
  BY DEF SInv, LInv, PeerInv, Sessions, AddrInv
<1>2. reply_addr # NoAddr => reply_addr \in Int
  BY <1>1, IdType DEF AddrInv, Id, Idents
<1> QED
  BY <1>1, <1>2 DEF AddrInv

LEMMA AddrTaken ==
  ASSUME SInv, AddrInv, TakeLatest, session' = session
  PROVE  AddrInv'
<1>1. /\ InFlight' = Underway /\ mail \in InFlight /\ mail \in Datagrams
      /\ \A d \in Underway : d \in InFlight
      /\ taken' = mail /\ reply_addr' = mail.from
  BY SInvTypes, TakeLeaves DEF SInv
<1>2. mail.from = mail.content.session /\ mail.content.session <= session
  BY <1>1, FlightFrames DEF AddrInv
<1> QED
  BY <1>1, <1>2 DEF AddrInv

LEMMA AddrArrives ==
  ASSUME SInv, AddrInv, NEW c, NEW s, Arrive(c, s), c.session = s, session' = session
  PROVE  AddrInv'
<1>1. /\ InFlight' = InFlight \cup {[content |-> c, from |-> s, arrival |-> arrived + 1]}
      /\ UNCHANGED <<taken, reply_addr>>
  BY ArrivalJoins DEF SInv, LInv, Arrive, seqVars
<1> QED
  BY <1>1 DEF AddrInv

LEMMA TypesInit == Init => LeadTypes
<1> SUFFICES ASSUME Init PROVE LeadTypes
  OBVIOUS
<1>1. /\ socket = <<>> /\ rx_pc = "check" /\ seq = 0 /\ consumed_seq = 0
      /\ reply_addr = NoAddr /\ peer_pc = "send" /\ inbox = <<>>
      /\ faults = [loss |-> MaxLosses, stray |-> MaxStrays, slow |-> MaxSlow]
      /\ has_pending_input = FALSE
  BY Zenon DEF Init, EndpointInit
<1>2. InFlight = {}
  <2>1. \A i \in 1 .. Len(socket) : FALSE
    BY <1>1
  <2> QED
    BY <1>1, <2>1 DEF InFlight, Underway, HasNew
<1>3. AddrInv
  BY <1>1, <1>2 DEF AddrInv
<1>4. PeerTypes
  BY <1>1 DEF PeerTypes
<1>5. PendingInv
  BY <1>1, EmptySeq DEF PendingInv
<1> QED
  BY <1>3, <1>4, <1>5, InitSInv DEF LeadTypes

LEMMA TypesNext == ASSUME LeadTypes, [Next]_vars PROVE LeadTypes'
<1> USE DEF LeadTypes
<1>1. SInv'
  BY NextSInv
<1>2. ASSUME ToSimulator, peer_n < MaxFrames, UNCHANGED <<slotVars, session, peer_n, inbox>>,
             peer_pc' \in {"send", "wait"}
      PROVE  AddrInv' /\ PeerTypes' /\ PendingInv'
  <2>1. UNCHANGED <<has_pending_input, pending, taken>>
    BY <1>2, Zenon DEF ToSimulator, Arrive, endpointVars, seqVars, slotVars
  <2>2. PendingInv'
    BY <1>2, <2>1 DEF PendingInv
  <2>3. AddrInv'
    <3>1. CASE Arrive(Frame(session, peer_n), session)
      <4>1. Frame(session, peer_n).session = session
        BY DEF Frame
      <4> QED
        BY <1>2, <3>1, <4>1, AddrArrives
    <3>2. CASE UNCHANGED endpointVars
      <4>1. UNCHANGED <<socket, rx_pc, rx_local, mail, seq, consumed_seq, taken, reply_addr>>
        BY <3>2 DEF endpointVars, kernelVars, rxVars, boxVars, seqVars
      <4> QED
        BY <1>2, <4>1, NothingMoves, AddrKept
    <3> QED
      BY <1>2, <3>1, <3>2 DEF ToSimulator
  <2>4. PeerTypes'
    BY <1>2 DEF ToSimulator, Spend, PeerTypes
  <2> QED
    BY <2>2, <2>3, <2>4
<1>3. CASE PollFresh \/ PollDuplicate \/ PollBad
  <2>1. /\ TakeLatest /\ UNCHANGED <<session, peer_pc, faults, inbox>> /\ ~has_pending_input
    BY <1>3, Zenon DEF PollFresh, PollDuplicate, PollBad, MayPoll, peerVars
  <2>2. has_pending_input' => pending' = mail
    BY <1>3, <2>1, Zenon DEF PollFresh, PollDuplicate, PollBad, slotVars
  <2>3. taken' = mail /\ mail.content.session = mail.from
    BY <2>1, TakeLeaves, SInvTypes DEF SInv, AddrInv
  <2>4. AddrInv' /\ PeerTypes'
    BY <2>1, AddrTaken DEF PeerTypes
  <2>5. PendingInv'
    BY <2>1, <2>2, <2>3 DEF PendingInv
  <2> QED
    BY <1>1, <2>4, <2>5
<1>4. CASE Step \/ EndReply
  <2>1. /\ UNCHANGED <<session, peer_pc, faults, inbox, taken, reply_addr, pending>>
        /\ has_pending_input' => has_pending_input
    BY <1>4 DEF Step, EndReply, MarkAnswered, endpointVars, seqVars, peerVars
  <2>2. InFlight' \subseteq InFlight
    BY <1>1, <1>4, OrderServed DEF SInv
  <2> QED
    BY <1>1, <2>1, <2>2, AddrKept DEF PeerTypes, PendingInv
<1>5. CASE Reply
  <2>1. /\ UNCHANGED <<session, peer_pc, taken, reply_addr, pending, has_pending_input>>
        /\ Deliver /\ reply_addr # NoAddr
    BY <1>5 DEF Reply, SendReply, seqVars, peerVars
  <2>2. InFlight' \subseteq InFlight
    BY <1>1, <1>5, OrderServed DEF SInv
  <2>3. <<taken.content.session, taken.content.n>> \in Idents
    BY <2>1, IdType DEF AddrInv, Id
  <2>4. inbox' \in Seq(Idents)
    <3>1. inbox' = inbox \/ inbox' = Append(inbox, <<taken.content.session, taken.content.n>>)
      BY <2>1 DEF Deliver
    <3>2. inbox \in Seq(Idents)
      BY DEF PendingInv
    <3> DEFINE x == <<taken.content.session, taken.content.n>>
    <3> HIDE DEF x
    <3>3. x \in Idents => Append(inbox, x) \in Seq(Idents)
      BY <3>2
    <3> QED
      BY <2>3, <3>1, <3>2, <3>3, Zenon DEF x
  <2>5. PeerTypes'
    BY <2>1 DEF Deliver, Spend, PeerTypes
  <2> QED
    BY <1>1, <2>1, <2>2, <2>4, <2>5, AddrKept DEF PendingInv
<1>6. CASE PeerSend
  BY <1>1, <1>2, <1>6, Zenon DEF PeerSend
<1>7. CASE PeerTimeout
  <2>1. peer_n < MaxFrames /\ peer_pc' \in {"send", "wait"}
    BY <1>7 DEF PeerTimeout, SInv, LInv, PeerInv, peerVars
  <2> QED
    BY <1>1, <1>2, <1>7, <2>1, Zenon DEF PeerTimeout, peerVars
<1>8. CASE PeerImpatient \/ StrayArrives
  <2>1. /\ UNCHANGED <<session, peer_pc, inbox, pending, has_pending_input>>
        /\ Spend("slow") \/ Spend("stray")
        /\ Arrive(Frame(session, peer_n), session) \/ Arrive(Noise, Stray)
    BY <1>8, Zenon DEF PeerImpatient, StrayArrives, slotVars, peerVars
  <2>2. Frame(session, peer_n).session = session /\ Noise.session = Stray
    BY DEF Frame, Noise
  <2>3. AddrInv' /\ taken' = taken
    BY <2>1, <2>2, AddrArrives DEF Arrive, seqVars
  <2>4. PeerTypes'
    BY <2>1 DEF Spend, PeerTypes
  <2> QED
    BY <1>1, <2>1, <2>3, <2>4 DEF PendingInv
<1>9. CASE PeerReceive \/ PeerReboot
  <2>1. /\ UNCHANGED <<socket, rx_pc, rx_local, mail, seq, consumed_seq, taken, reply_addr,
                       pending, has_pending_input, faults>>
        /\ session' \in {session, session + 1} /\ peer_pc' \in {"send", "wait"}
        /\ inbox' = <<>> \/ (inbox # <<>> /\ inbox' = Tail(inbox))
    BY <1>9 DEF PeerReceive, PeerReboot, endpointVars, kernelVars, rxVars, boxVars, seqVars,
                slotVars
  <2>2. inbox' \in Seq(Idents)
    <3>1. inbox \in Seq(Idents) /\ \A q \in Seq(Idents) : q # <<>> => Tail(q) \in Seq(Idents)
      BY DEF PendingInv
    <3> QED
      BY <2>1, <3>1, EmptySeq
  <2> QED
    BY <1>1, <2>1, <2>2, NothingMoves, AddrKept DEF PeerTypes, PendingInv
<1>10. CASE RxStep \/ Despawn \/ Despawned \/ UNCHANGED vars
  <2>1. UNCHANGED <<session, peer_pc, inbox, pending, has_pending_input, faults, taken, reply_addr>>
    BY <1>10, Zenon DEF RxStep, RxThread, RxCheckStop, RxReceive, RxTimeout, RxStore, Despawn,
     Destroy, Despawned, Close, vars, endpointVars, slotVars, seqVars, replyVars, peerVars
  <2>2. InFlight' \subseteq InFlight
    BY <1>10, OthersKeep
  <2> QED
    BY <1>1, <2>1, <2>2, AddrKept DEF PeerTypes, PendingInv
<1> QED
  BY <1>3, <1>4, <1>5, <1>6, <1>7, <1>8, <1>9, <1>10 DEF Next, TickStep, PeerStep

-----------------------------------------------------------------------------
LEMMA MineFactsNext ==
  (LeadTypes =>
    /\ IsFiniteSet(Mine) /\ Unstepped \subseteq Datagrams
    /\ peer_n \in Nat /\ Slow \in 0 .. MaxSlow /\ Len(inbox) \in Nat
    /\ last_stepped \in Idents)'
<1>1. LeadTypes =>
        /\ IsFiniteSet(Mine) /\ Unstepped \subseteq Datagrams
        /\ peer_n \in Nat /\ Slow \in 0 .. MaxSlow /\ Len(inbox) \in Nat
        /\ last_stepped \in Idents
  BY MineFacts
<1> QED
  BY <1>1, PTL

(* What a datagram leaves, or a step that has none, costs nothing. *)
LEMMA LedgerShrinks ==
  ASSUME LeadTypes, LeadTypes', Mine' \subseteq Mine, Due' => Due,
         UNCHANGED <<inbox, peer_n, peer_pc>>, faults'.slow = faults.slow,
         NEW CONSTANT b \in Int, Ledger(b)
  PROVE  Ledger(b)'
<1>1. /\ IsFiniteSet(Mine) /\ peer_n \in Nat /\ Slow \in Int /\ Len(inbox) \in Nat
      /\ IsFiniteSet(Mine')
  BY MineFacts, MineFactsNext
<1>2. /\ Extra(Mine, b) \in Nat /\ Extra(Mine', b) \in Nat
      /\ Extra(Mine', b) <= Extra(Mine, b)
  BY <1>1, ExtraType, ExtraShrinks
<1>3. Numbers(Mine') \subseteq Numbers(Mine)
  BY DEF Numbers
<1>4. Slow' = Slow
  BY DEF Slow
<1> HIDE DEF Slow, Due, Mine, Extra, Numbers
<1> DEFINE x == IF peer_pc = "send" /\ peer_n \in Numbers(Mine) \cup {b} THEN 1 ELSE 0
           y == IF peer_pc' = "send" /\ peer_n' \in Numbers(Mine') \cup {b} THEN 1 ELSE 0
           v == IF Due THEN 1 ELSE 0
           w == IF Due' THEN 1 ELSE 0
<1>5. /\ x \in {0, 1} /\ y \in {0, 1} /\ y <= x
      /\ v \in {0, 1} /\ w \in {0, 1} /\ w <= v
  BY <1>3
<1>6. /\ Balance(b) = peer_n + Len(inbox) + v + Extra(Mine, b) + x
      /\ Balance(b)' = peer_n' + Len(inbox') + w + Extra(Mine', b) + y
  BY DEF Balance
<1> HIDE DEF x, y, v, w
<1>7. PICK p \in Nat, k \in Nat, g \in Nat, h \in Nat :
        /\ p = peer_n /\ k = Len(inbox) /\ g = Extra(Mine, b) /\ h = Extra(Mine', b)
  BY <1>1, <1>2
<1>8. PICK i \in Nat, j \in Nat, e \in Nat, f \in Nat : i = x /\ j = y /\ e = v /\ f = w
  BY <1>5
<1>9. Balance(b) = p + k + e + g + i /\ Balance(b)' = p + k + f + h + j
  <2>1. Len(inbox') = Len(inbox) /\ peer_n' = peer_n
    OBVIOUS
  <2> QED
    BY <1>6, <1>7, <1>8, <2>1
<1>10. h <= g /\ j <= i /\ f <= e
  BY <1>2, <1>5, <1>7, <1>8
<1>11. p + k + f + h + j <= p + k + e + g + i
  BY <1>10
<1>12. PICK z \in Int : z = b + 1 + Slow
  BY <1>1
<1>13. p + k + e + g + i <= z
  BY <1>9, <1>12 DEF Ledger
<1>14. p + k + f + h + j <= z
  BY <1>11, <1>13
<1> QED
  BY <1>4, <1>9, <1>12, <1>14 DEF Ledger

(* A step of somebody else's, or of a datagram that is not answered. *)
LEMMA LeadAside ==
  ASSUME LeadTypes, LeadTypes', LeadInv, Mine' \subseteq Mine, Due' <=> Due,
         UNCHANGED <<inbox, peer_n, peer_pc, session, last_stepped, life>>,
         faults'.slow = faults.slow, Repeating /\ last_stepped[1] # session => Repeating'
  PROVE  LeadInv'
<1>1. last_stepped[2] \in Int
  BY MineFacts DEF Idents
<1>2. \A b \in Int : Ledger(b) => Ledger(b)'
  BY LedgerShrinks
<1>3. Begun' <=> Begun
  BY DEF Begun
<1>4. Slow' = Slow
  BY DEF Slow
<1>5. CASE life = "open"
  <2>1. CASE last_stepped[1] = session
    <3>1. PICK b \in Int : b = last_stepped[2]
      BY <1>1
    <3>2. Ledger(b) /\ b = last_stepped'[2]
      BY <1>5, <2>1, <3>1 DEF LeadInv
    <3>3. Ledger(b)'
      BY <1>2, <3>2
    <3>4. Ledger(last_stepped[2])'
      BY <3>2, <3>3 DEF Ledger, Balance
    <3> QED
      BY <1>5, <2>1, <3>4 DEF LeadInv
  <2>2. CASE last_stepped[1] # session
    <3>1. Ledger(0) /\ (~Begun => Ledger(-1)) /\ (Begun => Repeating)
      BY <1>5, <2>2 DEF LeadInv
    <3>2. Ledger(0)' /\ (~Begun' => Ledger(-1)') /\ (Begun' => Repeating')
      BY <1>2, <1>3, <2>2, <3>1
    <3> QED
      BY <1>5, <2>2, <3>2 DEF LeadInv
  <2> QED
    BY <2>1, <2>2
<1>6. CASE life # "open"
  BY <1>4, <1>6 DEF LeadInv
<1> QED
  BY <1>5, <1>6

Upcoming(b) == IF peer_pc = "send" /\ peer_n \in Numbers(Mine) \cup {b} THEN 1 ELSE 0

LEMMA BalanceParts ==
  ASSUME LeadTypes, NEW b \in Int
  PROVE  /\ Balance(b) = peer_n + Len(inbox) + (IF Due THEN 1 ELSE 0) + Extra(Mine, b)
                           + Upcoming(b)
         /\ Balance(b) \in Int /\ Extra(Mine, b) \in Nat /\ Upcoming(b) \in {0, 1}
         /\ peer_n \in Nat /\ Len(inbox) \in Nat /\ Slow \in 0 .. MaxSlow
         /\ IsFiniteSet(Mine) /\ session \in Nat
<1>1. /\ IsFiniteSet(Mine) /\ peer_n \in Nat /\ Slow \in 0 .. MaxSlow /\ Len(inbox) \in Nat
      /\ session \in Nat
  BY MineFacts
<1>2. Extra(Mine, b) \in Nat
  BY <1>1, ExtraType
<1>3. Upcoming(b) \in {0, 1}
  BY DEF Upcoming
<1>4. Balance(b) = peer_n + Len(inbox) + (IF Due THEN 1 ELSE 0) + Extra(Mine, b) + Upcoming(b)
  BY DEF Balance, Upcoming
<1> QED
  BY <1>1, <1>2, <1>3, <1>4

LEMMA BalancePartsNext ==
  ASSUME NEW CONSTANT b \in Int
  PROVE  (LeadTypes =>
         /\ Balance(b) = peer_n + Len(inbox) + (IF Due THEN 1 ELSE 0) + Extra(Mine, b)
                           + Upcoming(b)
         /\ Balance(b) \in Int /\ Extra(Mine, b) \in Nat /\ Upcoming(b) \in {0, 1}
         /\ peer_n \in Nat /\ Len(inbox) \in Nat /\ Slow \in 0 .. MaxSlow
         /\ IsFiniteSet(Mine) /\ session \in Nat)'
<1>1. LeadTypes =>
         /\ Balance(b) = peer_n + Len(inbox) + (IF Due THEN 1 ELSE 0) + Extra(Mine, b)
                           + Upcoming(b)
         /\ Balance(b) \in Int /\ Extra(Mine, b) \in Nat /\ Upcoming(b) \in {0, 1}
         /\ peer_n \in Nat /\ Len(inbox) \in Nat /\ Slow \in 0 .. MaxSlow
         /\ IsFiniteSet(Mine) /\ session \in Nat
  BY BalanceParts
<1> QED
  BY <1>1, PTL

(* Later than what was taken, and so is what will arrive. *)
LEMMA TakenIsOlder ==
  ASSUME LeadTypes
  PROVE  /\ \A d \in InFlight : d.arrival > taken.arrival /\ d.arrival <= arrived
         /\ has_pending_input => pending \notin InFlight
         /\ \A d \in Unstepped : d.arrival <= arrived
         /\ arrived \in Nat
<1>1. IInv /\ seq \in Nat /\ consumed_seq \in 0 .. seq /\ seq = mail.arrival
      /\ consumed_seq = taken.arrival
  BY DEF LeadTypes, SInv, LInv, IInv, TypeOK, Chain
<1>2. /\ \A d \in InFlight : d.arrival \in Nat /\ d.arrival <= arrived
      /\ \A d \in Underway : mail.arrival < d.arrival
      /\ arrived \in Nat
  BY <1>1, FlightTypes
<1>3. mail.arrival <= arrived
  BY <1>1 DEF IInv, TypeOK, Chain
<1>4. \A d \in InFlight : d.arrival > taken.arrival
  <2> SUFFICES ASSUME NEW d \in InFlight PROVE d.arrival > taken.arrival
    OBVIOUS
  <2>1. CASE d \in Underway
    BY <1>1, <1>2, <2>1
  <2>2. CASE d = mail /\ HasNew
    BY <1>1, <2>2 DEF HasNew
  <2> QED
    BY <2>1, <2>2 DEF InFlight
<1>5. has_pending_input => pending = taken
  BY DEF LeadTypes, PendingInv
<1>6. pending.arrival <= arrived \/ ~has_pending_input
  BY <1>1, <1>2, <1>3, <1>5
<1>7. has_pending_input => pending \notin InFlight
  <2> SUFFICES ASSUME has_pending_input, taken \in InFlight PROVE FALSE
    BY <1>5
  <2>1. taken.arrival > taken.arrival /\ taken.arrival \in Nat
    BY <1>2, <1>4
  <2> QED
    BY <2>1
<1> QED
  BY <1>2, <1>4, <1>6, <1>7 DEF Unstepped

(* A repeat that is taken is repaid by its answer. *)
LEMMA LedgerRepeats ==
  ASSUME LeadTypes, LeadTypes', NEW CONSTANT b \in Int, Ledger(b),
         mail \in Mine, mail.content.n = b, Mine' = Mine \ {mail}, ~Due,
         UNCHANGED <<inbox, peer_n, peer_pc, faults>>
  PROVE  Ledger(b)'
<1>1. /\ Balance(b) = peer_n + Len(inbox) + 0 + Extra(Mine, b) + Upcoming(b)
      /\ Balance(b) \in Int /\ Extra(Mine, b) \in Nat /\ Upcoming(b) \in {0, 1}
      /\ peer_n \in Nat /\ Len(inbox) \in Nat /\ Slow \in 0 .. MaxSlow
      /\ IsFiniteSet(Mine)
  BY BalanceParts
<1>2. /\ Balance(b)' = peer_n' + Len(inbox') + (IF Due' THEN 1 ELSE 0) + Extra(Mine', b)
                           + Upcoming(b)'
      /\ Balance(b)' \in Int /\ Extra(Mine', b) \in Nat /\ Upcoming(b)' \in {0, 1}
  BY BalancePartsNext
<1>3. Extra(Mine, b) = Extra(Mine', b) + 1
  <2>1. /\ IsFiniteSet(Mine \ {mail}) /\ mail \notin Mine \ {mail}
        /\ (Mine \ {mail}) \cup {mail} = Mine
    BY <1>1, FS_Subset
  <2>2. mail.content.n \in Numbers(Mine \ {mail}) \cup {b}
    OBVIOUS
  <2> QED
    BY <2>1, <2>2, ExtraJoins
<1>4. Upcoming(b)' <= Upcoming(b)
  <2>1. Numbers(Mine') \subseteq Numbers(Mine)
    BY DEF Numbers
  <2>2. peer_n' = peer_n /\ peer_pc' = peer_pc
    OBVIOUS
  <2>3. peer_n' \in Numbers(Mine') \cup {b} => peer_n \in Numbers(Mine) \cup {b}
    BY <2>1, <2>2
  <2> HIDE DEF Numbers, Mine
  <2> QED
    BY <2>2, <2>3 DEF Upcoming
<1>5. Slow' = Slow
  BY DEF Slow
<1> HIDE DEF Due, Slow
<1>6. Len(inbox') = Len(inbox) /\ peer_n' = peer_n /\ (IF Due' THEN 1 ELSE 0) <= 1
  OBVIOUS
<1>7. Balance(b)' <= Balance(b)
  <2>1. PICK w \in {0, 1} : w = IF Due' THEN 1 ELSE 0
    OBVIOUS
  <2>2. PICK p \in Nat, k \in Nat, x \in Nat, u \in {0, 1}, v \in {0, 1} :
          /\ p = peer_n /\ k = Len(inbox) /\ x = Extra(Mine', b)
          /\ u = Upcoming(b) /\ v = Upcoming(b)'
    BY <1>1, <1>2
  <2>3. Balance(b)' = p + k + w + x + v
    BY <1>2, <1>6, <2>1, <2>2
  <2>4. Balance(b) = p + k + 0 + (x + 1) + u
    BY <1>1, <1>3, <2>2
  <2>5. v <= u
    BY <1>4, <2>2
  <2>6. p + k + w + x + v <= p + k + 0 + (x + 1) + u
    BY <2>5
  <2> QED
    BY <2>3, <2>4, <2>6
<1> QED
  BY <1>1, <1>2, <1>5, <1>7 DEF Ledger

(* Numbers less than m apart have different remainders. *)
LEMMA RemaindersTell ==
  ASSUME NEW m \in Nat \ {0}, NEW b \in Nat, NEW n \in Nat, b <= n, n < b + m, n % m = b % m
  PROVE  n = b
<1>1. b \in Int /\ n \in Int
  OBVIOUS
<1>2. PICK p \in Int : b = m * p + (b % m)
  BY <1>1, RemainderSplit
<1>3. PICK q \in Int : n = m * q + (n % m)
  BY <1>1, RemainderSplit
<1>4. PICK r \in Int : r = b % m
  BY <1>1, RemainderRange
<1>5. b = m * p + r /\ n = m * q + r
  BY <1>2, <1>3, <1>4
<1>6. PICK x \in Int, y \in Int : x = m * p /\ y = m * q
  BY Z3
<1>7. x <= y /\ y < x + m
  BY <1>5, <1>6
<1>8. m * (q - p) = y - x /\ q - p \in Int
  BY <1>6, Z3
<1>9. PICK k \in Int : k = q - p /\ m * k >= 0 /\ m * k < m
  BY <1>7, <1>8
<1>10. k >= 1 => m * k >= m
  BY Z3
<1>11. k <= -1 => m * k <= -m
  BY Z3
<1>12. k = 0
  BY <1>9, <1>10, <1>11
<1>13. p = q
  BY <1>9, <1>12
<1> QED
  BY <1>5, <1>13

-----------------------------------------------------------------------------
(* What poll_endpoint finds, and what it leaves unstepped. *)
LEMMA LeadTaken ==
  ASSUME LeadTypes, TakeLatest, tick_pc = "loop", ~has_pending_input, session' = session
  PROVE  /\ ~Due /\ Unstepped = InFlight /\ InFlight' = Underway /\ Underway \subseteq InFlight
         /\ life = "open" /\ life' = life /\ ~sending' /\ reply_addr' = mail.content.session
         /\ mail \in InFlight /\ mail \notin Underway /\ InFlight = Underway \cup {mail}
         /\ last_frame_count' = NextLast(mail.content, last_frame_count)
         /\ IsFrame(mail) =>
              /\ mail.content.n \in Nat
              /\ mail.content.frame_count = mail.content.n % FrameCountMod
         /\ ~IsFrame(mail) => Parse(mail.content, last_frame_count) = "BadSize"
         /\ session \in Nat /\ session # Stray
<1>1. SInv /\ IInv
  BY SInvTypes DEF LeadTypes, SInv
<1>2. /\ InFlight' = Underway /\ mail \in InFlight /\ HasNew /\ ~sending
      /\ \A d \in Underway : d \in InFlight /\ mail.arrival < d.arrival
      /\ UNCHANGED <<sending, life>> /\ reply_addr' = mail.from
      /\ last_frame_count' = NextLast(mail.content, last_frame_count)
  BY <1>1, TakeLeaves
<1>3. mail.from = mail.content.session
  BY <1>2 DEF LeadTypes, AddrInv
<1>4. mail \notin Underway
  <2> SUFFICES ASSUME mail \in Underway PROVE FALSE
    OBVIOUS
  <2>1. mail.arrival < mail.arrival /\ mail.arrival \in Nat
    BY <1>1, <1>2, FlightTypes
  <2> QED
    BY <2>1
<1>5. life = "open"
  BY DEF TakeLatest, TickIdle
<1>6. Unstepped = InFlight
  BY DEF Unstepped
<1>7. InFlight = Underway \cup {mail}
  BY <1>2 DEF InFlight
<1> QED
  BY <1>1, <1>2, <1>3, <1>4, <1>5, <1>6, <1>7, FlightFrames DEF Due

LEMMA LeadFresh ==
  ASSUME LeadTypes, LeadTypes', LeadInv, PollFresh
  PROVE  LeadInv'
<1>1. /\ TakeLatest /\ Parse(mail.content, last_frame_count) \in Steppable
      /\ pending' = mail /\ has_pending_input' = TRUE /\ ~has_pending_input
      /\ tick_pc = "loop" /\ tick_pc' = "loop"
      /\ UNCHANGED <<inbox, peer_n, peer_pc, session, last_stepped, faults>>
  BY DEF PollFresh, MayPoll, peerVars
<1>2. /\ ~Due /\ Unstepped = InFlight /\ InFlight' = Underway
      /\ life' = life /\ mail \in InFlight /\ InFlight = Underway \cup {mail}
  BY <1>1, LeadTaken
<1>3. /\ IsFrame(mail) /\ mail.content.n \in Nat
      /\ mail.content.frame_count = mail.content.n % FrameCountMod
  BY <1>1, LeadTaken DEF Steppable
<1>4. Mine' = Mine /\ (Due' <=> Due)
  <2>1. Unstepped' = Unstepped
    BY <1>1, <1>2 DEF Unstepped
  <2>2. ~Due'
    BY <1>1 DEF Due
  <2>3. Mine' = Mine
    BY <1>1, <2>1 DEF Mine
  <2> QED
    BY <1>2, <2>2, <2>3
<1>5. ASSUME Repeating PROVE Repeating'
  <2>1. last_frame_count = 0 /\ mail.content.session = session
    BY <1>1, <1>2, <1>3, <1>5 DEF Repeating
  <2>2. mail.content.n # 0
    <3> SUFFICES ASSUME mail.content.n = 0 PROVE FALSE
      OBVIOUS
    <3>1. mail.content.frame_count = 0
      BY <1>3, SmallRemainder
    <3>2. Sequence(0, 0) = "Duplicate"
      BY DEF Sequence, NoFrameCount
    <3>3. Parse(mail.content, last_frame_count) \notin Steppable
      BY <2>1, <3>1, <3>2 DEF Parse, Steppable
    <3> QED
      BY <1>1, <3>3
  <2> QED
    BY <1>1, <1>2, <1>5, <2>1, <2>2 DEF Repeating, IsFrame
<1> QED
  BY <1>1, <1>2, <1>4, <1>5, LeadAside

(* Where something has been answered, or is being, the count is that of    *)
(* the last frame taken; otherwise the peer is still at its first.         *)
LEMMA LeadDuplicate ==
  ASSUME LeadTypes, LeadTypes', LeadInv, PollDuplicate, MaxSlow + 1 < FrameCountMod
  PROVE  LeadInv'
<1>1. /\ TakeLatest /\ Parse(mail.content, last_frame_count) = "Duplicate"
      /\ ~has_pending_input /\ ~has_pending_input'
      /\ tick_pc = "loop"
      /\ UNCHANGED <<inbox, peer_n, peer_pc, session, last_stepped, faults>>
  BY Zenon DEF PollDuplicate, MayPoll, peerVars
<1>2. /\ ~Due /\ Unstepped = InFlight /\ InFlight' = Underway /\ Underway \subseteq InFlight
      /\ life = "open" /\ life' = life /\ mail \in InFlight
      /\ reply_addr' = mail.content.session
      /\ mail \notin Underway /\ InFlight = Underway \cup {mail}
      /\ session \in Nat /\ session # Stray
  BY <1>1, LeadTaken
<1>3. /\ IsFrame(mail) /\ mail.content.n \in Nat
      /\ mail.content.frame_count = mail.content.n % FrameCountMod
  BY <1>1, LeadTaken
<1>4. /\ last_frame_count' = last_frame_count /\ last_frame_count # NoFrameCount
      /\ last_frame_count = mail.content.frame_count
  <2>1. /\ mail.content \in Content /\ last_frame_count \in FrameCounts \cup {NoFrameCount}
        /\ last_frame_count' = NextLast(mail.content, last_frame_count)
    BY <1>1, SInvTypes, TakeFacts DEF LeadTypes, SInv
  <2>2. /\ last_frame_count' = last_frame_count /\ last_frame_count # NoFrameCount
    BY <1>1, <2>1, ParseResults DEF Steppable
  <2>3. Sequence(mail.content.frame_count, last_frame_count) = "Duplicate"
    BY <1>1, Zenon DEF Parse
  <2>4. mail.content.frame_count \in FrameCounts
    BY <2>1
  <2> QED
    BY <2>1, <2>2, <2>3, <2>4 DEF Sequence, FrameCounts
<1>5. Unstepped' = Underway
  BY <1>1, <1>2 DEF Unstepped
<1>6. CASE mail.content.session # session
  <2>1. Mine' = Mine
    BY <1>1, <1>2, <1>5, <1>6 DEF Mine
  <2>2. ~Due'
    BY <1>1, <1>2, <1>6 DEF Due
  <2>3. ~Repeating
    BY <1>2, <1>3, <1>6 DEF Repeating
  <2>4. Due' <=> Due
    BY <1>2, <2>2
  <2>5. Mine' \subseteq Mine /\ faults'.slow = faults.slow
    BY <1>1, <2>1
  <2>6. UNCHANGED <<inbox, peer_n, peer_pc, session, last_stepped, life>>
    BY <1>1, <1>2
  <2> HIDE DEF Due, Mine, Repeating
  <2> QED
    BY <2>3, <2>4, <2>5, <2>6, LeadAside
<1>7. CASE mail.content.session = session
  <2> DEFINE n == mail.content.n
  <2>1. mail \in Mine /\ Mine' = Mine \ {mail}
    BY <1>1, <1>2, <1>5, <1>7 DEF Mine
  <2>2. /\ n \in Nat /\ n <= peer_n /\ peer_n \in Nat
        /\ last_stepped[1] = session => last_stepped[2] <= n
        /\ last_stepped[2] \in Int
    BY <1>3, <2>1, MineFacts DEF Idents
  <2>3. ASSUME NEW b \in Nat, Ledger(b), b <= n, last_frame_count = b % FrameCountMod
        PROVE  n = b /\ Ledger(b)'
    <3>1. /\ Balance(b) = peer_n + Len(inbox) + 0 + Extra(Mine, b) + Upcoming(b)
          /\ Extra(Mine, b) \in Nat /\ Upcoming(b) \in {0, 1}
          /\ Len(inbox) \in Nat /\ Slow \in 0 .. MaxSlow
      BY <1>2, <2>3, BalanceParts
    <3>2. peer_n <= b + 1 + MaxSlow
      <4>1. Balance(b) <= b + 1 + Slow /\ MaxSlow \in Nat
        BY <2>3 DEF Ledger
      <4>2. PICK k \in Nat : k = Len(inbox)
        BY <3>1
      <4>3. PICK x \in Nat : x = Extra(Mine, b)
        BY <3>1
      <4>4. Balance(b) = peer_n + k + 0 + x + Upcoming(b)
        BY <3>1, <4>2, <4>3
      <4>5. PICK u \in {0, 1} : u = Upcoming(b)
        BY <3>1
      <4>6. peer_n <= Balance(b)
        BY <2>2, <4>4, <4>5
      <4>7. peer_n \in Int /\ Slow \in Int /\ Slow <= MaxSlow /\ Balance(b) \in Int
        BY <2>2, <3>1, <4>4, <4>5
      <4>8. b + 1 + Slow <= b + 1 + MaxSlow
        BY <2>3, <4>1, <4>7
      <4>9. peer_n <= b + 1 + Slow
        BY <2>3, <4>1, <4>6, <4>7
      <4> QED
        BY <2>3, <4>1, <4>7, <4>8, <4>9
    <3>3. n < b + FrameCountMod
      BY <2>2, <2>3, <3>2
    <3>4. n = b
      BY <1>3, <1>4, <2>2, <2>3, <3>3, RemaindersTell
    <3>5. PICK k \in Int : k = b
      BY <2>3
    <3> QED
      BY <1>1, <1>2, <2>1, <2>3, <3>4, LedgerRepeats
  <2>4. CASE last_stepped[1] = session
    <3>1. PICK b \in Int : b = last_stepped[2]
      BY <2>2
    <3>2. Ledger(b)
      BY <1>2, <2>4, <3>1 DEF LeadInv
    <3>3. b \in Nat /\ last_frame_count = b % FrameCountMod
      <4>1. Staged = last_stepped
        BY <1>1 DEF Staged
      <4> QED
        BY <1>4, <3>1, <4>1 DEF LeadTypes, SInv, CountInv
    <3>4. Ledger(b)'
      BY <2>2, <2>3, <2>4, <3>1, <3>2, <3>3
    <3>5. Ledger(last_stepped[2])'
      BY <1>1, <3>1, <3>4 DEF Ledger, Balance
    <3> QED
      BY <1>1, <1>2, <2>4, <3>5 DEF LeadInv
  <2>5. CASE last_stepped[1] # session
    <3>1. Ledger(0) /\ (~Begun => Ledger(-1)) /\ (Begun => Repeating)
      BY <1>2, <2>5 DEF LeadInv
    <3>2. 0 % FrameCountMod = 0
      BY SmallRemainder
    <3>3. Begun => last_frame_count = 0
      BY <1>1, <3>1 DEF Repeating
    <3>4. ~Begun => n = 0 /\ inbox = <<>> /\ peer_n = 0
      BY <2>2 DEF Begun
    <3>5. last_frame_count = 0
      BY <1>3, <1>4, <3>2, <3>3, <3>4
    <3>6. Ledger(0)'
      BY <2>2, <2>3, <3>1, <3>2, <3>5
    <3>7. ~Begun' => Ledger(-1)'
      <4> SUFFICES ASSUME ~Begun' PROVE Ledger(-1)'
        OBVIOUS
      <4>1. ~Due' /\ ~Begun
        BY <1>1, <1>2 DEF Begun
      <4>2. faults'.slow = faults.slow /\ Mine' \subseteq Mine
        BY <1>1, <2>1
      <4> HIDE DEF Due, Mine, Ledger
      <4> QED
        BY <1>1, <3>1, <4>1, <4>2, LedgerShrinks
    <3>8. Begun' => Repeating'
      <4> SUFFICES ASSUME NEW d \in Underway, IsFrame(d) PROVE d.content.session = session
        BY <1>1, <1>2, <1>4, <3>5 DEF Repeating, IsFrame
      <4>1. d \in InFlight /\ mail.arrival < d.arrival
        BY <1>1, SInvTypes, TakeLeaves DEF LeadTypes, SInv
      <4>2. NotAfter(Id(mail), Id(d)) /\ NotAfter(Id(d), Now)
        BY <1>2, <1>3, <4>1 DEF LeadTypes, SInv, OrderInv
      <4>3. Id(d) \in Idents
        BY <4>1, FlightFrames DEF LeadTypes
      <4> QED
        BY <1>2, <1>7, <4>2, <4>3 DEF NotAfter, Id, Now, Idents
    <3> QED
      BY <1>1, <1>2, <2>5, <3>6, <3>7, <3>8 DEF LeadInv
  <2> QED
    BY <2>4, <2>5
<1> QED
  BY <1>6, <1>7

(* A datagram that is no frame of the peer's. *)
LEMMA LeadBad ==
  ASSUME LeadTypes, LeadTypes', LeadInv, PollBad
  PROVE  LeadInv'
<1>1. /\ TakeLatest /\ Parse(mail.content, last_frame_count) \in {"BadMagic", "BadSize"}
      /\ ~has_pending_input /\ ~has_pending_input' /\ tick_pc = "loop" /\ tick_pc' = "loop"
      /\ UNCHANGED <<inbox, peer_n, peer_pc, session, last_stepped, faults>>
  BY Zenon DEF PollBad, MayPoll, peerVars, slotVars
<1>2. /\ ~Due /\ Unstepped = InFlight /\ InFlight' = Underway /\ Underway \subseteq InFlight
      /\ life' = life /\ InFlight = Underway \cup {mail}
      /\ last_frame_count' = NextLast(mail.content, last_frame_count)
      /\ session # Stray
  BY <1>1, LeadTaken
<1>3. mail.content.session = Stray
  <2>1. mail.content \in Content
    BY <1>1, SInvTypes, TakeFacts DEF LeadTypes, SInv
  <2>2. last_frame_count \in FrameCounts \cup {NoFrameCount}
    BY <1>1, SInvTypes, TakeFacts DEF LeadTypes, SInv
  <2>3. mail.content.frame_count \in FrameCounts
    BY <2>1
  <2>4. Sequence(mail.content.frame_count, last_frame_count) \in
          {"Ok", "Duplicate", "Reboot", "Gap"}
    BY <2>2, <2>3 DEF Sequence, FrameCounts, NoFrameCount
  <2> QED
    BY <1>1, <2>1, <2>4, ContentFacts
<1>4. last_frame_count' = last_frame_count
  BY <1>1, <1>2 DEF NextLast, Steppable
<1>5. Unstepped' = Underway
  BY <1>1, <1>2 DEF Unstepped
<1>6. Mine' = Mine
  BY <1>1, <1>2, <1>3, <1>5 DEF Mine
<1>7. ~Due'
  BY <1>1 DEF Due
<1>8. Repeating => Repeating'
  BY <1>1, <1>2, <1>4 DEF Repeating
<1>9. Mine' \subseteq Mine /\ faults'.slow = faults.slow /\ (Due' <=> Due)
  BY <1>1, <1>2, <1>6, <1>7
<1> HIDE DEF Due, Mine, Repeating
<1> QED
  BY <1>1, <1>2, <1>8, <1>9, LeadAside

(* Steps that leave the tick thread and the peer alone. *)
LEMMA LeadElsewhere ==
  ASSUME LeadTypes, LeadTypes', LeadInv,
         RxStep \/ Despawn \/ Despawned \/ StrayArrives \/ UNCHANGED vars
  PROVE  LeadInv'
<1>1. UNCHANGED <<inbox, peer_n, peer_pc, session, last_stepped, tick_pc, has_pending_input,
                  pending, reply_addr, sending, last_frame_count>>
  BY Zenon DEF RxStep, RxThread, RxCheckStop, RxReceive, RxTimeout, RxStore, Despawn, Destroy,
     Despawned, Close, StrayArrives, Arrive, vars, endpointVars, slotVars, seqVars, replyVars,
     peerVars
<1>2. faults'.slow = faults.slow
  <2>1. UNCHANGED faults \/ Spend("stray")
    BY Zenon DEF RxStep, Despawn, Despawned, StrayArrives, vars
  <2> QED
    BY <2>1 DEF Spend, LeadTypes, PeerTypes
<1>3. \A d \in InFlight' : IsFrame(d) => d \in InFlight
  <2>1. CASE StrayArrives
    <3>1. ~IsFrame([content |-> Noise, from |-> Stray, arrival |-> arrived + 1])
      BY DEF IsFrame, Noise
    <3>2. InFlight' = InFlight \cup {[content |-> Noise, from |-> Stray, arrival |-> arrived + 1]}
      BY <2>1, SInvTypes, ArrivalJoins DEF StrayArrives, LeadTypes, SInv
    <3> QED
      BY <3>1, <3>2
  <2>2. CASE ~StrayArrives
    BY <2>2, OthersKeep DEF LeadTypes
  <2> QED
    BY <2>1, <2>2
<1>4. Mine' \subseteq Mine
  <2>1. session # Stray
    BY DEF LeadTypes, SInv, LInv, PeerInv, Sessions, Stray
  <2>2. \A d \in Unstepped' : IsFrame(d) => d \in Unstepped
    BY <1>1, <1>3 DEF Unstepped
  <2> QED
    BY <1>1, <2>1, <2>2 DEF Mine, IsFrame
<1>5. Due' <=> Due
  BY <1>1 DEF Due
<1>6. Repeating => Repeating'
  BY <1>1, <1>3 DEF Repeating
<1>7. CASE life' = life
  <2> HIDE DEF Due, Mine, Repeating
  <2> QED
    BY <1>1, <1>2, <1>4, <1>5, <1>6, <1>7, LeadAside
<1>8. CASE life' # life
  <2>1. life' # "open"
    BY <1>8, Zenon DEF RxStep, RxThread, RxCheckStop, RxReceive, RxTimeout, RxStore, Despawn,
       Destroy, Despawned, Close, StrayArrives, Arrive, vars, endpointVars
  <2>2. Slow' = Slow
    BY <1>2 DEF Slow
  <2>3. ASSUME last_stepped[1] = session PROVE peer_n + Len(inbox) <= last_stepped[2] + 1 + Slow
    <3>1. PICK b \in Int : b = last_stepped[2]
      BY MineFacts DEF Idents
    <3>2. CASE life = "open"
      <4>1. Balance(b) <= b + 1 + Slow
        BY <2>3, <3>1, <3>2 DEF LeadInv, Ledger
      <4>2. PICK k \in Nat, x \in Nat, u \in {0, 1} :
              k = Len(inbox) /\ x = Extra(Mine, b) /\ u = Upcoming(b)
        BY BalanceParts
      <4>3. PICK w \in {0, 1} : w = IF Due THEN 1 ELSE 0
        OBVIOUS
      <4>4. Balance(b) = peer_n + k + w + x + u /\ peer_n \in Nat /\ Slow \in 0 .. MaxSlow
        BY <4>2, <4>3, BalanceParts
      <4>5. PICK p \in Nat, f \in Int : p = peer_n /\ f = Slow
        BY <4>4
      <4>6. p + k <= p + k + w + x + u
        OBVIOUS
      <4>7. p + k + w + x + u <= b + 1 + f
        BY <4>1, <4>4, <4>5
      <4>8. p + k <= b + 1 + f
        BY <4>6, <4>7
      <4>9. peer_n + k <= b + 1 + Slow
        BY <4>5, <4>8
      <4> QED
        BY <3>1, <4>2, <4>9
    <3> QED
      BY <2>3, <3>2 DEF LeadInv
  <2> QED
    BY <1>1, <2>1, <2>2, <2>3 DEF LeadInv
<1> QED
  BY <1>7, <1>8

-----------------------------------------------------------------------------
(* Stepping a frame counts it in; the answer it is owed is one more reply. *)
LEMMA LedgerSteps ==
  ASSUME LeadTypes, LeadTypes', NEW CONSTANT b \in Int, NEW CONSTANT n \in Int, b < n, Ledger(b),
         ~Due, UNCHANGED <<inbox, peer_n, peer_pc, faults>>,
         Extra(Mine', n) = Extra(Mine, b), Numbers(Mine') \cup {n} \subseteq Numbers(Mine)
  PROVE  Ledger(n)'
<1>1. PICK k \in Nat, x \in Nat, u \in {0, 1}, p \in Nat :
        k = Len(inbox) /\ x = Extra(Mine, b) /\ u = Upcoming(b) /\ p = peer_n
  BY BalanceParts
<1>2. Balance(b) = p + k + 0 + x + u /\ Slow \in 0 .. MaxSlow
  BY <1>1, BalanceParts
<1>3. PICK v \in {0, 1}, w \in {0, 1} : v = Upcoming(n)' /\ w = IF Due' THEN 1 ELSE 0
  BY BalancePartsNext
<1>4. Balance(n)' = p + k + w + x + v
  <2>1. /\ Balance(n)' = peer_n' + Len(inbox') + (IF Due' THEN 1 ELSE 0) + Extra(Mine', n)
                          + Upcoming(n)'
    BY BalancePartsNext
  <2> QED
    BY <1>1, <1>3, <2>1
<1>5. v <= u
  BY <1>1, <1>3 DEF Upcoming
<1>6. Slow' = Slow
  BY DEF Slow
<1>7. Balance(b) <= b + 1 + Slow
  BY DEF Ledger
<1>8. Balance(n)' <= Balance(b) + 1 /\ Balance(b) \in Int /\ Balance(n)' \in Int /\ Slow \in Int
  <2>1. Slow \in Int
    BY <1>2
  <2>2. p + k + w + x + v <= (p + k + 0 + x + u) + 1
    BY <1>5
  <2>3. p + k + w + x + v \in Int /\ p + k + 0 + x + u \in Int
    OBVIOUS
  <2> QED
    BY <1>2, <1>4, <2>1, <2>2, <2>3
<1>9. Balance(n)' <= n + 1 + Slow'
  BY <1>6, <1>7, <1>8
<1> QED
  BY <1>9 DEF Ledger

LEMMA LeadStep ==
  ASSUME LeadTypes, LeadTypes', LeadInv, Step
  PROVE  LeadInv'
<1>1. /\ tick_pc = "loop" /\ tick_pc' = "reply" /\ life = "open" /\ has_pending_input
      /\ last_stepped' = Id(pending) /\ UNCHANGED endpointVars
      /\ UNCHANGED <<inbox, peer_n, peer_pc, session, faults, has_pending_input, pending>>
  BY DEF Step, Id, peerVars
<1>2. /\ UNCHANGED <<socket, rx_pc, rx_local, mail, seq, consumed_seq, sending, reply_addr, life>>
  BY <1>1, Zenon DEF endpointVars, kernelVars, rxVars, boxVars, seqVars, replyVars
<1>3. InFlight' = InFlight
  BY <1>2, NothingMoves
<1>4. /\ SInv /\ ~sending /\ pending.content.session = pending.from /\ reply_addr = pending.from
      /\ pending \in Datagrams /\ IsFrame(pending) /\ pending \notin InFlight
      /\ Later(Id(pending), last_stepped) /\ last_stepped \in Idents
      /\ pending.content.session \in Int /\ pending.content.n \in Nat
      /\ reply_addr <= session
  <2>1. /\ SInv /\ ~sending /\ pending.content.session = pending.from /\ reply_addr = pending.from
        /\ pending \in Datagrams /\ IsFrame(pending)
        /\ Later(Id(pending), last_stepped) /\ last_stepped \in Idents
    BY <1>1 DEF LeadTypes, SInv, TickInv, LInv, StagedInv, ReplyToFrameSender, PendingInv
  <2>2. pending \notin InFlight
    BY <1>1, TakenIsOlder
  <2>3. pending.content.session \in Int /\ pending.content.n \in Nat
    BY <2>1, IdType DEF Sessions
  <2>4. reply_addr # NoAddr
    BY <2>1 DEF Datagrams
  <2> QED
    BY <2>1, <2>2, <2>3, <2>4 DEF LeadTypes, AddrInv
<1>5. ~Due /\ (Due' <=> pending.content.session = session)
  BY <1>1, <1>2, <1>4 DEF Due
<1>6. Unstepped = InFlight \cup {pending} /\ Unstepped' = InFlight
  BY <1>1, <1>3 DEF Unstepped
<1>7. CASE pending.content.session # session
  <2>1. Mine' = Mine
    BY <1>1, <1>6, <1>7 DEF Mine
  <2>2. last_stepped[1] # session /\ last_stepped'[1] # session
    BY <1>1, <1>4, <1>7 DEF Later, Id, Idents, LeadTypes, SInv, LInv, PeerInv, Sessions
  <2>3. ~Repeating
    BY <1>1, <1>7 DEF Repeating
  <2>4. ~Begun /\ Ledger(0) /\ Ledger(-1)
    BY <1>1, <2>2, <2>3 DEF LeadInv
  <2>5. ~Begun'
    BY <1>1, <1>5, <1>7, <2>4 DEF Begun
  <2>6. \A b \in Int : Ledger(b) => Ledger(b)'
    <3>1. Mine' \subseteq Mine /\ faults'.slow = faults.slow /\ (Due' => Due)
      BY <1>1, <1>5, <1>7, <2>1
    <3> HIDE DEF Due, Mine, Ledger
    <3> QED
      BY <1>1, <3>1, LedgerShrinks
  <2> QED
    BY <1>1, <1>2, <2>2, <2>4, <2>5, <2>6 DEF LeadInv
<1>8. CASE pending.content.session = session
  <2>1. PICK n \in Nat : n = pending.content.n
    BY <1>4
  <2>2. pending \in Mine /\ Mine' = Mine \ {pending} /\ last_stepped' = <<session, n>>
    BY <1>1, <1>4, <1>6, <1>8, <2>1 DEF Mine, Id
  <2>3. \A d \in Mine : d.content.n \in Nat /\ n <= d.content.n
    <3> SUFFICES ASSUME NEW d \in Mine PROVE d.content.n \in Nat /\ n <= d.content.n
      OBVIOUS
    <3>1. d.content.n \in Nat /\ IsFrame(d) /\ d.content.session = session
      BY MineFacts DEF Mine
    <3>2. CASE d = pending
      BY <2>1, <3>2
    <3>3. CASE d # pending
      <4>1. d \in InFlight
        BY <1>6, <3>3 DEF Mine
      <4>2. Staged = Id(pending)
        BY <1>1 DEF Staged
      <4>3. NotAfter(Id(pending), Id(d))
        BY <1>4, <3>1, <4>1, <4>2 DEF SInv, OrderInv
      <4> QED
        BY <1>8, <2>1, <3>1, <4>3 DEF NotAfter, Id, LeadTypes, SInv, LInv, PeerInv, Sessions
    <3> QED
      BY <3>2, <3>3
  <2>4. PICK b \in Int : b < n /\ Ledger(b)
    <3>1. CASE last_stepped[1] = session
      BY <1>1, <1>4, <1>8, <2>1, <3>1 DEF LeadInv, Later, Id, Idents
    <3>2. CASE last_stepped[1] # session /\ Begun
      <4>1. Ledger(0) /\ n # 0
        BY <1>1, <2>1, <3>2 DEF LeadInv, Repeating
      <4> QED
        BY <4>1
    <3>3. CASE last_stepped[1] # session /\ ~Begun
      BY <1>1, <3>3 DEF LeadInv
    <3> QED
      BY <3>1, <3>2, <3>3
  <2>5. IsFiniteSet(Mine') /\ pending \notin Mine' /\ Mine = Mine' \cup {pending}
    <3>1. IsFiniteSet(Mine)
      BY MineFacts
    <3> QED
      BY <2>2, <3>1, FS_Subset
  <2>6. b \notin Numbers(Mine)
    BY <2>3, <2>4 DEF Numbers
  <2>7. Extra(Mine', n) = Extra(Mine, b)
    BY <2>1, <2>5, <2>6, ExtraSteps
  <2>8. Numbers(Mine') \cup {n} \subseteq Numbers(Mine)
    BY <2>1, <2>2 DEF Numbers
  <2>9. Ledger(n)'
    <3> HIDE DEF Due, Mine, Ledger
    <3> QED
      BY <1>1, <1>5, <2>4, <2>7, <2>8, LedgerSteps
  <2>10. last_stepped'[1] = session' /\ last_stepped'[2] = n
    BY <1>1, <2>2
  <2>11. Ledger(last_stepped[2])'
    BY <2>9, <2>10 DEF Ledger, Balance
  <2> QED
    BY <1>1, <1>2, <2>10, <2>11 DEF LeadInv
<1> QED
  BY <1>7, <1>8

(* Counted from nothing there are no more repeats than from frame 0. *)
LEMMA FromNothing ==
  ASSUME LeadTypes
  PROVE  /\ Balance(-1) <= Balance(0) /\ Balance(-1) \in Int /\ Balance(0) \in Int
         /\ -1 \notin Numbers(Mine)
<1>1. IsFiniteSet(Mine) /\ peer_n \in Nat /\ \A d \in Mine : d.content.n \in Nat
  BY MineFacts
<1>2. -1 \notin Numbers(Mine)
  <2>1. \A k \in Nat : k # -1
    OBVIOUS
  <2> QED
    BY <1>1, <2>1 DEF Numbers
<1>3. /\ Balance(-1) = peer_n + Len(inbox) + (IF Due THEN 1 ELSE 0) + Extra(Mine, -1) + Upcoming(-1)
      /\ Extra(Mine, -1) \in Nat /\ Upcoming(-1) \in {0, 1} /\ Len(inbox) \in Nat
      /\ Balance(-1) \in Int
  <2>1. PICK b \in Int : b = -1
    OBVIOUS
  <2>2. /\ Balance(b) = peer_n + Len(inbox) + (IF Due THEN 1 ELSE 0) + Extra(Mine, b) + Upcoming(b)
        /\ Extra(Mine, b) \in Nat /\ Upcoming(b) \in {0, 1} /\ Len(inbox) \in Nat
        /\ Balance(b) \in Int
    BY BalanceParts
  <2> HIDE DEF Due
  <2> QED
    BY <2>1, <2>2
<1>4. /\ Balance(0) = peer_n + Len(inbox) + (IF Due THEN 1 ELSE 0) + Extra(Mine, 0) + Upcoming(0)
      /\ Extra(Mine, 0) \in Nat /\ Upcoming(0) \in {0, 1} /\ Balance(0) \in Int
  <2>1. PICK b \in Int : b = 0
    OBVIOUS
  <2>2. /\ Balance(b) = peer_n + Len(inbox) + (IF Due THEN 1 ELSE 0) + Extra(Mine, b) + Upcoming(b)
        /\ Extra(Mine, b) \in Nat /\ Upcoming(b) \in {0, 1} /\ Balance(b) \in Int
    BY BalanceParts
  <2> HIDE DEF Due
  <2> QED
    BY <2>1, <2>2
<1>5. Extra(Mine, -1) <= Extra(Mine, 0)
  <2>1. PICK x \in Nat, y \in Nat : x = Extra(Mine, -1) /\ y = Extra(Mine, 0)
    BY <1>3, <1>4
  <2>2. Extra(Mine, 0) = Extra(Mine, -1) + IF 0 \in Numbers(Mine) THEN 1 ELSE 0
    BY <1>1, <1>2, ExtraFromZero
  <2>3. y = x \/ y = x + 1
    BY <2>1, <2>2
  <2> QED
    BY <2>1, <2>3
<1>6. Upcoming(-1) <= Upcoming(0)
  BY <1>1 DEF Upcoming
<1>7. PICK w \in {0, 1}, k \in Nat : w = (IF Due THEN 1 ELSE 0) /\ k = Len(inbox)
  BY <1>3
<1>8. PICK x \in Nat, y \in Nat, u \in {0, 1}, v \in {0, 1} :
        /\ x = Extra(Mine, -1) /\ y = Extra(Mine, 0)
        /\ u = Upcoming(-1) /\ v = Upcoming(0)
  BY <1>3, <1>4
<1>9. Balance(-1) = peer_n + k + w + x + u /\ Balance(0) = peer_n + k + w + y + v
  BY <1>3, <1>4, <1>7, <1>8
<1>10. x <= y /\ u <= v
  BY <1>5, <1>6, <1>8
<1>11. Balance(-1) <= Balance(0)
  <2>1. PICK p \in Nat : p = peer_n
    BY <1>1
  <2>2. p + k + w + x + u <= p + k + w + y + v
    BY <1>10
  <2> QED
    BY <1>9, <2>1, <2>2
<1> QED
  BY <1>2, <1>3, <1>4, <1>11

LEMMA FromNothingNext ==
  (LeadTypes => /\ Balance(-1) <= Balance(0) /\ Balance(-1) \in Int /\ Balance(0) \in Int
                /\ -1 \notin Numbers(Mine))'
<1>1. LeadTypes => /\ Balance(-1) <= Balance(0) /\ Balance(-1) \in Int /\ Balance(0) \in Int
                   /\ -1 \notin Numbers(Mine)
  BY FromNothing
<1> QED
  BY <1>1, PTL

LEMMA LeadReply ==
  ASSUME LeadTypes, LeadTypes', LeadInv, Reply
  PROVE  LeadInv'
<1>1. /\ tick_pc \in {"reply", "resend"} /\ life = "open" /\ life' = life /\ ~sending /\ sending'
      /\ UNCHANGED <<socket, rx_pc, rx_local, mail, seq, consumed_seq, reply_addr,
                     last_frame_count>>
      /\ UNCHANGED <<peer_n, peer_pc, session, has_pending_input, pending, tick_pc, last_stepped>>
      /\ Deliver
  BY DEF Reply, SendReply, TickIdle, kernelVars, rxVars, boxVars, seqVars, peerVars
<1>2. InFlight' = InFlight
  BY <1>1, NothingMoves
<1>3. /\ Due <=> reply_addr = session
      /\ ~Due'
  BY <1>1 DEF Due
<1>4. Mine' = Mine
  <2>1. Unstepped' = Unstepped
    BY <1>1, <1>2 DEF Unstepped
  <2> QED
    BY <1>1, <2>1 DEF Mine
<1>5. Repeating => Repeating'
  BY <1>1, <1>2 DEF Repeating
<1>6. faults'.slow = faults.slow
  <2>1. UNCHANGED faults \/ Spend("loss")
    BY <1>1 DEF Deliver
  <2> QED
    BY <2>1 DEF Spend, LeadTypes, PeerTypes
<1>7. \/ Due /\ \E r : inbox' = Append(inbox, r)
      \/ inbox' = inbox
  BY <1>1, <1>3 DEF Deliver
<1>8. CASE ~Due
  <2>1. inbox' = inbox
    BY <1>1, <1>3, <1>8 DEF Deliver
  <2>2. Mine' \subseteq Mine /\ (Due' <=> Due)
    BY <1>3, <1>4, <1>8
  <2> HIDE DEF Due, Mine, Repeating
  <2> QED
    BY <1>1, <1>5, <1>6, <2>1, <2>2, LeadAside
<1>9. CASE Due
  <2>1. Begun
    BY <1>9 DEF Begun
  <2>2. ASSUME NEW CONSTANT b \in Int
        PROVE  /\ Balance(b)' <= Balance(b) /\ Balance(b) \in Int /\ Balance(b)' \in Int
               /\ inbox' = inbox => Balance(b)' = Balance(b) - 1
    <3>1. PICK k \in Nat, x \in Nat, u \in {0, 1}, p \in Nat :
            k = Len(inbox) /\ x = Extra(Mine, b) /\ u = Upcoming(b) /\ p = peer_n
      BY BalanceParts
    <3>2. Balance(b) = p + k + 1 + x + u
      BY <1>9, <3>1, BalanceParts
    <3>3. PICK h \in Nat : h = Len(inbox')
      BY BalancePartsNext
    <3>4. h = k \/ h = k + 1
      <4>1. inbox \in Seq(Idents)
        BY DEF LeadTypes, PendingInv
      <4> QED
        BY <1>7, <3>1, <3>3, <4>1
    <3>5. inbox' = inbox => h = k
      BY <3>1, <3>3
    <3>6. Upcoming(b)' = u
      BY <1>1, <1>4, <3>1 DEF Upcoming
    <3>7. Balance(b)' = p + h + 0 + x + u
      <4>1. /\ Balance(b)' = peer_n' + Len(inbox') + (IF Due' THEN 1 ELSE 0) + Extra(Mine', b)
                          + Upcoming(b)'
        BY BalancePartsNext
      <4> QED
        BY <1>1, <1>3, <1>4, <3>1, <3>3, <3>6, <4>1
    <3> QED
      BY <3>2, <3>4, <3>5, <3>7
  <2>3. Slow' = Slow /\ Slow \in Int
    <3>1. Slow \in 0 .. MaxSlow
      BY MineFacts
    <3> QED
      BY <1>6, <3>1 DEF Slow
  <2>4. \A b \in Int : Ledger(b) => Ledger(b)'
    <3> SUFFICES ASSUME NEW CONSTANT b \in Int, Balance(b) <= b + 1 + Slow
                 PROVE  Balance(b)' <= b + 1 + Slow'
      BY DEF Ledger
    <3> QED
      BY <2>2, <2>3
  <2>5. CASE last_stepped[1] = session
    <3>1. PICK b \in Int : b = last_stepped[2]
      BY MineFacts DEF Idents
    <3>2. Ledger(b)'
      BY <1>1, <2>4, <2>5, <3>1 DEF LeadInv
    <3>3. Ledger(last_stepped[2])'
      BY <1>1, <3>1, <3>2 DEF Ledger, Balance
    <3> QED
      BY <1>1, <2>5, <3>3 DEF LeadInv
  <2>6. CASE last_stepped[1] # session
    <3>1. Ledger(0) /\ Repeating
      BY <1>1, <2>1, <2>6 DEF LeadInv
    <3>2. ~Begun' => Ledger(-1)'
      <4> SUFFICES ASSUME ~Begun' PROVE Ledger(-1)'
        OBVIOUS
      <4>1. inbox' = <<>> /\ peer_n = 0 /\ inbox' = inbox
        <5>1. peer_n \in Nat /\ inbox \in Seq(Idents)
          BY MineFacts DEF LeadTypes, PendingInv
        <5> QED
          BY <1>1, <1>7, <5>1 DEF Begun
      <4>2. Balance(0)' = Balance(0) - 1 /\ Balance(0) \in Int /\ Balance(0) <= 0 + 1 + Slow
        BY <2>2, <3>1, <4>1 DEF Ledger
      <4>3. Balance(-1)' <= Balance(0)' /\ Balance(-1)' \in Int
        BY <4>1, FromNothingNext
      <4>4. Balance(-1)' <= -1 + 1 + Slow'
        BY <2>3, <4>2, <4>3
      <4> QED
        BY <4>4 DEF Ledger
    <3> QED
      BY <1>1, <1>5, <2>4, <2>6, <3>1, <3>2 DEF LeadInv
  <2> QED
    BY <2>5, <2>6
<1> QED
  BY <1>8, <1>9

LEMMA LeadEndReply ==
  ASSUME LeadTypes, LeadTypes', LeadInv, EndReply
  PROVE  LeadInv'
<1>1. /\ sending /\ ~sending' /\ tick_pc' = "loop"
      /\ has_pending_input' = IF tick_pc = "reply" THEN FALSE ELSE has_pending_input
      /\ UNCHANGED <<socket, rx_pc, rx_local, mail, seq, consumed_seq, life, last_frame_count>>
      /\ UNCHANGED <<pending, last_stepped, inbox, peer_n, peer_pc, session, faults>>
  BY Zenon DEF EndReply, MarkAnswered, kernelVars, rxVars, boxVars, seqVars, peerVars
<1>2. InFlight' = InFlight
  BY <1>1, NothingMoves
<1>3. tick_pc \in {"reply", "resend"} /\ (tick_pc = "resend" => ~has_pending_input)
      /\ (tick_pc = "reply" => has_pending_input /\ last_stepped = Id(pending))
  BY <1>1 DEF LeadTypes, SInv, LInv, StagedInv, TickInv
<1>4. ~Due /\ ~Due'
  BY <1>1 DEF Due
<1>5. ~has_pending_input'
  BY <1>1, <1>3
<1>6. Mine' = Mine
  <2>1. Unstepped' = InFlight /\ Unstepped = InFlight
    BY <1>1, <1>2, <1>3, <1>5 DEF Unstepped
  <2> QED
    BY <1>1, <2>1 DEF Mine
<1>7. Repeating /\ last_stepped[1] # session => Repeating'
  <2>1. CASE tick_pc = "reply"
    BY <1>3, <2>1 DEF Repeating, Id
  <2>2. CASE tick_pc = "resend"
    BY <1>1, <1>2, <1>3, <2>2 DEF Repeating
  <2> QED
    BY <1>3, <2>1, <2>2
<1>8. Mine' \subseteq Mine /\ (Due' <=> Due) /\ faults'.slow = faults.slow
  BY <1>1, <1>4, <1>6
<1> HIDE DEF Due, Mine, Repeating
<1> QED
  BY <1>1, <1>7, <1>8, LeadAside

-----------------------------------------------------------------------------
(* The peer's steps. *)
LEMMA SteppedBefore ==
  ASSUME LeadTypes
  PROVE  /\ NotAfter(last_stepped, Now) /\ last_stepped \in Idents /\ Now \in Idents
         /\ has_pending_input => pending.content.session = reply_addr /\ reply_addr # NoAddr
<1>1. Now \in Idents /\ Staged \in Idents /\ last_stepped \in Idents /\ NotAfter(Staged, Now)
  BY SInvTypes DEF LeadTypes, SInv, TickInv, OrderInv
<1>2. NotAfter(last_stepped, Staged)
  <2>1. CASE has_pending_input
    <3>1. /\ pending \in Datagrams /\ Staged = Id(pending)
          /\ last_stepped = Id(pending) \/ Later(Id(pending), last_stepped)
      BY <2>1 DEF LeadTypes, SInv, TickInv, Staged
    <3>2. Id(pending) \in Idents
      BY <3>1, IdType
    <3> QED
      BY <1>1, <3>1, <3>2, IdentOrder
  <2>2. CASE ~has_pending_input
    BY <1>1, <2>2, IdentOrder DEF Staged
  <2> QED
    BY <2>1, <2>2
<1>3. NotAfter(last_stepped, Now)
  BY <1>1, <1>2, IdentOrder
<1>4. ASSUME has_pending_input PROVE pending.content.session = reply_addr /\ reply_addr # NoAddr
  <2>1. /\ pending.content.session = pending.from /\ reply_addr = pending.from
        /\ pending \in Datagrams
    BY <1>4 DEF LeadTypes, SInv, LInv, StagedInv, ReplyToFrameSender, PendingInv, TickInv
  <2> QED
    BY <2>1 DEF Datagrams
<1> QED
  BY <1>1, <1>3, <1>4

LEMMA LeadMoves ==
  ASSUME LeadTypes, LeadInv, UNCHANGED <<inbox, peer_n, session, last_stepped, life>>,
         Due' <=> Due, Repeating => Repeating', Slow' \in Int, Slow <= Slow',
         life = "open" => \A b \in Int : Ledger(b) => Ledger(b)'
  PROVE  LeadInv'
<1>1. Begun' <=> Begun
  BY DEF Begun
<1>2. /\ last_stepped[2] \in Int /\ Slow \in Int /\ peer_n \in Int /\ Len(inbox) \in Int
  BY MineFacts DEF Idents
<1>3. CASE life = "open"
  <2>1. CASE last_stepped[1] = session
    <3>1. PICK b \in Int : b = last_stepped[2]
      BY <1>2
    <3>2. Ledger(b) /\ b = last_stepped'[2]
      BY <1>3, <2>1, <3>1 DEF LeadInv
    <3>3. Ledger(b)'
      BY <1>3, <3>2
    <3>4. Ledger(last_stepped[2])'
      BY <3>2, <3>3 DEF Ledger, Balance
    <3> QED
      BY <1>3, <2>1, <3>4 DEF LeadInv
  <2>2. CASE last_stepped[1] # session
    <3>1. Ledger(0) /\ (~Begun => Ledger(-1)) /\ (Begun => Repeating)
      BY <1>3, <2>2 DEF LeadInv
    <3>2. Ledger(0)' /\ (~Begun' => Ledger(-1)') /\ (Begun' => Repeating')
      BY <1>1, <1>3, <3>1
    <3> QED
      BY <1>3, <2>2, <3>2 DEF LeadInv
  <2> QED
    BY <2>1, <2>2
<1>4. CASE life # "open"
  <2> SUFFICES ASSUME last_stepped[1] = session
               PROVE  peer_n + Len(inbox) <= last_stepped[2] + 1 + Slow'
    BY <1>4 DEF LeadInv
  <2>1. peer_n + Len(inbox) <= last_stepped[2] + 1 + Slow
    BY <1>4 DEF LeadInv
  <2> QED
    BY <1>2, <2>1
<1> QED
  BY <1>3, <1>4

(* What a datagram of the peer's adds. *)
LEMMA FrameArrives ==
  ASSUME LeadTypes, Arrive(Frame(session, peer_n), session),
         UNCHANGED <<slotVars, session, peer_n, inbox>>
  PROVE  /\ Due' <=> Due
         /\ Repeating => Repeating'
         /\ life' = life
         /\ \E d : d \notin Mine /\ Mine' = Mine \cup {d} /\ d.content.n = peer_n
<1> DEFINE d == [content |-> Frame(session, peer_n), from |-> session, arrival |-> arrived + 1]
<1>1. /\ UNCHANGED <<sending, reply_addr, last_frame_count, life>>
      /\ UNCHANGED <<has_pending_input, pending, tick_pc>>
  BY Zenon DEF Arrive, replyVars, seqVars, slotVars
<1>2. InFlight' = InFlight \cup {d}
  BY SInvTypes, ArrivalJoins DEF LeadTypes, SInv
<1>3. d.content.session = session /\ d.content.n = peer_n /\ d.arrival = arrived + 1
  BY DEF Frame
<1>4. d \notin Unstepped
  <2>1. \A e \in Unstepped : e.arrival <= arrived
    BY TakenIsOlder
  <2>2. arrived \in Nat
    BY TakenIsOlder
  <2> HIDE DEF d
  <2> QED
    BY <1>3, <2>1, <2>2
<1> HIDE DEF d
<1>5. Unstepped' = Unstepped \cup {d}
  BY <1>1, <1>2 DEF Unstepped
<1>6. d \notin Mine /\ Mine' = Mine \cup {d}
  BY <1>3, <1>4, <1>5 DEF Mine
<1>7. Due' <=> Due
  BY <1>1 DEF Due
<1>8. Repeating => Repeating'
  BY <1>1, <1>2, <1>3 DEF Repeating
<1> QED
  BY <1>1, <1>3, <1>6, <1>7, <1>8

LEMMA FrameCounted ==
  ASSUME LeadTypes, LeadTypes', NEW d, d \notin Mine, Mine' = Mine \cup {d}, d.content.n = peer_n,
         UNCHANGED <<peer_n, inbox>>, peer_pc' = "wait", Due' <=> Due, NEW CONSTANT b \in Int
  PROVE  /\ Balance(b)' <= Balance(b) + 1 /\ Balance(b) \in Int /\ Balance(b)' \in Int
         /\ peer_pc = "send" => Balance(b)' = Balance(b)
         /\ Mine = {} /\ ~Due /\ inbox = <<>> =>
              Balance(b)' = peer_n + IF peer_n = b THEN 1 ELSE 0
<1>1. PICK k \in Nat, x \in Nat, u \in {0, 1}, p \in Nat :
        k = Len(inbox) /\ x = Extra(Mine, b) /\ u = Upcoming(b) /\ p = peer_n
  BY BalanceParts
<1>2. PICK w \in {0, 1} : w = IF Due THEN 1 ELSE 0
  OBVIOUS
<1>3. Balance(b) = p + k + w + x + u
  BY <1>1, <1>2, BalanceParts
<1>4. PICK j \in {0, 1} : j = IF peer_n \in Numbers(Mine) \cup {b} THEN 1 ELSE 0
  OBVIOUS
<1>5. Extra(Mine', b) = x + j
  <2>1. IsFiniteSet(Mine)
    BY MineFacts
  <2> QED
    BY <1>1, <1>4, <2>1, ExtraJoins
<1>6. Upcoming(b)' = 0
  BY DEF Upcoming
<1>7. Balance(b)' = p + k + w + (x + j) + 0
  <2>1. /\ Balance(b)' = peer_n' + Len(inbox') + (IF Due' THEN 1 ELSE 0) + Extra(Mine', b)
                      + Upcoming(b)'
    BY BalancePartsNext
  <2> QED
    BY <1>1, <1>2, <1>5, <1>6, <2>1
<1>8. peer_pc = "send" => u = j
  BY <1>1, <1>4 DEF Upcoming
<1>9. Mine = {} /\ ~Due /\ inbox = <<>> =>
        k = 0 /\ w = 0 /\ x = 0 /\ j = IF peer_n = b THEN 1 ELSE 0
  <2> SUFFICES ASSUME Mine = {}, ~Due, inbox = <<>>
               PROVE  k = 0 /\ w = 0 /\ x = 0 /\ j = IF peer_n = b THEN 1 ELSE 0
    OBVIOUS
  <2>1. Numbers(Mine) = {} /\ Extra(Mine, b) = 0
    BY ExtraEmpty DEF Numbers
  <2> QED
    BY <1>1, <1>2, <1>4, <2>1
<1>10. /\ p + k + w + (x + j) + 0 <= (p + k + w + x + u) + 1
       /\ u = j => p + k + w + (x + j) + 0 = p + k + w + x + u
       /\ p + k + w + (x + j) + 0 \in Int /\ p + k + w + x + u \in Int
  OBVIOUS
<1>11. /\ Balance(b)' <= Balance(b) + 1 /\ Balance(b) \in Int /\ Balance(b)' \in Int
       /\ peer_pc = "send" => Balance(b)' = Balance(b)
  BY <1>3, <1>7, <1>8, <1>10
<1>12. Mine = {} /\ ~Due /\ inbox = <<>> => Balance(b)' = p + IF peer_n = b THEN 1 ELSE 0
  BY <1>7, <1>9
<1> QED
  BY <1>1, <1>11, <1>12

(* A frame that does not arrive changes nothing but the peer's patience. *)
LEMMA LeadUnsent ==
  ASSUME LeadTypes, LeadTypes', LeadInv, UNCHANGED endpointVars, faults'.slow = faults.slow,
         UNCHANGED <<slotVars, session, peer_n, inbox>>, peer_pc' = "wait"
  PROVE  LeadInv'
<1>1. /\ UNCHANGED <<socket, rx_pc, rx_local, mail, seq, consumed_seq, sending, reply_addr,
                     last_frame_count, life>>
      /\ UNCHANGED <<has_pending_input, pending, tick_pc, last_stepped>>
  BY Zenon DEF endpointVars, kernelVars, rxVars, boxVars, seqVars, replyVars, slotVars
<1>2. InFlight' = InFlight
  BY <1>1, NothingMoves
<1>3. Mine' = Mine
  <2>1. Unstepped' = Unstepped
    BY <1>1, <1>2 DEF Unstepped
  <2> QED
    BY <2>1 DEF Mine
<1>4. (Due' <=> Due) /\ (Repeating => Repeating')
  BY <1>1, <1>2 DEF Due, Repeating
<1>5. Slow' = Slow /\ Slow \in Int
  <2>1. Slow \in 0 .. MaxSlow
    BY MineFacts
  <2> QED
    BY <2>1 DEF Slow
<1>6. ASSUME NEW CONSTANT b \in Int, Ledger(b) PROVE Ledger(b)'
  <2>1. PICK k \in Nat, x \in Nat, u \in {0, 1}, p \in Nat :
          k = Len(inbox) /\ x = Extra(Mine, b) /\ u = Upcoming(b) /\ p = peer_n
    BY BalanceParts
  <2>2. PICK w \in {0, 1} : w = IF Due THEN 1 ELSE 0
    OBVIOUS
  <2>3. Balance(b) = p + k + w + x + u
    BY <2>1, <2>2, BalanceParts
  <2>4. Upcoming(b)' = 0
    BY DEF Upcoming
  <2>5. Balance(b)' = p + k + w + x + 0
    <3>1. /\ Balance(b)' = peer_n' + Len(inbox') + (IF Due' THEN 1 ELSE 0) + Extra(Mine', b)
                        + Upcoming(b)'
      BY BalancePartsNext
    <3> QED
      BY <1>3, <1>4, <2>1, <2>2, <2>4, <3>1
  <2>6. p + k + w + x + 0 <= p + k + w + x + u
    OBVIOUS
  <2>7. Balance(b) <= b + 1 + Slow
    BY <1>6 DEF Ledger
  <2>8. Balance(b)' <= b + 1 + Slow'
    BY <1>5, <2>3, <2>5, <2>6, <2>7
  <2> QED
    BY <2>8 DEF Ledger
<1>7. Slow <= Slow' /\ Slow' \in Int
  BY <1>5
<1> HIDE DEF Due, Repeating, Slow, Ledger
<1> QED
  BY <1>1, <1>4, <1>6, <1>7, LeadMoves

(* Nothing is under way when the peer's timer runs out. *)
LEMMA QuietIsEmpty ==
  ASSUME LeadTypes, Quiet, life = "open"
  PROVE  Mine = {} /\ ~Due /\ inbox = <<>>
<1>1. /\ socket = <<>> /\ rx_pc # "store" /\ ~HasNew
      /\ ~has_pending_input /\ tick_pc = "loop" /\ inbox = <<>>
  BY DEF Quiet
<1>2. InFlight = {}
  <2>1. \A i \in 1 .. Len(socket) : FALSE
    BY <1>1
  <2> QED
    BY <1>1, <2>1 DEF InFlight, Underway
<1> QED
  BY <1>1, <1>2 DEF Mine, Unstepped, Due

LEMMA LeadSends ==
  ASSUME LeadTypes, LeadTypes', LeadInv, PeerSend \/ PeerTimeout
  PROVE  LeadInv'
<1>1. /\ ToSimulator /\ peer_pc' = "wait" /\ UNCHANGED <<slotVars, session, peer_n, inbox>>
      /\ peer_pc = "send" \/ Quiet
  BY Zenon DEF PeerSend, PeerTimeout, peerVars
<1>2. faults'.slow = faults.slow
  <2>1. UNCHANGED faults \/ Spend("loss")
    BY <1>1 DEF ToSimulator
  <2> QED
    BY <2>1 DEF Spend, LeadTypes, PeerTypes
<1>3. CASE UNCHANGED endpointVars
  BY <1>1, <1>2, <1>3, LeadUnsent
<1>4. CASE Arrive(Frame(session, peer_n), session)
  <2>1. /\ Due' <=> Due
        /\ Repeating => Repeating'
        /\ life' = life
    BY <1>1, <1>4, FrameArrives
  <2>2. PICK d : d \notin Mine /\ Mine' = Mine \cup {d} /\ d.content.n = peer_n
    BY <1>1, <1>4, FrameArrives
  <2>3. Slow' = Slow /\ Slow \in Int
    <3>1. Slow \in 0 .. MaxSlow
      BY MineFacts
    <3> QED
      BY <1>2, <3>1 DEF Slow
  <2>4. ASSUME life = "open", NEW CONSTANT b \in Int, Ledger(b) PROVE Ledger(b)'
    <3>1. /\ Balance(b) \in Int /\ Balance(b)' \in Int
          /\ peer_pc = "send" => Balance(b)' = Balance(b)
          /\ Mine = {} /\ ~Due /\ inbox = <<>> =>
               Balance(b)' = peer_n + IF peer_n = b THEN 1 ELSE 0
      <4> HIDE DEF Due, Mine
      <4> QED
        BY <1>1, <2>1, <2>2, FrameCounted
    <3>2. Balance(b) <= b + 1 + Slow
      BY <2>4 DEF Ledger
    <3>3. CASE peer_pc = "send"
      BY <2>3, <3>1, <3>2, <3>3 DEF Ledger
    <3>4. CASE Quiet
      <4>1. Balance(b)' = peer_n + IF peer_n = b THEN 1 ELSE 0
        BY <2>4, <3>1, <3>4, QuietIsEmpty
      <4>2. peer_n <= Balance(b) /\ peer_n \in Nat /\ Slow \in Nat
        <5>1. PICK k \in Nat, x \in Nat, u \in {0, 1}, p \in Nat :
                k = Len(inbox) /\ x = Extra(Mine, b) /\ u = Upcoming(b) /\ p = peer_n
          BY BalanceParts
        <5>2. PICK w \in {0, 1} : w = IF Due THEN 1 ELSE 0
          OBVIOUS
        <5>3. Balance(b) = p + k + w + x + u /\ Slow \in 0 .. MaxSlow
          BY <5>1, <5>2, BalanceParts
        <5>4. p <= p + k + w + x + u
          OBVIOUS
        <5> QED
          BY <5>1, <5>3, <5>4
      <4>3. Balance(b)' <= b + 1 + Slow
        BY <3>1, <3>2, <4>1, <4>2
      <4> QED
        BY <2>3, <4>3 DEF Ledger
    <3> QED
      BY <1>1, <3>3, <3>4
  <2>5. Slow <= Slow' /\ Slow' \in Int /\ last_stepped' = last_stepped
    BY <1>1, <2>3 DEF slotVars
  <2> HIDE DEF Due, Repeating, Slow, Ledger
  <2> QED
    BY <1>1, <2>1, <2>4, <2>5, LeadMoves
<1> QED
  BY <1>1, <1>3, <1>4, Zenon DEF ToSimulator

(* A re-send that overtakes its answer is what the bound allows for. *)
LEMMA LeadImpatient ==
  ASSUME LeadTypes, LeadTypes', LeadInv, PeerImpatient
  PROVE  LeadInv'
<1>1. /\ Arrive(Frame(session, peer_n), session) /\ Spend("slow")
      /\ peer_pc = "wait" /\ peer_pc' = "wait" /\ UNCHANGED <<slotVars, session, peer_n, inbox>>
  BY Zenon DEF PeerImpatient, peerVars
<1>2. Slow' = Slow + 1 /\ Slow \in Int
  <2>1. Slow \in 0 .. MaxSlow /\ faults.slow \in Int
    BY MineFacts DEF LeadTypes, PeerTypes
  <2>2. faults'.slow = faults.slow - 1
    BY <1>1 DEF Spend, LeadTypes, PeerTypes
  <2> QED
    BY <2>1, <2>2 DEF Slow
<1>3. /\ Due' <=> Due
      /\ Repeating => Repeating'
      /\ life' = life
  BY <1>1, FrameArrives
<1>4. PICK d : d \notin Mine /\ Mine' = Mine \cup {d} /\ d.content.n = peer_n
  BY <1>1, FrameArrives
<1>5. ASSUME NEW CONSTANT b \in Int, Ledger(b) PROVE Ledger(b)'
  <2>1. Balance(b) \in Int /\ Balance(b)' \in Int /\ Balance(b)' <= Balance(b) + 1
    <3> HIDE DEF Due, Mine
    <3> QED
      BY <1>1, <1>3, <1>4, FrameCounted
  <2>2. Balance(b) <= b + 1 + Slow
    BY <1>5 DEF Ledger
  <2> QED
    BY <1>2, <2>1, <2>2 DEF Ledger
<1>6. Slow <= Slow' /\ Slow' \in Int /\ last_stepped' = last_stepped
  BY <1>1, <1>2 DEF slotVars
<1> HIDE DEF Due, Repeating, Slow, Ledger
<1> QED
  BY <1>1, <1>3, <1>5, <1>6, LeadMoves

(* A reply received is one less under way, and one frame further at most. *)
LEMMA LeadReceive ==
  ASSUME LeadTypes, LeadTypes', LeadInv, PeerReceive
  PROVE  LeadInv'
<1>1. /\ peer_pc = "wait" /\ peer_pc' = "send" /\ inbox # <<>> /\ inbox' = Tail(inbox)
      /\ peer_n' = (IF have_line THEN peer_n + 1 ELSE peer_n)
      /\ UNCHANGED <<session, faults>> /\ UNCHANGED endpointVars /\ UNCHANGED slotVars
  BY Zenon DEF PeerReceive
<1>2. /\ UNCHANGED <<socket, rx_pc, rx_local, mail, seq, consumed_seq, sending, reply_addr,
                     last_frame_count, life>>
      /\ UNCHANGED <<has_pending_input, pending, tick_pc, last_stepped>>
  BY <1>1, Zenon DEF endpointVars, kernelVars, rxVars, boxVars, seqVars, replyVars, slotVars
<1>3. InFlight' = InFlight
  BY <1>2, NothingMoves
<1>4. Mine' = Mine
  <2>1. Unstepped' = Unstepped
    BY <1>2, <1>3 DEF Unstepped
  <2> QED
    BY <1>1, <2>1 DEF Mine
<1>5. (Due' <=> Due) /\ (Repeating => Repeating')
  BY <1>1, <1>2, <1>3 DEF Due, Repeating
<1>6. Slow' = Slow /\ Slow \in 0 .. MaxSlow
  BY <1>1, MineFacts DEF Slow
<1>7. PICK p \in Nat, k \in Nat : p = peer_n /\ k = Len(inbox)
  BY MineFacts
<1>8. PICK q \in Nat, h \in Nat : q = peer_n' /\ h = Len(inbox') /\ h + 1 = k
  <2>1. inbox \in Seq(Idents)
    BY DEF LeadTypes, PendingInv
  <2>2. Len(Tail(inbox)) = Len(inbox) - 1 /\ Len(Tail(inbox)) \in Nat
    BY <1>1, <2>1
  <2>3. peer_n' \in Nat
    BY <1>1, <1>7
  <2> QED
    BY <1>1, <1>7, <2>2, <2>3
<1>9. q = p \/ q = p + 1
  BY <1>1, <1>7, <1>8
<1>10. PICK w \in {0, 1} : w = IF Due THEN 1 ELSE 0
  OBVIOUS
<1>11. ASSUME NEW CONSTANT b \in Int
       PROVE  /\ Balance(b) = p + k + w + Extra(Mine, b) + 0
              /\ Balance(b)' = q + h + w + Extra(Mine, b) + Upcoming(b)'
              /\ Upcoming(b)' \in {0, 1} /\ Extra(Mine, b) \in Nat
  <2>1. Upcoming(b) = 0
    BY <1>1 DEF Upcoming
  <2>2. /\ Balance(b)' = peer_n' + Len(inbox') + (IF Due' THEN 1 ELSE 0) + Extra(Mine', b)
                      + Upcoming(b)'
        /\ Upcoming(b)' \in {0, 1}
    BY BalancePartsNext
  <2>3. /\ Balance(b) = peer_n + Len(inbox) + (IF Due THEN 1 ELSE 0) + Extra(Mine, b) + Upcoming(b)
        /\ Extra(Mine, b) \in Nat
    BY BalanceParts
  <2>4. Balance(b)' = q + h + w + Extra(Mine, b) + Upcoming(b)'
    BY <1>4, <1>5, <1>8, <1>10, <2>2
  <2>5. Balance(b) = p + k + w + Extra(Mine, b) + 0
    BY <1>7, <1>10, <2>1, <2>3
  <2> QED
    BY <2>2, <2>3, <2>4, <2>5
<1>12. ASSUME NEW CONSTANT b \in Int, b <= p, q = p + 1 PROVE Upcoming(b)' = 0
  <2>1. \A d \in Mine : d.content.n \in Nat /\ d.content.n <= p
    BY <1>7, MineFacts
  <2>2. \A n \in Numbers(Mine) : n \in Nat /\ n <= p
    BY <2>1 DEF Numbers
  <2>3. peer_n' \notin Numbers(Mine') \cup {b}
    BY <1>4, <1>8, <1>12, <2>2
  <2> QED
    BY <2>3 DEF Upcoming
<1>13. ASSUME NEW CONSTANT b \in Int, b <= p, Ledger(b) PROVE Ledger(b)'
  <2>1. PICK x \in Nat, v \in {0, 1} : x = Extra(Mine, b) /\ v = Upcoming(b)'
    BY <1>11
  <2>2. Balance(b) = p + k + w + x + 0 /\ Balance(b)' = q + h + w + x + v
    BY <1>11, <2>1
  <2>3. q = p + 1 => v = 0
    BY <1>12, <1>13, <2>1
  <2>4. q + h + w + x + v <= p + k + w + x + 0
    <3>1. h + 1 = k
      BY <1>8
    <3>2. CASE q = p
      BY <3>1, <3>2
    <3>3. CASE q = p + 1
      <4>1. v = 0
        BY <2>3, <3>3
      <4> QED
        BY <3>1, <3>3, <4>1
    <3> QED
      BY <1>9, <3>2, <3>3
  <2>5. p + k + w + x + 0 <= b + 1 + Slow
    BY <1>13, <2>2 DEF Ledger
  <2>6. q + h + w + x + v <= b + 1 + Slow
    BY <1>6, <2>4, <2>5
  <2> QED
    BY <1>6, <2>2, <2>6 DEF Ledger
<1>14. CASE life = "open"
  <2>1. CASE last_stepped[1] = session
    <3>1. PICK b \in Int : b = last_stepped[2]
      BY MineFacts DEF Idents
    <3>2. Ledger(b) /\ b = last_stepped'[2] /\ b <= p
      BY <1>2, <1>7, <1>14, <2>1, <3>1, MineFacts DEF LeadInv
    <3>3. Ledger(b)'
      BY <1>13, <3>2
    <3>4. Ledger(last_stepped[2])'
      BY <3>2, <3>3 DEF Ledger, Balance
    <3> QED
      BY <1>1, <1>2, <1>14, <2>1, <3>4 DEF LeadInv
  <2>2. CASE last_stepped[1] # session
    <3>1. Ledger(0) /\ Begun /\ Repeating
      BY <1>1, <1>14, <2>2 DEF LeadInv, Begun
    <3>2. Ledger(0)'
      BY <1>13, <3>1
    <3>3. ASSUME ~Begun' PROVE Ledger(-1)'
      <4>1. q = 0 /\ h = 0 /\ w = 0
        <5>1. ~Due' /\ inbox' = <<>> /\ ~(peer_n' > 0)
          BY <3>3 DEF Begun
        <5> QED
          BY <1>5, <1>8, <1>10, <5>1
      <4>2. p = 0 /\ k = 1
        BY <1>8, <1>9, <4>1
      <4>3. PICK x \in Nat, y \in Nat, v \in {0, 1} :
              x = Extra(Mine, 0) /\ y = Extra(Mine, -1) /\ v = Upcoming(-1)'
        <5>1. Upcoming(-1)' \in {0, 1}
          BY DEF Upcoming
        <5>2. IsFiniteSet(Mine)
          BY MineFacts
        <5> QED
          BY <5>1, <5>2, ExtraType
      <4>4. Balance(0) = 0 + 1 + 0 + x + 0
        BY <1>11, <4>1, <4>2, <4>3
      <4>5. x <= Slow
        BY <1>6, <3>1, <4>4 DEF Ledger
      <4>6. x = y + v
        <5>1. IsFiniteSet(Mine) /\ -1 \notin Numbers(Mine)
          BY MineFacts, FromNothing
        <5>2. x = y + IF 0 \in Numbers(Mine) THEN 1 ELSE 0
          BY <4>3, <5>1, ExtraFromZero
        <5>3. v = IF 0 \in Numbers(Mine) THEN 1 ELSE 0
          BY <1>1, <1>4, <1>8, <4>1, <4>3 DEF Upcoming
        <5> QED
          BY <5>2, <5>3
      <4>7. Balance(-1)' = 0 + 0 + 0 + y + v
        <5>1. PICK b \in Int : b = -1
          OBVIOUS
        <5>2. Balance(b)' = q + h + w + Extra(Mine, b) + Upcoming(b)'
          BY <1>11
        <5>3. Upcoming(b)' = v /\ Extra(Mine, b) = y
          BY <4>3, <5>1 DEF Upcoming
        <5>4. Balance(b)' = 0 + 0 + 0 + y + v
          BY <4>1, <5>2, <5>3
        <5> QED
          BY <5>1, <5>4 DEF Balance
      <4>8. Balance(-1)' <= -1 + 1 + Slow'
        BY <1>6, <4>5, <4>6, <4>7
      <4> QED
        BY <4>8 DEF Ledger
    <3> QED
      BY <1>1, <1>2, <1>5, <1>14, <2>2, <3>1, <3>2, <3>3 DEF LeadInv
  <2> QED
    BY <2>1, <2>2
<1>15. CASE life # "open"
  <2> SUFFICES ASSUME last_stepped[1] = session PROVE q + h <= last_stepped[2] + 1 + Slow
    BY <1>1, <1>2, <1>6, <1>8, <1>15 DEF LeadInv
  <2>1. p + k <= last_stepped[2] + 1 + Slow /\ last_stepped[2] \in Int
    BY <1>7, <1>15, MineFacts DEF LeadInv, Idents
  <2>2. Slow \in Int
    BY <1>6
  <2>3. q + h <= p + k
    BY <1>8, <1>9
  <2> QED
    BY <2>1, <2>2, <2>3
<1> QED
  BY <1>14, <1>15

(* A restarted peer has nothing under way at its new address. *)
LEMMA LeadReboot ==
  ASSUME LeadTypes, LeadTypes', LeadInv, PeerReboot
  PROVE  LeadInv'
<1>1. /\ session' = session + 1 /\ peer_n' = 0 /\ inbox' = <<>> /\ peer_pc' = "send"
      /\ UNCHANGED endpointVars /\ UNCHANGED slotVars /\ faults' = faults
  BY Zenon DEF PeerReboot
<1>2. /\ UNCHANGED <<socket, rx_pc, rx_local, mail, seq, consumed_seq, sending, reply_addr, life>>
      /\ UNCHANGED <<has_pending_input, pending, tick_pc, last_stepped>>
  BY <1>1, Zenon DEF endpointVars, kernelVars, rxVars, boxVars, seqVars, replyVars, slotVars
<1>3. InFlight' = InFlight
  BY <1>2, NothingMoves
<1>4. session \in Nat /\ session' # NoAddr
  <2>1. session \in Nat /\ session' \in Sessions
    BY DEF LeadTypes, SInv, LInv, PeerInv, Sessions
  <2> QED
    BY <2>1 DEF LockstepSenders
<1>5. reply_addr # NoAddr => reply_addr \in Int /\ reply_addr <= session
  BY IdType DEF LeadTypes, AddrInv, Id, Idents
<1>6. last_stepped[1] # session'
  BY <1>1, <1>4, SteppedBefore DEF NotAfter, Now, Idents
<1>7. ~Due'
  BY <1>1, <1>2, <1>4, <1>5 DEF Due
<1>8. Mine' = {}
  <2>1. \A d \in Unstepped : d.content.session # session + 1
    <3>1. \A d \in InFlight : d.content.session \in Int /\ d.content.session <= session
      BY FlightFrames DEF LeadTypes
    <3>2. has_pending_input => pending.content.session = reply_addr /\ reply_addr # NoAddr
      BY SteppedBefore
    <3> QED
      BY <1>4, <1>5, <3>1, <3>2 DEF Unstepped
  <2>2. Unstepped' = Unstepped
    BY <1>2, <1>3 DEF Unstepped
  <2> QED
    BY <1>1, <2>1, <2>2 DEF Mine
<1>9. Slow' = Slow /\ Slow \in Nat
  <2>1. Slow \in 0 .. MaxSlow
    BY MineFacts
  <2> QED
    BY <1>1, <2>1 DEF Slow
<1>10. ASSUME NEW CONSTANT b \in Int
       PROVE  Balance(b)' = IF b = 0 THEN 1 ELSE 0
  <2>1. Numbers(Mine') = {} /\ Extra(Mine', b) = 0
    BY <1>8, ExtraEmpty DEF Numbers
  <2>2. Upcoming(b)' = IF b = 0 THEN 1 ELSE 0
    BY <1>1, <2>1 DEF Upcoming
  <2>3. /\ Balance(b)' = peer_n' + Len(inbox') + (IF Due' THEN 1 ELSE 0) + Extra(Mine', b)
                      + Upcoming(b)'
    BY BalancePartsNext
  <2>4. Balance(b)' = 0 + 0 + 0 + 0 + IF b = 0 THEN 1 ELSE 0
    BY <1>1, <1>7, <2>1, <2>2, <2>3
  <2> QED
    BY <2>4
<1>11. Ledger(0)'
  <2>1. Balance(0)' = 1
    BY <1>10
  <2> QED
    BY <1>9, <2>1 DEF Ledger
<1>12. Ledger(-1)'
  <2>1. PICK b \in Int : b = -1
    OBVIOUS
  <2>2. Balance(b)' = 0
    BY <1>10, <2>1
  <2>3. Balance(b)' <= b + 1 + Slow'
    BY <1>9, <2>1, <2>2
  <2> QED
    BY <2>1, <2>3 DEF Ledger, Balance
<1>13. ~Begun'
  BY <1>1, <1>7 DEF Begun
<1> QED
  BY <1>2, <1>6, <1>11, <1>12, <1>13 DEF LeadInv

-----------------------------------------------------------------------------
LEMMA InitLeadInv == Init => LeadInv
<1> SUFFICES ASSUME Init PROVE LeadInv
  OBVIOUS
<1>1. /\ socket = <<>> /\ rx_pc = "check" /\ seq = 0 /\ consumed_seq = 0 /\ inbox = <<>>
      /\ has_pending_input = FALSE /\ tick_pc = "loop" /\ last_stepped = <<0, -1>>
      /\ session = 0 /\ peer_n = 0 /\ life = "open"
      /\ faults = [loss |-> MaxLosses, stray |-> MaxStrays, slow |-> MaxSlow]
  BY Zenon DEF Init, EndpointInit
<1>2. InFlight = {}
  <2>1. \A i \in 1 .. Len(socket) : FALSE
    BY <1>1
  <2> QED
    BY <1>1, <2>1 DEF InFlight, Underway, HasNew
<1>3. Mine = {} /\ ~Due /\ Slow = 0
  BY <1>1, <1>2 DEF Mine, Unstepped, Due, Slow
<1>4. PICK b \in Int : b = -1
  OBVIOUS
<1>5. Extra(Mine, b) = 0 /\ Numbers(Mine) = {}
  BY <1>3, ExtraEmpty DEF Numbers
<1>6. Upcoming(b) = 0
  BY <1>1, <1>4, <1>5 DEF Upcoming
<1>7. LeadTypes
  BY TypesInit
<1>8. Balance(b) = 0 + 0 + 0 + 0 + 0
  <2>1. Balance(b) = peer_n + Len(inbox) + (IF Due THEN 1 ELSE 0) + Extra(Mine, b) + Upcoming(b)
    BY <1>7, BalanceParts
  <2> QED
    BY <1>1, <1>3, <1>5, <1>6, <2>1
<1>9. Balance(b) <= b + 1 + Slow
  BY <1>3, <1>4, <1>8
<1>10. Ledger(last_stepped[2]) /\ last_stepped[1] = session
  BY <1>1, <1>4, <1>9 DEF Ledger, Balance
<1> QED
  BY <1>1, <1>10 DEF LeadInv

LEMMA NextLead ==
  ASSUME LeadTypes, LeadTypes', LeadInv, [Next]_vars, MaxSlow + 1 < FrameCountMod
  PROVE  LeadInv'
<1>1. CASE PollFresh \/ PollDuplicate \/ PollBad
  BY <1>1, LeadFresh, LeadDuplicate, LeadBad
<1>2. CASE Step \/ Reply \/ EndReply
  BY <1>2, LeadStep, LeadReply, LeadEndReply
<1>3. CASE PeerStep \/ PeerImpatient \/ PeerReboot
  BY <1>3, LeadSends, LeadReceive, LeadImpatient, LeadReboot DEF PeerStep
<1>4. CASE RxStep \/ Despawn \/ Despawned \/ StrayArrives \/ UNCHANGED vars
  BY <1>4, LeadElsewhere
<1> QED
  BY <1>1, <1>2, <1>3, <1>4 DEF Next, TickStep

(* A re-send that overtakes its answer puts the peer one frame further     *)
(* ahead of the physics and no more, whatever is lost, restarted or sent   *)
(* by strangers, as long as the re-sends are fewer than the counter can    *)
(* count before it repeats itself (2^32 in the code).                      *)
THEOREM LeadIsBounded ==
  ASSUME MaxSlow + 1 < FrameCountMod
  PROVE  Spec => []DesyncBounded
<1>1. Init => LeadTypes /\ LeadInv
  BY TypesInit, InitLeadInv
<1>2. LeadTypes /\ LeadInv /\ [Next]_vars => (LeadTypes /\ LeadInv)'
  BY TypesNext, NextLead
<1>3. LeadTypes /\ LeadInv => DesyncBounded
  BY LeadBounds
<1> QED
  BY <1>1, <1>2, <1>3, PTL DEF Spec
==============================================================================
