----------------------------- MODULE UdpEndpoint -----------------------------
(***************************************************************************)
(* One vehicle's UDP endpoint: src/protocol/udp_endpoint.{h,cpp}.          *)
(*                                                                         *)
(* Three actors share it.  The kernel appends arriving datagrams to the    *)
(* socket's receive buffer.  The rx thread moves the oldest one into a     *)
(* local buffer and, in a critical section of its own, into the latest-    *)
(* wins mailbox.  The tick thread takes the mailbox and sends replies;     *)
(* send_reply calls sendto first and takes the lock afterwards, so it is   *)
(* two actions here.  History variables (arrived, taken) only record; no   *)
(* guard reads them except the bound MaxArrivals.                          *)
(***************************************************************************)
EXTENDS Packets, Sequences

CONSTANTS
  Content,      \* what datagrams hold: records with size, magic, frame_count
  Senders,      \* source addresses
  NoAddr,       \* stands for have_reply_addr = false
  SocketCap,    \* datagrams the kernel's receive buffer holds
  MaxArrivals   \* bound: datagrams that ever reach the host

ASSUME EndpointAssumption ==
  /\ SocketCap \in Nat /\ MaxArrivals \in Nat
  /\ NoAddr \notin Senders
  /\ \A c \in Content : c.frame_count \in FrameCounts

NoDatagram == [content |-> [size |-> 0], from |-> NoAddr, arrival |-> 0]
Datagrams == [content : Content, from : Senders, arrival : Nat \ {0}]

VARIABLES
  socket,               \* the kernel's receive buffer, oldest first
  arrived,              \* history: datagrams the socket has accepted
  rx_pc,                \* the rx thread: "check", "recv", "store" or "exit"
  rx_local,             \* rx_loop's local buffer and sender address
  mail,                 \* buf, len and sender, written under the mutex
  seq,                  \* bumped per datagram stored
  consumed_seq, answered_up_to_seq, last_frame_count, reply_addr,
  sending,              \* send_reply is between sendto and the lock
  life,                 \* "open", "joining" (in the destructor) or "closed"
  taken                 \* history: the datagram take_latest last returned

kernelVars == <<socket, arrived>>
rxVars     == <<rx_pc, rx_local>>
boxVars    == <<mail, seq>>
seqVars    == <<consumed_seq, last_frame_count, reply_addr, taken>>
replyVars  == <<answered_up_to_seq, sending>>
endpointVars == <<kernelVars, rxVars, boxVars, seqVars, replyVars, life>>

EndpointInit ==
  /\ socket = <<>> /\ arrived = 0
  /\ rx_pc = "check" /\ rx_local = NoDatagram
  /\ mail = NoDatagram /\ seq = 0
  /\ consumed_seq = 0 /\ answered_up_to_seq = 0
  /\ last_frame_count = NoFrameCount /\ reply_addr = NoAddr
  /\ sending = FALSE /\ life = "open"
  /\ taken = NoDatagram

-----------------------------------------------------------------------------
(* The kernel.  A datagram that finds the buffer full is dropped: no step. *)
Arrive(content, from) ==
  /\ life # "closed"
  /\ arrived < MaxArrivals
  /\ Len(socket) < SocketCap
  /\ arrived' = arrived + 1
  /\ socket' = Append(socket, [content |-> content, from |-> from,
                               arrival |-> arrived + 1])
  /\ UNCHANGED <<rxVars, boxVars, seqVars, replyVars, life>>

(* The rx thread.  `stop' is the destructor's life # "open". *)
RxCheckStop_Never ==       \* slip: the stop flag is not looked at
  /\ rx_pc = "check"
  /\ rx_pc' = "recv"
  /\ UNCHANGED <<kernelVars, rx_local, boxVars, seqVars, replyVars, life>>

RxCheckStop ==
  /\ rx_pc = "check"
  /\ rx_pc' = IF life = "open" THEN "recv" ELSE "exit"
  /\ UNCHANGED <<kernelVars, rx_local, boxVars, seqVars, replyVars, life>>

RxReceive ==
  /\ rx_pc = "recv" /\ socket # <<>>
  /\ rx_local' = Head(socket)
  /\ socket' = Tail(socket)
  /\ rx_pc' = "store"
  /\ UNCHANGED <<arrived, boxVars, seqVars, replyVars, life>>

RxTimeout ==               \* SO_RCVTIMEO: 100 ms without a datagram
  /\ rx_pc = "recv" /\ socket = <<>>
  /\ rx_pc' = "check"
  /\ UNCHANGED <<kernelVars, rx_local, boxVars, seqVars, replyVars, life>>

RxStore_ForgetsSeq ==      \* slip: an unread flag toggled, not set
  /\ rx_pc = "store"
  /\ mail' = rx_local
  /\ seq' = IF seq = consumed_seq THEN seq + 1 ELSE consumed_seq
  /\ rx_pc' = "check"
  /\ UNCHANGED <<kernelVars, rx_local, seqVars, replyVars, life>>

RxStore ==
  /\ rx_pc = "store"
  /\ mail' = rx_local
  /\ seq' = seq + 1
  /\ rx_pc' = "check"
  /\ UNCHANGED <<kernelVars, rx_local, seqVars, replyVars, life>>

-----------------------------------------------------------------------------
(* The tick thread. *)
TickIdle == life = "open" /\ ~sending

HasNew == seq # consumed_seq

(* Slip: the mailbox counts one datagram at a time. *)
TakeLatest_OneByOne ==
  /\ TickIdle /\ HasNew
  /\ consumed_seq' = consumed_seq + 1
  /\ reply_addr' = mail.from
  /\ last_frame_count' = NextLast(mail.content, last_frame_count)
  /\ taken' = mail
  /\ UNCHANGED <<kernelVars, rxVars, boxVars, replyVars, life>>

(* take_latest with something new: the critical section and the parse. *)
TakeLatest ==
  /\ TickIdle /\ HasNew
  /\ consumed_seq' = seq
  /\ reply_addr' = mail.from
  /\ last_frame_count' = NextLast(mail.content, last_frame_count)
  /\ taken' = mail
  /\ UNCHANGED <<kernelVars, rxVars, boxVars, replyVars, life>>

(* send_reply up to and including sendto. *)
SendReply ==
  /\ TickIdle /\ reply_addr # NoAddr
  /\ sending' = TRUE
  /\ UNCHANGED <<kernelVars, rxVars, boxVars, seqVars, answered_up_to_seq, life>>

(* send_reply's critical section: everything stored so far is answered. *)
MarkAnswered ==
  /\ sending
  /\ sending' = FALSE
  /\ answered_up_to_seq' = seq
  /\ UNCHANGED <<kernelVars, rxVars, boxVars, seqVars, life>>

LastTakenUnanswered == consumed_seq > answered_up_to_seq

(* ~UdpEndpoint: set stop, join the rx thread, close the socket. *)
Destroy ==
  /\ TickIdle
  /\ life' = "joining"
  /\ UNCHANGED <<kernelVars, rxVars, boxVars, seqVars, replyVars>>

Close ==
  /\ life = "joining" /\ rx_pc = "exit"
  /\ life' = "closed"
  /\ UNCHANGED <<kernelVars, rxVars, boxVars, seqVars, replyVars>>

-----------------------------------------------------------------------------
RxThread == RxCheckStop \/ RxReceive \/ RxTimeout \/ RxStore

TickThread == TakeLatest \/ SendReply \/ MarkAnswered \/ Destroy \/ Close

EndpointNext ==
  \/ \E c \in Content, s \in Senders : Arrive(c, s)
  \/ RxThread
  \/ TickThread

(* The threads run whenever they can; nothing obliges a peer to send. *)
EndpointSpec ==
  /\ EndpointInit /\ [][EndpointNext]_endpointVars
  /\ WF_endpointVars(RxThread) /\ WF_endpointVars(Close)

-----------------------------------------------------------------------------
TypeOK ==
  /\ socket \in Seq(Datagrams) /\ arrived \in Nat
  /\ rx_pc \in {"check", "recv", "store", "exit"}
  /\ rx_local \in Datagrams \cup {NoDatagram}
  /\ mail \in Datagrams \cup {NoDatagram}
  /\ taken \in Datagrams \cup {NoDatagram}
  /\ seq \in Nat /\ consumed_seq \in 0 .. seq /\ answered_up_to_seq \in 0 .. seq
  /\ last_frame_count \in FrameCounts \cup {NoFrameCount}
  /\ reply_addr \in Senders \cup {NoAddr}
  /\ sending \in BOOLEAN /\ life \in {"open", "joining", "closed"}

(* Latest-wins never loses the latest: once the socket is drained, the rx  *)
(* thread holds nothing and the mailbox counts as read, the tick thread    *)
(* has been given the newest datagram that ever arrived.                   *)
NewestIsTaken ==
  socket = <<>> /\ rx_pc # "store" /\ ~HasNew => taken.arrival = arrived

(* take_latest never returns the same datagram twice, nor an older one     *)
(* after a newer one, although the rx thread overwrites between two takes. *)
TakenInOrder ==
  [][consumed_seq' # consumed_seq => taken'.arrival > taken.arrival]_endpointVars

(* The destructor returns: the join is not held up by a peer that keeps    *)
(* sending, the rx thread sees the stop flag between two datagrams.        *)
DestructorReturns == life = "joining" ~> life = "closed"
==============================================================================
