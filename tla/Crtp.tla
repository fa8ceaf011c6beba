-------------------------------- MODULE Crtp --------------------------------
(***************************************************************************)
(* The packet stack: crtp.c and the radio link under it, radiolink.c.      *)
(*                                                                         *)
(* Down: senders put packets into txQueue, with or without waiting for     *)
(* room; crtpTxTask moves them one by one into the radio link's own queue  *)
(* of one packet; the syslink task takes one out for each packet it        *)
(* receives.                                                               *)
(*                                                                         *)
(* Up: the syslink task puts received packets into crtpPacketDelivery;     *)
(* crtpRxTask takes them out and hands them over, by port.                 *)
(*                                                                         *)
(* The two queues are both called txQueue in the code; here they are two.  *)
(***************************************************************************)
EXTENDS Naturals, Sequences, FiniteSets

CONSTANTS
  Sender,           \* the threads that send packets
  Port,             \* the ports packets are received on
  NoPort,           \* the port of the radio's null packets
  Called,           \* the ports with a registered callback
  MayWait,          \* those whose callback may have to wait for a lock
  Served,           \* the ports whose queue some task waits on
  TxQueueSize,      \* CRTP_TX_QUEUE_SIZE
  RxQueueSize,      \* CRTP_RX_QUEUE_SIZE
  DeliverySize,     \* RADIOLINK_CRTP_QUEUE_SIZE
  SendLimit,        \* how many packets a sender sends
  ReceiveLimit      \* how many packets other than null packets are received

ASSUME PortAssumption ==
  /\ NoPort \notin Port
  /\ MayWait \subseteq Called
  /\ Called \subseteq Port
  /\ Served \subseteq Port

ASSUME SizeAssumption ==
  /\ TxQueueSize \in Nat \ {0}
  /\ RxQueueSize \in Nat \ {0}
  /\ DeliverySize \in Nat \ {0}
  /\ SendLimit \in Nat
  /\ ReceiveLimit \in Nat

VARIABLES
  link,        \* is the radio link in place, or still nopLink?
  rxSleeps,    \* crtpRxTask has found nopLink and sleeps for 10 ms
  txQueue,     \* packets that wait for crtpTxTask
  blocked,     \* senders in crtpSendPacketBlock that wait for room
  turn,        \* turn[s]: the number of s's next packet
  accepted,    \* history: packets that got into txQueue, but for purged ones
  txHeld,      \* the packet crtpTxTask tries to send, if any
  radioQueue,  \* the radio link's txQueue
  sent,        \* history: packets given to the radio
  received,    \* history: packets received from the radio, but for null packets
  delivery,    \* crtpPacketDelivery
  answering,   \* the syslink task is about to answer a packet
  rxHeld,      \* the packet crtpRxTask hands over, if any
  handled,     \* history: packets callbacks have been called with
  queues,      \* queues[p]: the queue of port p
  halted       \* an assertion has failed

linking == <<link, rxSleeps>>
down == <<txQueue, blocked, turn, accepted, txHeld>>
up   == <<received, delivery, rxHeld, handled, queues>>
vars == <<linking, down, radioQueue, sent, up, answering, halted>>

Packet   == [from : Sender, number : Nat]
UpPacket == [port : Port \cup {NoPort}, number : Nat]

\* The radio polls with packets that carry nothing.
NullPacket == [port |-> NoPort, number |-> 0]

-----------------------------------------------------------------------------
(* Sending                                                                 *)

HasRoom(q, size) == Len(q) < size

Fresh(s) == [from |-> s, number |-> turn[s]]

CanSend(s) ==
  /\ ~halted
  /\ s \notin blocked
  /\ turn[s] < SendLimit

NextTurn(s) == turn' = [turn EXCEPT ![s] = @ + 1]

Accept(q, p) ==
  /\ txQueue' = Append(q, p)
  /\ accepted' = Append(accepted, p)

\* crtpSendPacket or crtpSendPacketBlock, when there is room.
Send(s) ==
  /\ CanSend(s)
  /\ HasRoom(txQueue, TxQueueSize)
  /\ Accept(txQueue, Fresh(s))
  /\ NextTurn(s)
  /\ UNCHANGED <<linking, blocked, txHeld, radioQueue, sent, up, answering, halted>>

\* crtpSendPacket, when there is none.
SendRefused(s) ==
  /\ CanSend(s)
  /\ ~HasRoom(txQueue, TxQueueSize)
  /\ NextTurn(s)
  /\ UNCHANGED <<linking, txQueue, blocked, accepted, txHeld, radioQueue, sent, up,
                 answering, halted>>

\* crtpSendPacketBlock, when there is none.
SendBlocks(s) ==
  /\ CanSend(s)
  /\ ~HasRoom(txQueue, TxQueueSize)
  /\ blocked' = blocked \cup {s}
  /\ UNCHANGED <<linking, txQueue, turn, accepted, txHeld, radioQueue, sent, up,
                 answering, halted>>

\* crtpTxTask takes a packet.  The kernel puts that of a waiting sender into
\* the place that becomes free.
TxTake ==
  /\ ~halted
  /\ link = "radio"
  /\ txHeld = <<>>
  /\ txQueue # <<>>
  /\ txHeld' = <<Head(txQueue)>>
  /\ \/ /\ blocked = {}
        /\ txQueue' = Tail(txQueue)
        /\ UNCHANGED <<blocked, turn, accepted>>
     \/ \E s \in blocked :
          /\ Accept(Tail(txQueue), Fresh(s))
          /\ NextTurn(s)
          /\ blocked' = blocked \ {s}
  /\ UNCHANGED <<linking, radioQueue, sent, up, answering, halted>>

\* Mutant: the packet is forgotten after the first attempt.
TxSendOnce ==
  /\ ~halted
  /\ txHeld # <<>>
  /\ radioQueue' = IF radioQueue = <<>> THEN txHeld ELSE radioQueue
  /\ txHeld' = <<>>
  /\ UNCHANGED <<linking, txQueue, blocked, turn, accepted, sent, up, answering,
                 halted>>

\* radiolinkSendCRTPPacket succeeds.  An attempt that times out changes nothing:
\* crtpTxTask tries the same packet again.
TxSend ==
  /\ ~halted
  /\ txHeld # <<>>
  /\ radioQueue = <<>>
  /\ radioQueue' = txHeld
  /\ txHeld' = <<>>
  /\ UNCHANGED <<linking, txQueue, blocked, turn, accepted, sent, up, answering,
                 halted>>

\* crtpReset purges txQueue.  That wakes the senders that wait for room, with
\* an error that they ignore.
Reset ==
  /\ ~halted
  /\ txQueue' = <<>>
  /\ accepted' = SubSeq(accepted, 1, Len(accepted) - Len(txQueue))
  /\ blocked' = {}
  /\ turn' = [s \in Sender |-> IF s \in blocked THEN turn[s] + 1 ELSE turn[s]]
  /\ UNCHANGED <<linking, txHeld, radioQueue, sent, up, answering, halted>>

-----------------------------------------------------------------------------
(* Receiving.  crtpRxTask is more urgent than the syslink task, which runs   *)
(* only while crtpRxTask waits: for the link, for a packet, in a callback.   *)

\* The packets the radio may receive next.
Incoming ==
  {NullPacket} \cup
  {[port |-> p, number |-> Len(received) + 1] :
     p \in {q \in Port : Len(received) < ReceiveLimit}}

Record(h, p) == IF p = NullPacket THEN h ELSE Append(h, p)

RxWaits ==
  \/ rxSleeps
  \/ rxHeld = <<>> /\ delivery = <<>>
  \/ rxHeld # <<>> /\ Head(rxHeld).port \in MayWait

\* radiolinkSyslinkDispatch of a SYSLINK_RADIO_RAW packet: the put is asserted
\* to succeed.
Dispatch(p) ==
  /\ ~halted /\ ~answering
  /\ RxWaits
  /\ IF HasRoom(delivery, DeliverySize)
       THEN /\ delivery' = Append(delivery, p)
            /\ received' = Record(received, p)
            /\ answering' = TRUE
            /\ UNCHANGED halted
       ELSE /\ halted' = TRUE
            /\ UNCHANGED <<delivery, received, answering>>
  /\ UNCHANGED <<linking, down, radioQueue, sent, rxHeld, handled, queues>>

\* A packet received, one can be sent.
Answer ==
  /\ ~halted /\ answering
  /\ answering' = FALSE
  /\ radioQueue' = <<>>
  /\ sent' = sent \o radioQueue
  /\ UNCHANGED <<linking, down, up, halted>>

\* SYSLINK_RADIO_RAW_BROADCAST: neither asserted nor answered.
DispatchBroadcast(p) ==
  /\ ~halted /\ ~answering
  /\ RxWaits
  /\ HasRoom(delivery, DeliverySize)
  /\ delivery' = Append(delivery, p)
  /\ received' = Record(received, p)
  /\ UNCHANGED <<linking, down, radioQueue, sent, answering, rxHeld, handled, queues,
                 halted>>

RxWakes ==
  /\ ~halted
  /\ rxSleeps
  /\ link = "radio"
  /\ rxSleeps' = FALSE
  /\ UNCHANGED <<link, down, radioQueue, sent, up, answering, halted>>

RxTake ==
  /\ ~halted
  /\ ~rxSleeps
  /\ rxHeld = <<>>
  /\ delivery # <<>>
  /\ rxHeld' = <<Head(delivery)>>
  /\ delivery' = Tail(delivery)
  /\ UNCHANGED <<linking, down, radioQueue, sent, answering, received, handled,
                 queues, halted>>

\* The packet is put into the port's queue if that is full: the put waits until
\* the port's task has taken one.
Enqueued(q, p) == IF Len(q) = RxQueueSize THEN Append(Tail(q), p) ELSE q

\* Mutant: the callback is called twice.
HandledTwice(h, p) == h \o <<p, p>>

WithCallback(h, p) == Append(h, p)

RxHandOver ==
  LET p == Head(rxHeld)
  IN  /\ ~halted
      /\ rxHeld # <<>>
      /\ rxHeld' = <<>>
      /\ queues' = [q \in Port |->
                      IF q = p.port THEN Enqueued(queues[q], p) ELSE queues[q]]
      /\ handled' = IF p.port \in Called THEN WithCallback(handled, p) ELSE handled
      /\ UNCHANGED <<linking, down, radioQueue, sent, answering, received, delivery,
                     halted>>

\* commInit
SetLink ==
  /\ ~halted
  /\ link' = "radio"
  /\ UNCHANGED <<rxSleeps, down, radioQueue, sent, up, answering, halted>>

-----------------------------------------------------------------------------
Init ==
  /\ link = "nop"
  /\ rxSleeps = TRUE
  /\ txQueue = <<>>
  /\ blocked = {}
  /\ turn = [s \in Sender |-> 0]
  /\ accepted = <<>>
  /\ txHeld = <<>>
  /\ radioQueue = <<>>
  /\ sent = <<>>
  /\ received = <<>>
  /\ delivery = <<>>
  /\ answering = FALSE
  /\ rxHeld = <<>>
  /\ handled = <<>>
  /\ queues = [p \in Port |-> <<>>]
  /\ halted = FALSE

Transmit ==
  \/ \E s \in Sender : Send(s) \/ SendRefused(s) \/ SendBlocks(s)
  \/ TxTake
  \/ TxSend
  \/ Reset

Radio ==
  \/ \E p \in Incoming : Dispatch(p)
  \/ \E p \in Incoming \ {NullPacket} : DispatchBroadcast(p)
  \/ Answer

Receive == RxWakes \/ RxTake \/ RxHandOver

Next == Transmit \/ Radio \/ Receive \/ SetLink

Spec == Init /\ [][Next]_vars

\* The tasks run, callbacks return, and a connected radio polls again and again.
FairSpec ==
  /\ Spec
  /\ WF_vars(SetLink)
  /\ WF_vars(TxTake)
  /\ WF_vars(TxSend)
  /\ WF_vars(Dispatch(NullPacket))
  /\ WF_vars(Answer)
  /\ WF_vars(RxWakes)
  /\ WF_vars(RxTake)
  /\ WF_vars(RxHandOver)

-----------------------------------------------------------------------------
(* Properties                                                                *)

\* What the queues and histories hold, and how long they may get.
TypeOK ==
  /\ link \in {"nop", "radio"}
  /\ rxSleeps \in BOOLEAN
  /\ txQueue \in Seq(Packet) /\ Len(txQueue) <= TxQueueSize
  /\ blocked \subseteq Sender
  /\ turn \in [Sender -> 0 .. SendLimit]
  /\ accepted \in Seq(Packet)
  /\ txHeld \in Seq(Packet) /\ Len(txHeld) <= 1
  /\ radioQueue \in Seq(Packet) /\ Len(radioQueue) <= 1
  /\ sent \in Seq(Packet)
  /\ received \in Seq(UpPacket)
  /\ delivery \in Seq(UpPacket) /\ Len(delivery) <= DeliverySize
  /\ answering \in BOOLEAN
  /\ rxHeld \in Seq(UpPacket) /\ Len(rxHeld) <= 1
  /\ handled \in Seq(UpPacket)
  /\ queues \in [Port -> Seq(UpPacket)]
  /\ halted \in BOOLEAN

\* What the radio sends, followed by what is on its way, is what senders got
\* accepted and no reset has purged: each packet once, none lost, in order,
\* through the retries of crtp.c:149-153.
TransmittedInOrder == sent \o radioQueue \o txHeld \o txQueue = accepted

ForCallback(p) == p.port \in Called

CallsOf(q) == {q[i] : i \in {j \in DOMAIN q : ForCallback(q[j])}}

InOrder(q) ==
  \A i, j \in DOMAIN q :
    i < j /\ ForCallback(q[i]) /\ ForCallback(q[j]) => q[i].number < q[j].number

\* What callbacks have been called with, and what is still to be handed over.
Tracked == handled \o rxHeld \o delivery

\* Callbacks are called for the packets received on their ports, all of them,
\* each once and as they were received, which is how they are numbered, even if
\* one of them waits while packets pile up (radiolink.c:139, 151).
HandledInOrder == CallsOf(Tracked) = CallsOf(received) /\ InOrder(Tracked)

IsIn(p, q) == \E i \in DOMAIN q : q[i] = p

\* An accepted packet is sent in the end, if no reset purges it and the radio
\* goes on polling.
AcceptedIsSent ==
  \A s \in Sender, n \in 0 .. SendLimit - 1 :
    LET p == [from |-> s, number |-> n]
    IN  IsIn(p, accepted) ~> \/ IsIn(p, sent)
                             \/ ~IsIn(p, accepted)
                             \/ halted
=============================================================================
