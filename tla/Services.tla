------------------------------ MODULE Services ------------------------------
(***************************************************************************)
(* The two service tasks, platformservice.c and crtpservice.c, and the     *)
(* application channel, app_channel.c, which shares the platform port.     *)
(*                                                                         *)
(* Each task takes the packets of its port one by one and answers some of  *)
(* them.  Application packets go into rxQueue, from which the application  *)
(* takes them; its own packets go out through one static packet, which     *)
(* sendMutex protects, also while the sender waits for room in the packet  *)
(* stack's txQueue.                                                        *)
(***************************************************************************)
EXTENDS Naturals, Sequences

CONSTANTS
  App,            \* the application's threads that send
  Reader,         \* the one of them that receives
  Unowned,        \* holds sendMutex when it is free
  TxQueueSize,    \* CRTP_TX_QUEUE_SIZE
  AppQueueSize,   \* the size of rxQueue
  MaxDataSize,    \* CRTP_MAX_DATA_SIZE
  Mtu,            \* APPCHANNEL_MTU
  Lengths,        \* the lengths of what applications send
  AskLimit,       \* how many packets the service tasks receive
  CallLimit       \* how many packets an application's thread sends

VARIABLES
  served,      \* served[s]: the packet that service task s works on, if any
  asked,       \* how many packets the service tasks have received
  txQueue,     \* the packet stack's queue, see Crtp
  held,        \* how many packets crtpTxTask has taken that the link refuses yet
  blocked,     \* the threads in crtpSendPacketBlock that wait for room
  sendMutex,   \* who holds it
  packet,      \* the static packet of sendDataPacket
  doing,       \* doing[a]: where a is in a call of the channel
  args,        \* args[a]: the arguments of its call
  calls,       \* calls[a]: how many packets it has sent
  rxQueue,     \* the application packets received
  overflow,    \* has one found no room?
  history,     \* what rxQueue has taken and given, and the losses since the last look
  halted       \* an assertion has failed

answering == <<served, asked>>
sending   == <<sendMutex, packet, doing, args, calls>>
receiving == <<rxQueue, overflow, history>>
srvVars   == <<answering, txQueue, held, blocked, sending, receiving, halted>>

Service == {"platform", "link"}

\* What a port receives: "command" is a command or a known version, "echo" the
\* echo or the source channel, "unknown" any other channel or version.
Channels(s) ==
  IF s = "platform" THEN {"command", "unknown", "app"} ELSE {"echo", "sink"}

\* What the service tasks answer.
Answered == {"command", "echo"}

ASSUME ServicesAssumption ==
  /\ App \cap Service = {}
  /\ Reader \in App
  /\ Unowned \notin App
  /\ {TxQueueSize, AppQueueSize, MaxDataSize, Mtu} \subseteq Nat \ {0}
  /\ Lengths \subseteq Nat \ {0}
  /\ {AskLimit, CallLimit} \subseteq Nat

-----------------------------------------------------------------------------
(* Packets and txQueue                                                     *)

\* A packet as it lies in txQueue, and the packet that its sender meant.
Sent(is, meant) == [is |-> is, meant |-> meant]

Answer(s) ==
  LET a == [from |-> s, number |-> Head(served[s]).number, size |-> 1]
  IN  Sent(a, a)

Cropped(length) == IF length > Mtu THEN Mtu ELSE length

Meant(a) == [from |-> a, number |-> calls[a] + 1, size |-> Cropped(args[a].length)]

\* What the thread puts into txQueue.
Offer(t) == IF t \in Service THEN Answer(t) ELSE Sent(packet, Meant(t))

HasRoom == Len(txQueue) < TxQueueSize

\* The calls of crtpSendPacketBlock of the threads T return.
Return(T) ==
  /\ served' = [s \in Service |-> IF s \in T THEN <<>> ELSE served[s]]
  /\ doing'  = [a \in App |-> IF a \in T THEN "unlock" ELSE doing[a]]

\* crtpTxTask takes a packet; a thread that waits for room gets the place.
TxTake ==
  /\ ~halted
  /\ txQueue # <<>> /\ held = 0
  /\ held' = 1
  /\ \/ /\ blocked = {}
        /\ txQueue' = Tail(txQueue)
        /\ UNCHANGED <<blocked, served, doing>>
     \/ \E t \in blocked :
          /\ txQueue' = Append(Tail(txQueue), Offer(t))
          /\ blocked' = blocked \ {t}
          /\ Return({t})
  /\ UNCHANGED <<asked, sendMutex, packet, args, calls, receiving, halted>>

\* It offers the packet every 10 ms, until the link takes it: when the radio has
\* polled for another.
LinkTakes ==
  /\ ~halted
  /\ held = 1
  /\ held' = 0
  /\ UNCHANGED <<answering, txQueue, blocked, sending, receiving, halted>>

\* crtpReset, by the log task: the threads that wait get an error.
Purge ==
  /\ ~halted
  /\ txQueue # <<>>
  /\ txQueue' = <<>>
  /\ blocked' = {}
  /\ Return(blocked)
  /\ UNCHANGED <<asked, held, sendMutex, packet, args, calls, receiving, halted>>

-----------------------------------------------------------------------------
(* The service tasks                                                       *)

\* crtpReceivePacketBlock returns a packet.
Receive(s, c) ==
  /\ ~halted
  /\ served[s] = <<>>
  /\ asked < AskLimit
  /\ served' = [served EXCEPT ![s] = <<[channel |-> c, number |-> asked + 1]>>]
  /\ asked' = asked + 1
  /\ UNCHANGED <<txQueue, held, blocked, sending, receiving, halted>>

Serves(s, C) ==
  /\ ~halted
  /\ served[s] # <<>>
  /\ Head(served[s]).channel \in C

\* platformCommandProcess, versionCommandProcess, linkEcho, linkSource: an answer
\* with crtpSendPacketBlock.
SendAnswer(s) ==
  /\ Serves(s, Answered)
  /\ s \notin blocked
  /\ IF HasRoom
       THEN /\ txQueue' = Append(txQueue, Answer(s))
            /\ Return({s})
            /\ UNCHANGED blocked
       ELSE /\ blocked' = blocked \cup {s}
            /\ UNCHANGED <<txQueue, served, doing>>
  /\ UNCHANGED <<asked, held, sendMutex, packet, args, calls, receiving, halted>>

\* linkSink, an unknown version or channel.
Ignore(s) ==
  /\ Serves(s, {"sink", "unknown"})
  /\ served' = [served EXCEPT ![s] = <<>>]
  /\ UNCHANGED <<asked, txQueue, held, blocked, sending, receiving, halted>>

\* appchannelIncomingPacket.  n: the packet; q: rxQueue.
PutOrDrop(q, n) ==
  IF Len(q) < AppQueueSize
    THEN /\ rxQueue' = Append(q, n)
         /\ history' = [history EXCEPT !.taken = Append(@, n)]
         /\ UNCHANGED overflow
    ELSE /\ overflow' = TRUE
         /\ history' = [history EXCEPT !.lost = TRUE]
         /\ UNCHANGED rxQueue

IncomingPacket ==
  /\ Serves("platform", {"app"})
  /\ PutOrDrop(rxQueue, Head(served["platform"]).number)
  /\ served' = [served EXCEPT !["platform"] = <<>>]
  /\ UNCHANGED <<asked, txQueue, held, blocked, sending, halted>>

-----------------------------------------------------------------------------
(* The application sends                                                   *)

NoArgs == [length |-> 0, wait |-> FALSE]

Goes(a, from, to) ==
  /\ ~halted
  /\ doing[a] = from
  /\ doing' = [doing EXCEPT ![a] = to]

\* appchannelSendDataPacket or, with waiting, appchannelSendDataPacketBlock.
Call(a, length, wait) ==
  /\ Goes(a, "idle", "lock")
  /\ calls[a] < CallLimit
  /\ args' = [args EXCEPT ![a] = [length |-> length, wait |-> wait]]
  /\ UNCHANGED <<answering, txQueue, held, blocked, sendMutex, packet, calls, receiving,
                 halted>>

\* Mutant: a mutex that keeps nobody out.
LockAnyhow(a) ==
  /\ Goes(a, "lock", "fill")
  /\ sendMutex' = a
  /\ UNCHANGED <<answering, txQueue, held, blocked, packet, args, calls, receiving, halted>>

LockSend(a) ==
  /\ Goes(a, "lock", "fill")
  /\ sendMutex = Unowned
  /\ sendMutex' = a
  /\ UNCHANGED <<answering, txQueue, held, blocked, packet, args, calls, receiving, halted>>

Fill(a) ==
  /\ Goes(a, "fill", "put")
  /\ packet' = Meant(a)
  /\ UNCHANGED <<answering, txQueue, held, blocked, sendMutex, args, calls, receiving, halted>>

\* platformserviceSendAppchannelPacket(Block): the size is asserted.
Oversized(a) ==
  /\ ~halted
  /\ doing[a] = "put"
  /\ packet.size > MaxDataSize
  /\ halted' = TRUE
  /\ UNCHANGED <<answering, txQueue, held, blocked, sending, receiving>>

\* There is room, or the caller does not want to wait for it.
Put(a) ==
  /\ Goes(a, "put", "unlock")
  /\ packet.size <= MaxDataSize
  /\ a \notin blocked
  /\ \/ HasRoom /\ txQueue' = Append(txQueue, Offer(a))
     \/ ~HasRoom /\ ~args[a].wait /\ UNCHANGED txQueue
  /\ UNCHANGED <<answering, held, blocked, sendMutex, packet, args, calls, receiving,
                 halted>>

\* It waits, and keeps the mutex.
PutWaits(a) ==
  /\ ~halted
  /\ doing[a] = "put"
  /\ packet.size <= MaxDataSize
  /\ args[a].wait /\ ~HasRoom
  /\ blocked' = blocked \cup {a}
  /\ UNCHANGED <<answering, txQueue, held, sending, receiving, halted>>

Returns(a) ==
  /\ calls' = [calls EXCEPT ![a] = @ + 1]
  /\ args' = [args EXCEPT ![a] = NoArgs]

\* Mutant: the mutex is not given back when the packet has been refused.
UnlockIfRoom(a) ==
  /\ Goes(a, "unlock", "idle")
  /\ sendMutex' = IF HasRoom THEN Unowned ELSE sendMutex
  /\ Returns(a)
  /\ UNCHANGED <<answering, txQueue, held, blocked, packet, receiving, halted>>

UnlockSend(a) ==
  /\ Goes(a, "unlock", "idle")
  /\ sendMutex' = Unowned
  /\ Returns(a)
  /\ UNCHANGED <<answering, txQueue, held, blocked, packet, receiving, halted>>

-----------------------------------------------------------------------------
(* The application receives                                                *)

\* appchannelReceiveDataPacket.  A call that times out changes nothing.
ReceiveData ==
  /\ ~halted
  /\ doing[Reader] = "idle"
  /\ rxQueue # <<>>
  /\ rxQueue' = Tail(rxQueue)
  /\ history' = [history EXCEPT !.given = Append(@, Head(rxQueue))]
  /\ UNCHANGED <<answering, txQueue, held, blocked, sending, overflow, halted>>

\* appchannelHasOverflowOccured reads the flag, ...
LookAtOverflow ==
  /\ Goes(Reader, "idle", "clear")
  /\ history' = [history EXCEPT !.lost = FALSE]
  /\ UNCHANGED <<answering, txQueue, held, blocked, sendMutex, packet, args, calls, rxQueue,
                 overflow, halted>>

\* ... and clears it, with whatever happened in between.
ClearOverflow ==
  /\ Goes(Reader, "clear", "idle")
  /\ overflow' = FALSE
  /\ UNCHANGED <<answering, txQueue, held, blocked, sendMutex, packet, args, calls, rxQueue,
                 history, halted>>

-----------------------------------------------------------------------------
NoPacket == [from |-> Unowned, number |-> 0, size |-> 0]

\* appchannelInit and the static variables.
SrvInit ==
  /\ served = [s \in Service |-> <<>>]
  /\ asked = 0
  /\ txQueue = <<>>
  /\ held = 0
  /\ blocked = {}
  /\ sendMutex = Unowned
  /\ packet = NoPacket
  /\ doing = [a \in App |-> "idle"]
  /\ args = [a \in App |-> NoArgs]
  /\ calls = [a \in App |-> 0]
  /\ rxQueue = <<>>
  /\ overflow = FALSE
  /\ history = [taken |-> <<>>, given |-> <<>>, lost |-> FALSE]
  /\ halted = FALSE

\* A reset of the processor.
SrvReset ==
  /\ served' = [s \in Service |-> <<>>]
  /\ asked' = 0
  /\ txQueue' = <<>>
  /\ held' = 0
  /\ blocked' = {}
  /\ sendMutex' = Unowned
  /\ packet' = NoPacket
  /\ doing' = [a \in App |-> "idle"]
  /\ args' = [a \in App |-> NoArgs]
  /\ calls' = [a \in App |-> 0]
  /\ rxQueue' = <<>>
  /\ overflow' = FALSE
  /\ history' = [taken |-> <<>>, given |-> <<>>, lost |-> FALSE]
  /\ halted' = FALSE

Transmit == TxTake \/ LinkTakes \/ Purge

Serve(s) ==
  \/ \E c \in Channels(s) : Receive(s, c)
  \/ SendAnswer(s)
  \/ Ignore(s)
  \/ s = "platform" /\ IncomingPacket

SendData(a) ==
  \/ \E length \in Lengths, wait \in BOOLEAN : Call(a, length, wait)
  \/ LockSend(a) \/ Fill(a) \/ Oversized(a) \/ Put(a) \/ PutWaits(a) \/ UnlockSend(a)

ReadData == ReceiveData \/ LookAtOverflow \/ ClearOverflow

SrvNext ==
  \/ Transmit
  \/ \E s \in Service : Serve(s)
  \/ \E a \in App : SendData(a)
  \/ ReadData

SrvSpec == SrvInit /\ [][SrvNext]_srvVars

-----------------------------------------------------------------------------
(* Properties                                                                *)

Request == [channel : UNION {Channels(s) : s \in Service}, number : Nat]
AppPacket == [from : App \cup {Unowned}, number : Nat, size : Nat]
AnyPacket == [from : App \cup Service, number : Nat, size : Nat]

SrvTypeOK ==
  /\ served \in [Service -> Seq(Request)]
  /\ \A s \in Service : Len(served[s]) <= 1
  /\ asked \in 0 .. AskLimit
  /\ txQueue \in Seq([is : AnyPacket, meant : AnyPacket])
  /\ Len(txQueue) <= TxQueueSize
  /\ held \in 0 .. 1
  /\ blocked \subseteq App \cup Service
  /\ sendMutex \in App \cup {Unowned}
  /\ packet \in AppPacket
  /\ doing \in [App -> {"idle", "lock", "fill", "put", "unlock", "clear"}]
  /\ args \in [App -> [length : Lengths \cup {0}, wait : BOOLEAN]]
  /\ calls \in [App -> 0 .. CallLimit]
  /\ rxQueue \in Seq(Nat) /\ Len(rxQueue) <= AppQueueSize
  /\ overflow \in BOOLEAN
  /\ history \in [taken : Seq(Nat), given : Seq(Nat), lost : BOOLEAN]
  /\ halted \in BOOLEAN

\* Two threads share the static packet: what lies in txQueue is nevertheless what
\* its sender meant, also if that waited for room while others called
\* (app_channel.c:115-136), and the packets are no longer than the stack takes.
SentAsMeant ==
  \A i \in DOMAIN txQueue :
    /\ txQueue[i].is = txQueue[i].meant
    /\ txQueue[i].is.size <= MaxDataSize

\* The application gets the packets that found room, each once and in their order,
\* however often rxQueue was full (app_channel.c:106-113).
AppReceivesInOrder == history.given \o rxQueue = history.taken

\* An overflow is reported only if a packet has been lost since the last report
\* (app_channel.c:87-93).  A loss may go unreported: the flag is cleared after it
\* has been read, with what was set in between.
NoFalseAlarm == overflow /\ doing[Reader] # "clear" => history.lost

\* The application's messages go out as they were meant and come in as they were
\* sent, through full queues and shared buffers.
MessagesAreSound == SrvTypeOK /\ SentAsMeant /\ AppReceivesInOrder /\ NoFalseAlarm

\* crtpTxTask gets the processor and the radio polls.  Nothing guarantees it: the
\* system task spins at the task's own priority (config.h:68-69), and a connection
\* may be inactive (app_channel.h:61-63).
TransmissionGetsOn == WF_srvVars(TxTake) /\ WF_srvVars(LinkTakes)

\* Every send returns if the transmission gets on: the mutex, which a sender keeps
\* while it waits for room, is given back, and the service tasks and other senders
\* do not block it for ever.
SendReturns ==
  TransmissionGetsOn =>
    \A a \in App : doing[a] = "lock" ~> doing[a] = "idle" \/ halted
=============================================================================
