--------------------------- MODULE FirmwareProof ---------------------------
(* The start gate and the application channel behind it, for any threads,    *)
(* lengths of messages and sizes of queues, and for any number of packets.   *)
EXTENDS Firmware, FiniteSetTheorems, SequenceTheorems, TLAPS

\* Appending is concatenating.
LEMMA AppendToConcat ==
  ASSUME NEW S, NEW s \in Seq(S), NEW t \in Seq(S), NEW e \in S
  PROVE  s \o Append(t, e) = Append(s \o t, e)
<1>1. <<e>> \in Seq(S)
  OBVIOUS
<1>2. Append(t, e) = t \o <<e>> /\ Append(s \o t, e) = (s \o t) \o <<e>>
  BY ConcatProperties, AppendIsConcat
<1>. QED
  BY <1>1, <1>2, ConcatAssociative

\* The first element can go over to the sequence before it.
LEMMA HeadToConcat ==
  ASSUME NEW S, NEW s \in Seq(S), NEW t \in Seq(S), t # <<>>
  PROVE  Append(s, Head(t)) \o Tail(t) = s \o t
<1>1. /\ Head(t) \in S /\ Tail(t) \in Seq(S) /\ Len(Tail(t)) = Len(t) - 1
      /\ Head(t) = t[1] /\ \A i \in 1 .. Len(Tail(t)) : Tail(t)[i] = t[i + 1]
  BY HeadTailProperties
<1>2. Len(t) \in Nat \ {0}
  BY EmptySeq, LenProperties
<1>3. <<Head(t)>> \in Seq(S) /\ Len(<<Head(t)>>) = 1 /\ <<Head(t)>>[1] = t[1]
  BY <1>1
<1>4. /\ <<Head(t)>> \o Tail(t) \in Seq(S)
      /\ Len(<<Head(t)>> \o Tail(t)) = Len(t)
      /\ \A i \in 1 .. Len(t) : (<<Head(t)>> \o Tail(t))[i] =
           IF i <= 1 THEN <<Head(t)>>[i] ELSE Tail(t)[i - 1]
  BY <1>1, <1>2, <1>3, ConcatProperties
<1>5. <<Head(t)>> \o Tail(t) = t
  BY <1>1, <1>2, <1>3, <1>4, SeqEqual
<1>6. Append(s, Head(t)) = s \o <<Head(t)>>
  BY <1>1, AppendIsConcat
<1>. QED
  BY <1>1, <1>3, <1>5, <1>6, ConcatAssociative

-----------------------------------------------------------------------------
(* The application channel: what a step preserves                          *)

\* sendMutex belongs to the thread between its lock and its unlock.
MutexIsOwned ==
  \A a \in App : doing[a] \in {"fill", "put", "unlock"} => sendMutex = a

\* The static packet is that of the thread that is about to hand it over.
PacketIsItsOwn == \A a \in App : doing[a] = "put" => packet = Meant(a)

\* Who waits for room has something to send.
BlockedHavePackets ==
  /\ \A a \in App : a \in blocked => doing[a] = "put" /\ packet.size <= MaxDataSize
  /\ \A s \in Service :
       s \in blocked => served[s] # <<>> /\ Head(served[s]).channel \in Answered

CallIsCounted ==
  \A a \in App : doing[a] \notin {"idle", "clear"} => calls[a] < CallLimit

SendingOK ==
  /\ served \in [Service -> Seq(Request)]
  /\ \A s \in Service : Len(served[s]) <= 1
  /\ asked \in 0 .. AskLimit
  /\ txQueue \in Seq([is : AnyPacket, meant : AnyPacket])
  /\ Len(txQueue) <= TxQueueSize
  /\ held \in 0 .. 1
  /\ blocked \subseteq App \cup Service
  /\ sendMutex \in App \cup {Unowned}
  /\ packet \in AppPacket
  /\ doing \in [App -> {"idle", "lock", "fill", "put", "unlock", "clear"}]
  /\ args \in [App -> [length : Lengths \cup {0}, wait : BOOLEAN]]
  /\ calls \in [App -> 0 .. CallLimit]
  /\ SentAsMeant
  /\ MutexIsOwned
  /\ PacketIsItsOwn
  /\ BlockedHavePackets
  /\ CallIsCounted

ReceivingOK ==
  /\ rxQueue \in Seq(Nat) /\ Len(rxQueue) <= AppQueueSize
  /\ overflow \in BOOLEAN
  /\ history \in [taken : Seq(Nat), given : Seq(Nat), lost : BOOLEAN]
  /\ AppReceivesInOrder
  /\ NoFalseAlarm

SrvInv == SendingOK /\ ReceivingOK /\ halted \in BOOLEAN

LEMMA SizesAreNumbers ==
  /\ AskLimit \in Nat /\ CallLimit \in Nat
  /\ TxQueueSize \in Nat \ {0} /\ AppQueueSize \in Nat \ {0}
  /\ MaxDataSize \in Nat \ {0} /\ Mtu \in Nat \ {0}
  /\ Lengths \cup {0} \subseteq Nat
BY ServicesAssumption

LEMMA SrvInvIsEnough == SrvInv => MessagesAreSound
BY DEF SrvInv, SendingOK, ReceivingOK, MessagesAreSound, SrvTypeOK

-----------------------------------------------------------------------------
\* A packet that a task or a thread offers is the one it means.
LEMMA AnswerIsMeant ==
  ASSUME SendingOK, NEW s \in Service, served[s] # <<>>
  PROVE  /\ Answer(s) \in [is : AnyPacket, meant : AnyPacket]
         /\ Answer(s).is = Answer(s).meant
         /\ Answer(s).is.size <= MaxDataSize
<1>1. Head(served[s]) \in Request
  BY HeadTailProperties DEF SendingOK
<1>2. Head(served[s]).number \in Nat
  BY <1>1 DEF Request
<1>. QED
  BY <1>2, ServicesAssumption DEF Answer, Sent, AnyPacket

LEMMA MeantIsPacket ==
  ASSUME SendingOK, NEW a \in App
  PROVE  Meant(a) \in [from : App, number : Nat, size : Nat]
<1>1. calls[a] \in Nat
  BY SizesAreNumbers DEF SendingOK
<1>2. args[a] \in [length : Lengths \cup {0}, wait : BOOLEAN]
  BY DEF SendingOK
<1>3. args[a].length \in Nat
  BY <1>2, SizesAreNumbers
<1>4. Cropped(args[a].length) \in Nat
  BY <1>3, SizesAreNumbers DEF Cropped
<1>. QED
  BY <1>1, <1>4 DEF Meant

LEMMA OfferIsMeant ==
  ASSUME SendingOK, NEW a \in App, doing[a] = "put", packet.size <= MaxDataSize
  PROVE  /\ Offer(a) \in [is : AnyPacket, meant : AnyPacket]
         /\ Offer(a).is = Offer(a).meant
         /\ Offer(a).is.size <= MaxDataSize
<1>1. packet = Meant(a) /\ a \notin Service
  BY ServicesAssumption DEF SendingOK, PacketIsItsOwn
<1>2. Meant(a) \in AnyPacket
  BY MeantIsPacket DEF AnyPacket
<1>. QED
  BY <1>1, <1>2 DEF Offer, Sent

LEMMA BlockedOfferIsMeant ==
  ASSUME SendingOK, NEW t \in blocked
  PROVE  /\ Offer(t) \in [is : AnyPacket, meant : AnyPacket]
         /\ Offer(t).is = Offer(t).meant
         /\ Offer(t).is.size <= MaxDataSize
<1>1. CASE t \in App
  BY <1>1, OfferIsMeant DEF SendingOK, BlockedHavePackets
<1>2. CASE t \in Service
  BY <1>2, AnswerIsMeant DEF SendingOK, BlockedHavePackets, Offer
<1>. QED
  BY <1>1, <1>2 DEF SendingOK

\* What a packet leaves behind it in txQueue, and what it brings.
LEMMA TakeFromQueue ==
  ASSUME SendingOK, txQueue # <<>>
  PROVE  /\ Tail(txQueue) \in Seq([is : AnyPacket, meant : AnyPacket])
         /\ Len(Tail(txQueue)) + 1 = Len(txQueue)
         /\ \A i \in DOMAIN Tail(txQueue) : Tail(txQueue)[i] = txQueue[i + 1]
         /\ \A i \in DOMAIN Tail(txQueue) : i + 1 \in DOMAIN txQueue
<1>1. Len(txQueue) \in Nat /\ DOMAIN txQueue = 1 .. Len(txQueue)
  BY LenProperties DEF SendingOK
<1>. QED
  BY <1>1, HeadTailProperties, LenProperties DEF SendingOK

LEMMA QueueStaysSound ==
  ASSUME NEW q \in Seq([is : AnyPacket, meant : AnyPacket]),
         NEW p \in [is : AnyPacket, meant : AnyPacket],
         \A i \in DOMAIN q : q[i].is = q[i].meant /\ q[i].is.size <= MaxDataSize,
         p.is = p.meant, p.is.size <= MaxDataSize
  PROVE  /\ Append(q, p) \in Seq([is : AnyPacket, meant : AnyPacket])
         /\ Len(Append(q, p)) = Len(q) + 1
         /\ \A i \in DOMAIN Append(q, p) :
              /\ Append(q, p)[i].is = Append(q, p)[i].meant
              /\ Append(q, p)[i].is.size <= MaxDataSize
<1>1. /\ Append(q, p) \in Seq([is : AnyPacket, meant : AnyPacket])
      /\ Len(Append(q, p)) = Len(q) + 1
      /\ \A i \in 1 .. Len(q) : Append(q, p)[i] = q[i]
      /\ Append(q, p)[Len(q) + 1] = p
  BY AppendProperties
<1>2. /\ DOMAIN q = 1 .. Len(q) /\ Len(q) \in Nat
      /\ DOMAIN Append(q, p) = 1 .. Len(q) + 1
  BY <1>1, LenProperties
<1>3. ASSUME NEW i \in DOMAIN Append(q, p)
      PROVE  i \in DOMAIN q \/ i = Len(q) + 1
  BY <1>2
<1>. QED
  BY <1>1, <1>2, <1>3

-----------------------------------------------------------------------------
(* The application channel: one lemma per step                             *)

LEMMA ReceivingUnchanged ==
  ASSUME ReceivingOK, UNCHANGED receiving,
         doing'[Reader] # "clear" => doing[Reader] # "clear"
  PROVE  ReceivingOK'
BY DEF ReceivingOK, receiving, AppReceivesInOrder, NoFalseAlarm

LEMMA TxTakeInv ==
  ASSUME SrvInv, TxTake
  PROVE  SrvInv'
<1>. DEFINE Q == [is : AnyPacket, meant : AnyPacket]
<1>. USE DEF SrvInv
<1>1. /\ Tail(txQueue) \in Seq(Q)
      /\ Len(Tail(txQueue)) + 1 = Len(txQueue)
      /\ \A i \in DOMAIN Tail(txQueue) :
           Tail(txQueue)[i].is = Tail(txQueue)[i].meant
           /\ Tail(txQueue)[i].is.size <= MaxDataSize
  BY TakeFromQueue DEF TxTake, SendingOK, SentAsMeant
<1>2. CASE blocked = {} /\ txQueue' = Tail(txQueue) /\ UNCHANGED <<blocked, served, doing>>
  <2>1. Len(txQueue') \in Nat /\ Len(txQueue') <= TxQueueSize
    BY <1>1, <1>2, SizesAreNumbers, LenProperties DEF SendingOK
  <2>2. SendingOK'
    BY <1>1, <1>2, <2>1 DEF TxTake, SendingOK, SentAsMeant, MutexIsOwned,
       PacketIsItsOwn, BlockedHavePackets, CallIsCounted, Meant
  <2>. QED
    BY <1>2, <2>2, ReceivingUnchanged DEF TxTake
<1>3. ASSUME NEW t \in blocked,
             txQueue' = Append(Tail(txQueue), Offer(t)),
             blocked' = blocked \ {t}, Return({t})
      PROVE  SrvInv'
  <2>1. /\ txQueue' \in Seq(Q)
        /\ Len(txQueue') = Len(Tail(txQueue)) + 1
        /\ SentAsMeant'
    BY <1>1, <1>3, BlockedOfferIsMeant, QueueStaysSound DEF SentAsMeant
  <2>2. Len(txQueue') <= TxQueueSize
    BY <1>1, <2>1 DEF SendingOK
  <2>3. /\ \A a \in App : doing'[a] = IF a = t THEN "unlock" ELSE doing[a]
        /\ \A s \in Service : served'[s] = IF s = t THEN <<>> ELSE served[s]
    BY <1>3 DEF Return
  <2>4. MutexIsOwned' /\ PacketIsItsOwn' /\ CallIsCounted'
    BY <1>3, <2>3 DEF TxTake, SendingOK, MutexIsOwned, PacketIsItsOwn, BlockedHavePackets,
       CallIsCounted, Meant
  <2>5. BlockedHavePackets'
    BY <1>3, <2>3 DEF TxTake, SendingOK, BlockedHavePackets
  <2>6. /\ served' \in [Service -> Seq(Request)]
        /\ \A s \in Service : Len(served'[s]) <= 1
        /\ doing' \in [App -> {"idle", "lock", "fill", "put", "unlock", "clear"}]
    BY <1>3, <2>3 DEF Return, SendingOK
  <2>7. SendingOK'
    BY <1>3, <2>1, <2>2, <2>4, <2>5, <2>6 DEF TxTake, SendingOK
  <2>. QED
    <3>1. doing'[Reader] # "clear" => doing[Reader] # "clear"
      BY <1>3, <2>3, ServicesAssumption DEF SendingOK, BlockedHavePackets
    <3>. QED
      BY <2>7, <3>1, ReceivingUnchanged DEF TxTake
<1>. QED
  BY <1>2, <1>3 DEF TxTake

LEMMA LinkTakesInv ==
  ASSUME SrvInv, LinkTakes
  PROVE  SrvInv'
<1>. USE DEF SrvInv
<1>1. SendingOK'
  BY DEF LinkTakes, answering, sending, SendingOK, SentAsMeant, MutexIsOwned,
     PacketIsItsOwn, BlockedHavePackets, CallIsCounted, Meant
<1>. QED
  BY <1>1, ReceivingUnchanged DEF LinkTakes, sending

LEMMA PurgeInv ==
  ASSUME SrvInv, Purge
  PROVE  SrvInv'
<1>. USE DEF SrvInv
<1>1. SendingOK'
  BY ServicesAssumption, SizesAreNumbers DEF Purge, Return, SendingOK, SentAsMeant, MutexIsOwned,
     PacketIsItsOwn, BlockedHavePackets, CallIsCounted, Meant
<1>. QED
  BY <1>1, ReceivingUnchanged, ServicesAssumption DEF Purge, Return, SendingOK, BlockedHavePackets

LEMMA ReceiveInv ==
  ASSUME SrvInv, NEW s \in Service, NEW c \in Channels(s), Receive(s, c)
  PROVE  SrvInv'
<1>. USE DEF SrvInv
<1>1. asked + 1 \in 0 .. AskLimit /\ asked \in Nat
  BY SizesAreNumbers DEF Receive, SendingOK
<1>2. [channel |-> c, number |-> asked + 1] \in Request
  BY <1>1 DEF Request
<1>3. SendingOK'
  BY <1>1, <1>2 DEF Receive, sending, SendingOK, SentAsMeant, MutexIsOwned,
     PacketIsItsOwn, BlockedHavePackets, CallIsCounted, Meant
<1>. QED
  BY <1>3, ReceivingUnchanged DEF Receive, sending

LEMMA SendAnswerInv ==
  ASSUME SrvInv, NEW s \in Service, SendAnswer(s)
  PROVE  SrvInv'
<1>. USE DEF SrvInv
<1>1. /\ served[s] # <<>> /\ Head(served[s]).channel \in Answered
      /\ s \notin App /\ s \notin blocked
  BY ServicesAssumption DEF SendAnswer, Serves
<1>2. UNCHANGED <<asked, held, sendMutex, packet, args, calls, receiving, halted>>
  BY DEF SendAnswer
<1>3. CASE HasRoom
  <2>1. /\ txQueue' = Append(txQueue, Answer(s))
        /\ blocked' = blocked
        /\ served' = [r \in Service |-> IF r = s THEN <<>> ELSE served[r]]
    BY <1>3 DEF SendAnswer, Return
  <2>2. doing' = doing
    BY <1>1, <1>3 DEF SendAnswer, Return, SendingOK
  <2>3. /\ Answer(s) \in [is : AnyPacket, meant : AnyPacket]
        /\ Answer(s).is = Answer(s).meant
        /\ Answer(s).is.size <= MaxDataSize
    BY <1>1, AnswerIsMeant
  <2>4. /\ txQueue' \in Seq([is : AnyPacket, meant : AnyPacket])
        /\ Len(txQueue') = Len(txQueue) + 1
        /\ SentAsMeant'
    BY <2>1, <2>3, QueueStaysSound DEF SendingOK, SentAsMeant
  <2>5. Len(txQueue') <= TxQueueSize
    BY <1>3, <2>4, SizesAreNumbers, LenProperties DEF HasRoom, SendingOK
  <2>6. SendingOK'
    BY <1>1, <1>2, <2>1, <2>2, <2>4, <2>5 DEF SendingOK, MutexIsOwned,
       PacketIsItsOwn, BlockedHavePackets, CallIsCounted, Meant
  <2>. QED
    BY <1>2, <2>2, <2>6, ReceivingUnchanged
<1>4. CASE ~HasRoom
  <2>1. blocked' = blocked \cup {s} /\ UNCHANGED <<txQueue, served, doing>>
    BY <1>4 DEF SendAnswer
  <2>2. SendingOK'
    BY <1>1, <1>2, <2>1 DEF SendingOK, SentAsMeant, MutexIsOwned,
       PacketIsItsOwn, BlockedHavePackets, CallIsCounted, Meant
  <2>. QED
    BY <1>2, <2>1, <2>2, ReceivingUnchanged
<1>. QED
  BY <1>3, <1>4

LEMMA IgnoreInv ==
  ASSUME SrvInv, NEW s \in Service, Ignore(s)
  PROVE  SrvInv'
<1>. USE DEF SrvInv
<1>1. s \notin blocked
  BY DEF Ignore, Serves, Answered, SendingOK, BlockedHavePackets
<1>2. SendingOK'
  BY <1>1 DEF Ignore, Serves, sending, SendingOK, SentAsMeant, MutexIsOwned,
     PacketIsItsOwn, BlockedHavePackets, CallIsCounted, Meant
<1>. QED
  BY <1>2, ReceivingUnchanged DEF Ignore, Serves, sending

LEMMA IncomingPacketInv ==
  ASSUME SrvInv, IncomingPacket
  PROVE  SrvInv'
<1>. USE DEF SrvInv
<1>1. "platform" \in Service /\ served["platform"] # <<>>
  BY DEF IncomingPacket, Serves, Service
<1>2. "platform" \notin blocked
  BY <1>1 DEF IncomingPacket, Serves, Answered, SendingOK, BlockedHavePackets
<1>3. SendingOK'
  BY <1>1, <1>2 DEF IncomingPacket, sending, SendingOK, SentAsMeant, MutexIsOwned,
     PacketIsItsOwn, BlockedHavePackets, CallIsCounted, Meant
<1>4. PICK n \in Nat : n = Head(served["platform"]).number
  <2>1. Head(served["platform"]) \in Request
    BY <1>1, HeadTailProperties DEF SendingOK
  <2>. QED
    BY <2>1 DEF Request
<1>5. PutOrDrop(rxQueue, n) /\ UNCHANGED <<sending, halted>>
  BY <1>4 DEF IncomingPacket
<1>6. ReceivingOK'
  <2>1. CASE Len(rxQueue) < AppQueueSize
    <3>1. /\ rxQueue' = Append(rxQueue, n) /\ overflow' = overflow
          /\ history' = [history EXCEPT !.taken = Append(@, n)]
      BY <1>5, <2>1 DEF PutOrDrop
    <3>2. rxQueue' \in Seq(Nat) /\ Len(rxQueue') = Len(rxQueue) + 1
      BY <3>1, AppendProperties DEF ReceivingOK
    <3>3. Len(rxQueue') <= AppQueueSize
      BY <2>1, <3>2, SizesAreNumbers, LenProperties DEF ReceivingOK
    <3>4. AppReceivesInOrder'
      <4>1. history.given \o Append(rxQueue, n) = Append(history.given \o rxQueue, n)
        <5>. DEFINE S == Nat
                    a == history.given
        <5>1. a \in Seq(S) /\ rxQueue \in Seq(S) /\ n \in S
          BY DEF ReceivingOK
        <5>. HIDE DEF S, a
        <5>2. a \o Append(rxQueue, n) = Append(a \o rxQueue, n)
          BY <5>1, AppendToConcat
        <5>. QED
          BY <5>2 DEF a
      <4>2. history'.given = history.given /\ history'.taken = Append(history.taken, n)
        BY <3>1 DEF ReceivingOK
      <4>. QED
        BY <3>1, <4>1, <4>2 DEF ReceivingOK, AppReceivesInOrder
    <3>5. history' \in [taken : Seq(Nat), given : Seq(Nat), lost : BOOLEAN]
      BY <3>1, AppendProperties DEF ReceivingOK
    <3>. QED
      BY <1>5, <3>1, <3>2, <3>3, <3>4, <3>5 DEF ReceivingOK, NoFalseAlarm, sending
  <2>2. CASE ~(Len(rxQueue) < AppQueueSize)
    BY <1>5, <2>2 DEF PutOrDrop, ReceivingOK, AppReceivesInOrder, NoFalseAlarm
  <2>. QED
    BY <2>1, <2>2
<1>. QED
  BY <1>3, <1>5, <1>6

LEMMA CallInv ==
  ASSUME SrvInv, NEW a \in App, NEW length \in Lengths, NEW wait \in BOOLEAN,
         Call(a, length, wait)
  PROVE  SrvInv'
<1>. USE DEF SrvInv
<1>1. doing[a] = "idle" /\ doing' = [doing EXCEPT ![a] = "lock"]
  BY DEF Call, Goes
<1>2. SendingOK'
  BY <1>1 DEF Call, answering, receiving, SendingOK, SentAsMeant, MutexIsOwned,
     PacketIsItsOwn, BlockedHavePackets, CallIsCounted, Meant
<1>. QED
  BY <1>1, <1>2, ReceivingUnchanged DEF Call, SendingOK

LEMMA LockSendInv ==
  ASSUME SrvInv, NEW a \in App, LockSend(a)
  PROVE  SrvInv'
<1>. USE DEF SrvInv
<1>1. doing[a] = "lock" /\ doing' = [doing EXCEPT ![a] = "fill"]
  BY DEF LockSend, Goes
<1>2. SendingOK'
  BY <1>1, ServicesAssumption DEF LockSend, answering, receiving, SendingOK, SentAsMeant,
     MutexIsOwned, PacketIsItsOwn, BlockedHavePackets, CallIsCounted, Meant
<1>. QED
  BY <1>1, <1>2, ReceivingUnchanged DEF LockSend, SendingOK

LEMMA FillInv ==
  ASSUME SrvInv, NEW a \in App, Fill(a)
  PROVE  SrvInv'
<1>. USE DEF SrvInv
<1>1. doing[a] = "fill" /\ doing' = [doing EXCEPT ![a] = "put"]
  BY DEF Fill, Goes
<1>2. packet' = Meant(a) /\ Meant(a) \in AppPacket
  BY MeantIsPacket DEF Fill, AppPacket
<1>3. \A b \in App : Meant(b)' = Meant(b)
  BY DEF Fill, Meant
<1>4. \A b \in App : doing'[b] = "put" => b = a
  BY <1>1 DEF SendingOK, MutexIsOwned
<1>5. SendingOK'
  BY <1>1, <1>2, <1>3, <1>4 DEF Fill, answering, receiving, SendingOK, SentAsMeant,
     MutexIsOwned, PacketIsItsOwn, BlockedHavePackets, CallIsCounted
<1>. QED
  BY <1>1, <1>5, ReceivingUnchanged DEF Fill, SendingOK

LEMMA OversizedInv ==
  ASSUME SrvInv, NEW a \in App, Oversized(a)
  PROVE  SrvInv'
<1>. USE DEF SrvInv
<1>1. SendingOK'
  BY DEF Oversized, answering, sending, receiving, SendingOK, SentAsMeant,
     MutexIsOwned, PacketIsItsOwn, BlockedHavePackets, CallIsCounted, Meant
<1>. QED
  BY <1>1, ReceivingUnchanged DEF Oversized, sending

LEMMA PutInv ==
  ASSUME SrvInv, NEW a \in App, Put(a)
  PROVE  SrvInv'
<1>. USE DEF SrvInv
<1>1. /\ doing[a] = "put" /\ doing' = [doing EXCEPT ![a] = "unlock"]
      /\ a \notin blocked /\ packet.size <= MaxDataSize
  BY DEF Put, Goes
<1>2. /\ txQueue' \in Seq([is : AnyPacket, meant : AnyPacket])
      /\ Len(txQueue') <= TxQueueSize
      /\ SentAsMeant'
  <2>1. CASE HasRoom /\ txQueue' = Append(txQueue, Offer(a))
    <3>1. /\ txQueue' \in Seq([is : AnyPacket, meant : AnyPacket])
          /\ Len(txQueue') = Len(txQueue) + 1
          /\ SentAsMeant'
      BY <1>1, <2>1, OfferIsMeant, QueueStaysSound DEF SendingOK, SentAsMeant
    <3>. QED
      BY <2>1, <3>1, SizesAreNumbers, LenProperties DEF HasRoom, SendingOK
  <2>2. CASE UNCHANGED txQueue
    BY <2>2 DEF SendingOK, SentAsMeant
  <2>. QED
    BY <2>1, <2>2 DEF Put
<1>3. SendingOK'
  BY <1>1, <1>2 DEF Put, answering, receiving, SendingOK,
     MutexIsOwned, PacketIsItsOwn, BlockedHavePackets, CallIsCounted, Meant
<1>. QED
  BY <1>1, <1>3, ReceivingUnchanged DEF Put, SendingOK

LEMMA PutWaitsInv ==
  ASSUME SrvInv, NEW a \in App, PutWaits(a)
  PROVE  SrvInv'
<1>. USE DEF SrvInv
<1>1. SendingOK'
  BY ServicesAssumption DEF PutWaits, answering, sending, receiving, SendingOK, SentAsMeant,
     MutexIsOwned, PacketIsItsOwn, BlockedHavePackets, CallIsCounted, Meant
<1>. QED
  BY <1>1, ReceivingUnchanged DEF PutWaits, sending

LEMMA UnlockSendInv ==
  ASSUME SrvInv, NEW a \in App, UnlockSend(a)
  PROVE  SrvInv'
<1>. USE DEF SrvInv
<1>1. doing[a] = "unlock" /\ doing' = [doing EXCEPT ![a] = "idle"]
  BY DEF UnlockSend, Goes
<1>2. /\ args' = [args EXCEPT ![a] = NoArgs]
      /\ calls' = [calls EXCEPT ![a] = @ + 1]
  BY DEF UnlockSend, Returns
<1>3. calls' \in [App -> 0 .. CallLimit]
  <2>1. calls[a] < CallLimit /\ calls[a] \in 0 .. CallLimit
    BY <1>1 DEF SendingOK, CallIsCounted
  <2>2. calls[a] + 1 \in 0 .. CallLimit
    BY <2>1, SizesAreNumbers
  <2>. QED
    BY <1>2, <2>2 DEF SendingOK
<1>4. args' \in [App -> [length : Lengths \cup {0}, wait : BOOLEAN]]
  BY <1>2 DEF SendingOK, NoArgs
<1>5. \A b \in App : doing[b] \in {"fill", "put", "unlock"} => b = a
  BY <1>1 DEF SendingOK, MutexIsOwned
<1>6. SendingOK'
  BY <1>1, <1>2, <1>3, <1>4, <1>5 DEF UnlockSend, answering, receiving, SendingOK,
     SentAsMeant, MutexIsOwned, PacketIsItsOwn, BlockedHavePackets, CallIsCounted
<1>. QED
  BY <1>1, <1>6, ReceivingUnchanged DEF UnlockSend, SendingOK

LEMMA ReadDataInv ==
  ASSUME SrvInv, ReadData
  PROVE  SrvInv'
<1>. USE DEF SrvInv
<1>1. Reader \in App
  BY ServicesAssumption
<1>2. CASE ReceiveData
  <2>1. SendingOK'
    BY <1>2 DEF ReceiveData, answering, sending, SendingOK, SentAsMeant,
       MutexIsOwned, PacketIsItsOwn, BlockedHavePackets, CallIsCounted, Meant
  <2>2. /\ rxQueue # <<>> /\ rxQueue' = Tail(rxQueue) /\ UNCHANGED <<overflow, halted, sending>>
        /\ history' = [history EXCEPT !.given = Append(@, Head(rxQueue))]
    BY <1>2 DEF ReceiveData
  <2>3. rxQueue' \in Seq(Nat) /\ Len(rxQueue') <= AppQueueSize /\ Head(rxQueue) \in Nat
    <3>1. rxQueue \in Seq(Nat) /\ Len(rxQueue) <= AppQueueSize /\ rxQueue # <<>>
      BY <2>2 DEF ReceivingOK
    <3>2. /\ Head(rxQueue) \in Nat /\ Tail(rxQueue) \in Seq(Nat)
          /\ Len(Tail(rxQueue)) = Len(rxQueue) - 1
      BY <3>1, HeadTailProperties
    <3>3. Len(rxQueue) \in Nat /\ AppQueueSize \in Nat
      BY <3>1, LenProperties, SizesAreNumbers
    <3>. QED
      BY <2>2, <3>1, <3>2, <3>3
  <2>4. history' \in [taken : Seq(Nat), given : Seq(Nat), lost : BOOLEAN]
    BY <2>2, <2>3, AppendProperties DEF ReceivingOK
  <2>5. AppReceivesInOrder'
    BY <2>2, HeadToConcat DEF ReceivingOK, AppReceivesInOrder
  <2>. QED
    BY <2>1, <2>2, <2>3, <2>4, <2>5 DEF ReceivingOK, NoFalseAlarm, sending
<1>3. CASE LookAtOverflow
  <2>1. doing[Reader] = "idle" /\ doing' = [doing EXCEPT ![Reader] = "clear"]
    BY <1>3 DEF LookAtOverflow, Goes
  <2>2. SendingOK'
    BY <1>1, <1>3, <2>1 DEF LookAtOverflow, answering, SendingOK, SentAsMeant,
       MutexIsOwned, PacketIsItsOwn, BlockedHavePackets, CallIsCounted, Meant
  <2>. QED
    BY <1>1, <1>3, <2>1, <2>2 DEF LookAtOverflow, SendingOK, ReceivingOK, AppReceivesInOrder, NoFalseAlarm
<1>4. CASE ClearOverflow
  <2>1. doing[Reader] = "clear" /\ doing' = [doing EXCEPT ![Reader] = "idle"]
    BY <1>4 DEF ClearOverflow, Goes
  <2>2. SendingOK'
    BY <1>1, <1>4, <2>1 DEF ClearOverflow, answering, SendingOK, SentAsMeant,
       MutexIsOwned, PacketIsItsOwn, BlockedHavePackets, CallIsCounted, Meant
  <2>. QED
    BY <1>4, <2>2 DEF ClearOverflow, ReceivingOK, AppReceivesInOrder, NoFalseAlarm
<1>. QED
  BY <1>2, <1>3, <1>4 DEF ReadData

LEMMA NothingOnNothing ==
  /\ <<>> \in Seq(Nat) /\ Len(<<>>) = 0
  /\ <<>> \o <<>> = <<>>
<1>1. <<>> \in Seq(Nat) /\ Len(<<>>) = 0
  OBVIOUS
<1>. QED
  BY <1>1, ConcatEmptySeq

LEMMA SrvInitInv == SrvInit => SrvInv
<1>. SUFFICES ASSUME SrvInit PROVE SrvInv
  OBVIOUS
<1>2. SendingOK
  BY SizesAreNumbers DEF SrvInit, SendingOK, SentAsMeant, MutexIsOwned, PacketIsItsOwn,
     BlockedHavePackets, CallIsCounted, NoPacket, NoArgs, AppPacket
<1>3. ReceivingOK
  <2>1. (rxQueue \in Seq(Nat) /\ Len(rxQueue) <= AppQueueSize)
    BY SizesAreNumbers, NothingOnNothing DEF SrvInit
  <2>2. (history \in [taken : Seq(Nat), given : Seq(Nat), lost : BOOLEAN])
    BY NothingOnNothing DEF SrvInit
  <2>3. (AppReceivesInOrder /\ NoFalseAlarm)
    BY NothingOnNothing DEF SrvInit, AppReceivesInOrder, NoFalseAlarm
  <2>. QED
    BY <2>1, <2>2, <2>3 DEF SrvInit, ReceivingOK
<1>. QED
  BY <1>2, <1>3 DEF SrvInit, SrvInv

LEMMA SrvResetInv == SrvReset => SrvInv'
<1>. SUFFICES ASSUME SrvReset PROVE SrvInv'
  OBVIOUS
<1>2. SendingOK'
  BY SizesAreNumbers DEF SrvReset, SendingOK, SentAsMeant, MutexIsOwned, PacketIsItsOwn,
     BlockedHavePackets, CallIsCounted, NoPacket, NoArgs, AppPacket
<1>3. ReceivingOK'
  <2>1. (rxQueue \in Seq(Nat) /\ Len(rxQueue) <= AppQueueSize)'
    BY SizesAreNumbers, NothingOnNothing DEF SrvReset
  <2>2. (history \in [taken : Seq(Nat), given : Seq(Nat), lost : BOOLEAN])'
    BY NothingOnNothing DEF SrvReset
  <2>3. (AppReceivesInOrder /\ NoFalseAlarm)'
    BY NothingOnNothing DEF SrvReset, AppReceivesInOrder, NoFalseAlarm
  <2>. QED
    BY <2>1, <2>2, <2>3 DEF SrvReset, ReceivingOK
<1>. QED
  BY <1>2, <1>3 DEF SrvReset, SrvInv

LEMMA SrvNextInv ==
  ASSUME SrvInv, SrvNext
  PROVE  SrvInv'
<1>1. CASE Transmit
  BY <1>1, TxTakeInv, LinkTakesInv, PurgeInv DEF Transmit
<1>2. ASSUME NEW s \in Service, Serve(s)
      PROVE  SrvInv'
  BY <1>2, ReceiveInv, SendAnswerInv, IgnoreInv, IncomingPacketInv DEF Serve
<1>3. ASSUME NEW a \in App, SendData(a)
      PROVE  SrvInv'
  BY <1>3, CallInv, LockSendInv, FillInv, OversizedInv, PutInv, PutWaitsInv, UnlockSendInv
     DEF SendData
<1>4. CASE ReadData
  BY <1>4, ReadDataInv
<1>. QED
  BY <1>1, <1>2, <1>3, <1>4 DEF SrvNext

LEMMA SrvUnchanged ==
  ASSUME SrvInv, UNCHANGED srvVars
  PROVE  SrvInv'
<1>. USE DEF srvVars, answering, sending, receiving, SrvInv
<1>1. SendingOK'
  BY DEF SendingOK, SentAsMeant, MutexIsOwned, PacketIsItsOwn, BlockedHavePackets,
     CallIsCounted, Meant
<1>. QED
  BY <1>1, ReceivingUnchanged

LEMMA SrvKept ==
  ASSUME SrvInv, [Next]_vars
  PROVE  SrvInv'
<1>1. CASE StartUp \/ UNCHANGED vars
  BY <1>1, SrvUnchanged DEF StartUp, Starting, vars
<1>2. CASE Work
  <2>1. SrvNext
    BY <1>2 DEF Work, Working, SrvNext
  <2>. QED
    BY <2>1, SrvNextInv
<1>3. CASE Reset
  BY <1>3, SrvResetInv DEF Reset
<1>. QED
  BY <1>1, <1>2, <1>3 DEF Next

\* The application's messages go out as they were meant and come in in their order,
\* whatever the sizes of the queues, the lengths and the numbers of threads
\* (app_channel.c:61-145, platformservice.c, crtpservice.c).
THEOREM MessagesSafe == Spec => []MessagesAreSound
<1>1. Init => SrvInv
  BY SrvInitInv DEF Init
<1>2. SrvInv /\ [Next]_vars => SrvInv'
  BY SrvKept
<1>3. SrvInv => MessagesAreSound
  BY SrvInvIsEnough
<1>. QED
  BY <1>1, <1>2, <1>3, PTL DEF Spec

-----------------------------------------------------------------------------
(* The start                                                               *)

LEMMA OrderOfInit ==
  /\ DOMAIN InitOrder = 1 .. 20
  /\ InitOrder[1] = "startMutex"
  /\ InitOrder[12] = "platformservice" /\ InitOrder[16] = "comm"
<1>1. DOMAIN InitOrder = 1 .. 20
  BY DEF InitOrder, SystemInit, CommInit
<1>2. InitOrder[1] = "startMutex"
  BY DEF InitOrder, SystemInit, CommInit
<1>3. InitOrder[12] = "platformservice"
  BY DEF InitOrder, SystemInit, CommInit
<1>4. InitOrder[16] = "comm"
  BY DEF InitOrder, SystemInit, CommInit
<1>. QED
  BY <1>1, <1>2, <1>3, <1>4

LEMMA ServicesAreComponents == {"platformservice", "comm"} \subseteq Component
<1>1. 12 \in DOMAIN InitOrder /\ 16 \in DOMAIN InitOrder
  BY OrderOfInit
<1>. QED
  BY <1>1, OrderOfInit DEF Component

\* There is a next component until all are initialised; the start mutex is the first.
LEMMA NextIsComponent ==
  ASSUME ready \subseteq Component, ready # Component
  PROVE  /\ NextComponent \in Component
         /\ ready = {} => NextComponent = "startMutex"
<1>. DEFINE N == 1 .. 20
<1>1. IsFiniteSet(N) /\ Cardinality(N) = 20
  <2>1. 1 \in Int /\ 20 \in Int
    OBVIOUS
  <2>2. IsFiniteSet(N) /\ Cardinality(N) = IF 1 > 20 THEN 0 ELSE 20 - 1 + 1
    BY <2>1, FS_Interval, Zenon
  <2>. QED
    BY <2>2
<1>2. Component = {InitOrder[i] : i \in N}
  BY OrderOfInit DEF Component
<1>3. IsFiniteSet(Component) /\ Cardinality(Component) <= 20
  <2>1. [i \in N |-> InitOrder[i]] \in Surjection(N, Component)
    BY <1>2 DEF Surjection
  <2>. QED
    BY <1>1, <2>1, FS_Surjection
<1>4. /\ IsFiniteSet(ready) /\ Cardinality(ready) <= Cardinality(Component)
      /\ Cardinality(ready) # Cardinality(Component)
  BY <1>3, FS_Subset
<1>5. Cardinality(ready) \in Nat /\ Cardinality(Component) \in Nat
  BY <1>3, <1>4, FS_CardinalityType
<1>6. Cardinality(ready) + 1 \in N
  BY <1>3, <1>4, <1>5
<1>7. NextComponent \in Component
  BY <1>2, <1>6 DEF NextComponent
<1>8. ASSUME ready = {} PROVE NextComponent = "startMutex"
  BY <1>8, FS_EmptySet, OrderOfInit DEF NextComponent
<1>. QED
  BY <1>7, <1>8

\* Nobody has passed the gate, and the system task has the mutex since the first
\* initialisation.
Shut ==
  /\ mutex = IF ready = {} THEN Nobody ELSE SystemTask
  /\ \A t \in Thread : at[t] \in {"polls", "waits"}

\* The system task has passed the mutex on.
Opened == ready = Component /\ broken = {} /\ phase \in {"open", "started", "done"}

StartInv ==
  /\ SysTypeOK
  /\ NoneForgotten
  /\ phase # "init" => ready = Component
  /\ phase = "tested" => broken = {}
  /\ Shut \/ Opened

LEMMA GateIsEarned == StartInv => StartIsEarned
BY DEF StartInv, StartIsEarned, Shut, Opened

\* What k_mutex_unlock does with the mutex.
LEMMA PassedOn ==
  ASSUME NEW a \in [Thread -> {"polls", "waits", "owns", "passed"}],
         \A t \in Thread : a[t] # "owns", PassOn(a)
  PROVE  /\ at' \in [Thread -> {"polls", "waits", "owns", "passed"}]
         /\ mutex' \in Thread \cup {Nobody}
         /\ \A t \in Thread : mutex' = t <=> at'[t] = "owns"
         /\ mutex' = Nobody => \A t \in Thread : at'[t] # "waits"
<1>. DEFINE waiting == {t \in Thread : a[t] = "waits"}
<1>1. CASE waiting = {}
  BY <1>1, SystemAssumption DEF PassOn
<1>2. CASE waiting # {}
  <2>1. PICK t \in waiting : mutex' = t /\ at' = [a EXCEPT ![t] = "owns"]
    BY <1>2 DEF PassOn
  <2>. QED
    BY <2>1, SystemAssumption
<1>. QED
  BY <1>1, <1>2

LEMMA StartUnchanged ==
  ASSUME StartInv, UNCHANGED sysVars
  PROVE  StartInv'
BY DEF StartInv, sysVars, SysTypeOK, NoneForgotten, Shut, Opened

LEMMA InitialiseInv ==
  ASSUME StartInv, Initialise
  PROVE  StartInv'
<1>1. /\ phase = "init" /\ ready \subseteq Component
      /\ ready' = ready \cup {NextComponent}
      /\ UNCHANGED <<crew, phase, broken, at, wdt>>
  BY DEF Initialise, StartInv, SysTypeOK
<1>2. NextComponent \in Component /\ (ready = {} => NextComponent = "startMutex")
  BY NextIsComponent, <1>1 DEF Initialise
<1>3. Shut
  BY <1>1 DEF StartInv, Opened
<1>4. mutex' = SystemTask
  BY <1>2, <1>3 DEF Initialise, Shut
<1>. QED
  BY <1>1, <1>2, <1>3, <1>4, SystemAssumption
     DEF StartInv, SysTypeOK, NoneForgotten, Shut, Opened

LEMMA TestInv ==
  ASSUME StartInv, Test
  PROVE  StartInv'
<1>1. /\ phase = "init" /\ ready = Component
      /\ UNCHANGED <<crew, ready, broken, mutex, at, wdt>>
  BY DEF Test
<1>2. Shut /\ ~wdt
  BY <1>1 DEF StartInv, Opened, NoneForgotten
<1>3. phase' \in {"tested", "failed", "done"}
  BY DEF Test
<1>4. ASSUME phase' = "tested" PROVE broken = {}
  <2>1. SelfTestPasses
    BY <1>4 DEF Test
  <2>2. broken \subseteq Tested
    BY SystemAssumption DEF StartInv, SysTypeOK
  <2>. QED
    BY <2>1, <2>2 DEF SelfTestPasses
<1>. QED
  BY <1>1, <1>2, <1>3, <1>4 DEF StartInv, SysTypeOK, NoneForgotten, Shut, Opened

LEMMA StartStepInv ==
  ASSUME StartInv, Start
  PROVE  StartInv'
<1>1. /\ phase = "tested" /\ phase' = "open" /\ UNCHANGED <<crew, ready, broken, wdt>>
      /\ PassOn(at)
  BY DEF Start
<1>2. Shut /\ ready = Component /\ broken = {} /\ ~wdt
  BY <1>1 DEF StartInv, Opened, NoneForgotten
<1>3. /\ at \in [Thread -> {"polls", "waits", "owns", "passed"}]
      /\ \A t \in Thread : at[t] # "owns"
  BY <1>2 DEF StartInv, SysTypeOK, Shut
<1>4. /\ at' \in [Thread -> {"polls", "waits", "owns", "passed"}]
      /\ mutex' \in Thread \cup {Nobody}
      /\ \A t \in Thread : mutex' = t <=> at'[t] = "owns"
      /\ mutex' = Nobody => \A t \in Thread : at'[t] # "waits"
  BY <1>1, <1>3, PassedOn
<1>5. SysTypeOK'
  BY <1>1, <1>4 DEF StartInv, SysTypeOK
<1>. QED
  BY <1>1, <1>2, <1>4, <1>5 DEF StartInv, NoneForgotten, Opened

LEMMA WatchdogInitInv ==
  ASSUME StartInv, WatchdogInit
  PROVE  StartInv'
BY DEF WatchdogInit, StartInv, SysTypeOK, NoneForgotten, Shut, Opened

LEMMA WorkerLoopInv ==
  ASSUME StartInv, WorkerLoop
  PROVE  StartInv'
BY DEF WorkerLoop, StartInv, SysTypeOK, NoneForgotten, Shut, Opened

LEMMA LockInv ==
  ASSUME StartInv, NEW t \in Thread, Lock(t)
  PROVE  StartInv'
<1>1. /\ at[t] = "polls" /\ "system" \in ready
      /\ UNCHANGED <<crew, ready, phase, broken, wdt>>
  BY DEF Lock
<1>2. CASE mutex = Nobody
  <2>1. mutex' = t /\ at' = [at EXCEPT ![t] = "owns"]
    BY <1>2 DEF Lock
  <2>2. Opened
    BY <1>1, <1>2, SystemAssumption DEF StartInv, Shut
  <2>3. SysTypeOK' /\ NoneForgotten'
    BY <1>1, <1>2, <2>1, SystemAssumption DEF StartInv, SysTypeOK, NoneForgotten
  <2>. QED
    BY <1>1, <2>2, <2>3 DEF StartInv, Opened
<1>3. CASE mutex # Nobody
  <2>1. mutex' = mutex /\ at' = [at EXCEPT ![t] = "waits"]
    BY <1>3 DEF Lock
  <2>2. SysTypeOK' /\ NoneForgotten'
    BY <1>1, <1>3, <2>1 DEF StartInv, SysTypeOK, NoneForgotten
  <2>3. Shut' \/ Opened'
    BY <1>1, <2>1 DEF StartInv, SysTypeOK, Shut, Opened
  <2>. QED
    BY <1>1, <2>2, <2>3 DEF StartInv
<1>. QED
  BY <1>2, <1>3

LEMMA UnlockInv ==
  ASSUME StartInv, NEW t \in Thread, Unlock(t)
  PROVE  StartInv'
<1>. DEFINE a == [at EXCEPT ![t] = "passed"]
<1>1. /\ at[t] = "owns" /\ PassOn(a)
      /\ UNCHANGED <<crew, ready, phase, broken, wdt>>
  BY DEF Unlock
<1>2. Opened
  BY <1>1 DEF StartInv, Shut
<1>3. /\ a \in [Thread -> {"polls", "waits", "owns", "passed"}]
      /\ \A u \in Thread : a[u] # "owns"
  BY <1>1 DEF StartInv, SysTypeOK
<1>. HIDE DEF a
<1>4. /\ at' \in [Thread -> {"polls", "waits", "owns", "passed"}]
      /\ mutex' \in Thread \cup {Nobody}
      /\ \A u \in Thread : mutex' = u <=> at'[u] = "owns"
      /\ mutex' = Nobody => \A u \in Thread : at'[u] # "waits"
  BY <1>1, <1>3, PassedOn
<1>5. SysTypeOK' /\ NoneForgotten'
  BY <1>1, <1>4 DEF StartInv, SysTypeOK, NoneForgotten
<1>. QED
  BY <1>1, <1>2, <1>5 DEF StartInv, Opened

LEMMA WatchdogResetInv ==
  ASSUME StartInv, WatchdogReset
  PROVE  StartInv'
BY SystemAssumption DEF WatchdogReset, StartInv, SysTypeOK, NoneForgotten, Shut, Opened

LEMMA SysNextInv ==
  ASSUME StartInv, SysNext
  PROVE  StartInv'
BY InitialiseInv, TestInv, StartStepInv, WatchdogInitInv, WorkerLoopInv, LockInv, UnlockInv
   DEF SysNext, SystemTaskNext

LEMMA PassOnKeeps ==
  ASSUME NEW t \in Thread, NEW a \in [Thread -> {"polls", "waits", "owns", "passed"}],
         a[t] = "passed", PassOn(a)
  PROVE  at'[t] = "passed"
<1>1. CASE at' = a
  BY <1>1
<1>2. ASSUME NEW u \in {v \in Thread : a[v] = "waits"}, at' = [a EXCEPT ![u] = "owns"]
      PROVE  at'[t] = "passed"
  BY <1>2
<1>. QED
  BY <1>1, <1>2 DEF PassOn

\* Who has passed the gate stays behind it.
LEMMA PassedIsKept ==
  ASSUME StartInv, SysNext, NEW t \in Thread, at[t] = "passed"
  PROVE  at'[t] = "passed"
<1>. at \in [Thread -> {"polls", "waits", "owns", "passed"}]
  BY DEF StartInv, SysTypeOK
<1>1. CASE UNCHANGED at
  BY <1>1
<1>2. CASE Start
  BY <1>2, PassOnKeeps DEF Start
<1>3. ASSUME NEW u \in Thread, Lock(u)
      PROVE  at'[t] = "passed"
  BY <1>3 DEF Lock
<1>4. ASSUME NEW u \in Thread, Unlock(u)
      PROVE  at'[t] = "passed"
  <2>1. PassOn([at EXCEPT ![u] = "passed"])
    BY <1>4 DEF Unlock
  <2>. QED
    BY <2>1, PassOnKeeps
<1>. QED
  BY <1>1, <1>2, <1>3, <1>4
     DEF SysNext, SystemTaskNext, Initialise, Test, WatchdogInit, WorkerLoop

\* Who uses the application channel has passed the gate.
UsersHavePassed == \A a \in App : doing[a] # "idle" => at[a] = "passed"

FirmwareInv == StartInv /\ SrvInv /\ UsersHavePassed

LEMMA FirmwareInvIsEnough == FirmwareInv => StartIsSound
<1>. SUFFICES ASSUME FirmwareInv PROVE StartIsSound
  OBVIOUS
<1>1. StartIsEarned
  BY GateIsEarned DEF FirmwareInv
<1>2. UsedWhenReady
  BY <1>1, ServicesAreComponents, FirmwareAssumption
     DEF FirmwareInv, UsersHavePassed, UsedWhenReady, StartIsEarned
<1>. QED
  BY <1>1, <1>2 DEF FirmwareInv, StartInv, StartIsSound

LEMMA StartUpInv ==
  ASSUME FirmwareInv, StartUp
  PROVE  FirmwareInv'
<1>1. SysNext /\ UNCHANGED srvVars
  BY DEF StartUp, Starting
<1>2. UsersHavePassed'
  BY <1>1, PassedIsKept, FirmwareAssumption
     DEF FirmwareInv, UsersHavePassed, srvVars, sending
<1>. QED
  BY <1>1, <1>2, SysNextInv, SrvUnchanged DEF FirmwareInv

\* Only a call that is on its way is moved on by the queue or the services.
LEMMA IdleStaysIdle ==
  ASSUME SrvInv, Transmit \/ \E s \in Service : Serve(s), NEW a \in App, doing[a] = "idle"
  PROVE  doing'[a] = "idle"
<1>1. a \notin blocked /\ a \notin Service
  BY ServicesAssumption DEF SrvInv, SendingOK, BlockedHavePackets
<1>2. CASE Transmit
  BY <1>1, <1>2 DEF Transmit, TxTake, LinkTakes, Purge, Return, sending
<1>3. ASSUME NEW s \in Service, Serve(s)
      PROVE  doing'[a] = "idle"
  BY <1>1, <1>3 DEF Serve, Receive, SendAnswer, Ignore, IncomingPacket, Return, sending
<1>. QED
  BY <1>2, <1>3

\* A thread moves on in its own calls only.
LEMMA OthersStay ==
  ASSUME SrvInv, NEW b \in App, SendData(b) \/ (b = Reader /\ ReadData),
         NEW a \in App, a # b
  PROVE  doing'[a] = doing[a]
BY DEF SrvInv, SendingOK, SendData, Call, LockSend, Fill, Oversized, Put, PutWaits, UnlockSend,
       ReadData, ReceiveData, LookAtOverflow, ClearOverflow, Goes, sending

LEMMA WorkInv ==
  ASSUME FirmwareInv, Work
  PROVE  FirmwareInv'
<1>1. SrvNext /\ UNCHANGED sysVars
  BY DEF Work, Working, SrvNext
<1>2. UsersHavePassed'
  <2>. SUFFICES ASSUME NEW a \in App, doing'[a] # "idle", at[a] # "passed" PROVE FALSE
    BY <1>1 DEF UsersHavePassed, sysVars
  <2>1. doing[a] = "idle" /\ ~Runs(a)
    BY DEF FirmwareInv, UsersHavePassed, Runs
  <2>2. CASE Transmit \/ \E s \in Service : Serve(s)
    BY <2>1, <2>2, IdleStaysIdle DEF FirmwareInv
  <2>3. ASSUME NEW b \in App, Runs(b), SendData(b) PROVE FALSE
    BY <2>1, <2>3, OthersStay DEF FirmwareInv
  <2>4. CASE Runs(Reader) /\ ReadData
    BY <2>1, <2>4, OthersStay, ServicesAssumption DEF FirmwareInv
  <2>. QED
    BY <2>2, <2>3, <2>4 DEF Work, Working
<1>. QED
  BY <1>1, <1>2, StartUnchanged, SrvNextInv DEF FirmwareInv

LEMMA ResetInv ==
  ASSUME FirmwareInv, Reset
  PROVE  FirmwareInv'
<1>1. UsersHavePassed'
  BY DEF Reset, SrvReset, UsersHavePassed
<1>. QED
  BY <1>1, WatchdogResetInv, SrvResetInv DEF FirmwareInv, Reset

LEMMA FirmwareInit == Init => FirmwareInv
<1>1. SysInit => StartInv
  BY SystemAssumption DEF SysInit, StartInv, SysTypeOK, NoneForgotten, Shut
<1>2. SrvInit => UsersHavePassed
  BY DEF SrvInit, UsersHavePassed
<1>. QED
  BY <1>1, <1>2, SrvInitInv DEF Init, FirmwareInv

LEMMA FirmwareStep ==
  ASSUME FirmwareInv, [Next]_vars
  PROVE  FirmwareInv'
<1>1. CASE UNCHANGED vars
  <2>1. UNCHANGED sysVars /\ UNCHANGED srvVars
    BY <1>1 DEF vars
  <2>2. UsersHavePassed'
    BY <2>1 DEF FirmwareInv, UsersHavePassed, sysVars, srvVars, sending
  <2>. QED
    BY <2>1, <2>2, StartUnchanged, SrvUnchanged DEF FirmwareInv
<1>. QED
  BY <1>1, StartUpInv, WorkInv, ResetInv DEF Next

\* No thread gets through the gate before every component is initialised and tested,
\* no thread is left behind at it, and what the application uses is there, after a
\* reset by the watchdog as well (system.c:61-321, watchdog.c).
THEOREM StartSafe == Spec => []StartIsSound
<1>1. FirmwareInv /\ [Next]_vars => FirmwareInv'
  BY FirmwareStep
<1>. QED
  BY FirmwareInit, FirmwareInvIsEnough, <1>1, PTL DEF Spec
=============================================================================
