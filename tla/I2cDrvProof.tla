---------------------------- MODULE I2cDrvProof ----------------------------
(* The former driver of a bus, for any threads, messages and retries.        *)
EXTENDS I2cDrv, SequenceTheorems, TLAPS

(* The inductive invariant                                                 *)

Place ==
  {"idle", "asked", "copied", "waiting", "expired", "cleared", "unlocked",
   "restarted", "woken", "left"}

AnyMessage == Message \cup {NoMessage}

Transfer ==
  [read : BOOLEAN, address : 0 .. 2, length : {m.length : m \in Message} \cup {1},
   numbered : BOOLEAN, status : {"ack", "nack"}, retries : 0 .. Counts - 1]

\* What each variable holds.
ShapeOK ==
  /\ mutex \in Thread \cup {Free}
  /\ semaphore \in 0 .. 1
  /\ tx \in Transfer
  /\ index \in Nat
  /\ events \in [event : BOOLEAN, buffer : BOOLEAN]
  /\ dma \in BOOLEAN
  /\ port \in Phase
  /\ wire \in Seq(Nat) /\ pointed \in Seq(Nat)
  /\ request \in [Thread -> [at : Place, message : AnyMessage, ok : BOOLEAN]]
  /\ doubt \subseteq Doubt
  /\ overtaken \in BOOLEAN
  /\ calls \in [Thread -> Nat] /\ \A t \in Thread : calls[t] <= CallLimit[t]

\* A thread whose transfer is at work, or is given up.
Engaged(t) == At(t, "waiting") \/ Expired(t)

Holds(t) == Engaged(t) \/ At(t, "copied") \/ At(t, "woken") \/ At(t, "restarted")

\* isBusFreeMutex keeps the threads apart.
MutexOK == \A t \in Thread : mutex = t <=> Holds(t)

\* What is in txMessage is what its owner has asked for.
OwnerOK ==
  \A t \in Thread : Holds(t) =>
    LET m == request[t].message
    IN  /\ tx.read = m.read /\ tx.length = m.length
        /\ (tx.numbered <=> m.address # 0)
        /\ (At(t, "copied") /\ semaphore = 0 /\ port = "off" => tx.address = m.address)

\* One notification for each transfer, and none without one: unless an interrupt has
\* overtaken the end of a wait.
NotifiedOK ==
  /\ \A t \in Thread :
       At(t, "waiting") /\ "unclean" \notin doubt => (semaphore = 1 <=> port = "off")
  /\ \A t \in Thread : Expired(t) /\ ~overtaken => semaphore = 0
  /\ (\A t \in Thread : ~Engaged(t)) /\ ~overtaken => semaphore = 0
  /\ (\A t \in Thread : ~Engaged(t)) /\ "unclean" \notin doubt => port = "off"

UpTo(n) == [j \in 1 .. n |-> j]

\* How far a write of m is.
WriteOK(m) ==
  /\ port \notin {"to receive", "receiving"}
  /\ port = "start" => tx.address = m.address
  /\ port = "to send" => tx.address = m.address /\ index = 0
  /\ port = "sending" =>
       /\ tx.address = 0
       /\ wire = Number(m) \o UpTo(index)
       /\ index <= m.length
       /\ (events.buffer <=> index # m.length)
  /\ port = "off" => (tx.status = "ack" => wire = Whole(m))

\* How far a read of m is: the register is named first, and then forgotten.
ReadOK(m) ==
  /\ port = "start" => \/ tx.address = m.address /\ pointed = <<>>
                       \/ tx.address = 0 /\ pointed = Number(m)
  /\ port \in {"to send", "sending"} => index = 0 /\ m.address # 0
  /\ port = "to send" => tx.address = m.address /\ pointed = <<>>
  /\ port = "sending" => tx.address = 0 /\ wire = Number(m)
  /\ port \in {"to receive", "receiving"} => tx.address = 0 /\ pointed = Number(m)
  /\ port = "off" => (tx.status = "ack" => pointed = Number(m))

WorkOK ==
  \A t \in Thread : doubt = {} /\ Engaged(t) =>
    LET m == request[t].message IN IF m.read THEN ReadOK(m) ELSE WriteOK(m)

DrvInv ==
  /\ ShapeOK
  /\ MutexOK
  /\ OwnerOK
  /\ NotifiedOK
  /\ WorkOK
  /\ StartsClean
  /\ SuccessIsSound

-----------------------------------------------------------------------------
(* Messages and what is sent of them                                       *)

LEMMA MessageFields ==
  ASSUME NEW m \in AnyMessage
  PROVE  m.read \in BOOLEAN /\ m.address \in 0 .. 2 /\ m.length \in Nat \ {0}
<1>1. CASE m \in Message
  <2>1. m \in [read : BOOLEAN, address : 0 .. 2, length : Nat \ {0}]
    BY <1>1, DrvAssumption
  <2>. QED
    BY <2>1
<1>2. CASE m = NoMessage
  BY <1>2 DEF NoMessage
<1>. QED
  BY <1>1, <1>2 DEF AnyMessage

LEMMA SequenceOfNats ==
  ASSUME NEW n \in Nat
  PROVE  /\ UpTo(n) \in Seq(Nat) /\ Len(UpTo(n)) = n
         /\ \A j \in 1 .. n : UpTo(n)[j] = j
BY DEF UpTo

LEMMA NumberIsSeq ==
  ASSUME NEW m, m.address \in Nat
  PROVE  /\ Number(m) \in Seq(Nat) /\ Len(Number(m)) = m.address
         /\ \A j \in 1 .. m.address : Number(m)[j] = 0
BY DEF Number

LEMMA NoNumber ==
  ASSUME NEW m, m.address = 0
  PROVE  Number(m) = <<>>
BY NumberIsSeq, EmptySeq

LEMMA UpToNone == UpTo(0) = <<>>
BY SequenceOfNats, EmptySeq

LEMMA UpToNext ==
  ASSUME NEW n \in Nat
  PROVE  Append(UpTo(n), n + 1) = UpTo(n + 1)
<1>1. /\ UpTo(n) \in Seq(Nat) /\ Len(UpTo(n)) = n
      /\ \A j \in 1 .. n : UpTo(n)[j] = j
  BY SequenceOfNats
<1>2. /\ UpTo(n + 1) \in Seq(Nat) /\ Len(UpTo(n + 1)) = n + 1
      /\ \A j \in 1 .. n + 1 : UpTo(n + 1)[j] = j
  BY SequenceOfNats
<1>3. /\ Append(UpTo(n), n + 1) \in Seq(Nat)
      /\ Len(Append(UpTo(n), n + 1)) = n + 1
      /\ \A j \in 1 .. n : Append(UpTo(n), n + 1)[j] = UpTo(n)[j]
      /\ Append(UpTo(n), n + 1)[n + 1] = n + 1
  BY <1>1, AppendProperties
<1>4. \A j \in 1 .. n + 1 : Append(UpTo(n), n + 1)[j] = UpTo(n + 1)[j]
  BY <1>1, <1>2, <1>3
<1>. QED
  BY <1>2, <1>3, <1>4, SeqEqual

\* Appending is concatenating: to the second part or to the whole.
LEMMA AppendToConcat ==
  ASSUME NEW S, NEW s \in Seq(S), NEW t \in Seq(S), NEW e \in S
  PROVE  s \o Append(t, e) = Append(s \o t, e)
<1>1. <<e>> \in Seq(S)
  OBVIOUS
<1>2. Append(t, e) = t \o <<e>> /\ Append(s \o t, e) = (s \o t) \o <<e>>
  BY ConcatProperties, AppendIsConcat
<1>. QED
  BY <1>1, <1>2, ConcatAssociative

\* One byte more.
LEMMA ByteAdded ==
  ASSUME NEW q \in Seq(Nat), NEW n \in Nat
  PROVE  Append(q \o UpTo(n), n + 1) = q \o UpTo(n + 1)
<1>. DEFINE S == Nat
            a == q
            b == UpTo(n)
            e == n + 1
<1>1. a \in Seq(S) /\ b \in Seq(S) /\ e \in S
  BY SequenceOfNats
<1>. HIDE DEF S, a, b, e
<1>2. a \o Append(b, e) = Append(a \o b, e)
  BY <1>1, AppendToConcat
<1>. QED
  BY <1>2, UpToNext DEF a, b, e

-----------------------------------------------------------------------------
(* The fields of the message at work                                       *)

LEMMA StatusSet ==
  ASSUME tx \in Transfer, NEW s \in {"ack", "nack"}
  PROVE  /\ [tx EXCEPT !.status = s] \in Transfer
         /\ [tx EXCEPT !.status = s].status = s
BY DEF Transfer

LEMMA AddressForgotten ==
  ASSUME tx \in Transfer
  PROVE  /\ [tx EXCEPT !.address = 0] \in Transfer
         /\ [tx EXCEPT !.address = 0].address = 0
BY DEF Transfer

LEMMA RetryCounted ==
  ASSUME tx \in Transfer, tx.retries > 0
  PROVE  [tx EXCEPT !.retries = @ - 1] \in Transfer
<1>1. tx.retries - 1 \in 0 .. Counts - 1
  BY DrvAssumption DEF Transfer
<1>. QED
  BY <1>1 DEF Transfer

LEMMA RetriesUsedUp ==
  ASSUME tx \in Transfer
  PROVE  /\ [tx EXCEPT !.retries = (@ - 1) % Counts, !.status = "nack"] \in Transfer
         /\ [tx EXCEPT !.retries = (@ - 1) % Counts, !.status = "nack"].status = "nack"
<1>1. Counts \in Nat \ {0} /\ tx.retries \in Int
  BY DrvAssumption DEF Transfer
<1>2. (tx.retries - 1) % Counts \in 0 .. Counts - 1
  BY <1>1
<1>. QED
  BY <1>2 DEF Transfer

LEMMA MessageCopied ==
  ASSUME NEW m \in AnyMessage
  PROVE  [read |-> m.read, address |-> m.address, length |-> m.length,
          numbered |-> m.address # 0, status |-> "ack", retries |-> MaxRetries]
           \in Transfer
<1>1. m.read \in BOOLEAN /\ m.address \in 0 .. 2
  BY MessageFields
<1>2. m.length \in {x.length : x \in Message} \cup {1}
  BY DEF AnyMessage, NoMessage
<1>3. MaxRetries \in 0 .. Counts - 1 /\ (m.address # 0) \in BOOLEAN
  BY DrvAssumption
<1>. QED
  BY <1>1, <1>2, <1>3 DEF Transfer

-----------------------------------------------------------------------------
(* The interrupts                                                          *)

LEMMA StartBitShape == ShapeOK /\ StartBit => ShapeOK'
<1>. SUFFICES ASSUME ShapeOK, StartBit PROVE ShapeOK'
  OBVIOUS
<1>1. port' \in Phase /\ index' = 0
  BY DEF StartBit, Phase, IndexAtStart
<1>2. wire' \in Seq(Nat)
  <2>1. wire \in Seq(Nat) /\ <<>> \in Seq(Nat)
    BY EmptySeq DEF ShapeOK
  <2>. QED
    BY <2>1 DEF StartBit
<1>3. UNCHANGED <<mutex, semaphore, tx, events, dma, request, pointed, doubt,
                  overtaken, calls>>
  BY DEF StartBit, historyVars
<1>. QED
  BY <1>1, <1>2, <1>3 DEF ShapeOK

LEMMA AddressToSendShape == ShapeOK /\ AddressToSend => ShapeOK'
<1>. SUFFICES ASSUME ShapeOK, AddressToSend PROVE ShapeOK'
  OBVIOUS
<1>1. wire' \in Seq(Nat)
  <2>1. tx.address \in Nat
    BY DEF ShapeOK, Transfer
  <2>. QED
    BY <2>1, NumberIsSeq DEF AddressToSend
<1>2. tx' \in Transfer /\ port' \in Phase
  BY AddressForgotten DEF ShapeOK, AddressToSend, Phase
<1>3. events' \in [event : BOOLEAN, buffer : BOOLEAN]
  BY DEF ShapeOK, AddressToSend
<1>. QED
  BY <1>1, <1>2, <1>3 DEF ShapeOK, AddressToSend, historyVars

LEMMA AddressToReceiveShape == ShapeOK /\ AddressToReceive => ShapeOK'
<1>. SUFFICES ASSUME ShapeOK, AddressToReceive PROVE ShapeOK'
  OBVIOUS
<1>1. port' \in Phase /\ dma' \in BOOLEAN
  BY DEF AddressToReceive, Phase
<1>2. events' \in [event : BOOLEAN, buffer : BOOLEAN]
  BY DEF AddressToReceive
<1>. QED
  BY <1>1, <1>2 DEF ShapeOK, AddressToReceive, historyVars

LEMMA BufferEmptyShape == ShapeOK /\ BufferEmpty => ShapeOK'
<1>. SUFFICES ASSUME ShapeOK, BufferEmpty PROVE ShapeOK'
  OBVIOUS
<1>1. index' \in Nat /\ index + 1 \in Nat
  BY DEF ShapeOK, BufferEmpty
<1>2. wire' \in Seq(Nat)
  <2>1. wire \in Seq(Nat)
    BY DEF ShapeOK
  <2>2. Append(wire, index + 1) \in Seq(Nat)
    BY <1>1, <2>1, AppendProperties
  <2>. QED
    BY <2>1, <2>2 DEF BufferEmpty
<1>3. events' \in [event : BOOLEAN, buffer : BOOLEAN]
  BY DEF ShapeOK, BufferEmpty, AllSent
<1>. QED
  BY <1>1, <1>2, <1>3 DEF ShapeOK, BufferEmpty, historyVars

LEMMA NotifyShape ==
  ASSUME ShapeOK, Notify, TryNextMessage
  PROVE  /\ semaphore' \in 0 .. 1 /\ overtaken' \in BOOLEAN /\ port' \in Phase
         /\ events' \in [event : BOOLEAN, buffer : BOOLEAN]
<1>1. port' \in Phase /\ semaphore' \in 0 .. 1
  BY DEF Notify, TryNextMessage, Phase
<1>2. events' \in [event : BOOLEAN, buffer : BOOLEAN]
  BY DEF TryNextMessage
<1>3. overtaken' \in BOOLEAN
  BY DEF ShapeOK, Notify
<1>. QED
  BY <1>1, <1>2, <1>3

LEMMA FinishShape ==
  ASSUME ShapeOK, NEW status \in {"ack", "nack"}, Finish(status)
  PROVE  /\ semaphore' \in 0 .. 1 /\ overtaken' \in BOOLEAN /\ port' \in Phase
         /\ events' \in [event : BOOLEAN, buffer : BOOLEAN]
         /\ tx' \in Transfer /\ tx'.status = status
BY NotifyShape, StatusSet DEF ShapeOK, Finish

LEMMA ByteFinishedShape == ShapeOK /\ ByteFinished => ShapeOK'
<1>. SUFFICES ASSUME ShapeOK, ByteFinished PROVE ShapeOK'
  OBVIOUS
<1>1. doubt' \subseteq Doubt
  BY DEF ShapeOK, ByteFinished, Doubt
<1>2. CASE tx.read
  BY <1>1, <1>2 DEF ShapeOK, ByteFinished, Phase
<1>3. CASE ~tx.read
  <2>1. tx.status \in {"ack", "nack"} /\ Finish(tx.status)
    BY <1>3 DEF ShapeOK, Transfer, ByteFinished
  <2>. QED
    BY <1>1, <1>3, <2>1, FinishShape DEF ShapeOK, ByteFinished
<1>. QED
  BY <1>2, <1>3

LEMMA RefusedShape == ShapeOK /\ Refused => ShapeOK'
<1>. SUFFICES ASSUME ShapeOK, Refused PROVE ShapeOK'
  OBVIOUS
<1>1. CASE tx.retries > 0
  <2>1. tx' \in Transfer /\ port' \in Phase
    BY <1>1, RetryCounted DEF ShapeOK, Refused, Phase
  <2>2. doubt' \subseteq Doubt
    BY <1>1 DEF ShapeOK, Refused, Doubt
  <2>. QED
    BY <1>1, <2>1, <2>2 DEF ShapeOK, Refused
<1>2. CASE ~(tx.retries > 0)
  BY <1>2, RetriesUsedUp, NotifyShape DEF ShapeOK, Refused
<1>. QED
  BY <1>1, <1>2

LEMMA ReceivedShape == ShapeOK /\ (Received \/ TransferError) => ShapeOK'
<1>1. ASSUME ShapeOK, Received PROVE ShapeOK'
  <2>1. tx.status \in {"ack", "nack"}
    BY <1>1 DEF ShapeOK, Transfer
  <2>. QED
    BY <1>1, <2>1, FinishShape DEF ShapeOK, Received, ClearDMA
<1>2. ASSUME ShapeOK, TransferError PROVE ShapeOK'
  BY <1>2, FinishShape DEF ShapeOK, TransferError
<1>. QED
  BY <1>1, <1>2

\* Every interrupt belongs to the message at work, and goes on with it or ends it.
SameMessage ==
  tx'.read = tx.read /\ tx'.length = tx.length /\ (tx'.numbered <=> tx.numbered)

GoesOn == port' # "off" /\ UNCHANGED <<semaphore, overtaken>>

Ends ==
  /\ port' = "off"
  /\ semaphore' = 1
  /\ overtaken' = (overtaken \/ \E t \in Thread : Expired(t))

LEMMA InterruptFrame ==
  ASSUME ShapeOK, Interrupt
  PROVE  /\ UNCHANGED <<mutex, request, calls>>
         /\ port # "off"
         /\ doubt \subseteq doubt' /\ ("unclean" \in doubt' => "unclean" \in doubt)
         /\ GoesOn \/ Ends
<1>1. CASE StartBit
  BY <1>1 DEF StartBit, GoesOn, historyVars
<1>2. CASE AddressToSend
  BY <1>2 DEF AddressToSend, GoesOn, historyVars
<1>3. CASE AddressToReceive
  BY <1>3 DEF AddressToReceive, GoesOn, historyVars
<1>4. CASE BufferEmpty
  BY <1>4 DEF BufferEmpty, GoesOn, historyVars
<1>5. CASE ByteFinished
  BY <1>5 DEF ByteFinished, Finish, Notify, TryNextMessage, GoesOn, Ends
<1>6. CASE Refused
  <2>1. UNCHANGED <<mutex, request, calls>> /\ port # "off"
    BY <1>6 DEF Refused
  <2>2. doubt' = doubt \/ doubt' = doubt \cup {"retried"}
    BY <1>6 DEF Refused
  <2>3. CASE tx.retries > 0
    BY <1>6, <2>1, <2>2, <2>3 DEF Refused, GoesOn
  <2>4. CASE ~(tx.retries > 0)
    BY <1>6, <2>1, <2>2, <2>4 DEF Refused, Notify, TryNextMessage, Ends
  <2>. QED
    BY <2>3, <2>4
<1>7. CASE Received \/ TransferError
  BY <1>7 DEF Received, TransferError, Finish, Notify, TryNextMessage, Ends
<1>. QED
  BY <1>1, <1>2, <1>3, <1>4, <1>5, <1>6, <1>7 DEF Interrupt

LEMMA InterruptSame == ShapeOK /\ Interrupt => SameMessage
<1>. SUFFICES ASSUME ShapeOK, Interrupt PROVE SameMessage
  OBVIOUS
<1>1. tx \in Transfer
  BY DEF ShapeOK
<1>2. CASE StartBit \/ AddressToReceive \/ BufferEmpty
  BY <1>2 DEF StartBit, AddressToReceive, BufferEmpty, SameMessage
<1>3. CASE AddressToSend
  BY <1>1, <1>3 DEF AddressToSend, SameMessage, Transfer
<1>4. CASE ByteFinished
  BY <1>1, <1>4 DEF ByteFinished, Finish, SameMessage, Transfer
<1>5. CASE Refused
  BY <1>1, <1>5 DEF Refused, SameMessage, Transfer
<1>6. CASE Received \/ TransferError
  BY <1>1, <1>6 DEF Received, TransferError, Finish, SameMessage, Transfer
<1>. QED
  BY <1>2, <1>3, <1>4, <1>5, <1>6 DEF Interrupt

LEMMA InterruptShape == ShapeOK /\ Interrupt => ShapeOK'
BY StartBitShape, AddressToSendShape, AddressToReceiveShape, BufferEmptyShape,
   ByteFinishedShape, RefusedShape, ReceivedShape DEF Interrupt

\* One thread at a time.
LEMMA OneHolder ==
  ASSUME MutexOK, NEW t \in Thread, NEW u \in Thread, Holds(t), Holds(u)
  PROVE  t = u
BY DEF MutexOK

\* An interrupt finds a transfer, unless something has been overtaken before.
LEMMA SomeoneEngaged ==
  ASSUME NotifiedOK, port # "off", "unclean" \notin doubt
  PROVE  \E t \in Thread : Engaged(t)
BY DEF NotifiedOK

LEMMA SamePlaces ==
  ASSUME UNCHANGED request, NEW t \in Thread
  PROVE  /\ Holds(t)' <=> Holds(t)
         /\ Engaged(t)' <=> Engaged(t)
         /\ Expired(t)' <=> Expired(t)
         /\ \A place : At(t, place)' <=> At(t, place)
         /\ request'[t].message = request[t].message
BY DEF Holds, Engaged, Expired, At

LEMMA InterruptOwner ==
  ASSUME ShapeOK, MutexOK, OwnerOK, Interrupt
  PROVE  MutexOK' /\ OwnerOK'
<1>1. /\ UNCHANGED <<mutex, request>> /\ port # "off" /\ (GoesOn \/ Ends) /\ SameMessage
  BY InterruptFrame, InterruptSame
<1>2. MutexOK'
  BY <1>1, SamePlaces DEF MutexOK
<1>3. ~(semaphore' = 0 /\ port' = "off")
  BY <1>1 DEF GoesOn, Ends
<1>. QED
  BY <1>1, <1>2, <1>3, SamePlaces DEF OwnerOK, SameMessage

LEMMA InterruptNotified ==
  ASSUME ShapeOK, NotifiedOK, StartsClean, Interrupt
  PROVE  NotifiedOK' /\ StartsClean'
<1>1. /\ UNCHANGED request /\ port # "off" /\ (GoesOn \/ Ends)
      /\ ("unclean" \in doubt' <=> "unclean" \in doubt)
  BY InterruptFrame
<1>2. (overtaken => overtaken') /\ StartsClean'
  <2>1. overtaken => overtaken'
    BY <1>1 DEF GoesOn, Ends
  <2>. QED
    BY <1>1, <2>1 DEF StartsClean
<1>3. ASSUME NEW t \in Thread, At(t, "waiting")', "unclean" \notin doubt'
      PROVE  semaphore' = 1 <=> port' = "off"
  BY <1>1, <1>3, SamePlaces DEF NotifiedOK, GoesOn, Ends
<1>4. ASSUME NEW t \in Thread, Expired(t)', ~overtaken'
      PROVE  semaphore' = 0
  <2>1. Expired(t)
    BY <1>1, <1>4, SamePlaces
  <2>2. CASE GoesOn
    BY <1>4, <2>1, <2>2 DEF NotifiedOK, GoesOn
  <2>3. CASE Ends
    BY <1>4, <2>1, <2>3 DEF Ends
  <2>. QED
    BY <1>1, <2>2, <2>3
<1>5. ASSUME \A t \in Thread : ~Engaged(t)', "unclean" \notin doubt'
      PROVE  FALSE
  BY <1>1, <1>5, SamePlaces, SomeoneEngaged
<1>6. ASSUME \A t \in Thread : ~Engaged(t)', ~overtaken'
      PROVE  FALSE
  BY <1>1, <1>2, <1>5, <1>6 DEF StartsClean
<1>. QED
  BY <1>2, <1>3, <1>4, <1>5, <1>6 DEF NotifiedOK

\* A thread that has been woken holds the mutex: no transfer is at work.
LEMMA InterruptSuccess ==
  ASSUME ShapeOK, MutexOK, NotifiedOK, Interrupt
  PROVE  SuccessIsSound'
<1>1. /\ UNCHANGED request /\ port # "off" /\ doubt \subseteq doubt'
  BY InterruptFrame
<1>. SUFFICES ASSUME NEW t \in Thread, At(t, "woken")', doubt' = {}
              PROVE  FALSE
  BY DEF SuccessIsSound
<1>2. At(t, "woken") /\ doubt = {}
  BY <1>1, SamePlaces
<1>3. PICK u \in Thread : Engaged(u)
  BY <1>1, <1>2, SomeoneEngaged
<1>4. u = t
  BY <1>2, <1>3, OneHolder DEF Holds
<1>. QED
  BY <1>2, <1>3, <1>4 DEF Engaged, Expired, At

-----------------------------------------------------------------------------
(* How an interrupt goes on with a message                                 *)

\* What is known of the message m of the thread whose transfer is at work.
Known(m) ==
  /\ m.read \in BOOLEAN /\ m.address \in 0 .. 2 /\ m.length \in Nat \ {0}
  /\ tx.read = m.read /\ tx.length = m.length /\ (tx.numbered <=> m.address # 0)

LEMMA WriteGoesOn ==
  ASSUME ShapeOK, NEW m, Known(m), ~m.read, WriteOK(m), Interrupt, doubt' = {}
  PROVE  WriteOK(m)'
<1>1. tx \in Transfer /\ index \in Nat /\ ~tx.read /\ tx.length = m.length
  BY DEF ShapeOK, Known
<1>2. CASE StartBit
  BY <1>1, <1>2 DEF WriteOK, StartBit, Transmits, IndexAtStart
<1>3. CASE AddressToSend
  <2>1. /\ port' = "sending" /\ index' = 0 /\ events'.buffer
        /\ wire' = Number(m)
    BY <1>3 DEF ShapeOK, WriteOK, AddressToSend, Number
  <2>4. tx'.address = 0
    BY <1>1, <1>3, AddressForgotten DEF AddressToSend
  <2>2. Number(m) \o UpTo(0) = Number(m)
    BY NumberIsSeq, UpToNone, ConcatEmptySeq DEF Known
  <2>3. 0 <= m.length /\ 0 # m.length
    BY DEF Known
  <2>. QED
    BY <2>1, <2>2, <2>3, <2>4 DEF WriteOK
<1>4. CASE BufferEmpty
  <2>1. /\ port = "sending" /\ port' = "sending"
        /\ wire = Number(m) \o UpTo(index) /\ index <= m.length /\ index # m.length
        /\ wire' = Append(wire, index + 1) /\ index' = index + 1
        /\ events'.buffer = ~AllSent(index + 1) /\ tx'.address = 0
    BY <1>1, <1>4 DEF ShapeOK, WriteOK, BufferEmpty
  <2>2. wire' = Number(m) \o UpTo(index + 1)
    <3>1. Number(m) \in Seq(Nat)
      BY NumberIsSeq DEF Known
    <3>. QED
      BY <1>1, <2>1, <3>1, ByteAdded
  <2>3. index + 1 <= m.length
    BY <1>1, <2>1 DEF Known
  <2>4. events'.buffer <=> index' # m.length
    BY <1>1, <2>1 DEF AllSent
  <2>. QED
    BY <2>1, <2>2, <2>3, <2>4 DEF WriteOK
<1>5. CASE ByteFinished
  <2>1. port = "sending" /\ ~events.buffer /\ port' = "off" /\ wire' = wire
    BY <1>1, <1>5 DEF ByteFinished, Finish, TryNextMessage
  <2>2. wire = Number(m) \o UpTo(m.length)
    BY <2>1 DEF WriteOK
  <2>3. wire' = Whole(m)
    BY <2>1, <2>2 DEF Whole, UpTo
  <2>. QED
    BY <2>1, <2>3 DEF WriteOK
<1>6. CASE Refused
  <2>1. CASE tx.retries > 0
    <3>1. port' = "start" /\ tx'.address = tx.address
      BY <1>1, <1>6, <2>1 DEF Refused, Transfer
    <3>2. tx.address = m.address
      <4>1. port \in {"to send", "sending"}
        BY <1>6 DEF WriteOK, Refused
      <4>2. port = "sending" => ~tx.numbered
        BY <1>6, <2>1 DEF Refused
      <4>. QED
        BY <4>1, <4>2 DEF WriteOK, Known
    <3>. QED
      BY <3>1, <3>2 DEF WriteOK
  <2>2. CASE ~(tx.retries > 0)
    <3>1. port' = "off" /\ tx'.status = "nack"
      BY <1>1, <1>6, <2>2, RetriesUsedUp DEF Refused, TryNextMessage
    <3>. QED
      BY <3>1 DEF WriteOK
  <2>. QED
    BY <2>1, <2>2
<1>7. CASE AddressToReceive \/ Received \/ TransferError
  BY <1>7 DEF WriteOK, AddressToReceive, Received, TransferError
<1>. QED
  BY <1>2, <1>3, <1>4, <1>5, <1>6, <1>7 DEF Interrupt

LEMMA ReadGoesOn ==
  ASSUME ShapeOK, NEW m, Known(m), m.read, ReadOK(m), Interrupt, doubt' = {}
  PROVE  ReadOK(m)'
<1>1. tx \in Transfer /\ tx.read /\ (m.address = 0 => Number(m) = <<>>)
  BY NoNumber DEF ShapeOK, Known
<1>2. CASE StartBit
  <2>1. UNCHANGED <<tx, pointed>> /\ index' = 0
    BY <1>2 DEF StartBit, IndexAtStart, historyVars
  <2>2. CASE tx.address # 0
    <3>1. port' = "to send" /\ tx.address = m.address /\ pointed = <<>>
      BY <1>2, <2>2 DEF ReadOK, StartBit, Transmits
    <3>. QED
      BY <2>1, <2>2, <3>1 DEF ReadOK
  <2>3. CASE tx.address = 0
    <3>1. port' = "to receive" /\ pointed = Number(m)
      BY <1>1, <1>2, <2>3 DEF ReadOK, StartBit, Transmits
    <3>. QED
      BY <2>1, <2>3, <3>1 DEF ReadOK
  <2>. QED
    BY <2>2, <2>3
<1>3. CASE AddressToSend
  <2>1. /\ port = "to send" /\ port' = "sending" /\ index' = 0
        /\ wire' = Number(m)
    BY <1>3 DEF ReadOK, AddressToSend, Number
  <2>2. tx'.address = 0
    BY <1>1, <1>3, AddressForgotten DEF AddressToSend
  <2>. QED
    BY <2>1, <2>2 DEF ReadOK
<1>4. CASE AddressToReceive
  <2>1. /\ port = "to receive" /\ port' = "receiving"
        /\ UNCHANGED <<tx, pointed>>
    BY <1>4 DEF AddressToReceive, historyVars
  <2>. QED
    BY <2>1 DEF ReadOK
<1>5. CASE BufferEmpty
  <2>1. port = "sending" /\ UNCHANGED <<port, wire, index, tx>>
    BY <1>1, <1>5 DEF BufferEmpty
  <2>. QED
    BY <2>1 DEF ReadOK
<1>6. CASE ByteFinished
  <2>1. /\ port = "sending" /\ port' = "start" /\ pointed' = wire /\ tx' = tx
    BY <1>1, <1>6 DEF ByteFinished
  <2>. QED
    BY <2>1 DEF ReadOK
<1>7. CASE Refused
  <2>1. CASE tx.retries > 0
    <3>1. port' = "start" /\ tx'.address = tx.address /\ pointed' = pointed
      BY <1>1, <1>7, <2>1 DEF Refused, Transfer
    <3>2. port = "sending" => ~tx.numbered
      BY <1>7, <2>1 DEF Refused
    <3>3. port \in {"to send", "to receive", "sending"}
      BY <1>7 DEF Refused
    <3>. QED
      BY <3>1, <3>2, <3>3 DEF ReadOK, Known
  <2>2. CASE ~(tx.retries > 0)
    <3>1. port' = "off" /\ tx'.status = "nack"
      BY <1>1, <1>7, <2>2, RetriesUsedUp DEF Refused, TryNextMessage
    <3>. QED
      BY <3>1 DEF ReadOK
  <2>. QED
    BY <2>1, <2>2
<1>8. CASE Received \/ TransferError
  <2>1. port = "receiving" /\ port' = "off" /\ pointed' = pointed
    BY <1>8 DEF Received, TransferError, Finish, TryNextMessage
  <2>. QED
    BY <2>1 DEF ReadOK
<1>. QED
  BY <1>2, <1>3, <1>4, <1>5, <1>6, <1>7, <1>8 DEF Interrupt

LEMMA InterruptWork ==
  ASSUME ShapeOK, OwnerOK, WorkOK, Interrupt
  PROVE  WorkOK'
<1>1. UNCHANGED request /\ doubt \subseteq doubt'
  BY InterruptFrame
<1>. SUFFICES ASSUME NEW t \in Thread, doubt' = {}, Engaged(t)'
              PROVE  (IF request[t].message.read THEN ReadOK(request[t].message)
                      ELSE WriteOK(request[t].message))'
  BY DEF WorkOK
<1>2. doubt = {} /\ Engaged(t) /\ Holds(t)
  BY <1>1, SamePlaces DEF Holds
<1>3. PICK m : m = request[t].message
  OBVIOUS
<1>4. m \in AnyMessage /\ request'[t].message = m
  BY <1>1, <1>3 DEF ShapeOK
<1>5. Known(m)
  BY <1>2, <1>3, <1>4, MessageFields DEF Known, OwnerOK
<1>6. CASE m.read
  <2>1. ReadOK(m)
    BY <1>2, <1>3, <1>6 DEF WorkOK
  <2>2. ReadOK(m)'
    BY <1>5, <1>6, <2>1, ReadGoesOn
  <2>. QED
    BY <1>4, <1>6, <2>2
<1>7. CASE ~m.read
  <2>1. WriteOK(m)
    BY <1>2, <1>3, <1>7 DEF WorkOK
  <2>2. WriteOK(m)'
    BY <1>5, <1>7, <2>1, WriteGoesOn
  <2>. QED
    BY <1>4, <1>7, <2>2
<1>. QED
  BY <1>6, <1>7

-----------------------------------------------------------------------------
(* The threads                                                             *)

\* A step of t that moves it, and leaves the requests as they are.
LEMMA MovedPlaces ==
  ASSUME ShapeOK, NEW t \in Thread, NEW place \in Place, Moved(t, place)
  PROVE  /\ request' \in [Thread -> [at : Place, message : AnyMessage, ok : BOOLEAN]]
         /\ request'[t].at = place
         /\ \A u \in Thread : u # t => request'[u] = request[u]
         /\ \A u \in Thread : request'[u].message = request[u].message
<1>1. request[t] \in [at : Place, message : AnyMessage, ok : BOOLEAN]
  BY DEF ShapeOK
<1>2. [request[t] EXCEPT !.at = place]
         \in [at : Place, message : AnyMessage, ok : BOOLEAN]
  BY <1>1
<1>. QED
  BY <1>2 DEF ShapeOK, Moved

\* The places of the other threads.
LEMMA OtherPlaces ==
  ASSUME NEW u \in Thread, request'[u] = request[u]
  PROVE  /\ Holds(u)' <=> Holds(u)
         /\ Engaged(u)' <=> Engaged(u)
         /\ Expired(u)' <=> Expired(u)
         /\ \A place : At(u, place)' <=> At(u, place)
BY DEF Holds, Engaged, Expired, At

LEMMA Alone ==
  ASSUME MutexOK, NEW t \in Thread, NEW u \in Thread, Holds(t), u # t
  PROVE  /\ ~Holds(u) /\ ~Engaged(u) /\ ~Expired(u)
         /\ ~At(u, "copied") /\ ~At(u, "waiting") /\ ~At(u, "woken")
BY OneHolder DEF Holds, Engaged

\* A thread without the mutex does nothing to the driver.
LEMMA Outside ==
  ASSUME DrvInv, ShapeOK', NEW t \in Thread, ~Holds(t), ~Holds(t)',
         \A u \in Thread : u # t => request'[u] = request[u],
         UNCHANGED <<mutex, semaphore, tx, portVars, historyVars>>
  PROVE  DrvInv'
<1>1. UNCHANGED <<mutex, semaphore, tx, index, events, dma, port, wire, pointed,
                  doubt, overtaken>>
  BY DEF portVars, historyVars
<1>2. \A u \in Thread :
        /\ Holds(u)' <=> Holds(u)
        /\ Holds(u) => request'[u] = request[u]
        /\ Engaged(u)' <=> Engaged(u)
        /\ Expired(u)' <=> Expired(u)
        /\ At(u, "copied")' <=> At(u, "copied")
        /\ At(u, "waiting")' <=> At(u, "waiting")
        /\ At(u, "woken")' <=> At(u, "woken")
  BY OtherPlaces DEF Holds, Engaged
<1>3. MutexOK' /\ OwnerOK'
  BY <1>1, <1>2 DEF DrvInv, MutexOK, OwnerOK
<1>4. NotifiedOK'
  BY <1>1, <1>2 DEF DrvInv, NotifiedOK
<1>5. \A m : (ReadOK(m)' <=> ReadOK(m)) /\ (WriteOK(m)' <=> WriteOK(m))
  BY <1>1 DEF ReadOK, WriteOK
<1>6. WorkOK'
  <2>. SUFFICES ASSUME NEW u \in Thread, doubt' = {}, Engaged(u)'
                PROVE  (IF request[u].message.read THEN ReadOK(request[u].message)
                        ELSE WriteOK(request[u].message))'
    BY DEF WorkOK
  <2>1. Engaged(u) /\ doubt = {} /\ request'[u] = request[u]
    BY <1>1, <1>2 DEF Holds
  <2>. QED
    BY <1>1, <2>1 DEF DrvInv, WorkOK, ReadOK, WriteOK
<1>7. StartsClean' /\ SuccessIsSound'
  <2>1. \A u \in Thread : At(u, "woken")' => At(u, "woken") /\ request'[u] = request[u]
    BY <1>2 DEF Holds
  <2>. QED
    BY <1>1, <2>1 DEF DrvInv, StartsClean, SuccessIsSound
<1>. QED
  BY <1>3, <1>4, <1>6, <1>7 DEF DrvInv

LEMMA CallStep ==
  ASSUME DrvInv, NEW t \in Thread, Call(t)
  PROVE  DrvInv'
<1>1. PICK m \in Message :
        request' = [request EXCEPT ![t] = [at |-> "asked", message |-> m, ok |-> FALSE]]
  BY DEF Call
<1>2. [at |-> "asked", message |-> m, ok |-> FALSE]
         \in [at : Place, message : AnyMessage, ok : BOOLEAN]
  BY DEF Place, AnyMessage
<1>3. /\ request' \in [Thread -> [at : Place, message : AnyMessage, ok : BOOLEAN]]
      /\ request'[t].at = "asked"
      /\ \A u \in Thread : u # t => request'[u] = request[u]
  BY <1>1, <1>2 DEF DrvInv, ShapeOK
<1>4. calls' \in [Thread -> Nat] /\ \A u \in Thread : calls'[u] <= CallLimit[u]
  <2>1. /\ calls \in [Thread -> Nat] /\ \A u \in Thread : calls[u] <= CallLimit[u]
        /\ calls[t] < CallLimit[t] /\ calls' = [calls EXCEPT ![t] = @ + 1]
        /\ \A u \in Thread : CallLimit[u] \in Nat
    BY DrvAssumption DEF DrvInv, ShapeOK, Call
  <2>2. calls'[t] = calls[t] + 1 /\ \A u \in Thread : u # t => calls'[u] = calls[u]
    BY <2>1
  <2>3. calls[t] + 1 <= CallLimit[t]
    BY <2>1
  <2>. QED
    BY <2>1, <2>2, <2>3
<1>5. ShapeOK'
  BY <1>3, <1>4 DEF DrvInv, ShapeOK, Call, portVars, historyVars
<1>6. ~Holds(t) /\ ~Holds(t)'
  BY <1>3 DEF Call, Holds, Engaged, Expired, At
<1>. QED
  BY <1>3, <1>5, <1>6, Outside DEF Call

LEMMA ReturnStep ==
  ASSUME DrvInv, NEW t \in Thread, Return(t)
  PROVE  DrvInv'
<1>1. NoRequest \in [at : Place, message : AnyMessage, ok : BOOLEAN]
  BY DEF NoRequest, Place, AnyMessage
<1>2. /\ request' \in [Thread -> [at : Place, message : AnyMessage, ok : BOOLEAN]]
      /\ request'[t].at = "idle"
      /\ \A u \in Thread : u # t => request'[u] = request[u]
  BY <1>1 DEF DrvInv, ShapeOK, Return, NoRequest
<1>3. ShapeOK'
  BY <1>2 DEF DrvInv, ShapeOK, Return, portVars, historyVars
<1>4. ~Holds(t) /\ ~Holds(t)'
  BY <1>2 DEF Return, Holds, Engaged, Expired, At
<1>. QED
  BY <1>2, <1>3, <1>4, Outside DEF Return

LEMMA CopyMessageStep ==
  ASSUME DrvInv, NEW t \in Thread, CopyMessage(t)
  PROVE  DrvInv'
<1>. DEFINE m == request[t].message
<1>1. /\ ShapeOK /\ MutexOK /\ OwnerOK /\ NotifiedOK /\ StartsClean
      /\ Moved(t, "copied") /\ mutex = Free /\ mutex' = t
      /\ UNCHANGED <<semaphore, index, events, dma, port, wire, pointed, doubt,
                     overtaken, calls>>
  BY DEF DrvInv, CopyMessage, portVars, historyVars
<1>2. /\ request' \in [Thread -> [at : Place, message : AnyMessage, ok : BOOLEAN]]
      /\ request'[t].at = "copied" /\ request'[t].message = m
      /\ \A u \in Thread : u # t => request'[u] = request[u]
  BY <1>1, MovedPlaces DEF Place
<1>3. \A u \in Thread : ~Holds(u)
  BY <1>1, DrvAssumption DEF MutexOK
<1>4. \A u \in Thread : u # t => ~Holds(u)'
  BY <1>2, <1>3, OtherPlaces
<1>5. Holds(t)' /\ ~Engaged(t)' /\ ~At(t, "woken")'
  BY <1>2 DEF Holds, Engaged, Expired, At
<1>6. \A u \in Thread : ~Engaged(u) /\ ~Engaged(u)' /\ ~Expired(u)' /\ ~At(u, "waiting")'
                        /\ ~At(u, "woken")'
  BY <1>3, <1>4, <1>5 DEF Holds, Engaged
<1>7. tx' \in Transfer
  BY <1>1, MessageCopied DEF ShapeOK, CopyMessage
<1>8. ShapeOK'
  BY <1>1, <1>2, <1>7 DEF ShapeOK
<1>9. MutexOK'
  BY <1>1, <1>4, <1>5 DEF MutexOK
<1>10. OwnerOK'
  <2>1. /\ tx'.read = m.read /\ tx'.length = m.length /\ tx'.numbered = (m.address # 0)
        /\ tx'.address = m.address
    BY DEF CopyMessage
  <2>. QED
    BY <1>2, <1>4, <2>1 DEF OwnerOK
<1>11. NotifiedOK'
  BY <1>1, <1>6 DEF NotifiedOK
<1>12. WorkOK' /\ SuccessIsSound'
  BY <1>6 DEF WorkOK, SuccessIsSound
<1>13. StartsClean'
  BY <1>1 DEF StartsClean
<1>. QED
  BY <1>8, <1>9, <1>10, <1>11, <1>12, <1>13 DEF DrvInv

LEMMA StartTransferStep ==
  ASSUME DrvInv, NEW t \in Thread, StartTransfer(t)
  PROVE  DrvInv'
<1>1. /\ ShapeOK /\ MutexOK /\ OwnerOK /\ NotifiedOK /\ StartsClean
      /\ At(t, "copied") /\ Moved(t, "waiting")
      /\ port' = "start" /\ pointed' = <<>>
      /\ events' = [event |-> TRUE, buffer |-> FALSE] /\ dma' = (dma \/ tx.read)
      /\ doubt' = IF semaphore = 0 /\ port = "off" THEN {} ELSE {"unclean"}
      /\ UNCHANGED <<mutex, semaphore, tx, index, wire, overtaken, calls>>
  BY DEF DrvInv, StartTransfer
<1>2. /\ request' \in [Thread -> [at : Place, message : AnyMessage, ok : BOOLEAN]]
      /\ request'[t].at = "waiting" /\ request'[t].message = request[t].message
      /\ \A u \in Thread : u # t => request'[u] = request[u]
  BY <1>1, MovedPlaces DEF Place
<1>3. Holds(t) /\ Holds(t)' /\ Engaged(t)' /\ ~Expired(t)' /\ ~At(t, "woken")'
      /\ ~At(t, "copied")'
  BY <1>1, <1>2 DEF Holds, Engaged, Expired, At
<1>4. \A u \in Thread : u # t =>
        /\ ~Holds(u) /\ ~Holds(u)' /\ ~Engaged(u)' /\ ~Expired(u)'
        /\ ~At(u, "waiting")' /\ ~At(u, "woken")'
  BY <1>1, <1>2, <1>3, Alone, OtherPlaces
<1>5. \A u \in Thread : ~Engaged(u)
  BY <1>1, <1>4 DEF Holds, Engaged, Expired, At
<1>6. ShapeOK'
  <2>1. /\ pointed' \in Seq(Nat) /\ port' \in Phase /\ doubt' \subseteq Doubt
    BY <1>1, EmptySeq DEF Phase, Doubt
  <2>2. dma' \in BOOLEAN /\ events' \in [event : BOOLEAN, buffer : BOOLEAN]
    BY <1>1
  <2>. QED
    BY <1>1, <1>2, <2>1, <2>2 DEF ShapeOK
<1>7. MutexOK'
  BY <1>1, <1>3, <1>4 DEF MutexOK
<1>8. OwnerOK'
  BY <1>1, <1>2, <1>3, <1>4 DEF OwnerOK
<1>9. NotifiedOK'
  <2>1. "unclean" \notin doubt' => semaphore' = 0
    BY <1>1
  <2>. QED
    BY <1>1, <1>3, <1>4, <2>1 DEF NotifiedOK
<1>10. WorkOK'
  <2>. SUFFICES ASSUME NEW u \in Thread, doubt' = {}, Engaged(u)'
                PROVE  (IF request[u].message.read THEN ReadOK(request[u].message)
                        ELSE WriteOK(request[u].message))'
    BY DEF WorkOK
  <2>1. u = t /\ semaphore = 0 /\ port = "off"
    BY <1>1, <1>4
  <2>2. tx'.address = request'[t].message.address
    BY <1>1, <1>2, <1>3, <2>1 DEF OwnerOK
  <2>. QED
    BY <1>1, <2>1, <2>2 DEF ReadOK, WriteOK
<1>11. StartsClean'
  BY <1>1, <1>5 DEF StartsClean, NotifiedOK
<1>12. SuccessIsSound'
  BY <1>3, <1>4 DEF SuccessIsSound
<1>. QED
  BY <1>6, <1>7, <1>8, <1>9, <1>10, <1>11, <1>12 DEF DrvInv

LEMMA WokenStep ==
  ASSUME DrvInv, NEW t \in Thread, Woken(t)
  PROVE  DrvInv'
<1>1. /\ ShapeOK /\ MutexOK /\ OwnerOK /\ NotifiedOK /\ WorkOK /\ StartsClean
      /\ At(t, "waiting") /\ Moved(t, "woken") /\ semaphore = 1 /\ semaphore' = 0
      /\ UNCHANGED <<mutex, tx, index, events, dma, port, wire, pointed, doubt,
                     overtaken, calls>>
  BY DEF DrvInv, Woken, portVars, historyVars
<1>2. /\ request' \in [Thread -> [at : Place, message : AnyMessage, ok : BOOLEAN]]
      /\ request'[t].at = "woken" /\ request'[t].message = request[t].message
      /\ \A u \in Thread : u # t => request'[u] = request[u]
  BY <1>1, MovedPlaces DEF Place
<1>3. Holds(t) /\ Engaged(t) /\ Holds(t)' /\ ~Engaged(t)' /\ ~At(t, "copied")'
  BY <1>1, <1>2 DEF Holds, Engaged, Expired, At
<1>4. \A u \in Thread : u # t =>
        ~Holds(u) /\ ~Holds(u)' /\ ~Engaged(u)' /\ ~At(u, "woken")'
  BY <1>1, <1>2, <1>3, Alone, OtherPlaces
<1>5. \A u \in Thread : ~Engaged(u)' /\ ~Expired(u)' /\ ~At(u, "waiting")'
  BY <1>3, <1>4 DEF Engaged
<1>6. ShapeOK'
  BY <1>1, <1>2 DEF ShapeOK
<1>7. MutexOK' /\ OwnerOK'
  BY <1>1, <1>2, <1>3, <1>4 DEF MutexOK, OwnerOK
<1>8. "unclean" \notin doubt => port = "off"
  BY <1>1 DEF NotifiedOK
<1>9. NotifiedOK'
  BY <1>1, <1>5, <1>8 DEF NotifiedOK
<1>10. WorkOK' /\ StartsClean'
  BY <1>1, <1>5 DEF WorkOK, StartsClean
<1>11. SuccessIsSound'
  <2>. SUFFICES ASSUME NEW u \in Thread, At(u, "woken")', tx'.status = "ack", doubt' = {}
                PROVE  LET m == request'[u].message
                       IN  IF m.read THEN pointed' = Number(m) ELSE wire' = Whole(m)
    BY DEF SuccessIsSound
  <2>1. u = t /\ port = "off" /\ tx.status = "ack" /\ doubt = {}
    BY <1>1, <1>4, <1>8
  <2>. QED
    BY <1>1, <1>2, <1>3, <2>1 DEF WorkOK, ReadOK, WriteOK
<1>. QED
  BY <1>6, <1>7, <1>9, <1>10, <1>11 DEF DrvInv

\* A thread that gives its transfer up lets the interrupts go on with it.
LEMMA GivesUp ==
  ASSUME DrvInv, NEW t \in Thread, NEW place \in {"expired", "cleared", "unlocked"},
         Moved(t, place), Engaged(t), semaphore = 0 \/ Expired(t), dma' \in BOOLEAN,
         UNCHANGED <<mutex, semaphore, tx, index, events, port, wire, pointed, doubt,
                     overtaken, calls>>
  PROVE  DrvInv'
<1>1. ShapeOK /\ MutexOK /\ OwnerOK /\ NotifiedOK /\ WorkOK /\ StartsClean
  BY DEF DrvInv
<1>2. /\ request' \in [Thread -> [at : Place, message : AnyMessage, ok : BOOLEAN]]
      /\ request'[t].at = place /\ request'[t].message = request[t].message
      /\ \A u \in Thread : u # t => request'[u] = request[u]
  BY <1>1, MovedPlaces DEF Place
<1>3. /\ Holds(t) /\ Holds(t)' /\ Engaged(t)'
      /\ ~At(t, "copied")' /\ ~At(t, "woken")' /\ ~At(t, "waiting")'
  BY <1>2 DEF Holds, Engaged, Expired, At
<1>4. \A u \in Thread : u # t =>
        /\ ~Holds(u) /\ ~Holds(u)' /\ ~Engaged(u)' /\ ~Expired(u)'
        /\ ~At(u, "waiting")' /\ ~At(u, "woken")'
  BY <1>1, <1>2, <1>3, Alone, OtherPlaces
<1>5. ShapeOK'
  BY <1>1, <1>2 DEF ShapeOK
<1>6. MutexOK' /\ OwnerOK'
  BY <1>1, <1>2, <1>3, <1>4 DEF MutexOK, OwnerOK
<1>7. ~overtaken => semaphore = 0
  BY <1>1 DEF NotifiedOK
<1>8. NotifiedOK'
  BY <1>3, <1>4, <1>7 DEF NotifiedOK
<1>9. WorkOK'
  <2>. SUFFICES ASSUME NEW u \in Thread, doubt' = {}, Engaged(u)'
                PROVE  (IF request[u].message.read THEN ReadOK(request[u].message)
                        ELSE WriteOK(request[u].message))'
    BY DEF WorkOK
  <2>1. u = t /\ doubt = {} /\ request'[t].message = request[t].message
    BY <1>2, <1>4
  <2>. QED
    BY <1>1, <2>1 DEF WorkOK, ReadOK, WriteOK
<1>10. StartsClean' /\ SuccessIsSound'
  BY <1>1, <1>3, <1>4 DEF StartsClean, SuccessIsSound
<1>. QED
  BY <1>5, <1>6, <1>8, <1>9, <1>10 DEF DrvInv

LEMMA GiveUpStep ==
  ASSUME DrvInv, NEW t \in Thread, Expire(t) \/ Clear(t) \/ UnlockBus(t)
  PROVE  DrvInv'
<1>1. dma \in BOOLEAN
  BY DEF DrvInv, ShapeOK
<1>2. CASE Expire(t)
  BY <1>1, <1>2, GivesUp DEF Expire, Engaged, portVars, historyVars
<1>3. CASE Clear(t)
  BY <1>1, <1>3, GivesUp DEF Clear, ClearDMA, Engaged, Expired, At, historyVars
<1>4. CASE UnlockBus(t)
  BY <1>1, <1>4, GivesUp DEF UnlockBus, Engaged, Expired, At, portVars, historyVars
<1>. QED
  BY <1>2, <1>3, <1>4

LEMMA RestartStep ==
  ASSUME DrvInv, NEW t \in Thread, Restart(t)
  PROVE  DrvInv'
<1>1. /\ ShapeOK /\ MutexOK /\ OwnerOK /\ NotifiedOK /\ StartsClean
      /\ At(t, "unlocked") /\ Moved(t, "restarted") /\ port' = "off"
      /\ events' = [event |-> FALSE, buffer |-> FALSE]
      /\ UNCHANGED <<mutex, semaphore, tx, index, dma, wire, pointed, doubt, overtaken,
                     calls>>
  BY DEF DrvInv, Restart, historyVars
<1>2. /\ request' \in [Thread -> [at : Place, message : AnyMessage, ok : BOOLEAN]]
      /\ request'[t].at = "restarted" /\ request'[t].message = request[t].message
      /\ \A u \in Thread : u # t => request'[u] = request[u]
  BY <1>1, MovedPlaces DEF Place
<1>3. /\ Holds(t) /\ Expired(t) /\ Holds(t)' /\ ~Engaged(t)'
      /\ ~At(t, "copied")' /\ ~At(t, "woken")'
  BY <1>1, <1>2 DEF Holds, Engaged, Expired, At
<1>4. \A u \in Thread : u # t =>
        ~Holds(u) /\ ~Holds(u)' /\ ~Engaged(u)' /\ ~At(u, "woken")'
  BY <1>1, <1>2, <1>3, Alone, OtherPlaces
<1>5. \A u \in Thread : ~Engaged(u)' /\ ~Expired(u)' /\ ~At(u, "waiting")'
  BY <1>3, <1>4 DEF Engaged
<1>6. ShapeOK'
  <2>1. port' \in Phase /\ events' \in [event : BOOLEAN, buffer : BOOLEAN]
    BY <1>1 DEF Phase
  <2>. QED
    BY <1>1, <1>2, <2>1 DEF ShapeOK
<1>7. MutexOK' /\ OwnerOK'
  BY <1>1, <1>2, <1>3, <1>4 DEF MutexOK, OwnerOK
<1>8. ~overtaken => semaphore = 0
  BY <1>1, <1>3 DEF NotifiedOK
<1>9. NotifiedOK'
  BY <1>1, <1>5, <1>8 DEF NotifiedOK
<1>10. WorkOK' /\ StartsClean' /\ SuccessIsSound'
  BY <1>1, <1>3, <1>4, <1>5 DEF WorkOK, StartsClean, SuccessIsSound
<1>. QED
  BY <1>6, <1>7, <1>9, <1>10 DEF DrvInv

LEMMA LeaveStep ==
  ASSUME DrvInv, NEW t \in Thread, Leave(t)
  PROVE  DrvInv'
<1>1. /\ ShapeOK /\ MutexOK /\ NotifiedOK /\ StartsClean
      /\ At(t, "woken") \/ At(t, "restarted")
      /\ mutex' = Free
      /\ UNCHANGED <<semaphore, tx, index, events, dma, port, wire, pointed, doubt,
                     overtaken, calls>>
  BY DEF DrvInv, Leave, portVars, historyVars
<1>2. /\ request' \in [Thread -> [at : Place, message : AnyMessage, ok : BOOLEAN]]
      /\ request'[t].at = "left"
      /\ \A u \in Thread : u # t => request'[u] = request[u]
  <2>1. PICK b \in BOOLEAN :
          request' = [request EXCEPT ![t].at = "left", ![t].ok = b]
    BY DEF Leave
  <2>2. request[t] \in [at : Place, message : AnyMessage, ok : BOOLEAN]
    BY <1>1 DEF ShapeOK
  <2>3. [request[t] EXCEPT !.at = "left", !.ok = b]
          \in [at : Place, message : AnyMessage, ok : BOOLEAN]
    BY <2>2 DEF Place
  <2>. QED
    BY <1>1, <2>1, <2>2, <2>3 DEF ShapeOK
<1>3. Holds(t) /\ ~Engaged(t) /\ ~Holds(t)' /\ ~At(t, "woken")'
  BY <1>1, <1>2 DEF Holds, Engaged, Expired, At
<1>4. \A u \in Thread : u # t => ~Holds(u) /\ ~Holds(u)' /\ ~Engaged(u)
  BY <1>1, <1>2, <1>3, Alone, OtherPlaces
<1>5. \A u \in Thread : ~Engaged(u) /\ ~Holds(u)'
  BY <1>3, <1>4
<1>6. \A u \in Thread : ~Engaged(u)' /\ ~Expired(u)' /\ ~At(u, "waiting")'
                        /\ ~At(u, "woken")'
  BY <1>5 DEF Holds, Engaged
<1>7. ShapeOK'
  BY <1>1, <1>2 DEF ShapeOK
<1>8. MutexOK' /\ OwnerOK'
  BY <1>1, <1>5, DrvAssumption DEF MutexOK, OwnerOK
<1>9. NotifiedOK'
  BY <1>1, <1>5, <1>6 DEF NotifiedOK
<1>10. WorkOK' /\ StartsClean' /\ SuccessIsSound'
  BY <1>1, <1>6 DEF WorkOK, StartsClean, SuccessIsSound
<1>. QED
  BY <1>7, <1>8, <1>9, <1>10 DEF DrvInv

-----------------------------------------------------------------------------
(* The theorem                                                             *)

LEMMA InvInit == DrvInit => DrvInv
<1>. SUFFICES ASSUME DrvInit PROVE DrvInv
  OBVIOUS
<1>1. /\ semaphore = 0 /\ port = "off" /\ doubt = {} /\ overtaken = FALSE
      /\ mutex = Free /\ index = 0 /\ wire = <<>> /\ pointed = <<>> /\ dma = FALSE
  BY DEF DrvInit
<1>2. \A t \in Thread : request[t].at = "idle"
  BY DEF DrvInit, NoRequest
<1>3. \A t \in Thread : ~Holds(t) /\ ~Engaged(t) /\ ~Expired(t) /\ ~At(t, "waiting")
                        /\ ~At(t, "woken")
  BY <1>2 DEF Holds, Engaged, Expired, At
<1>4. ShapeOK
  <2>1. tx \in Transfer
    <3>1. 0 \in 0 .. Counts - 1
      BY DrvAssumption
    <3>. QED
      BY <3>1 DEF DrvInit, Transfer
  <2>2. wire \in Seq(Nat) /\ pointed \in Seq(Nat)
    BY <1>1, EmptySeq
  <2>3. request \in [Thread -> [at : Place, message : AnyMessage, ok : BOOLEAN]]
    BY DEF DrvInit, NoRequest, Place, AnyMessage
  <2>4. calls \in [Thread -> Nat] /\ \A t \in Thread : calls[t] <= CallLimit[t]
    BY DrvAssumption DEF DrvInit
  <2>5. events \in [event : BOOLEAN, buffer : BOOLEAN]
    BY DEF DrvInit
  <2>6. /\ mutex \in Thread \cup {Free} /\ semaphore \in 0 .. 1 /\ index \in Nat
        /\ port \in Phase /\ doubt \subseteq Doubt
    BY <1>1 DEF Phase
  <2>7. dma \in BOOLEAN /\ overtaken \in BOOLEAN
    BY <1>1
  <2>. QED
    BY <2>1, <2>2, <2>3, <2>4, <2>5, <2>6, <2>7 DEF ShapeOK
<1>5. MutexOK /\ OwnerOK
  BY <1>1, <1>3, DrvAssumption DEF MutexOK, OwnerOK
<1>6. NotifiedOK /\ WorkOK
  BY <1>1, <1>3 DEF NotifiedOK, WorkOK
<1>7. StartsClean /\ SuccessIsSound
  BY <1>1, <1>3 DEF StartsClean, SuccessIsSound
<1>. QED
  BY <1>4, <1>5, <1>6, <1>7 DEF DrvInv

LEMMA InvStep == DrvInv /\ [DrvNext]_drvVars => DrvInv'
<1>. SUFFICES ASSUME DrvInv, [DrvNext]_drvVars
              PROVE  DrvInv'
  OBVIOUS
<1>1. CASE Interrupt /\ ~spinning
  BY <1>1, InterruptShape, InterruptOwner, InterruptNotified, InterruptSuccess,
     InterruptWork DEF DrvInv
<1>2. ASSUME NEW t \in Thread, Call(t) \/ CopyMessage(t) \/ StartTransfer(t) \/ Ending(t)
      PROVE  DrvInv'
  BY <1>2, CallStep, CopyMessageStep, StartTransferStep, WokenStep, GiveUpStep,
     RestartStep, LeaveStep, ReturnStep DEF Ending
<1>3. CASE StartSent \/ UNCHANGED drvVars
  <2>1. UNCHANGED <<mutex, semaphore, tx, index, events, dma, port, wire, request,
                    pointed, doubt, overtaken, calls>>
    BY <1>3 DEF StartSent, drvVars, portVars, historyVars
  <2>2. ShapeOK' /\ MutexOK' /\ OwnerOK'
    BY <2>1 DEF DrvInv, ShapeOK, MutexOK, OwnerOK, Holds, Engaged, Expired, At
  <2>3. NotifiedOK' /\ WorkOK'
    BY <2>1 DEF DrvInv, NotifiedOK, WorkOK, ReadOK, WriteOK, Engaged, Expired, At
  <2>4. StartsClean' /\ SuccessIsSound'
    BY <2>1 DEF DrvInv, StartsClean, SuccessIsSound, At
  <2>. QED
    BY <2>2, <2>3, <2>4 DEF DrvInv
<1>. QED
  BY <1>1, <1>2, <1>3 DEF DrvNext, Copies, Proceeds

\* A handler waits or does not.
SpinOK == spinning \in BOOLEAN

LEMMA SpinInit == DrvInit => SpinOK
BY DEF DrvInit, SpinOK

LEMMA SpinStep == DrvInv /\ SpinOK /\ [DrvNext]_drvVars => SpinOK'
<1>. SUFFICES ASSUME DrvInv, spinning \in BOOLEAN, [DrvNext]_drvVars
              PROVE  spinning' \in BOOLEAN
  BY DEF SpinOK
<1>1. CASE ByteFinished
  <2>1. tx.read \in BOOLEAN
    BY DEF DrvInv, ShapeOK, Transfer
  <2>. QED
    BY <1>1, <2>1 DEF ByteFinished
<1>2. CASE StartSent \/ UNCHANGED spinning
  BY <1>2 DEF StartSent
<1>. QED
  BY <1>1, <1>2 DEF DrvNext, Interrupt, Copies, Proceeds, drvVars

\* While a message is at work without doubt, its bytes are counted within it.
LEMMA IndexInMessage ==
  ASSUME DrvInv, doubt = {}, port = "sending"
  PROVE  index <= tx.length
<1>1. PICK t \in Thread : Engaged(t)
  BY SomeoneEngaged DEF DrvInv
<1>2. PICK m : m = request[t].message
  OBVIOUS
<1>3. /\ tx.length = m.length
      /\ IF m.read THEN ReadOK(m) ELSE WriteOK(m)
  BY <1>1, <1>2 DEF DrvInv, OwnerOK, WorkOK, Holds
<1>4. m.length \in Nat
  BY <1>2, MessageFields DEF DrvInv, ShapeOK
<1>. QED
  BY <1>3, <1>4 DEF ReadOK, WriteOK

LEMMA InvTransferIsSound == DrvInv /\ SpinOK => TransferIsSound
<1>. SUFFICES ASSUME DrvInv, spinning \in BOOLEAN PROVE TransferIsSound
  BY DEF SpinOK
<1>1. ShapeOK
  BY DEF DrvInv
<1>2. doubt = {} /\ port = "sending" => index <= tx.length
  BY IndexInMessage
<1>3. /\ {dma, overtaken, spinning} \subseteq BOOLEAN /\ {wire, pointed} \subseteq Seq(Nat)
      /\ \A t \in Thread : request[t].message \in Message \cup {NoMessage}
  BY <1>1 DEF ShapeOK, AnyMessage
<1>4. \A t \in Thread : calls[t] \in 0 .. CallLimit[t]
  <2>. SUFFICES ASSUME NEW t \in Thread PROVE calls[t] \in 0 .. CallLimit[t]
    OBVIOUS
  <2>1. calls[t] \in Nat /\ calls[t] <= CallLimit[t] /\ CallLimit[t] \in Nat
    BY <1>1, DrvAssumption DEF ShapeOK
  <2>. QED
    BY <2>1
<1>5. TypeOK
  BY <1>1, <1>2, <1>3, <1>4 DEF ShapeOK, Transfer, TypeOK
<1>. QED
  BY <1>5 DEF DrvInv, TransferIsSound

\* For any threads, messages and number of retries, whatever the device refuses,
\* however late a handler runs and wherever a wait ends: no transfer meets what
\* another one left unless an interrupt has overtaken the end of a wait, and one
\* that is told of success has sent what it was asked for, in order, or named the
\* register it then read (i2c_drv.c:406-433, 435-645).
THEOREM TransferTheorem == DrvSpec => []TransferIsSound
BY InvInit, InvStep, SpinInit, SpinStep, InvTransferIsSound, PTL DEF DrvSpec
=============================================================================
