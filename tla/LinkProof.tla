----------------------------- MODULE LinkProof -----------------------------
(* The radio link and the arbiter of the setpoints that come over it: the   *)
(* packet stack's queues for every number of senders, ports and packets,    *)
(* and the arbiter's slots for every set of threads, any priorities and     *)
(* urgencies, with and without time slicing.                                *)
EXTENDS Crtp, Commander, SequenceTheorems, TLAPS

(***************************************************************************)
(* The packet stack                                                        *)
(***************************************************************************)

\* A packet that has been taken out can be put back in front.
LEMMA HeadThenTail ==
  ASSUME NEW S, NEW q \in Seq(S), q # <<>>
  PROVE  /\ Head(q) \in S
         /\ Tail(q) \in Seq(S)
         /\ <<Head(q)>> \o Tail(q) = q
<1>1. /\ Head(q) \in S
      /\ Tail(q) \in Seq(S)
      /\ Len(Tail(q)) = Len(q) - 1
      /\ \A i \in 1 .. Len(Tail(q)) : Tail(q)[i] = q[i + 1]
  BY HeadTailProperties
<1>2. Len(q) \in Nat \ {0}
  BY EmptySeq
<1>3. <<Head(q)>> \in Seq(S) /\ Len(<<Head(q)>>) = 1 /\ <<Head(q)>>[1] = q[1]
  BY <1>1, <1>2
<1>4. /\ <<Head(q)>> \o Tail(q) \in Seq(S)
      /\ Len(<<Head(q)>> \o Tail(q)) = Len(q)
      /\ \A i \in 1 .. Len(q) : (<<Head(q)>> \o Tail(q))[i] =
           IF i <= 1 THEN <<Head(q)>>[i] ELSE Tail(q)[i - 1]
  BY <1>1, <1>2, <1>3, ConcatProperties
<1>5. \A i \in 1 .. Len(q) : (<<Head(q)>> \o Tail(q))[i] = q[i]
  BY <1>1, <1>2, <1>3, <1>4
<1>. QED
  BY <1>1, <1>4, <1>5, SeqEqual

\* What is left of a sequence without its end.
LEMMA FrontOfConcat ==
  ASSUME NEW S, NEW s \in Seq(S), NEW t \in Seq(S)
  PROVE  SubSeq(s \o t, 1, Len(s \o t) - Len(t)) = s
<1>1. Len(s) \in Nat /\ Len(t) \in Nat /\ Len(s \o t) - Len(t) = Len(s)
  BY ConcatProperties, LenProperties
<1>2. CASE s = <<>>
  BY <1>1, <1>2, SubSeqEmpty
<1>3. CASE s # <<>>
  <2>1. 1 \in 1 .. Len(s) /\ Len(s) \in 1 .. Len(s)
    BY <1>1, <1>3, EmptySeq
  <2>2. SubSeq(s \o t, 1, Len(s)) = SubSeq(s, 1, Len(s))
    BY <2>1, SubSeqOfConcat1
  <2>. QED
    BY <1>1, <2>2, SubSeqFull
<1>. QED
  BY <1>2, <1>3

\* Appending is concatenating.
LEMMA AppendToConcat ==
  ASSUME NEW S, NEW s \in Seq(S), NEW t \in Seq(S), NEW e \in S
  PROVE  s \o Append(t, e) = Append(s \o t, e)
<1>1. <<e>> \in Seq(S)
  OBVIOUS
<1>2. Append(t, e) = t \o <<e>> /\ Append(s \o t, e) = (s \o t) \o <<e>>
  BY ConcatProperties, AppendIsConcat
<1>. QED
  BY <1>1, <1>2, ConcatAssociative

-----------------------------------------------------------------------------
(* The packets that callbacks get                                          *)

LEMMA AppendCalls ==
  ASSUME NEW q \in Seq(UpPacket), NEW p \in UpPacket
  PROVE  CallsOf(Append(q, p)) = CallsOf(q) \cup {x \in {p} : ForCallback(x)}
<1>. DEFINE n == Len(q)
            q2 == Append(q, p)
<1>1. /\ n \in Nat /\ DOMAIN q = 1 .. n /\ DOMAIN q2 = 1 .. n + 1
      /\ q2[n + 1] = p /\ \A i \in 1 .. n : q2[i] = q[i]
  BY AppendProperties, LenProperties
<1>2. ASSUME NEW x \in CallsOf(q2)
      PROVE  x \in CallsOf(q) \cup {y \in {p} : ForCallback(y)}
  <2>1. PICK i \in 1 .. n + 1 : ForCallback(q2[i]) /\ x = q2[i]
    BY <1>1, <1>2 DEF CallsOf
  <2>2. CASE i = n + 1
    BY <1>1, <2>1, <2>2
  <2>3. CASE i # n + 1
    <3>1. i \in 1 .. n
      BY <1>1, <2>3
    <3>. QED
      BY <1>1, <2>1, <3>1 DEF CallsOf
  <2>. QED
    BY <2>2, <2>3
<1>3. ASSUME NEW x \in CallsOf(q)
      PROVE  x \in CallsOf(q2)
  <2>1. PICK i \in 1 .. n : ForCallback(q[i]) /\ x = q[i]
    BY <1>1, <1>3 DEF CallsOf
  <2>2. i \in 1 .. n + 1 /\ ForCallback(q2[i]) /\ x = q2[i]
    BY <1>1, <2>1
  <2>. QED
    BY <1>1, <2>2 DEF CallsOf
<1>4. ForCallback(p) => p \in CallsOf(q2)
  <2>1. n + 1 \in 1 .. n + 1
    BY <1>1
  <2>. QED
    BY <1>1, <2>1 DEF CallsOf
<1>. QED
  BY <1>2, <1>3, <1>4

LEMMA AppendInOrder ==
  ASSUME NEW q \in Seq(UpPacket), NEW p \in UpPacket, InOrder(q),
         ForCallback(p) => \A x \in CallsOf(q) : x.number < p.number
  PROVE  InOrder(Append(q, p))
<1>. DEFINE n == Len(q)
            q2 == Append(q, p)
<1>1. /\ n \in Nat /\ DOMAIN q = 1 .. n /\ DOMAIN q2 = 1 .. n + 1
      /\ q2[n + 1] = p /\ \A i \in 1 .. n : q2[i] = q[i]
  BY AppendProperties, LenProperties
<1>2. ASSUME NEW i \in 1 .. n + 1, NEW j \in 1 .. n + 1, i < j,
             ForCallback(q2[i]), ForCallback(q2[j])
      PROVE  q2[i].number < q2[j].number
  <2>1. i \in 1 .. n
    BY <1>1, <1>2
  <2>2. CASE j = n + 1
    <3>1. q2[i] \in CallsOf(q)
      BY <1>1, <1>2, <2>1 DEF CallsOf
    <3>. QED
      BY <1>1, <1>2, <2>2, <3>1
  <2>3. CASE j # n + 1
    <3>1. j \in 1 .. n
      BY <1>1, <2>3
    <3>. QED
      BY <1>1, <1>2, <2>1, <3>1 DEF InOrder
  <2>. QED
    BY <2>2, <2>3
<1>. QED
  BY <1>1, <1>2 DEF InOrder

\* A packet that no callback gets may be left out.
LEMMA WithoutUncalled ==
  ASSUME NEW q \in Seq(UpPacket), NEW r \in Seq(UpPacket), NEW p \in UpPacket,
         ~ForCallback(p)
  PROVE  /\ CallsOf(q \o r) = CallsOf(q \o <<p>> \o r)
         /\ InOrder(q \o <<p>> \o r) => InOrder(q \o r)
<1>. DEFINE m == Len(q)
            n == Len(r)
            short == q \o r
            long == q \o <<p>> \o r
            Of(i) == IF i <= m THEN i ELSE i + 1
<1>1. /\ m \in Nat /\ n \in Nat
      /\ DOMAIN short = 1 .. m + n
      /\ \A i \in 1 .. m + n : short[i] = IF i <= m THEN q[i] ELSE r[i - m]
  BY ConcatProperties, LenProperties
<1>2. /\ <<p>> \in Seq(UpPacket) /\ Len(<<p>>) = 1 /\ <<p>>[1] = p
  OBVIOUS
<1>3. /\ q \o <<p>> \in Seq(UpPacket) /\ Len(q \o <<p>>) = m + 1
      /\ \A i \in 1 .. m + 1 : (q \o <<p>>)[i] = IF i <= m THEN q[i] ELSE p
  BY <1>1, <1>2, ConcatProperties
<1>4. /\ DOMAIN long = 1 .. m + 1 + n
      /\ \A i \in 1 .. m + 1 + n :
           long[i] = IF i <= m + 1 THEN (q \o <<p>>)[i] ELSE r[i - (m + 1)]
  BY <1>1, <1>3, ConcatProperties, LenProperties
<1>5. \A i \in 1 .. m + n : Of(i) \in 1 .. m + 1 + n /\ long[Of(i)] = short[i]
  BY <1>1, <1>3, <1>4
<1>6. \A k \in 1 .. m + 1 + n :
        ForCallback(long[k]) => \E i \in 1 .. m + n : k = Of(i)
  <2>. SUFFICES ASSUME NEW k \in 1 .. m + 1 + n, ForCallback(long[k])
                PROVE  \E i \in 1 .. m + n : k = Of(i)
    OBVIOUS
  <2>1. k # m + 1
    BY <1>1, <1>3, <1>4
  <2>2. CASE k <= m
    BY <1>1, <2>2
  <2>3. CASE k > m + 1
    <3>1. k - 1 \in 1 .. m + n /\ k = Of(k - 1)
      BY <1>1, <2>3
    <3>. QED
      BY <3>1
  <2>. QED
    BY <1>1, <2>1, <2>2, <2>3
<1>7. CallsOf(short) = CallsOf(long)
  <2>1. ASSUME NEW x \in CallsOf(short)
        PROVE  x \in CallsOf(long)
    <3>1. PICK i \in 1 .. m + n : ForCallback(short[i]) /\ x = short[i]
      BY <1>1, <2>1 DEF CallsOf
    <3>2. /\ Of(i) \in DOMAIN long /\ x = long[Of(i)]
          /\ ForCallback(long[Of(i)])
      BY <1>4, <1>5, <3>1
    <3>. HIDE DEF Of, long, short
    <3>. QED
      BY <3>2 DEF CallsOf
  <2>2. ASSUME NEW x \in CallsOf(long)
        PROVE  x \in CallsOf(short)
    <3>1. PICK k \in 1 .. m + 1 + n : ForCallback(long[k]) /\ x = long[k]
      BY <1>4, <2>2 DEF CallsOf
    <3>2. PICK i \in 1 .. m + n : k = Of(i)
      BY <1>6, <3>1
    <3>3. x = short[i] /\ ForCallback(short[i])
      BY <1>5, <3>1, <3>2
    <3>. QED
      BY <1>1, <3>3 DEF CallsOf
  <2>. QED
    BY <2>1, <2>2
<1>8. ASSUME InOrder(long)
      PROVE  InOrder(short)
  <2>1. ASSUME NEW i \in 1 .. m + n, NEW j \in 1 .. m + n, i < j,
               ForCallback(short[i]), ForCallback(short[j])
        PROVE  short[i].number < short[j].number
    <3>1. /\ Of(i) \in DOMAIN long /\ Of(j) \in DOMAIN long
          /\ long[Of(i)] = short[i] /\ long[Of(j)] = short[j]
      BY <1>4, <1>5
    <3>2. Of(i) < Of(j)
      BY <1>1, <2>1
    <3>. HIDE DEF Of, long, short
    <3>. QED
      BY <1>8, <2>1, <3>1, <3>2 DEF InOrder
  <2>. QED
    BY <1>1, <2>1 DEF InOrder
<1>. QED
  BY <1>7, <1>8

-----------------------------------------------------------------------------
(* The inductive invariant                                                 *)

\* A sender that waits has a packet left to send.
BlockedHaveTurns == \A s \in blocked : turn[s] < SendLimit

\* Received packets are numbered from one on.
Numbered == \A i \in DOMAIN received : received[i].number = i

ArrivalsOK == Numbered /\ HandledInOrder

Inv ==
  /\ TypeOK
  /\ BlockedHaveTurns
  /\ TransmittedInOrder
  /\ ArrivalsOK

\* The part of the state that sending changes.
DownOK ==
  /\ txQueue \in Seq(Packet) /\ Len(txQueue) <= TxQueueSize
  /\ blocked \subseteq Sender
  /\ turn \in [Sender -> 0 .. SendLimit]
  /\ accepted \in Seq(Packet)
  /\ txHeld \in Seq(Packet) /\ Len(txHeld) <= 1
  /\ radioQueue \in Seq(Packet) /\ Len(radioQueue) <= 1
  /\ sent \in Seq(Packet)
  /\ BlockedHaveTurns
  /\ TransmittedInOrder

\* The part of the state that receiving changes.
UpOK ==
  /\ link \in {"nop", "radio"}
  /\ rxSleeps \in BOOLEAN
  /\ received \in Seq(UpPacket)
  /\ delivery \in Seq(UpPacket) /\ Len(delivery) <= DeliverySize
  /\ answering \in BOOLEAN
  /\ rxHeld \in Seq(UpPacket) /\ Len(rxHeld) <= 1
  /\ handled \in Seq(UpPacket)
  /\ queues \in [Port -> Seq(UpPacket)]
  /\ halted \in BOOLEAN
  /\ ArrivalsOK

LEMMA InvParts == Inv <=> DownOK /\ UpOK
BY DEF Inv, DownOK, UpOK, TypeOK

LEMMA FreshIsPacket ==
  ASSUME DownOK, NEW s \in Sender
  PROVE  Fresh(s) \in Packet
BY SizeAssumption DEF DownOK, Fresh, Packet

LEMMA DownUnchanged ==
  ASSUME DownOK, UNCHANGED <<down, radioQueue, sent>>
  PROVE  DownOK'
BY DEF DownOK, down, BlockedHaveTurns, TransmittedInOrder

LEMMA ArrivalsUnchanged ==
  ASSUME UpOK, UNCHANGED <<received, delivery, rxHeld, handled>>
  PROVE  ArrivalsOK'
BY DEF UpOK, ArrivalsOK, Numbered, HandledInOrder, Tracked

LEMMA UpUnchanged ==
  ASSUME UpOK, UNCHANGED <<linking, up, answering, halted>>
  PROVE  UpOK'
<1>1. UNCHANGED <<received, delivery, rxHeld, handled>>
  BY DEF up
<1>. QED
  BY <1>1, ArrivalsUnchanged DEF UpOK, linking, up

\* What is on its way, in front of txQueue.
Ahead == sent \o radioQueue \o txHeld

LEMMA AheadIsSeq == DownOK => Ahead \in Seq(Packet)
BY ConcatProperties DEF DownOK, Ahead

LEMMA SendDown ==
  ASSUME DownOK, NEW s \in Sender, Send(s)
  PROVE  DownOK'
<1>1. Fresh(s) \in Packet
  BY FreshIsPacket
<1>2. Ahead \in Seq(Packet) /\ Ahead' = Ahead
  BY AheadIsSeq DEF Send, Ahead
<1>3. /\ txQueue' \in Seq(Packet) /\ Len(txQueue') = Len(txQueue) + 1
      /\ accepted' \in Seq(Packet)
  BY <1>1, AppendProperties DEF DownOK, Send, Accept
<1>4. Len(txQueue') <= TxQueueSize
  BY <1>3, SizeAssumption, LenProperties DEF DownOK, Send, HasRoom
<1>5. turn' \in [Sender -> 0 .. SendLimit]
  BY SizeAssumption DEF DownOK, Send, NextTurn, CanSend
<1>6. TransmittedInOrder'
  <2>1. Ahead \o Append(txQueue, Fresh(s)) = Append(Ahead \o txQueue, Fresh(s))
    <3>1. PICK a \in Seq(Packet), b \in Seq(Packet), c \in Packet :
            a = Ahead /\ b = txQueue /\ c = Fresh(s)
      BY <1>1, <1>2 DEF DownOK
    <3>2. a \o Append(b, c) = Append(a \o b, c)
      BY AppendToConcat
    <3>. QED
      BY <3>1, <3>2, Zenon
  <2>. QED
    BY <1>2, <2>1 DEF DownOK, Send, Accept, TransmittedInOrder, Ahead
<1>7. \A t \in blocked : turn'[t] = turn[t]
  BY DEF DownOK, Send, NextTurn, CanSend
<1>. QED
  BY <1>3, <1>4, <1>5, <1>6, <1>7 DEF DownOK, Send, BlockedHaveTurns

LEMMA SendRefusedDown ==
  ASSUME DownOK, NEW s \in Sender, SendRefused(s)
  PROVE  DownOK'
<1>1. turn' \in [Sender -> 0 .. SendLimit]
  BY SizeAssumption DEF DownOK, SendRefused, NextTurn, CanSend
<1>2. \A t \in blocked : turn'[t] = turn[t]
  BY DEF DownOK, SendRefused, NextTurn, CanSend
<1>. QED
  BY <1>1, <1>2
     DEF DownOK, SendRefused, BlockedHaveTurns, TransmittedInOrder

LEMMA SendBlocksDown ==
  ASSUME DownOK, NEW s \in Sender, SendBlocks(s)
  PROVE  DownOK'
<1>1. BlockedHaveTurns'
  BY DEF DownOK, SendBlocks, CanSend, BlockedHaveTurns
<1>. QED
  BY <1>1 DEF DownOK, SendBlocks, TransmittedInOrder

LEMMA TxTakeDown ==
  ASSUME DownOK, TxTake
  PROVE  DownOK'
<1>. DEFINE h == Head(txQueue)
            t == Tail(txQueue)
<1>1. /\ h \in Packet /\ t \in Seq(Packet) /\ <<h>> \o t = txQueue
      /\ Len(t) = Len(txQueue) - 1 /\ Len(txQueue) \in Nat
  BY HeadThenTail, HeadTailProperties, LenProperties DEF DownOK, TxTake
<1>2. /\ txHeld = <<>> /\ txHeld' = <<h>>
      /\ radioQueue' = radioQueue /\ sent' = sent
  BY DEF TxTake
<1>3. <<h>> \in Seq(Packet) /\ Len(<<h>>) = 1
  BY <1>1
<1>4. sent \o radioQueue \in Seq(Packet)
  BY ConcatProperties DEF DownOK
<1>5. sent \o radioQueue \o <<h>> \in Seq(Packet)
  BY <1>3, <1>4, ConcatProperties
<1>6. (sent \o radioQueue \o <<h>>) \o t = accepted
  <2>1. (sent \o radioQueue \o <<h>>) \o t = (sent \o radioQueue) \o txQueue
    <3>1. PICK a \in Seq(Packet), b \in Seq(Packet), c \in Seq(Packet) :
            a = sent \o radioQueue /\ b = <<h>> /\ c = t
      BY <1>1, <1>3, <1>4
    <3>2. (a \o b) \o c = a \o (b \o c)
      BY ConcatAssociative
    <3>. QED
      BY <1>1, <3>1, <3>2, Zenon
  <2>2. sent \o radioQueue \o txHeld = sent \o radioQueue
    BY <1>2, <1>4, ConcatEmptySeq
  <2>. QED
    BY <2>1, <2>2 DEF DownOK, TransmittedInOrder
<1>7. CASE blocked = {} /\ txQueue' = t /\ UNCHANGED <<blocked, turn, accepted>>
  <2>1. TransmittedInOrder'
    BY <1>2, <1>6, <1>7 DEF TransmittedInOrder
  <2>2. Len(txQueue') <= TxQueueSize
    BY <1>1, <1>7, SizeAssumption DEF DownOK
  <2>. QED
    BY <1>1, <1>2, <1>3, <1>7, <2>1, <2>2
       DEF DownOK, BlockedHaveTurns
<1>8. ASSUME NEW s \in blocked, Accept(t, Fresh(s)), NextTurn(s),
             blocked' = blocked \ {s}
      PROVE  DownOK'
  <2>1. s \in Sender /\ Fresh(s) \in Packet
    BY <1>8, FreshIsPacket DEF DownOK
  <2>2. /\ txQueue' = Append(t, Fresh(s)) /\ accepted' = Append(accepted, Fresh(s))
        /\ txQueue' \in Seq(Packet) /\ accepted' \in Seq(Packet)
        /\ Len(txQueue') = Len(t) + 1
    BY <1>1, <1>8, <2>1, AppendProperties DEF DownOK, Accept
  <2>3. Len(txQueue') <= TxQueueSize
    BY <1>1, <1>8, <2>2 DEF DownOK
  <2>4. TransmittedInOrder'
    <3>. DEFINE front == sent \o radioQueue \o <<h>>
    <3>1. front \o Append(t, Fresh(s)) = Append(front \o t, Fresh(s))
      <4>1. PICK a \in Seq(Packet), b \in Seq(Packet), c \in Packet :
              a = front /\ b = t /\ c = Fresh(s)
        BY <1>1, <1>5, <2>1
      <4>2. a \o Append(b, c) = Append(a \o b, c)
        BY AppendToConcat
      <4>. QED
        BY <4>1, <4>2, Zenon
    <3>2. (sent \o radioQueue \o txHeld)' = front
      BY <1>2
    <3>. QED
      BY <1>6, <2>2, <3>1, <3>2 DEF TransmittedInOrder
  <2>5. turn' \in [Sender -> 0 .. SendLimit]
    BY <1>8, <2>1, SizeAssumption DEF DownOK, NextTurn, BlockedHaveTurns
  <2>6. BlockedHaveTurns'
    BY <1>8, <2>1 DEF DownOK, NextTurn, BlockedHaveTurns
  <2>. QED
    BY <1>2, <1>3, <1>8, <2>2, <2>3, <2>4, <2>5, <2>6, SizeAssumption
       DEF DownOK
<1>. QED
  BY <1>7, <1>8 DEF TxTake

LEMMA TxSendDown ==
  ASSUME DownOK, TxSend
  PROVE  DownOK'
<1>1. sent \o radioQueue = sent /\ sent \o txHeld \in Seq(Packet)
  BY ConcatEmptySeq, ConcatProperties DEF DownOK, TxSend
<1>2. (sent \o txHeld) \o <<>> = sent \o txHeld
  BY <1>1, ConcatEmptySeq
<1>3. TransmittedInOrder'
  BY <1>1, <1>2 DEF DownOK, TxSend, TransmittedInOrder
<1>. QED
  BY <1>3, EmptySeq DEF DownOK, TxSend, BlockedHaveTurns

LEMMA ResetDown ==
  ASSUME DownOK, Reset
  PROVE  DownOK'
<1>1. Ahead \in Seq(Packet) /\ Ahead' = Ahead /\ accepted = Ahead \o txQueue
  BY AheadIsSeq DEF DownOK, Reset, Ahead, TransmittedInOrder
<1>2. accepted' = Ahead
  BY <1>1, FrontOfConcat DEF DownOK, Reset
<1>3. Ahead \o <<>> = Ahead
  BY <1>1, ConcatEmptySeq
<1>4. TransmittedInOrder'
  BY <1>1, <1>2, <1>3 DEF Reset, TransmittedInOrder, Ahead
<1>5. turn' \in [Sender -> 0 .. SendLimit]
  BY SizeAssumption DEF DownOK, Reset, BlockedHaveTurns
<1>. QED
  BY <1>1, <1>2, <1>4, <1>5, EmptySeq, SizeAssumption
     DEF DownOK, Reset, BlockedHaveTurns

LEMMA AnswerDown ==
  ASSUME DownOK, Answer
  PROVE  DownOK'
<1>1. sent \o radioQueue \in Seq(Packet)
  BY ConcatProperties DEF DownOK
<1>2. (sent \o radioQueue) \o <<>> = sent \o radioQueue
  BY <1>1, ConcatEmptySeq
<1>3. TransmittedInOrder'
  BY <1>2 DEF DownOK, Answer, down, TransmittedInOrder
<1>. QED
  BY <1>1, <1>3, EmptySeq
     DEF DownOK, Answer, down, BlockedHaveTurns

-----------------------------------------------------------------------------
(* Receiving                                                               *)

LEMMA IncomingIsPacket ==
  ASSUME UpOK, NEW p \in Incoming
  PROVE  p \in UpPacket
<1>1. Len(received) \in Nat
  BY LenProperties DEF UpOK
<1>. QED
  BY <1>1 DEF Incoming, NullPacket, UpPacket

LEMMA TrackedIsSeq ==
  ASSUME UpOK
  PROVE  handled \o rxHeld \in Seq(UpPacket) /\ Tracked \in Seq(UpPacket)
BY ConcatProperties DEF UpOK, Tracked

LEMMA ArrivalInOrder ==
  ASSUME UpOK, NEW p \in Incoming, p \in UpPacket,
         delivery' = Append(delivery, p), received' = Record(received, p),
         UNCHANGED <<handled, rxHeld>>
  PROVE  ArrivalsOK'
<1>1. Tracked' = Append(Tracked, p)
  <2>1. PICK a \in Seq(UpPacket), b \in Seq(UpPacket) : a = handled \o rxHeld /\ b = delivery
    BY TrackedIsSeq DEF UpOK
  <2>2. a \o Append(b, p) = Append(a \o b, p)
    BY AppendToConcat
  <2>. QED
    BY <2>1, <2>2 DEF Tracked
<1>2. CASE p = NullPacket
  <2>1. ~ForCallback(p) /\ received' = received
    BY <1>2, PortAssumption DEF ForCallback, NullPacket, Record
  <2>2. CallsOf(Tracked') = CallsOf(Tracked)
    <3>1. {x \in {p} : ForCallback(x)} = {}
      BY <2>1
    <3>2. Tracked \in Seq(UpPacket)
      BY TrackedIsSeq
    <3>3. CallsOf(Append(Tracked, p)) = CallsOf(Tracked) \cup {x \in {p} : ForCallback(x)}
      BY <3>2, AppendCalls, Zenon
    <3>4. CallsOf(Append(Tracked, p)) = CallsOf(Tracked)
      BY <3>1, <3>3
    <3>. QED
      BY <1>1, <3>4, Zenon
  <2>3. InOrder(Tracked')
    BY <1>1, <2>1, TrackedIsSeq, AppendInOrder DEF UpOK, ArrivalsOK, HandledInOrder
  <2>. QED
    BY <2>1, <2>2, <2>3 DEF UpOK, ArrivalsOK, Numbered, HandledInOrder
<1>3. CASE p # NullPacket
  <2>. DEFINE n == Len(received)
  <2>1. /\ received' = Append(received, p) /\ p.number = n + 1
        /\ n \in Nat /\ DOMAIN received = 1 .. n
    BY <1>3, LenProperties DEF UpOK, Incoming, Record
  <2>2. \A x \in CallsOf(received) : x.number < p.number
    BY <2>1 DEF UpOK, ArrivalsOK, CallsOf, Numbered
  <2>3. InOrder(Tracked')
    BY <1>1, <2>2, TrackedIsSeq, AppendInOrder DEF UpOK, ArrivalsOK, HandledInOrder
  <2>4. CallsOf(Tracked') = CallsOf(received')
    <3>1. CallsOf(Tracked') = CallsOf(Tracked) \cup {x \in {p} : ForCallback(x)}
      <4>1. Tracked \in Seq(UpPacket)
        BY TrackedIsSeq
      <4>2. CallsOf(Append(Tracked, p)) = CallsOf(Tracked) \cup {x \in {p} : ForCallback(x)}
        BY <4>1, AppendCalls, Zenon
      <4>. QED
        BY <1>1, <4>2, Zenon
    <3>2. CallsOf(received') = CallsOf(received) \cup {x \in {p} : ForCallback(x)}
      BY <2>1, AppendCalls DEF UpOK
    <3>. QED
      BY <3>1, <3>2 DEF UpOK, ArrivalsOK, HandledInOrder
  <2>5. Numbered'
    BY <2>1, AppendProperties, LenProperties DEF UpOK, ArrivalsOK, Numbered
  <2>. QED
    BY <2>3, <2>4, <2>5 DEF ArrivalsOK, HandledInOrder
<1>. QED
  BY <1>2, <1>3

\* A packet that is taken over stays in its place.
LEMMA TakenInOrder ==
  ASSUME UpOK, RxTake
  PROVE  ArrivalsOK'
<1>1. /\ Head(delivery) \in UpPacket /\ Tail(delivery) \in Seq(UpPacket)
      /\ <<Head(delivery)>> \o Tail(delivery) = delivery
  BY HeadThenTail DEF UpOK, RxTake
<1>2. <<Head(delivery)>> \in Seq(UpPacket)
  BY <1>1
<1>3. handled \o rxHeld = handled
  BY ConcatEmptySeq DEF UpOK, RxTake
<1>4. (handled \o <<Head(delivery)>>) \o Tail(delivery) = handled \o delivery
  <2>1. PICK a \in Seq(UpPacket), b \in Seq(UpPacket), c \in Seq(UpPacket) :
           a = handled /\ b = <<Head(delivery)>> /\ c = Tail(delivery)
    BY <1>1, <1>2 DEF UpOK
  <2>2. (a \o b) \o c = a \o (b \o c)
    BY ConcatAssociative
  <2>. QED
    BY <1>1, <2>1, <2>2
<1>5. Tracked' = Tracked
  BY <1>3, <1>4 DEF Tracked, RxTake
<1>. QED
  BY <1>5 DEF UpOK, ArrivalsOK, RxTake, Numbered, HandledInOrder

LEMMA HandedOverInOrder ==
  ASSUME UpOK, RxHandOver
  PROVE  ArrivalsOK'
<1>. DEFINE p == Head(rxHeld)
<1>1. p \in UpPacket /\ rxHeld = <<p>>
  <2>1. /\ p \in UpPacket /\ rxHeld[1] = p
        /\ Len(rxHeld) \in Nat /\ Len(rxHeld) # 0
    BY HeadTailProperties, LenProperties, EmptySeq DEF UpOK, RxHandOver
  <2>2. <<p>> \in Seq(UpPacket) /\ Len(<<p>>) = 1 /\ <<p>>[1] = p
    BY <2>1
  <2>3. rxHeld \in Seq(UpPacket)
    BY DEF UpOK
  <2>4. Len(rxHeld) = 1
    <3>. DEFINE l == Len(rxHeld)
    <3>1. l \in Nat /\ l # 0 /\ l <= 1
      BY <2>1 DEF UpOK
    <3>. HIDE DEF l
    <3>2. l = 1
      BY <3>1
    <3>. QED
      BY <3>2 DEF l
  <2>5. \A i \in 1 .. Len(rxHeld) : rxHeld[i] = <<p>>[i]
    BY <2>1, <2>2, <2>4
  <2>. HIDE DEF p
  <2>. QED
    BY <2>2, <2>3, <2>4, <2>5, SeqEqual
<1>2. CASE ForCallback(p)
  <2>1. handled' = handled \o rxHeld
    BY <1>1, <1>2, AppendIsConcat DEF UpOK, RxHandOver, WithCallback, ForCallback
  <2>2. handled' \o <<>> = handled'
    BY <2>1, TrackedIsSeq, ConcatEmptySeq
  <2>3. Tracked' = Tracked
    BY <2>1, <2>2 DEF Tracked, RxHandOver
  <2>. QED
    BY <2>3 DEF UpOK, ArrivalsOK, RxHandOver, Numbered, HandledInOrder
<1>3. CASE ~ForCallback(p)
  <2>1. handled' = handled /\ handled \o <<>> = handled
    BY <1>3, ConcatEmptySeq DEF UpOK, RxHandOver, ForCallback
  <2>2. Tracked' = handled \o delivery /\ Tracked = handled \o <<p>> \o delivery
    BY <1>1, <2>1 DEF Tracked, RxHandOver
  <2>. HIDE DEF p
  <2>3. CallsOf(Tracked') = CallsOf(Tracked) /\ InOrder(Tracked')
    BY <1>1, <1>3, <2>2, WithoutUncalled DEF UpOK, ArrivalsOK, HandledInOrder
  <2>. QED
    BY <2>3 DEF UpOK, ArrivalsOK, RxHandOver, Numbered, HandledInOrder
<1>. QED
  BY <1>2, <1>3

LEMMA DeliverUp ==
  ASSUME UpOK, NEW p \in Incoming, HasRoom(delivery, DeliverySize)
  PROVE  /\ Append(delivery, p) \in Seq(UpPacket)
         /\ Len(Append(delivery, p)) <= DeliverySize
         /\ Record(received, p) \in Seq(UpPacket)
<1>1. p \in UpPacket
  BY IncomingIsPacket
<1>2. /\ Append(delivery, p) \in Seq(UpPacket)
      /\ Len(Append(delivery, p)) = Len(delivery) + 1
      /\ Append(received, p) \in Seq(UpPacket)
  BY <1>1, AppendProperties DEF UpOK
<1>3. Len(delivery) \in Nat
  BY LenProperties DEF UpOK
<1>. QED
  BY <1>2, <1>3, SizeAssumption DEF UpOK, HasRoom, Record

LEMMA DispatchUp ==
  ASSUME UpOK, NEW p \in Incoming, Dispatch(p) \/ DispatchBroadcast(p)
  PROVE  UpOK'
<1>1. CASE Dispatch(p) /\ HasRoom(delivery, DeliverySize)
  BY <1>1, IncomingIsPacket, DeliverUp, ArrivalInOrder DEF UpOK, Dispatch, linking
<1>2. CASE Dispatch(p) /\ ~HasRoom(delivery, DeliverySize)
  BY <1>2, ArrivalsUnchanged DEF UpOK, Dispatch, linking
<1>3. CASE DispatchBroadcast(p)
  BY <1>3, IncomingIsPacket, DeliverUp, ArrivalInOrder
     DEF UpOK, DispatchBroadcast, linking
<1>. QED
  BY <1>1, <1>2, <1>3

LEMMA RxTakeUp ==
  ASSUME UpOK, RxTake
  PROVE  UpOK'
<1>1. /\ Head(delivery) \in UpPacket /\ Tail(delivery) \in Seq(UpPacket)
      /\ Len(Tail(delivery)) = Len(delivery) - 1 /\ Len(delivery) \in Nat
  BY HeadTailProperties, LenProperties DEF UpOK, RxTake
<1>2. <<Head(delivery)>> \in Seq(UpPacket) /\ Len(<<Head(delivery)>>) = 1
  BY <1>1
<1>. QED
  BY <1>1, <1>2, TakenInOrder, SizeAssumption DEF UpOK, RxTake, linking

LEMMA RxHandOverUp ==
  ASSUME UpOK, RxHandOver
  PROVE  UpOK'
<1>. DEFINE p == Head(rxHeld)
<1>1. p \in UpPacket
  BY HeadTailProperties DEF UpOK, RxHandOver
<1>2. ASSUME NEW q \in Port
      PROVE  Enqueued(queues[q], p) \in Seq(UpPacket)
  <2>1. queues[q] \in Seq(UpPacket)
    BY DEF UpOK
  <2>2. CASE Len(queues[q]) = RxQueueSize
    <3>1. Tail(queues[q]) \in Seq(UpPacket)
      BY <2>1, <2>2, EmptySeq, HeadTailProperties, SizeAssumption
    <3>. QED
      BY <1>1, <2>2, <3>1, AppendProperties DEF Enqueued
  <2>3. CASE Len(queues[q]) # RxQueueSize
    BY <2>1, <2>3 DEF Enqueued
  <2>. QED
    BY <2>2, <2>3
<1>3. queues' \in [Port -> Seq(UpPacket)]
  BY <1>2 DEF UpOK, RxHandOver
<1>4. handled' \in Seq(UpPacket)
  BY <1>1, AppendProperties DEF UpOK, RxHandOver, WithCallback
<1>. QED
  BY <1>3, <1>4, HandedOverInOrder, EmptySeq DEF UpOK, RxHandOver, linking

-----------------------------------------------------------------------------
(* The theorem                                                             *)

LEMMA InitInv == Init => Inv
<1>. SUFFICES ASSUME Init PROVE Inv
  OBVIOUS
<1>1. TransmittedInOrder
  BY ConcatEmptySeq, EmptySeq DEF Init, TransmittedInOrder
<1>2. DownOK
  BY <1>1, EmptySeq, SizeAssumption
     DEF Init, DownOK, BlockedHaveTurns
<1>3. UpOK
  <2>1. <<>> \in Seq(UpPacket) /\ Len(<<>>) = 0
    BY EmptySeq
  <2>2. queues \in [Port -> Seq(UpPacket)]
    BY <2>1 DEF Init
  <2>3. Len(delivery) <= DeliverySize
    BY <2>1, SizeAssumption DEF Init
  <2>4. rxSleeps \in BOOLEAN /\ answering \in BOOLEAN /\ halted \in BOOLEAN
    BY DEF Init
  <2>5. Len(rxHeld) <= 1 /\ rxHeld \in Seq(UpPacket)
    BY <2>1 DEF Init
  <2>6. /\ received \in Seq(UpPacket) /\ delivery \in Seq(UpPacket)
        /\ handled \in Seq(UpPacket) /\ link \in {"nop", "radio"}
    BY <2>1 DEF Init
  <2>7. Tracked = <<>>
    BY <2>1, ConcatEmptySeq DEF Init, Tracked
  <2>8. /\ received = <<>> /\ DOMAIN Tracked = {} /\ DOMAIN received = {}
    BY <2>1, <2>7, LenProperties DEF Init
  <2>9. ArrivalsOK
    BY <2>8 DEF ArrivalsOK, Numbered, HandledInOrder, CallsOf, InOrder
  <2>. QED
    BY <2>2, <2>3, <2>4, <2>5, <2>6, <2>9 DEF UpOK
<1>. QED
  BY <1>2, <1>3, InvParts

LEMMA StepInv == Inv /\ [Next]_vars => Inv'
<1>. SUFFICES ASSUME DownOK, UpOK, [Next]_vars
              PROVE  DownOK' /\ UpOK'
  BY InvParts DEF Inv, DownOK, UpOK, TypeOK, BlockedHaveTurns,
                  TransmittedInOrder
<1>1. ASSUME NEW s \in Sender, Send(s) \/ SendRefused(s) \/ SendBlocks(s)
      PROVE  DownOK' /\ UpOK'
  <2>1. DownOK'
    BY <1>1, SendDown, SendRefusedDown, SendBlocksDown
  <2>2. UpOK'
    BY <1>1, UpUnchanged DEF Send, SendRefused, SendBlocks
  <2>. QED
    BY <2>1, <2>2
<1>2. CASE TxTake
  BY <1>2, TxTakeDown, UpUnchanged DEF TxTake
<1>3. CASE TxSend
  BY <1>3, TxSendDown, UpUnchanged DEF TxSend
<1>4. CASE Reset
  BY <1>4, ResetDown, UpUnchanged DEF Reset
<1>5. ASSUME NEW p \in Incoming, Dispatch(p) \/ DispatchBroadcast(p)
      PROVE  DownOK' /\ UpOK'
  <2>1. UNCHANGED <<down, radioQueue, sent>>
    BY <1>5 DEF Dispatch, DispatchBroadcast, down
  <2>. QED
    BY <1>5, <2>1, DownUnchanged, DispatchUp
<1>6. CASE Answer
  <2>1. UpOK'
    BY <1>6, ArrivalsUnchanged DEF Answer, UpOK, linking, up
  <2>. QED
    BY <1>6, <2>1, AnswerDown
<1>7. CASE RxWakes
  <2>1. UpOK'
    BY <1>7, ArrivalsUnchanged DEF RxWakes, UpOK, up
  <2>. QED
    BY <1>7, <2>1, DownUnchanged DEF RxWakes
<1>8. CASE RxTake
  BY <1>8, RxTakeUp, DownUnchanged DEF RxTake
<1>9. CASE RxHandOver
  BY <1>9, RxHandOverUp, DownUnchanged DEF RxHandOver
<1>10. CASE SetLink
  <2>1. UpOK'
    BY <1>10, ArrivalsUnchanged DEF SetLink, UpOK, up
  <2>. QED
    BY <1>10, <2>1, DownUnchanged DEF SetLink
<1>11. CASE UNCHANGED vars
  BY <1>11, UpUnchanged, DownUnchanged DEF vars
<1>. QED
  BY <1>1, <1>2, <1>3, <1>4, <1>5, <1>6, <1>7, <1>8, <1>9, <1>10, <1>11
     DEF Next, Transmit, Radio, Receive

\* For every number of senders and packets and every size of the queues:
\* whatever is sent, refused, waited for, purged or retried, the radio sends the
\* accepted packets once and in order (crtp.c:138-229).
THEOREM TransmittedTheorem == Spec => []TransmittedInOrder
<1>1. Inv => TransmittedInOrder
  BY DEF Inv
<1>. QED
  BY <1>1, InitInv, StepInv, PTL DEF Spec

\* No queue outgrows its buffer, and no sender sends more than it has to send
\* (crtp.c:38-57, radiolink.c:29-33).
THEOREM TypeTheorem == Spec => []TypeOK
<1>1. Inv => TypeOK
  BY DEF Inv
<1>. QED
  BY <1>1, InitInv, StepInv, PTL DEF Spec

\* For every number of ports and size of the queue, while callbacks wait for
\* locks and packets pile up behind them: the callbacks are called for all the
\* packets received on their ports, each once and in order (crtp.c:165-195,
\* radiolink.c:136-155).
THEOREM HandledTheorem == Spec => []HandledInOrder
<1>1. Inv => HandledInOrder
  BY DEF Inv, ArrivalsOK
<1>. QED
  BY <1>1, InitInv, StepInv, PTL DEF Spec

(***************************************************************************)
(* The setpoint arbiter                                                    *)
(***************************************************************************)
USE DEF Age, Setpoint, Place

\* An overwrite of a slot leaves one element in it, of the right kind, and a
\* put into an empty slot leaves exactly the element put.
LEMMA PutOfSlot ==
  ASSUME NEW S, NEW q \in Slot(S), NEW x \in S
  PROVE  /\ Put(q, x) \in Slot(S)
         /\ Put(q, x) # <<>>
         /\ q = <<>> => Put(q, x) = <<x>>
<1>1. CASE q = <<>>
  BY <1>1 DEF Put, Slot
<1>2. CASE q # <<>>
  BY <1>2 DEF Put, Slot
<1> QED BY <1>1, <1>2

LEMMA GetOfSlot == ASSUME NEW S, NEW q PROVE Get(q) \in Slot(S)
BY DEF Get, Slot

LEMMA HeadOfSlot ==
  ASSUME NEW S, NEW q \in Slot(S), q # <<>>
  PROVE  Head(q) \in S /\ q = <<Head(q)>>
<1>1. PICK x \in S : q = <<x>>
  BY DEF Slot
<1> QED BY <1>1

LEMMA PrioritiesAreActive ==
  /\ Disable \in ActivePriority
  /\ Lowest \in ActivePriority
  /\ \A t \in Thread : Priority[t] \in ActivePriority
BY DEF ActivePriority

LEMMA OlderIsAge == ASSUME NEW a \in Age PROVE Older(a) \in Age
BY TimeoutAssumption DEF Older

\* Every variable keeps its type; in particular a slot never holds more than
\* the one element its buffer has room for.
THEOREM TypeCorrect == ArbiterSpec => []ArbiterTypeOK
<1> USE ThreadAssumption, TimeoutAssumption
<1>1. ArbiterInit => ArbiterTypeOK
  <2>1. 0 \in Age OBVIOUS
  <2>2. [from |-> Null, age |-> 0] \in Setpoint BY <2>1
  <2> QED BY <2>1, <2>2, PrioritiesAreActive DEF ArbiterInit, ArbiterTypeOK, Slot
<1>2. ArbiterTypeOK /\ [ArbiterNext]_arbiterVars => ArbiterTypeOK'
  <2> SUFFICES ASSUME ArbiterTypeOK, [ArbiterNext]_arbiterVars PROVE ArbiterTypeOK'
    OBVIOUS
  <2> USE DEF ArbiterTypeOK, Step
  <2>1. ASSUME NEW t \in Thread, SetSetpoint(t) PROVE ArbiterTypeOK'
    <3>1. CASE PlannerOffers(t) BY <3>1 DEF PlannerOffers
    <3>2. CASE SetPeekFails(t) BY <3>2 DEF SetPeekFails, Panic
    <3>3. CASE SetAccepted(t) BY <3>3 DEF SetAccepted
    <3>4. CASE SetRefused(t) BY <3>4 DEF SetRefused
    <3>5. CASE SetStamp(t) BY <3>5 DEF SetStamp
    <3>6. CASE SetGetSetpoint(t)
      BY <3>6, GetOfSlot DEF SetGetSetpoint
    <3>7. CASE SetPutSetpoint(t)
      <4>1. [from |-> t, age |-> stamp[t]] \in Setpoint OBVIOUS
      <4>2. setpointQueue' \in Slot(Setpoint)
        BY <3>7, <4>1, PutOfSlot DEF SetPutSetpoint
      <4> QED BY <3>7, <4>2 DEF SetPutSetpoint
    <3>8. CASE SetGetPriority(t)
      BY <3>8, GetOfSlot DEF SetGetPriority
    <3>9. CASE SetPutPriority(t)
      BY <3>9, PutOfSlot, PrioritiesAreActive DEF SetPutPriority
    <3>10. CASE SetDisablePlanner(t) BY <3>10 DEF SetDisablePlanner
    <3> QED BY <2>1, <3>1, <3>2, <3>3, <3>4, <3>5, <3>6, <3>7, <3>8, <3>9,
               <3>10 DEF SetSetpoint
  <2>2. ASSUME NEW t \in Thread, RelaxPriority(t) PROVE ArbiterTypeOK'
    <3>1. CASE RelaxCall(t) BY <3>1 DEF RelaxCall
    <3>2. CASE RelaxTellState(t) BY <3>2 DEF RelaxTellState
    <3>3. CASE RelaxGetPriority(t) BY <3>3, GetOfSlot DEF RelaxGetPriority
    <3>4. CASE RelaxPutPriority(t)
      BY <3>4, PutOfSlot, PrioritiesAreActive DEF RelaxPutPriority
    <3> QED BY <2>2, <3>1, <3>2, <3>3, <3>4 DEF RelaxPriority
  <2>3. ASSUME NEW t \in Thread, GetSetpoint(t) PROVE ArbiterTypeOK'
    <3>1. CASE GetPeek(t)
      <4>1. CASE setpointQueue = <<>> BY <3>1, <4>1 DEF GetPeek
      <4>2. CASE setpointQueue # <<>>
        <5>1. Head(setpointQueue) \in Setpoint BY <4>2, HeadOfSlot
        <5> QED BY <3>1, <4>2, <5>1 DEF GetPeek
      <4> QED BY <4>1, <4>2
    <3>2. CASE GetFresh(t) BY <3>2 DEF GetFresh
    <3>3. CASE GetExpired(t) BY <3>3 DEF GetExpired
    <3>4. CASE GetStale(t) BY <3>4 DEF GetStale
    <3>5. CASE GetResetPriority(t) BY <3>5, GetOfSlot DEF GetResetPriority
    <3>6. CASE GetLevel(t) BY <3>6, PutOfSlot, PrioritiesAreActive DEF GetLevel
    <3> QED BY <2>3, <3>1, <3>2, <3>3, <3>4, <3>5, <3>6 DEF GetSetpoint
  <2>4. ASSUME NEW t \in Thread, ActivePriorityFails(t) PROVE ArbiterTypeOK'
    BY <2>4 DEF ActivePriorityFails, Panic
  <2>5. CASE PlannerCommand BY <2>5 DEF PlannerCommand
  <2>6. CASE Tick
    <3>1. setpointQueue' \in Slot(Setpoint)
      <4>1. CASE setpointQueue = <<>>
        BY <2>6, <4>1 DEF Tick, Slot
      <4>2. CASE setpointQueue # <<>>
        <5>1. Head(setpointQueue) \in Setpoint BY <4>2, HeadOfSlot
        <5>2. [Head(setpointQueue) EXCEPT !.age = Older(@)] \in Setpoint
          BY <5>1, OlderIsAge
        <5> QED BY <2>6, <4>2, <5>2 DEF Tick, Slot
      <4> QED BY <4>1, <4>2
    <3>2. stamp' \in [Thread -> Age]
      BY <2>6, OlderIsAge DEF Tick
    <3>3. output' \in Setpoint /\ uptime' \in Age
      BY <2>6, OlderIsAge DEF Tick
    <3> QED BY <2>6, <3>1, <3>2, <3>3 DEF Tick
  <2>7. CASE UNCHANGED arbiterVars BY <2>7 DEF arbiterVars
  <2> QED BY <2>1, <2>2, <2>3, <2>4, <2>5, <2>6, <2>7 DEF ArbiterNext
<1> QED BY <1>1, <1>2, PTL DEF ArbiterSpec

-----------------------------------------------------------------------------
\* A slot is empty only while a thread is between its get and its put
\* (commander.c:86-90, 104-105, 117-118), however threads interleave.
THEOREM RefillTheorem == ArbiterSpec => []SlotsAreRefilled
<1> USE ThreadAssumption, TimeoutAssumption
<1>1. ArbiterInit => SlotsAreRefilled
  BY DEF ArbiterInit, SlotsAreRefilled
<1>2. ArbiterTypeOK /\ SlotsAreRefilled /\ [ArbiterNext]_arbiterVars => SlotsAreRefilled'
  <2> SUFFICES ASSUME ArbiterTypeOK, SlotsAreRefilled, [ArbiterNext]_arbiterVars
               PROVE  SlotsAreRefilled'
    OBVIOUS
  <2> USE DEF SlotsAreRefilled, Step
  <2>0. pc \in [Thread -> Place] BY DEF ArbiterTypeOK
  <2>1. ASSUME NEW t \in Thread, SetSetpoint(t) PROVE SlotsAreRefilled'
    <3>1. CASE PlannerOffers(t) BY <2>0, <3>1 DEF PlannerOffers
    <3>2. CASE SetPeekFails(t) BY <3>2 DEF SetPeekFails, Panic
    <3>3. CASE SetAccepted(t) BY <2>0, <3>3 DEF SetAccepted, Caller
    <3>4. CASE SetRefused(t) BY <2>0, <3>4 DEF SetRefused, Caller
    <3>5. CASE SetStamp(t) BY <2>0, <3>5 DEF SetStamp
    <3>6. CASE SetGetSetpoint(t) BY <2>0, <3>6 DEF SetGetSetpoint
    <3>7. CASE SetPutSetpoint(t)
      <4>1. setpointQueue' # <<>>
        BY <3>7 DEF SetPutSetpoint, Put
      <4> QED BY <2>0, <3>7, <4>1 DEF SetPutSetpoint
    <3>8. CASE SetGetPriority(t) BY <2>0, <3>8 DEF SetGetPriority
    <3>9. CASE SetPutPriority(t)
      <4>1. priorityQueue' # <<>>
        BY <3>9 DEF SetPutPriority, Put
      <4> QED BY <2>0, <3>9, <4>1 DEF SetPutPriority
    <3>10. CASE SetDisablePlanner(t) BY <2>0, <3>10 DEF SetDisablePlanner
    <3> QED BY <2>1, <3>1, <3>2, <3>3, <3>4, <3>5, <3>6, <3>7, <3>8, <3>9,
               <3>10 DEF SetSetpoint
  <2>2. ASSUME NEW t \in Thread, RelaxPriority(t) PROVE SlotsAreRefilled'
    <3>1. CASE RelaxCall(t) BY <2>0, <3>1 DEF RelaxCall
    <3>2. CASE RelaxTellState(t) BY <2>0, <3>2 DEF RelaxTellState
    <3>3. CASE RelaxGetPriority(t) BY <2>0, <3>3 DEF RelaxGetPriority
    <3>4. CASE RelaxPutPriority(t)
      <4>1. priorityQueue' # <<>>
        BY <3>4 DEF RelaxPutPriority, Put
      <4> QED BY <2>0, <3>4, <4>1 DEF RelaxPutPriority
    <3> QED BY <2>2, <3>1, <3>2, <3>3, <3>4 DEF RelaxPriority
  <2>3. ASSUME NEW t \in Thread, GetSetpoint(t) PROVE SlotsAreRefilled'
    <3>1. CASE GetPeek(t) BY <2>0, <3>1 DEF GetPeek
    <3>2. CASE GetFresh(t) BY <2>0, <3>2 DEF GetFresh
    <3>3. CASE GetExpired(t) BY <2>0, <3>3 DEF GetExpired
    <3>4. CASE GetStale(t) BY <2>0, <3>4 DEF GetStale
    <3>5. CASE GetResetPriority(t) BY <2>0, <3>5 DEF GetResetPriority
    <3>6. CASE GetLevel(t)
      <4>1. priorityQueue' # <<>>
        BY <3>6 DEF GetLevel, Put
      <4> QED BY <2>0, <3>6, <4>1 DEF GetLevel
    <3> QED BY <2>3, <3>1, <3>2, <3>3, <3>4, <3>5, <3>6 DEF GetSetpoint
  <2>4. ASSUME NEW t \in Thread, ActivePriorityFails(t)
        PROVE  SlotsAreRefilled'
    BY <2>4 DEF ActivePriorityFails, Panic
  <2>5. CASE PlannerCommand BY <2>5 DEF PlannerCommand
  <2>6. CASE Tick BY <2>6 DEF Tick
  <2>7. CASE UNCHANGED arbiterVars BY <2>7 DEF arbiterVars
  <2> QED BY <2>1, <2>2, <2>3, <2>4, <2>5, <2>6, <2>7 DEF ArbiterNext
<1> QED BY <1>1, <1>2, TypeCorrect, PTL DEF ArbiterSpec

-----------------------------------------------------------------------------
(* What an uninterrupted thread relies on, place by place: nothing else runs *)
(* between its peek of the priority and its last put.                        *)

UninterruptedInv ==
  \A t \in Uninterrupted :
    /\ pc[t] = "putSetpoint" => setpointQueue = <<>>
    /\ pc[t] \in {"getPriority", "putPriority"} =>
         /\ setpointQueue # <<>>
         /\ Head(setpointQueue).from = t
    /\ pc[t] = "putPriority" => priorityQueue = <<>>

LEMMA NothingInterrupts ==
  ASSUME NEW t \in Uninterrupted, NEW u \in Thread \ {t}, Scheduled(u)
  PROVE  ~Running(t)
BY ThreadAssumption DEF Uninterrupted, Scheduled

\* A step of one thread leaves what the others rely on alone: those that rely
\* on something are running, and do not let it run.
LEMMA StepOfThread ==
  ASSUME ArbiterTypeOK, UninterruptedInv,
         NEW u \in Thread, Scheduled(u),
         NEW to \in Place, pc' = [pc EXCEPT ![u] = to],
         NEW t \in Uninterrupted, t # u
  PROVE  pc'[t] \in {"idle", "tell"}
<1>1. t \in Thread /\ u \in Thread \ {t} BY DEF Uninterrupted
<1>2. ~Running(t) BY <1>1, NothingInterrupts
<1>3. pc'[t] = pc[t] BY <1>1 DEF ArbiterTypeOK
<1> QED BY <1>2, <1>3 DEF Running

LEMMA UninterruptedStep ==
  ArbiterTypeOK /\ UninterruptedInv /\ [ArbiterNext]_arbiterVars => UninterruptedInv'
<1> USE ThreadAssumption
<1> SUFFICES ASSUME ArbiterTypeOK, UninterruptedInv, [ArbiterNext]_arbiterVars,
                    NEW t \in Uninterrupted
             PROVE  /\ pc'[t] = "putSetpoint" => setpointQueue' = <<>>
                    /\ pc'[t] \in {"getPriority", "putPriority"} =>
                         /\ setpointQueue' # <<>>
                         /\ Head(setpointQueue').from = t
                    /\ pc'[t] = "putPriority" => priorityQueue' = <<>>
  BY DEF UninterruptedInv, Uninterrupted
<1> DEFINE Goal == /\ pc'[t] = "putSetpoint" => setpointQueue' = <<>>
                   /\ pc'[t] \in {"getPriority", "putPriority"} =>
                         /\ setpointQueue' # <<>>
                         /\ Head(setpointQueue').from = t
                   /\ pc'[t] = "putPriority" => priorityQueue' = <<>>
<1>t. t \in Thread BY DEF Uninterrupted
<1>p. pc \in [Thread -> Place] BY DEF ArbiterTypeOK
<1>i. /\ pc[t] = "putSetpoint" => setpointQueue = <<>>
      /\ pc[t] \in {"getPriority", "putPriority"} =>
           /\ setpointQueue # <<>>
           /\ Head(setpointQueue).from = t
      /\ pc[t] = "putPriority" => priorityQueue = <<>>
  BY DEF UninterruptedInv
<1>1. ASSUME NEW u \in Thread, u # t,
             SetSetpoint(u) \/ RelaxPriority(u) \/ GetSetpoint(u)
      PROVE  Goal
  <2>1. CASE SetPeekFails(u) BY <2>1, <1>i DEF SetPeekFails, Panic
  <2>2. CASE ~SetPeekFails(u)
    <3>1. Scheduled(u) /\ \E to \in Place : pc' = [pc EXCEPT ![u] = to]
      BY <1>1, <2>2 DEF SetSetpoint, RelaxPriority, GetSetpoint, Step,
         PlannerOffers, SetAccepted, SetRefused, SetStamp, SetGetSetpoint,
         SetPutSetpoint, SetGetPriority, SetPutPriority, SetDisablePlanner,
         RelaxCall, RelaxTellState, RelaxGetPriority, RelaxPutPriority,
         GetPeek, GetFresh, GetExpired, GetStale, GetResetPriority, GetLevel
    <3>2. pc'[t] \in {"idle", "tell"}
      BY <1>1, <3>1, StepOfThread
    <3> QED BY <3>2
  <2> QED BY <2>1, <2>2
<1>2. ASSUME SetSetpoint(t) PROVE Goal
  <2> USE DEF Step
  <2>1. CASE PlannerOffers(t) BY <1>t, <1>p, <2>1 DEF PlannerOffers
  <2>2. CASE SetPeekFails(t) BY <1>i, <2>2 DEF SetPeekFails, Panic
  <2>3. CASE SetAccepted(t) BY <1>t, <1>p, <2>3 DEF SetAccepted, Outranks
  <2>4. CASE SetRefused(t) BY <1>t, <1>p, <2>4 DEF SetRefused
  <2>5. CASE SetStamp(t) BY <1>t, <1>p, <1>i, <2>5 DEF SetStamp
  <2>6. CASE SetGetSetpoint(t)
    BY <1>t, <1>p, <2>6 DEF SetGetSetpoint, Get
  <2>7. CASE SetPutSetpoint(t)
    <3>1. setpointQueue' = << [from |-> t, age |-> stamp[t]] >>
      BY <1>i, <2>7 DEF SetPutSetpoint, Put
    <3>2. pc'[t] = "getPriority"
      BY <1>t, <1>p, <2>7 DEF SetPutSetpoint
    <3> QED BY <3>1, <3>2
  <2>8. CASE SetGetPriority(t)
    BY <1>t, <1>p, <1>i, <2>8 DEF SetGetPriority, Get
  <2>9. CASE SetPutPriority(t) BY <1>t, <1>p, <2>9 DEF SetPutPriority
  <2>10. CASE SetDisablePlanner(t)
    BY <1>t, <1>p, <2>10 DEF SetDisablePlanner
  <2> QED BY <1>2, <2>1, <2>2, <2>3, <2>4, <2>5, <2>6, <2>7, <2>8, <2>9,
             <2>10 DEF SetSetpoint
<1>3. ASSUME RelaxPriority(t) PROVE Goal
  BY <1>t, <1>p, <1>3 DEF RelaxPriority, RelaxCall, RelaxTellState,
     RelaxGetPriority, RelaxPutPriority, Step
<1>4. ASSUME GetSetpoint(t) PROVE Goal
  BY <1>t, <1>p, <1>4 DEF GetSetpoint, GetPeek, GetFresh, GetExpired,
     GetStale, GetResetPriority, GetLevel, Step
<1>5. ASSUME NEW u \in Thread, ActivePriorityFails(u) PROVE Goal
  BY <1>i, <1>5 DEF ActivePriorityFails, Panic
<1>6. CASE PlannerCommand BY <1>i, <1>6 DEF PlannerCommand
<1>7. CASE Tick
  <2>1. /\ pc' = pc /\ priorityQueue' = priorityQueue
        /\ setpointQueue = <<>> => setpointQueue' = <<>>
    BY <1>7 DEF Tick
  <2>2. ASSUME setpointQueue # <<>>
        PROVE  /\ setpointQueue' # <<>>
               /\ Head(setpointQueue').from = Head(setpointQueue).from
    <3>1. Head(setpointQueue) \in Setpoint
      BY <2>2, HeadOfSlot DEF ArbiterTypeOK
    <3>2. setpointQueue' = << [Head(setpointQueue) EXCEPT !.age = Older(@)] >>
      BY <1>7, <2>2 DEF Tick
    <3> QED BY <3>1, <3>2
  <2> QED BY <1>i, <2>1, <2>2
<1>8. CASE UNCHANGED arbiterVars BY <1>i, <1>8 DEF arbiterVars
<1> QED BY <1>1, <1>2, <1>3, <1>4, <1>5, <1>6, <1>7, <1>8 DEF ArbiterNext

LEMMA UninterruptedInvariant == ArbiterSpec => []UninterruptedInv
<1>1. ArbiterInit => UninterruptedInv
  BY DEF ArbiterInit, UninterruptedInv, Uninterrupted
<1> QED BY <1>1, UninterruptedStep, TypeCorrect, PTL DEF ArbiterSpec

\* An uninterrupted thread's setpoint and priority are both in force when
\* commanderSetSetpoint has overwritten the two slots.
THEOREM InForceTheorem == ArbiterSpec => AcceptedIsInForce
<1> DEFINE Stored(t) == pc[t] = "putPriority" /\ pc'[t] # "putPriority" =>
                          /\ setpointQueue' # <<>>
                          /\ Head(setpointQueue').from = t
                          /\ priorityQueue' = <<Priority[t]>>
<1>1. ArbiterTypeOK /\ UninterruptedInv /\ [ArbiterNext]_arbiterVars =>
        [\A t \in Uninterrupted : Stored(t)]_arbiterVars
  <2> SUFFICES ASSUME ArbiterTypeOK, UninterruptedInv, ArbiterNext,
                      NEW t \in Uninterrupted,
                      pc[t] = "putPriority", pc'[t] # "putPriority"
               PROVE  /\ setpointQueue' # <<>>
                      /\ Head(setpointQueue').from = t
                      /\ priorityQueue' = <<Priority[t]>>
    BY DEF arbiterVars
  <2>t. t \in Thread /\ pc \in [Thread -> Place]
    BY DEF Uninterrupted, ArbiterTypeOK
  <2>1. PICK u \in Thread :
          SetSetpoint(u) \/ RelaxPriority(u) \/ GetSetpoint(u)
    BY DEF ArbiterNext, PlannerCommand, Tick, ActivePriorityFails, Panic
  <2>2. Scheduled(u) /\ \E to \in Place : pc' = [pc EXCEPT ![u] = to]
    BY <2>1 DEF SetSetpoint, RelaxPriority, GetSetpoint, Step,
       PlannerOffers, SetPeekFails, Panic,
       SetAccepted, SetRefused, SetStamp, SetGetSetpoint,
       SetPutSetpoint, SetGetPriority, SetPutPriority, SetDisablePlanner,
       RelaxCall, RelaxTellState, RelaxGetPriority, RelaxPutPriority,
       GetPeek, GetFresh, GetExpired, GetStale, GetResetPriority, GetLevel
  <2>3. u = t
    BY <2>2, StepOfThread, <2>t
  <2>4. SetPutPriority(t)
    BY <2>1, <2>3 DEF SetSetpoint, RelaxPriority, GetSetpoint, Step, Caller,
       PlannerOffers, SetPeekFails, Panic,
       SetAccepted, SetRefused, SetStamp, SetGetSetpoint,
       SetPutSetpoint, SetGetPriority, SetDisablePlanner,
       RelaxCall, RelaxTellState, RelaxGetPriority, RelaxPutPriority,
       GetPeek, GetFresh, GetExpired, GetStale, GetResetPriority, GetLevel
  <2>5. /\ setpointQueue # <<>> /\ Head(setpointQueue).from = t
        /\ priorityQueue = <<>>
    BY DEF UninterruptedInv
  <2> QED BY <2>4, <2>5 DEF SetPutPriority, Put
<1> QED BY <1>1, TypeCorrect, UninterruptedInvariant, PTL
        DEF ArbiterSpec, AcceptedIsInForce
=============================================================================
