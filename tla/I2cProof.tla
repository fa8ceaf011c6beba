----------------------------- MODULE I2cProof -----------------------------
(* The bus and the registers behind it, for any threads, lists of messages,  *)
(* sizes of the buffers, speeds and fields of bits.                          *)
EXTENDS I2cDev, SequenceTheorems, NaturalsInduction, WellFoundedInduction, TLAPS

-----------------------------------------------------------------------------
(* The driver: what a step preserves                                       *)

Holding == {"loop", "wait", "timed out", "exit"}
Places  == {"idle", "enter", "returned"} \cup Holding
Fields  == {"at", "msgs", "i", "used", "ret", "got", "done", "sent"}

CallOK(t) ==
  /\ DOMAIN call[t] = Fields
  /\ call[t].at \in Places
  /\ call[t].msgs \in Listing \cup {<<>>}
  /\ call[t].used \in Nat
  /\ call[t].ret \in Error \cup {"ok"}
  /\ ~At(t, "idle") => call[t].msgs \in Listing /\ call[t].i \in 1 .. Number(t)

\* transfer_sync is that of the thread between its take and its give.
SyncOK(t) == transferSync = t <=> call[t].at \in Holding

\* What the bus works on, and what is in the buffer, is of the message at which the
\* holder is.
BusOK(t) ==
  /\ At(t, "loop") =>
       /\ bus = None /\ completion = 0
       /\ ~Msg(t).read => call[t].used <= Len(buffer)
  /\ At(t, "wait") =>
       /\ ~ConcatNext(call[t].msgs, call[t].i)
       /\ bus # None => completion = 0
  /\ At(t, "exit") => bus = None

BusIsWaitedFor ==
  bus # None =>
    /\ bus.thread \in Thread
    /\ call[bus.thread].at \in {"wait", "timed out"}
    /\ bus.read = Msg(bus.thread).read
    /\ bus.buffered = (call[bus.thread].used # 0)

\* The messages before the group under way have been done, after success this one,
\* too; an error is told.
DoneOK(t) ==
  /\ call[t].at \in {"enter", "loop", "wait", "timed out"} => call[t].ret = "ok"
  /\ At(t, "enter") => call[t].i = 1 /\ call[t].used = 0 /\ call[t].done = {}
  /\ At(t, "loop") \/ (At(t, "wait") /\ bus # None) =>
       call[t].done \cup Group(call[t].msgs, call[t].i) = 1 .. call[t].i
  /\ At(t, "wait") /\ completion = 1 /\ res = "success" =>
       call[t].done = 1 .. call[t].i
  /\ call[t].at \in {"exit", "returned"} /\ call[t].ret = "ok" =>
       call[t].done = 1 .. Number(t)

GlobalsOK ==
  /\ transferSync \in Thread \cup {Free}
  /\ completion \in {0, 1}
  /\ res \in Result
  /\ buffer \in Seq(Byte)
  /\ bus \in Submitted \cup {None}
  /\ device \in Byte
  /\ power \in BOOLEAN
  /\ frequency \in Speed
  /\ config \in Speed \cup {None}
  /\ calls \in [Thread -> Nat]
  /\ \A t \in Thread : calls[t] \in 0 .. CallLimit[t]
  /\ SpeedIsKept

TwimInv ==
  /\ GlobalsOK
  /\ DOMAIN call = Thread
  /\ BusIsWaitedFor
  /\ \A t \in Thread : CallOK(t) /\ SyncOK(t) /\ BusOK(t) /\ DoneOK(t)

-----------------------------------------------------------------------------
(* The registers                                                           *)

Reading(t) == WritesBits(t) /\ op[t].stage = 1
Between(t) == WritesBits(t) /\ op[t].stage = 2
Writing(t) == WritesBits(t) /\ op[t].stage = 3

\* A thread that writes bits, in the middle of its read: its byte lies in got, not in
\* the buffer, and is that of the register unless another thread has written it.
ReadOK(t) ==
  Reading(t) =>
    /\ ~At(t, "idle")
    /\ call[t].msgs = BurstRead /\ call[t].used = 0
    /\ DOMAIN call[t].got = {1, 2}
    /\ bus # None /\ bus.thread = t =>
         IF bus.read THEN bus.length = 1 ELSE Len(bus.bytes) = 1
    /\ t \notin raced => device = before[t]
    /\ \/ At(t, "wait") /\ call[t].i = 2 /\ completion = 1 /\ res = "success"
       \/ call[t].at \in {"exit", "returned"} /\ call[t].ret = "ok"
       => call[t].got[2][1] \in Byte /\ (t \notin raced => call[t].got[2][1] = before[t])

BetweenOK(t) ==
  Between(t) =>
    /\ At(t, "idle")
    /\ t \notin raced => device = before[t] /\ (op[t].unread \/ byte[t] = before[t])

\* In the middle of its write of v: once that is done the register is v.
Writes(t, v) ==
  /\ ~At(t, "idle") /\ call[t].msgs = BurstWrite(v)
  /\ At(t, "loop") /\ call[t].i = 1 => call[t].used = 0
  /\ At(t, "loop") /\ call[t].i = 2 => Len(buffer) = 1 /\ call[t].used = 1
  /\ bus # None /\ bus.thread = t => ~bus.read /\ Len(bus.bytes) = 2 /\ bus.bytes[2] = v
  /\ \/ At(t, "wait") /\ completion = 1 /\ res = "success"
     \/ call[t].at \in {"exit", "returned"} /\ call[t].ret = "ok"
     => (t \notin raced => device = v)

WriteOK(t) ==
  Writing(t) =>
    \E v \in Byte :
      /\ t \in raced \/ op[t].unread \/ v = Inserted(op[t].field, before[t], op[t].data)
      /\ Writes(t, v)

Shape ==
  [kind : {"none", "read", "write", "bits", "bit", "list"},
   field : [first : Nat, length : Nat], data : Byte, msgs : Listing \cup {<<>>},
   stage : Nat, unread : BOOLEAN]

\* The job, at some stage of it.
Does(t, job) ==
  /\ op[t] \in Shape /\ op[t].stage \in 1 .. 3
  /\ op[t].kind = job.kind /\ op[t].field = job.field
  /\ op[t].data = job.data /\ op[t].msgs = job.msgs

OpOK(t) == \E job \in Jobs[t] \cup {NoJob} : Does(t, job)

ClientOK(t) == OpOK(t) /\ ReadOK(t) /\ BetweenOK(t) /\ WriteOK(t)

DevInv ==
  /\ TwimInv
  /\ DOMAIN op = Thread
  /\ byte \in [Thread -> Byte]
  /\ before \in [Thread -> Byte]
  /\ raced \subseteq Thread
  /\ \A t \in Thread : ClientOK(t)

-----------------------------------------------------------------------------
(* The driver: one lemma per step                                          *)

\* A call that is not at work is of no concern to the bus.
LEMMA ElsewhereOK ==
  ASSUME TwimInv, NEW u \in Thread,
         call'[u] = call[u],
         transferSync' = u <=> transferSync = u,
         call[u].at \notin Holding
  PROVE  CallOK(u)' /\ SyncOK(u)' /\ BusOK(u)' /\ DoneOK(u)'
BY DEF TwimInv, CallOK, SyncOK, BusOK, DoneOK, At, Msg, Number, Holding

LEMMA UntouchedOK ==
  ASSUME TwimInv, NEW u \in Thread, call'[u] = call[u], UNCHANGED <<driverVars, bus>>
  PROVE  CallOK(u)' /\ SyncOK(u)' /\ BusOK(u)' /\ DoneOK(u)'
<1>1. CallOK(u)' /\ SyncOK(u)'
  BY DEF TwimInv, CallOK, SyncOK, At, Number, driverVars
<1>2. BusOK(u)'
  BY DEF TwimInv, BusOK, At, Msg, driverVars
<1>3. DoneOK(u)'
  BY DEF TwimInv, DoneOK, At, Number, driverVars
<1>. QED
  BY <1>1, <1>2, <1>3

\* The holder is alone.
LEMMA OneHolder ==
  ASSUME TwimInv, NEW t \in Thread, call[t].at \in Holding, NEW u \in Thread, u # t
  PROVE  call[u].at \notin Holding
BY DEF TwimInv, SyncOK

LEMMA ListFacts ==
  ASSUME NEW msgs \in Listing
  PROVE  /\ msgs \in Seq(Message) /\ Len(msgs) \in Nat \ {0} /\ DOMAIN msgs = 1 .. Len(msgs)
         /\ \A k \in 1 .. Len(msgs) : msgs[k] \in Message
<1>1. msgs \in Seq(Message) /\ msgs # <<>>
  BY BusAssumption
<1>. QED
  BY <1>1, EmptySeq, LenProperties, ElementOfSeq

LEMMA CallTwim ==
  ASSUME TwimInv, NEW t \in Thread, NEW msgs \in Listing, Call(t, msgs)
  PROVE  TwimInv'
<1>1. /\ DOMAIN call' = Thread
      /\ \A u \in Thread : u # t => call'[u] = call[u]
      /\ call'[t] = [Idle EXCEPT !.at = "enter", !.msgs = msgs, !.got = [k \in DOMAIN msgs |-> <<>>]]
  BY DEF Call, TwimInv
<1>2. /\ DOMAIN call'[t] = Fields
      /\ call'[t].at = "enter" /\ call'[t].msgs = msgs /\ call'[t].i = 1 /\ call'[t].used = 0
      /\ call'[t].ret = "ok" /\ call'[t].done = {}
  BY <1>1 DEF Idle, Fields
<1>3. At(t, "idle") /\ UNCHANGED <<driverVars, bus, device, speedVars>>
  BY DEF Call
<1>4. CallOK(t)' /\ SyncOK(t)' /\ BusOK(t)' /\ DoneOK(t)'
  <2>1. CallOK(t)'
    BY <1>2, ListFacts DEF CallOK, At, Number, Places, Holding
  <2>2. SyncOK(t)'
    BY <1>2, <1>3 DEF TwimInv, SyncOK, At, Holding, driverVars
  <2>3. BusOK(t)' /\ DoneOK(t)'
    BY <1>2 DEF BusOK, DoneOK, At
  <2>. QED
    BY <2>1, <2>2, <2>3
<1>5. \A u \in Thread : CallOK(u)' /\ SyncOK(u)' /\ BusOK(u)' /\ DoneOK(u)'
  BY <1>1, <1>3, <1>4, UntouchedOK
<1>6. BusIsWaitedFor'
  BY <1>1, <1>3 DEF TwimInv, BusIsWaitedFor, At, Msg, Holding
<1>7. GlobalsOK'
  <2>1. calls' \in [Thread -> Nat] /\ \A u \in Thread : calls'[u] \in 0 .. CallLimit[u]
    <3>1. calls[t] < CallLimit[t] /\ calls' = [calls EXCEPT ![t] = @ + 1]
      BY DEF Call
    <3>2. CallLimit[t] \in Nat /\ calls \in [Thread -> Nat]
      BY BusAssumption DEF TwimInv, GlobalsOK
    <3>3. calls[t] \in Nat
      BY <3>2
    <3>4. calls[t] + 1 \in 0 .. CallLimit[t]
      BY <3>1, <3>2, <3>3
    <3>5. calls' \in [Thread -> Nat] /\ calls'[t] \in 0 .. CallLimit[t]
      BY <3>1, <3>2, <3>4
    <3>. QED
      BY <3>1, <3>2, <3>5 DEF TwimInv, GlobalsOK
  <2>. QED
    BY <1>3, <2>1 DEF TwimInv, GlobalsOK, SpeedIsKept, driverVars, speedVars
<1>. QED
  BY <1>1, <1>5, <1>6, <1>7 DEF TwimInv

LEMMA EnterTwim ==
  ASSUME TwimInv, NEW t \in Thread, Enter(t)
  PROVE  TwimInv'
<1>1. /\ DOMAIN call' = Thread
      /\ \A u \in Thread : u # t => call'[u] = call[u]
      /\ call'[t] = [call[t] EXCEPT !.at = "loop"]
  BY DEF Enter, TwimInv
<1>2. /\ At(t, "enter") /\ transferSync = Free
      /\ transferSync' = t /\ completion' = 0 /\ buffer' = <<>>
      /\ UNCHANGED <<res, bus, device, speedVars, calls>>
  BY DEF Enter, Emptied
<1>3. /\ DOMAIN call'[t] = Fields
      /\ call'[t].at = "loop" /\ call'[t].msgs = call[t].msgs /\ call'[t].i = 1
      /\ call'[t].used = 0 /\ call'[t].ret = "ok" /\ call'[t].done = {}
      /\ call[t].msgs \in Listing
  BY <1>1, <1>2 DEF TwimInv, CallOK, DoneOK, At, Fields
<1>4. bus = None /\ \A u \in Thread : call[u].at \notin Holding
  BY <1>2, BusAssumption DEF TwimInv, SyncOK, BusIsWaitedFor, Holding
<1>5. Group(call[t].msgs, 1) = {1}
  BY DEF Group
<1>6. CallOK(t)' /\ SyncOK(t)' /\ BusOK(t)' /\ DoneOK(t)'
  <2>1. CallOK(t)'
    BY <1>3, ListFacts DEF CallOK, At, Number, Places, Holding
  <2>2. SyncOK(t)'
    BY <1>2, <1>3 DEF SyncOK, Holding
  <2>3. BusOK(t)'
    BY <1>2, <1>3, <1>4 DEF BusOK, At
  <2>4. DoneOK(t)'
    BY <1>2, <1>3, <1>5 DEF DoneOK, At
  <2>. QED
    BY <2>1, <2>2, <2>3, <2>4
<1>7. \A u \in Thread : CallOK(u)' /\ SyncOK(u)' /\ BusOK(u)' /\ DoneOK(u)'
  BY <1>1, <1>2, <1>4, <1>6, ElsewhereOK, BusAssumption
<1>8. BusIsWaitedFor' /\ GlobalsOK'
  BY <1>2, <1>4 DEF TwimInv, BusIsWaitedFor, GlobalsOK, SpeedIsKept, speedVars
<1>. QED
  BY <1>1, <1>7, <1>8 DEF TwimInv

LEMMA GroupGrows ==
  ASSUME NEW msgs, NEW i \in Nat \ {0}
  PROVE  Group(msgs, i + 1) =
           IF ConcatNext(msgs, i) THEN Group(msgs, i) \cup {i + 1} ELSE {i + 1}
<1>1. \A j \in 1 .. i : j .. i = (j .. i - 1) \cup {i}
  OBVIOUS
<1>2. \A j \in 1 .. i + 1 : j = i + 1 \/ j \in 1 .. i
  OBVIOUS
<1>3. i + 1 - 1 = i /\ i + 1 .. i = {}
  OBVIOUS
<1>4. ASSUME NEW j
      PROVE  j \in Group(msgs, i + 1) <=>
               j = i + 1 \/ (j \in Group(msgs, i) /\ ConcatNext(msgs, i))
  <2>1. CASE j = i + 1
    BY <1>3, <2>1 DEF Group
  <2>2. CASE j \in 1 .. i
    <3>1. j # i + 1 /\ j \in 1 .. i + 1
      BY <2>2
    <3>. QED
      BY <1>1, <1>3, <2>2, <3>1 DEF Group
  <2>3. CASE j \notin 1 .. i + 1
    BY <1>2, <2>3 DEF Group
  <2>. QED
    BY <1>2, <2>1, <2>2, <2>3
<1>. QED
  BY <1>4

\* A step of the holder.
LEMMA HolderTwim ==
  ASSUME TwimInv, NEW t \in Thread, call[t].at \in Holding,
         DOMAIN call' = Thread, \A u \in Thread : u # t => call'[u] = call[u],
         transferSync' \in {t, Free}, transferSync' = t <=> call'[t].at \in Holding,
         CallOK(t)', BusOK(t)', DoneOK(t)'
  PROVE  \A u \in Thread : CallOK(u)' /\ SyncOK(u)' /\ BusOK(u)' /\ DoneOK(u)'
<1>1. SyncOK(t)'
  BY DEF SyncOK
<1>2. transferSync = t
  BY DEF TwimInv, SyncOK
<1>3. ASSUME NEW u \in Thread, u # t
      PROVE  CallOK(u)' /\ SyncOK(u)' /\ BusOK(u)' /\ DoneOK(u)'
  <2>1. transferSync # u /\ transferSync' # u
    BY <1>2, <1>3, BusAssumption
  <2>. QED
    BY <1>3, <2>1, OneHolder, ElsewhereOK
<1>. QED
  BY <1>1, <1>3

LEMMA BusIsHoldersOwn ==
  ASSUME TwimInv, bus # None
  PROVE  /\ bus \in Submitted /\ bus.thread \in Thread /\ transferSync = bus.thread
         /\ call[bus.thread].at \in {"wait", "timed out"}
BY DEF TwimInv, GlobalsOK, BusIsWaitedFor, SyncOK, Holding

\* Nothing but the call of the holder changes, which leaves with an error.
LEMMA BreakOK ==
  ASSUME TwimInv, NEW t \in Thread, NEW error \in Error, Break(t, error),
         call[t].at \in Holding, bus' = None
  PROVE  /\ DOMAIN call' = Thread /\ \A u \in Thread : u # t => call'[u] = call[u]
         /\ call'[t].at = "exit"
         /\ CallOK(t)' /\ BusOK(t)' /\ DoneOK(t)'
<1>1. /\ DOMAIN call' = Thread
      /\ \A u \in Thread : u # t => call'[u] = call[u]
  BY DEF Break, TwimInv
<1>2. DOMAIN call[t] = Fields /\ t \in DOMAIN call
  BY DEF TwimInv, CallOK
<1>3. /\ DOMAIN call'[t] = Fields /\ call'[t].at = "exit" /\ call'[t].ret = error
      /\ call'[t].msgs = call[t].msgs /\ call'[t].i = call[t].i /\ call'[t].used = call[t].used
  BY <1>2 DEF Break, Fields
<1>4. CallOK(t)'
  BY <1>3 DEF TwimInv, CallOK, At, Number, Places, Holding
<1>5. BusOK(t)' /\ DoneOK(t)'
  BY <1>3 DEF BusOK, DoneOK, At, Error
<1>. QED
  BY <1>1, <1>3, <1>4, <1>5

LEMMA BreakTwim ==
  ASSUME TwimInv, NEW t \in Thread, NEW error \in Error, Break(t, error),
         call[t].at \in Holding, bus' = None,
         transferSync' = transferSync, GlobalsOK'
  PROVE  TwimInv'
<1>1. transferSync = t
  BY DEF TwimInv, SyncOK
<1>2. \A u \in Thread : CallOK(u)' /\ SyncOK(u)' /\ BusOK(u)' /\ DoneOK(u)'
  BY <1>1, BreakOK, HolderTwim DEF Holding
<1>. QED
  BY <1>2, BreakOK DEF TwimInv, BusIsWaitedFor

LEMMA RejectTwim ==
  ASSUME TwimInv, NEW t \in Thread, Reject(t)
  PROVE  TwimInv'
<1>1. /\ At(t, "loop") /\ Fault(t) # "none" /\ Break(t, Fault(t))
      /\ UNCHANGED <<driverVars, bus, device, speedVars, calls>>
  BY DEF Reject
<1>2. Fault(t) \in Error
  BY <1>1 DEF Fault, Error
<1>3. bus = None /\ call[t].at \in Holding
  BY <1>1 DEF TwimInv, BusOK, At, Holding
<1>4. GlobalsOK'
  BY <1>1 DEF TwimInv, GlobalsOK, SpeedIsKept, driverVars, speedVars
<1>. QED
  BY <1>1, <1>2, <1>3, <1>4, BreakTwim DEF driverVars

LEMMA MessageFacts ==
  ASSUME TwimInv, NEW t \in Thread, ~At(t, "idle")
  PROVE  /\ call[t].msgs \in Listing /\ call[t].i \in 1 .. Number(t)
         /\ Number(t) \in Nat \ {0}
         /\ Msg(t) \in Message /\ Msg(t).length \in Nat /\ Msg(t).read \in BOOLEAN
         /\ Msg(t).bytes \in Seq(Byte)
         /\ ~Msg(t).read => Msg(t).length = Len(Msg(t).bytes)
<1>1. call[t].msgs \in Listing /\ call[t].i \in 1 .. Number(t)
  BY DEF TwimInv, CallOK
<1>2. Msg(t) \in Message /\ Number(t) \in Nat \ {0}
  BY <1>1, ListFacts DEF Msg, Number
<1>. QED
  BY <1>1, <1>2, MessageAssumption

LEMMA UsedFacts ==
  ASSUME TwimInv, NEW t \in Thread, At(t, "loop")
  PROVE  /\ Used(t) \in Nat
         /\ Filled(t) \in Seq(Byte)
         /\ ~Msg(t).read => Used(t) <= Len(Filled(t))
         /\ ConcatNext(call[t].msgs, call[t].i) => InBuffer(t)
<1>1. /\ call[t].used \in Nat /\ Msg(t).length \in Nat /\ Msg(t).bytes \in Seq(Byte)
      /\ ~Msg(t).read => Msg(t).length = Len(Msg(t).bytes) /\ call[t].used <= Len(buffer)
      /\ buffer \in Seq(Byte)
  BY MessageFacts DEF TwimInv, CallOK, BusOK, GlobalsOK, At
<1>2. CASE InBuffer(t) /\ ~Msg(t).read
  <2>. DEFINE front == SubSeq(buffer, 1, call[t].used)
  <2>1. front \in Seq(Byte) /\ Len(front) = call[t].used
    BY <1>1, <1>2, SubSeqProperties, LenProperties
  <2>. HIDE DEF front
  <2>2. front \o Msg(t).bytes \in Seq(Byte) /\ Len(front \o Msg(t).bytes) = Len(front) + Len(Msg(t).bytes)
    BY <1>1, <2>1, ConcatProperties
  <2>. QED
    BY <1>1, <1>2, <2>1, <2>2 DEF Used, Filled, front, InBuffer, Gathered
<1>3. CASE ~(InBuffer(t) /\ ~Msg(t).read)
  BY <1>1, <1>3, LenProperties DEF Used, Filled, InBuffer, Gathered
<1>. QED
  BY <1>2, <1>3

LEMMA GatherTwim ==
  ASSUME TwimInv, NEW t \in Thread, Gather(t)
  PROVE  TwimInv'
<1>1. /\ At(t, "loop") /\ ConcatNext(call[t].msgs, call[t].i)
      /\ buffer' = Filled(t)
      /\ call' = [call EXCEPT ![t].used = Used(t), ![t].i = @ + 1]
      /\ UNCHANGED <<transferSync, completion, res, bus, device, speedVars, calls>>
  BY DEF Gather
<1>2. DOMAIN call = Thread /\ DOMAIN call[t] = Fields /\ call[t].at = "loop"
  BY <1>1 DEF TwimInv, CallOK, At
<1>3. /\ DOMAIN call' = Thread
      /\ \A u \in Thread : u # t => call'[u] = call[u]
      /\ DOMAIN call'[t] = Fields /\ call'[t].at = "loop" /\ call'[t].ret = call[t].ret
      /\ call'[t].msgs = call[t].msgs /\ call'[t].i = call[t].i + 1
      /\ call'[t].used = Used(t) /\ call'[t].done = call[t].done
  BY <1>1, <1>2 DEF Fields
<1>4. /\ call[t].msgs \in Listing /\ call[t].i \in 1 .. Number(t) /\ Number(t) \in Nat \ {0}
      /\ Used(t) \in Nat
  BY <1>1, <1>2, MessageFacts, UsedFacts DEF At
<1>11. Filled(t) \in Seq(Byte) /\ (~Msg(t).read => Used(t) <= Len(Filled(t)))
  BY <1>1, UsedFacts
<1>5. /\ bus = None /\ completion = 0 /\ call[t].ret = "ok"
      /\ call[t].done \cup Group(call[t].msgs, call[t].i) = 1 .. call[t].i
  BY <1>2 DEF TwimInv, BusOK, DoneOK, At
<1>6. CallOK(t)'
  <2>1. call[t].i + 1 \in 1 .. Number(t)
    BY <1>1, <1>4 DEF ConcatNext, Number
  <2>. QED
    BY <1>2, <1>3, <1>4, <1>5, <2>1 DEF CallOK, At, Number, Places, Holding
<1>7. BusOK(t)'
  <2>1. Msg(t)'.read = Msg(t).read
    BY <1>1, <1>3 DEF ConcatNext, Msg
  <2>. QED
    BY <1>1, <1>3, <1>11, <1>5, <2>1 DEF BusOK, At
<1>8. DoneOK(t)'
  <2>1. Group(call[t].msgs, call[t].i + 1) = Group(call[t].msgs, call[t].i) \cup {call[t].i + 1}
    <3>1. call[t].i \in Nat \ {0}
      BY <1>4
    <3>. QED
      BY <1>1, <3>1, GroupGrows
  <2>2. 1 .. call[t].i + 1 = (1 .. call[t].i) \cup {call[t].i + 1}
    BY <1>4
  <2>3. call'[t].done \cup Group(call'[t].msgs, call'[t].i) = 1 .. call'[t].i
    BY <1>3, <1>5, <2>1, <2>2
  <2>. QED
    BY <1>3, <1>5, <2>3 DEF DoneOK, At
<1>9. \A u \in Thread : CallOK(u)' /\ SyncOK(u)' /\ BusOK(u)' /\ DoneOK(u)'
  <2>1. transferSync' = t
    BY <1>1, <1>2 DEF TwimInv, SyncOK, Holding
  <2>. QED
    BY <1>2, <1>3, <1>6, <1>7, <1>8, <2>1, HolderTwim DEF Holding
<1>10. GlobalsOK' /\ BusIsWaitedFor'
  BY <1>1, <1>5, <1>11 DEF TwimInv, GlobalsOK, BusIsWaitedFor, SpeedIsKept, speedVars
<1>. QED
  BY <1>3, <1>9, <1>10 DEF TwimInv

\* What the peripheral is told to do is something it can do.
LEMMA SubmittedFacts ==
  ASSUME TwimInv, NEW t \in Thread, At(t, "loop"), NEW n \in Nat,
         n = IF Msg(t).read THEN 0 ELSE Used(t)
  PROVE  SubSeq(Filled(t), 1, n) \in Seq(Byte)
<1>1. Filled(t) \in Seq(Byte) /\ n <= Len(Filled(t)) /\ Len(Filled(t)) \in Nat
  BY UsedFacts, LenProperties
<1>. QED
  BY <1>1, SubSeqProperties

LEMMA SubmitTwim ==
  ASSUME TwimInv, NEW t \in Thread, Submit(t)
  PROVE  TwimInv'
<1>1. /\ At(t, "loop") /\ ~ConcatNext(call[t].msgs, call[t].i)
      /\ buffer' = Filled(t)
      /\ UNCHANGED <<transferSync, completion, res, device, speedVars, calls>>
  BY DEF Submit
<1>2. /\ DOMAIN call = Thread /\ DOMAIN call[t] = Fields /\ call[t].at = "loop"
      /\ bus = None /\ completion = 0 /\ call[t].ret = "ok"
      /\ call[t].done \cup Group(call[t].msgs, call[t].i) = 1 .. call[t].i
      /\ transferSync = t
  BY <1>1 DEF TwimInv, CallOK, BusOK, DoneOK, SyncOK, At, Holding
<1>3. /\ Used(t) \in Nat /\ Filled(t) \in Seq(Byte)
      /\ call[t].msgs \in Listing /\ call[t].i \in 1 .. Number(t)
      /\ Msg(t).read \in BOOLEAN /\ Msg(t).bytes \in Seq(Byte) /\ Msg(t).length \in Nat
  BY <1>1, <1>2, MessageFacts, UsedFacts DEF At
<1>4. CASE \E error \in {"EBUSY", "EIO"} : Break(t, error) /\ UNCHANGED bus
  <2>1. PICK error \in {"EBUSY", "EIO"} : Break(t, error) /\ UNCHANGED bus
    BY <1>4
  <2>2. error \in Error /\ bus' = None /\ call[t].at \in Holding
    BY <1>2, <2>1 DEF Error, Holding
  <2>3. GlobalsOK'
    BY <1>1, <1>3, <2>1 DEF TwimInv, GlobalsOK, SpeedIsKept, speedVars
  <2>. QED
    BY <1>1, <2>1, <2>2, <2>3, BreakTwim
<1>5. CASE /\ bus' = [thread |-> t, read |-> Msg(t).read, buffered |-> Used(t) # 0,
                     bytes |-> IF Used(t) = 0 THEN Msg(t).bytes
                               ELSE SubSeq(buffer', 1, IF Msg(t).read THEN 0 ELSE Used(t)),
                     length |-> IF Used(t) = 0 THEN Msg(t).length ELSE Used(t)]
           /\ call' = [call EXCEPT ![t].used = Used(t), ![t].at = "wait"]
  <2>1. /\ DOMAIN call' = Thread
        /\ \A u \in Thread : u # t => call'[u] = call[u]
        /\ DOMAIN call'[t] = Fields /\ call'[t].at = "wait" /\ call'[t].ret = "ok"
        /\ call'[t].msgs = call[t].msgs /\ call'[t].i = call[t].i
        /\ call'[t].used = Used(t) /\ call'[t].done = call[t].done
    BY <1>2, <1>5 DEF Fields
  <2>2. bus' \in Submitted
    <3>1. SubSeq(buffer', 1, IF Msg(t).read THEN 0 ELSE Used(t)) \in Seq(Byte)
      BY <1>1, <1>3, SubmittedFacts
    <3>. QED
      BY <1>3, <1>5, <3>1 DEF Submitted
  <2>3. bus' # None
    BY <2>2, BusAssumption
  <2>4. CallOK(t)'
    BY <1>3, <2>1 DEF CallOK, At, Number, Places, Holding
  <2>5. BusOK(t)'
    BY <1>1, <1>2, <2>1, <2>3 DEF BusOK, At
  <2>6. DoneOK(t)'
    BY <1>1, <1>2, <2>1 DEF DoneOK, At
  <2>7. \A u \in Thread : CallOK(u)' /\ SyncOK(u)' /\ BusOK(u)' /\ DoneOK(u)'
    BY <1>1, <1>2, <2>1, <2>4, <2>5, <2>6, HolderTwim DEF Holding
  <2>8. GlobalsOK'
    BY <1>1, <1>3, <2>2 DEF TwimInv, GlobalsOK, SpeedIsKept, speedVars
  <2>9. BusIsWaitedFor'
    BY <1>5, <2>1 DEF BusIsWaitedFor, Msg
  <2>. QED
    BY <2>1, <2>7, <2>8, <2>9 DEF TwimInv
<1>. QED
  BY <1>4, <1>5 DEF Submit

LEMMA EffectIsByte ==
  ASSUME TwimInv, bus # None
  PROVE  Effect \in Byte /\ Answer(device, bus.length) \in Seq(Byte)
<1>1. bus.bytes \in Seq(Byte) /\ bus.length \in Nat /\ device \in Byte
  BY BusIsHoldersOwn DEF Submitted, TwimInv, GlobalsOK
<1>2. Len(bus.bytes) = 2 => bus.bytes[2] \in Byte
  BY <1>1, ElementOfSeq
<1>3. Effect \in Byte
  BY <1>1, <1>2 DEF Effect, Written
<1>4. \A k \in 1 .. bus.length : (IF k = 1 THEN device ELSE Bit \ device) \in Byte
  BY <1>1 DEF Byte
<1>5. Answer(device, bus.length) \in Seq(Byte)
  <2>1. Answer(device, bus.length) \in [1 .. bus.length -> Byte]
    BY <1>4 DEF Answer
  <2>. QED
    BY <1>1, <2>1, SeqDef
<1>. QED
  BY <1>3, <1>5

LEMMA EventTwim ==
  ASSUME TwimInv, Event
  PROVE  TwimInv'
<1>0. PICK t : t = bus.thread
  OBVIOUS
<1>1. /\ bus # None /\ completion' = 1 /\ bus' = None
      /\ UNCHANGED <<transferSync, speedVars, calls>>
      /\ res' \in Result
  BY DEF Event
<1>2. /\ t \in Thread /\ transferSync = t /\ call[t].at \in {"wait", "timed out"}
      /\ Effect \in Byte /\ Answer(device, bus.length) \in Seq(Byte)
  BY <1>0, <1>1, BusIsHoldersOwn, EffectIsByte
<1>3. /\ DOMAIN call = Thread /\ DOMAIN call[t] = Fields
      /\ CallOK(t) /\ BusOK(t) /\ DoneOK(t)
  BY <1>2 DEF TwimInv, CallOK
<1>4. /\ device' \in Byte /\ buffer' \in Seq(Byte)
      /\ DOMAIN call' = Thread
      /\ \A u \in Thread : u # t => call'[u] = call[u]
      /\ DOMAIN call'[t] = Fields /\ call'[t].at = call[t].at /\ call'[t].ret = call[t].ret
      /\ call'[t].msgs = call[t].msgs /\ call'[t].i = call[t].i /\ call'[t].used = call[t].used
      /\ res' = "success" => call'[t].done = call[t].done \cup Group(call[t].msgs, call[t].i)
  <2>1. CASE res' = "success"
    <3>. DEFINE bytes == IF bus.read THEN Answer(device, bus.length) ELSE <<>>
    <3>1. /\ device' = Effect
          /\ buffer' = IF bus.read /\ bus.buffered THEN bytes ELSE buffer
          /\ call' = [call EXCEPT
               ![t].done = @ \cup Group(call[t].msgs, call[t].i),
               ![t].sent = @ \o bytes,
               ![t].got[call[t].i] = IF bus.read /\ ~bus.buffered THEN bytes ELSE @]
      BY <1>0, <2>1 DEF Event
    <3>2. buffer' \in Seq(Byte)
      BY <1>2, <3>1 DEF TwimInv, GlobalsOK
    <3>. HIDE DEF bytes
    <3>. QED
      BY <1>2, <1>3, <3>1, <3>2 DEF Fields
  <2>2. CASE res' # "success"
    BY <1>3, <2>2 DEF Event, TwimInv, GlobalsOK
  <2>. QED
    BY <2>1, <2>2
<1>5. CallOK(t)'
  BY <1>3, <1>4 DEF CallOK, At, Number
<1>6. BusOK(t)'
  BY <1>1, <1>2, <1>3, <1>4 DEF BusOK, At
<1>7. DoneOK(t)'
  BY <1>1, <1>2, <1>3, <1>4 DEF DoneOK, At
<1>8. \A u \in Thread : CallOK(u)' /\ SyncOK(u)' /\ BusOK(u)' /\ DoneOK(u)'
  <2>1. call[t].at \in Holding /\ transferSync' = t /\ call'[t].at \in Holding
    BY <1>1, <1>2, <1>4 DEF Holding
  <2>. QED
    BY <1>2, <1>4, <1>5, <1>6, <1>7, <2>1, HolderTwim
<1>9. GlobalsOK' /\ BusIsWaitedFor'
  BY <1>1, <1>4 DEF TwimInv, GlobalsOK, BusIsWaitedFor, SpeedIsKept, speedVars
<1>. QED
  BY <1>4, <1>8, <1>9 DEF TwimInv

LEMMA TakenTwim ==
  ASSUME TwimInv, NEW t \in Thread, Taken(t)
  PROVE  TwimInv'
<1>1. /\ call[t].at = "wait" /\ completion = 1 /\ completion' = 0
      /\ UNCHANGED <<transferSync, res, buffer, bus, device, speedVars, calls>>
  BY DEF Taken, At
<1>2. /\ DOMAIN call = Thread /\ DOMAIN call[t] = Fields
      /\ bus = None /\ transferSync = t /\ call[t].ret = "ok"
      /\ ~ConcatNext(call[t].msgs, call[t].i)
      /\ res = "success" => call[t].done = 1 .. call[t].i
  <2>1. DOMAIN call = Thread /\ DOMAIN call[t] = Fields
    BY DEF TwimInv, CallOK
  <2>2. bus = None /\ ~ConcatNext(call[t].msgs, call[t].i)
    BY <1>1 DEF TwimInv, BusOK, At
  <2>3. transferSync = t
    BY <1>1 DEF TwimInv, SyncOK, Holding
  <2>4. call[t].ret = "ok" /\ (res = "success" => call[t].done = 1 .. call[t].i)
    BY <1>1 DEF TwimInv, DoneOK, At
  <2>. QED
    BY <2>1, <2>2, <2>3, <2>4
<1>3. call[t].msgs \in Listing /\ call[t].i \in 1 .. Number(t) /\ Number(t) \in Nat \ {0}
  BY <1>1, MessageFacts DEF At
<1>4. GlobalsOK'
  BY <1>1 DEF TwimInv, GlobalsOK, SpeedIsKept, speedVars
<1>5. CASE res # "success"
  <2>1. Break(t, "EIO") /\ "EIO" \in Error
    BY <1>5 DEF Taken, IsSuccess, Error
  <2>. QED
    BY <1>1, <1>2, <1>4, <2>1, BreakTwim DEF Holding
<1>6. CASE res = "success"
  <2>. DEFINE last == call[t].i = Number(t)
  <2>1. /\ DOMAIN call' = Thread
        /\ \A u \in Thread : u # t => call'[u] = call[u]
        /\ DOMAIN call'[t] = Fields /\ call'[t].ret = "ok"
        /\ call'[t].at = (IF last THEN "exit" ELSE "loop")
        /\ call'[t].msgs = call[t].msgs /\ call'[t].used = 0
        /\ call'[t].i = (IF last THEN call[t].i ELSE call[t].i + 1)
        /\ call'[t].done = call[t].done
    BY <1>2, <1>6 DEF Taken, IsSuccess, Fields
  <2>2. CallOK(t)'
    <3>1. call'[t].i \in 1 .. Number(t)
      BY <1>3, <2>1
    <3>. QED
      BY <1>3, <2>1, <3>1 DEF CallOK, At, Number, Places, Holding
  <2>3. BusOK(t)'
    <3>1. Len(buffer) \in Nat
      BY LenProperties DEF TwimInv, GlobalsOK
    <3>. QED
      BY <1>1, <1>2, <2>1, <3>1 DEF BusOK, At
  <2>4. DoneOK(t)'
    <3>1. CASE last
      BY <1>2, <1>6, <2>1, <3>1 DEF DoneOK, At, Number
    <3>2. CASE ~last
      <4>1. call[t].i \in Nat \ {0}
        BY <1>3
      <4>2. Group(call[t].msgs, call[t].i + 1) = {call[t].i + 1}
        BY <1>2, <4>1, GroupGrows
      <4>3. (1 .. call[t].i) \cup {call[t].i + 1} = 1 .. call[t].i + 1
        BY <4>1
      <4>4. call'[t].at = "loop" /\ call'[t].done \cup Group(call'[t].msgs, call'[t].i) = 1 .. call'[t].i
        BY <1>2, <1>6, <2>1, <3>2, <4>2, <4>3
      <4>. QED
        BY <2>1, <4>4 DEF DoneOK, At
    <3>. QED
      BY <3>1, <3>2
  <2>5. transferSync' = t /\ call[t].at \in Holding /\ call'[t].at \in Holding
    BY <1>1, <1>2, <2>1 DEF Holding
  <2>6. \A u \in Thread : CallOK(u)' /\ SyncOK(u)' /\ BusOK(u)' /\ DoneOK(u)'
    BY <2>1, <2>2, <2>3, <2>4, <2>5, HolderTwim
  <2>. QED
    BY <1>1, <1>2, <1>4, <2>1, <2>6 DEF TwimInv, BusIsWaitedFor
<1>. QED
  BY <1>5, <1>6

LEMMA TimeOutTwim ==
  ASSUME TwimInv, NEW t \in Thread, TimeOut(t)
  PROVE  TwimInv'
<1>1. /\ call[t].at = "wait"
      /\ call' = [call EXCEPT ![t].at = "timed out"]
      /\ UNCHANGED <<driverVars, bus, device, speedVars, calls>>
  BY DEF TimeOut, At
<1>2. DOMAIN call = Thread /\ DOMAIN call[t] = Fields /\ transferSync = t
  BY <1>1 DEF TwimInv, CallOK, SyncOK, Holding
<1>3. /\ DOMAIN call' = Thread
      /\ \A u \in Thread : u # t => call'[u] = call[u]
      /\ DOMAIN call'[t] = Fields /\ call'[t].at = "timed out" /\ call'[t].ret = call[t].ret
      /\ call'[t].msgs = call[t].msgs /\ call'[t].i = call[t].i
      /\ call'[t].used = call[t].used /\ call'[t].done = call[t].done
  BY <1>1, <1>2 DEF Fields
<1>4. CallOK(t)'
  BY <1>1, <1>3 DEF TwimInv, CallOK, At, Number, Places, Holding
<1>5. BusOK(t)' /\ DoneOK(t)'
  BY <1>1, <1>3 DEF TwimInv, BusOK, DoneOK, At
<1>6. transferSync' = t /\ call[t].at \in Holding /\ call'[t].at \in Holding
  BY <1>1, <1>2, <1>3 DEF Holding, driverVars
<1>7. \A u \in Thread : CallOK(u)' /\ SyncOK(u)' /\ BusOK(u)' /\ DoneOK(u)'
  BY <1>3, <1>4, <1>5, <1>6, HolderTwim
<1>8. GlobalsOK'
  BY <1>1 DEF TwimInv, GlobalsOK, SpeedIsKept, driverVars, speedVars
<1>9. BusIsWaitedFor'
  <2>1. SUFFICES ASSUME bus # None
                 PROVE  /\ call'[bus.thread].at \in {"wait", "timed out"}
                        /\ call'[bus.thread].msgs = call[bus.thread].msgs
                        /\ call'[bus.thread].i = call[bus.thread].i
                        /\ call'[bus.thread].used = call[bus.thread].used
    BY <1>1 DEF TwimInv, BusIsWaitedFor, Msg
  <2>2. PICK u \in Thread : u = bus.thread /\ call[u].at \in {"wait", "timed out"}
    BY <2>1 DEF TwimInv, BusIsWaitedFor
  <2>3. CASE u = t
    BY <1>3, <2>2, <2>3
  <2>4. CASE u # t
    <3>1. call'[u] = call[u]
      BY <1>3, <2>4
    <3>. QED
      BY <2>2, <3>1
  <2>. QED
    BY <2>3, <2>4
<1>. QED
  BY <1>3, <1>7, <1>8, <1>9 DEF TwimInv

LEMMA RecoverTwim ==
  ASSUME TwimInv, NEW t \in Thread, Recover(t)
  PROVE  TwimInv'
<1>1. /\ call[t].at = "timed out" /\ bus' = None /\ Break(t, "EIO") /\ "EIO" \in Error
      /\ UNCHANGED <<driverVars, speedVars, calls>>
  BY DEF Recover, At, Stopped, Error
<1>2. device' \in Byte
  BY EffectIsByte DEF Recover, Reached, TwimInv, GlobalsOK
<1>3. GlobalsOK'
  BY <1>1, <1>2 DEF TwimInv, GlobalsOK, SpeedIsKept, driverVars, speedVars
<1>. QED
  BY <1>1, <1>3, BreakTwim DEF Holding, driverVars

LEMMA ExitTwim ==
  ASSUME TwimInv, NEW t \in Thread, Exit(t)
  PROVE  TwimInv'
<1>1. /\ call[t].at = "exit" /\ bus' = None /\ transferSync' = Free
      /\ call' = [call EXCEPT ![t].at = "returned"]
      /\ UNCHANGED <<completion, res, buffer, device, speedVars, calls>>
  BY DEF Exit, At, Stopped, GivenBack
<1>2. DOMAIN call = Thread /\ DOMAIN call[t] = Fields
  BY DEF TwimInv, CallOK
<1>3. /\ DOMAIN call' = Thread
      /\ \A u \in Thread : u # t => call'[u] = call[u]
      /\ DOMAIN call'[t] = Fields /\ call'[t].at = "returned" /\ call'[t].ret = call[t].ret
      /\ call'[t].msgs = call[t].msgs /\ call'[t].i = call[t].i
      /\ call'[t].used = call[t].used /\ call'[t].done = call[t].done
  BY <1>1, <1>2 DEF Fields
<1>4. CallOK(t)'
  BY <1>1, <1>3 DEF TwimInv, CallOK, At, Number, Places, Holding
<1>5. BusOK(t)' /\ DoneOK(t)'
  <2>1. BusOK(t)'
    BY <1>1, <1>3 DEF BusOK, At
  <2>2. DoneOK(t)
    BY DEF TwimInv
  <2>. QED
    BY <1>1, <1>3, <2>1, <2>2 DEF DoneOK, At, Number
<1>6. Free # t /\ call[t].at \in Holding /\ call'[t].at \notin Holding
  BY <1>1, <1>3, BusAssumption DEF Holding
<1>7. \A u \in Thread : CallOK(u)' /\ SyncOK(u)' /\ BusOK(u)' /\ DoneOK(u)'
  BY <1>1, <1>3, <1>4, <1>5, <1>6, HolderTwim
<1>8. GlobalsOK' /\ BusIsWaitedFor'
  BY <1>1 DEF TwimInv, GlobalsOK, SpeedIsKept, BusIsWaitedFor, speedVars
<1>. QED
  BY <1>3, <1>7, <1>8 DEF TwimInv

LEMMA ReturnTwim ==
  ASSUME TwimInv, NEW t \in Thread, Return(t)
  PROVE  TwimInv'
<1>1. /\ call[t].at = "returned"
      /\ call' = [call EXCEPT ![t] = Idle]
      /\ UNCHANGED <<driverVars, bus, device, speedVars, calls>>
  BY DEF Return, At
<1>2. /\ DOMAIN call' = Thread
      /\ \A u \in Thread : u # t => call'[u] = call[u]
      /\ call'[t] = Idle
  BY <1>1 DEF TwimInv
<1>3. CallOK(t)' /\ BusOK(t)' /\ DoneOK(t)'
  BY <1>2 DEF CallOK, BusOK, DoneOK, At, Idle, Fields, Places, Holding
<1>4. SyncOK(t)'
  BY <1>1, <1>2 DEF TwimInv, SyncOK, Idle, Holding, driverVars
<1>5. \A u \in Thread : CallOK(u)' /\ SyncOK(u)' /\ BusOK(u)' /\ DoneOK(u)'
  BY <1>1, <1>2, <1>3, <1>4, UntouchedOK
<1>6. GlobalsOK'
  BY <1>1 DEF TwimInv, GlobalsOK, SpeedIsKept, driverVars, speedVars
<1>7. BusIsWaitedFor'
  <2>1. bus # None => bus.thread # t
    BY <1>1 DEF TwimInv, BusIsWaitedFor
  <2>. QED
    BY <1>1, <1>2, <2>1 DEF TwimInv, BusIsWaitedFor, Msg
<1>. QED
  BY <1>2, <1>5, <1>6, <1>7 DEF TwimInv

\* Steps that leave the calls alone.
LEMMA ManageTwim ==
  ASSUME TwimInv, Configure \/ Resume
  PROVE  TwimInv'
<1>1. UNCHANGED <<driverVars, call, bus, device, calls>>
  BY DEF Configure, Resume
<1>2. power' \in BOOLEAN /\ frequency' \in Speed /\ config' \in Speed \cup {None} /\ SpeedIsKept'
  BY BusAssumption DEF Configure, Resume, Restored, TwimInv, GlobalsOK, SpeedIsKept
<1>3. \A u \in Thread : CallOK(u)' /\ SyncOK(u)' /\ BusOK(u)' /\ DoneOK(u)'
  BY <1>1, UntouchedOK
<1>. QED
  BY <1>1, <1>2, <1>3 DEF TwimInv, GlobalsOK, BusIsWaitedFor, Msg, driverVars

\* Nothing is under way any more; the thread that waits for it is to time out.
LEMMA SuspendTwim ==
  ASSUME TwimInv, Suspend
  PROVE  TwimInv'
<1>1. /\ bus' = None /\ power' = FALSE
      /\ UNCHANGED <<driverVars, call, frequency, config, calls>>
  BY DEF Suspend
<1>2. device' \in Byte
  BY EffectIsByte DEF Suspend, Reached, TwimInv, GlobalsOK
<1>3. GlobalsOK'
  BY <1>1, <1>2 DEF TwimInv, GlobalsOK, SpeedIsKept, driverVars
<1>4. ASSUME NEW u \in Thread
      PROVE  CallOK(u)' /\ SyncOK(u)' /\ BusOK(u)' /\ DoneOK(u)'
  <2>1. CallOK(u) /\ SyncOK(u) /\ BusOK(u) /\ DoneOK(u)
    BY DEF TwimInv
  <2>2. CallOK(u)' /\ SyncOK(u)'
    BY <1>1, <2>1 DEF CallOK, SyncOK, At, Number, driverVars
  <2>3. BusOK(u)'
    BY <1>1, <2>1 DEF BusOK, At, Msg, driverVars
  <2>4. DoneOK(u)'
    BY <1>1, <2>1 DEF DoneOK, At, Number, driverVars
  <2>. QED
    BY <2>2, <2>3, <2>4
<1>. QED
  BY <1>1, <1>3, <1>4 DEF TwimInv, BusIsWaitedFor

LEMMA TransferTwim ==
  ASSUME TwimInv, NEW t \in Thread, Transfer(t)
  PROVE  TwimInv'
BY EnterTwim, RejectTwim, GatherTwim, SubmitTwim, TakenTwim, TimeOutTwim, RecoverTwim,
   ExitTwim DEF Transfer

LEMMA InitTwim == TwimInit => TwimInv
<1>. SUFFICES ASSUME TwimInit
              PROVE  TwimInv
  OBVIOUS
<1>1. DOMAIN call = Thread /\ bus = None /\ \A t \in Thread : call[t] = Idle
  BY DEF TwimInit
<1>2. \A t \in Thread : CallOK(t) /\ BusOK(t) /\ DoneOK(t)
  <2>1. DOMAIN Idle = Fields /\ Idle.at = "idle" /\ Idle.msgs = <<>> /\ Idle.used = 0 /\ Idle.ret = "ok"
    BY DEF Idle, Fields
  <2>2. ASSUME NEW t \in Thread
        PROVE  CallOK(t) /\ BusOK(t) /\ DoneOK(t)
    <3>1. call[t] = Idle
      BY <1>1
    <3>2. CallOK(t)
      BY <3>1 DEF CallOK, At, Idle, Fields, Places, Holding
    <3>. QED
      BY <2>1, <3>1, <3>2 DEF BusOK, DoneOK, At
  <2>. QED
    BY <2>2
<1>3. \A t \in Thread : SyncOK(t)
  BY <1>1, BusAssumption DEF TwimInit, SyncOK, Idle, Holding
<1>4. GlobalsOK
  <2>1. calls \in [Thread -> Nat] /\ \A t \in Thread : calls[t] \in 0 .. CallLimit[t]
    BY BusAssumption DEF TwimInit
  <2>. QED
    BY <2>1, BusAssumption, EmptySeq DEF TwimInit, GlobalsOK, SpeedIsKept, Result
<1>. QED
  BY <1>1, <1>2, <1>3, <1>4 DEF TwimInv, BusIsWaitedFor

-----------------------------------------------------------------------------
(* What threads do with the bus                                            *)

LEMMA ReadFacts ==
  /\ Len(BurstRead) = 2 /\ DOMAIN BurstRead = {1, 2}
  /\ ~BurstRead[1].read /\ BurstRead[2].read
  /\ \A i \in {1, 2} : ~BurstRead[i].flash /\ BurstRead[i].length = 1
  /\ Len(BurstRead[1].bytes) = 1
  /\ ~ConcatNext(BurstRead, 1) /\ ~ConcatNext(BurstRead, 2)
BY DEF BurstRead, Part, ConcatNext

LEMMA WriteFacts ==
  ASSUME NEW v
  PROVE  /\ Len(BurstWrite(v)) = 2 /\ DOMAIN BurstWrite(v) = {1, 2}
         /\ \A i \in {1, 2} : ~BurstWrite(v)[i].read /\ BurstWrite(v)[i].length = 1
         /\ BurstWrite(v)[2].bytes[1] = v
         /\ ConcatNext(BurstWrite(v), 1) /\ ~ConcatNext(BurstWrite(v), 2)
<1>1. Len(BurstWrite(v)) = 2 /\ DOMAIN BurstWrite(v) = {1, 2}
  BY DEF BurstWrite, Part
<1>2. BurstWrite(v)[1].read = FALSE /\ BurstWrite(v)[1].length = 1 /\ ~BurstWrite(v)[1].stop
  BY DEF BurstWrite, Part
<1>3. /\ BurstWrite(v)[2].read = FALSE /\ BurstWrite(v)[2].length = 1 /\ ~BurstWrite(v)[2].restart
  BY DEF BurstWrite, Part
<1>4. BurstWrite(v)[2].bytes[1] = v
  BY DEF BurstWrite, Part
<1>5. ConcatNext(BurstWrite(v), 1) /\ ~ConcatNext(BurstWrite(v), 2)
  <2>1. 1 + 1 = 2 /\ 1 < 2 /\ ~(2 < 2)
    OBVIOUS
  <2>. QED
    BY <1>1, <1>2, <1>3, <2>1 DEF ConcatNext
<1>. QED
  BY <1>1, <1>2, <1>3, <1>4, <1>5

LEMMA InsertedIsByte ==
  ASSUME NEW f, NEW value \in Byte, NEW data
  PROVE  Inserted(f, value, data) \in Byte
BY DEF Inserted, Mask, Shifted, Byte

LEMMA JobShape ==
  ASSUME NEW t \in Thread, NEW job \in Jobs[t] \cup {NoJob}
  PROVE  job \in Shape /\ job.stage = 1 /\ ~job.unread
<1>1. NoJob \in Shape /\ NoJob.stage = 1 /\ ~NoJob.unread
  <2>1. NoField \in [first : Nat, length : Nat] /\ {} \in Byte
    BY DEF NoField, Byte
  <2>. QED
    BY <2>1 DEF NoJob, Job, Shape
<1>2. CASE job \in Jobs[t]
  <2>1. /\ job \in [kind : {"read", "write", "bits", "bit", "list"},
                    field : [first : Nat, length : Nat], data : Byte, msgs : Listing,
                    stage : {1}, unread : BOOLEAN]
        /\ ~job.unread
    BY <1>2, JobAssumption
  <2>. QED
    BY <2>1 DEF Shape
<1>. QED
  BY <1>1, <1>2

\* A job is found again behind its stage, whatever that is.
LEMMA SameJob ==
  ASSUME NEW r \in Shape, NEW job \in Shape,
         r.kind = job.kind, r.field = job.field, r.data = job.data, r.msgs = job.msgs
  PROVE  r = [job EXCEPT !.stage = r.stage, !.unread = r.unread]
<1>. DEFINE j == [job EXCEPT !.stage = r.stage, !.unread = r.unread]
<1>1. /\ j \in Shape
      /\ j.kind = job.kind /\ j.field = job.field /\ j.data = job.data /\ j.msgs = job.msgs
      /\ j.stage = r.stage /\ j.unread = r.unread
  BY DEF Shape
<1>. HIDE DEF j
<1>2. r = j
  BY <1>1 DEF Shape
<1>. QED
  BY <1>2 DEF j

LEMMA Advanced ==
  ASSUME NEW r \in Shape, NEW m \in BOOLEAN
  PROVE  /\ [r EXCEPT !.stage = 2, !.unread = m] \in Shape
         /\ [r EXCEPT !.stage = 3] \in Shape
BY DEF Shape

LEMMA OpFacts ==
  ASSUME NEW t \in Thread, ClientOK(t)
  PROVE  /\ op[t].stage \in 1 .. 3 /\ op[t].unread \in BOOLEAN
         /\ WritesBits(t) =>
              /\ op[t] # NoJob
              /\ op[t].field \in [first : Nat, length : Nat] /\ op[t].data \in Byte
              /\ op[t].field.first - op[t].field.length + 1 .. op[t].field.first \subseteq Bit
<1>1. PICK job \in Jobs[t] \cup {NoJob} : Does(t, job)
  BY DEF ClientOK, OpOK
<1>2. CASE job = NoJob
  BY <1>1, <1>2 DEF Does, Shape, NoJob, Job, WritesBits
<1>3. CASE job \in Jobs[t]
  <2>1. /\ job \in [kind : {"read", "write", "bits", "bit", "list"},
                    field : [first : Nat, length : Nat], data : Byte, msgs : Listing,
                    stage : {1}, unread : BOOLEAN]
        /\ job.kind \in {"bits", "bit"} =>
             job.field.first - job.field.length + 1 .. job.field.first \subseteq Bit
    BY <1>3, JobAssumption
  <2>2. /\ op[t].stage \in 1 .. 3 /\ op[t].unread \in BOOLEAN /\ op[t].kind = job.kind
        /\ op[t].field = job.field /\ op[t].data = job.data
    BY <1>1 DEF Does, Shape
  <2>3. NoJob.kind = "none"
    BY DEF NoJob, Job
  <2>. QED
    BY <1>1, <2>1, <2>2, <2>3 DEF WritesBits
<1>. QED
  BY <1>1, <1>2, <1>3

\* What another does is seen in the register only, and noted.
LEMMA ElsewhereClient ==
  ASSUME DevInv, NEW u \in Thread,
         call[u].at \notin Holding, call'[u] = call[u],
         op'[u] = op[u], byte'[u] = byte[u], before'[u] = before[u],
         u \in raced => u \in raced',
         WritesBits(u) /\ device' # device => u \in raced',
         bus' # None => bus'.thread # u
  PROVE  ClientOK(u)'
<1>1. ClientOK(u) /\ call[u].at \notin {"loop", "wait", "exit"}
  BY DEF DevInv, Holding
<1>2. OpOK(u)'
  BY <1>1 DEF ClientOK, OpOK, Does
<1>3. ReadOK(u)'
  BY <1>1 DEF ClientOK, ReadOK, Reading, WritesBits, At
<1>4. BetweenOK(u)'
  BY <1>1 DEF ClientOK, BetweenOK, Between, WritesBits, At
<1>5. WriteOK(u)'
  <2>. SUFFICES ASSUME Writing(u)'
                PROVE  \E v \in Byte :
                         /\ u \in raced' \/ op'[u].unread
                              \/ v = Inserted(op'[u].field, before'[u], op'[u].data)
                         /\ Writes(u, v)'
    BY DEF WriteOK
  <2>1. Writing(u)
    BY DEF Writing, WritesBits
  <2>2. PICK v \in Byte :
          /\ u \in raced \/ op[u].unread \/ v = Inserted(op[u].field, before[u], op[u].data)
          /\ Writes(u, v)
    BY <1>1, <2>1 DEF ClientOK, WriteOK
  <2>3. Writes(u, v)'
    BY <1>1, <2>1, <2>2 DEF Writes, At, Writing
  <2>. QED
    BY <2>2, <2>3
<1>. QED
  BY <1>2, <1>3, <1>4, <1>5 DEF ClientOK

\* The client that has not moved, while another one ends or begins a call.
LEMMA UntouchedClient ==
  ASSUME DevInv, NEW u \in Thread, call'[u] = call[u],
         UNCHANGED <<driverVars, bus, device>>,
         op'[u] = op[u], byte'[u] = byte[u], before'[u] = before[u], u \in raced' <=> u \in raced
  PROVE  ClientOK(u)'
<1>1. ClientOK(u)
  BY DEF DevInv
<1>2. OpOK(u)'
  BY <1>1 DEF ClientOK, OpOK, Does
<1>3. ReadOK(u)'
  BY <1>1 DEF ClientOK, ReadOK, Reading, WritesBits, At, driverVars
<1>4. BetweenOK(u)'
  BY <1>1 DEF ClientOK, BetweenOK, Between, WritesBits, At
<1>5. WriteOK(u)'
  BY <1>1 DEF ClientOK, WriteOK, Writes, Writing, WritesBits, At, driverVars
<1>. QED
  BY <1>2, <1>3, <1>4, <1>5 DEF ClientOK

\* A read of bits goes past the buffer, and leaves the register alone.
LEMMA ReadIsPlain ==
  ASSUME DevInv, NEW t \in Thread, Reading(t)
  PROVE  /\ DOMAIN call = Thread /\ DOMAIN call[t] = Fields /\ ~At(t, "idle")
         /\ call[t].msgs = BurstRead /\ call[t].used = 0 /\ DOMAIN call[t].got = {1, 2}
         /\ call[t].i \in {1, 2} /\ Number(t) = 2
         /\ ~ConcatNext(call[t].msgs, call[t].i)
         /\ Msg(t).read <=> call[t].i = 2
         /\ Msg(t).length = 1
         /\ call[t].i = 1 => Len(Msg(t).bytes) = 1
         /\ ~InBuffer(t) /\ Used(t) = 0
         /\ t \notin raced => device = before[t]
<1>1. /\ DOMAIN call = Thread /\ DOMAIN call[t] = Fields /\ ~At(t, "idle")
      /\ call[t].msgs = BurstRead /\ call[t].used = 0 /\ DOMAIN call[t].got = {1, 2}
      /\ t \notin raced => device = before[t]
  BY DEF DevInv, TwimInv, CallOK, ClientOK, ReadOK
<1>2. call[t].i \in 1 .. Len(BurstRead)
  BY <1>1 DEF DevInv, TwimInv, CallOK, Number
<1>3. call[t].i \in {1, 2} /\ Number(t) = 2
  BY <1>1, <1>2, ReadFacts DEF Number
<1>4. /\ ~ConcatNext(call[t].msgs, call[t].i)
      /\ Msg(t).read <=> call[t].i = 2
      /\ Msg(t).length = 1
      /\ call[t].i = 1 => Len(Msg(t).bytes) = 1
      /\ ~Msg(t).flash
  BY <1>1, <1>3, ReadFacts DEF Msg
<1>5. ~InBuffer(t) /\ Used(t) = 0
  BY <1>1, <1>4 DEF InBuffer, Gathered, FromFlash, Used
<1>. QED
  BY <1>1, <1>3, <1>4, <1>5

LEMMA ReadHasNoEffect ==
  ASSUME DevInv, NEW t \in Thread, Reading(t), bus # None, bus.thread = t
  PROVE  /\ Effect = device /\ ~bus.buffered
         /\ bus.read <=> call[t].i = 2
         /\ bus.read => bus.length = 1
<1>1. /\ bus.read => bus.length = 1
      /\ ~bus.read => Len(bus.bytes) = 1
  BY DEF DevInv, ClientOK, ReadOK
<1>2. (bus.read <=> call[t].i = 2) /\ ~bus.buffered
  BY ReadIsPlain DEF DevInv, TwimInv, BusIsWaitedFor
<1>3. Effect = device
  BY <1>1 DEF Effect, Written
<1>. QED
  BY <1>1, <1>2, <1>3

\* What a step leaves of a client.
Steady(t) ==
  /\ op'[t] = op[t] /\ byte'[t] = byte[t] /\ before'[t] = before[t]
  /\ t \in raced' <=> t \in raced

LEMMA ReadEvent ==
  ASSUME DevInv, NEW t \in Thread, Reading(t), Steady(t), Event, bus.thread = t
  PROVE  ReadOK(t)' /\ device' = device
<1>1. bus # None /\ bus' = None
  BY DEF Event
<1>2. /\ DOMAIN call = Thread /\ DOMAIN call[t] = Fields
      /\ call[t].at \in {"wait", "timed out"} /\ call[t].msgs = BurstRead /\ call[t].used = 0
      /\ DOMAIN call[t].got = {1, 2} /\ call[t].i \in {1, 2}
      /\ t \notin raced => device = before[t]
  BY <1>1, ReadIsPlain, BusIsHoldersOwn DEF DevInv
<1>3. /\ Effect = device /\ ~bus.buffered
      /\ bus.read <=> call[t].i = 2
      /\ bus.read => bus.length = 1
  BY <1>1, ReadHasNoEffect
<1>4. device' = device
  BY <1>3 DEF Event
<1>5. /\ call'[t].at = call[t].at /\ call'[t].msgs = call[t].msgs /\ call'[t].i = call[t].i
      /\ call'[t].used = call[t].used /\ DOMAIN call'[t].got = {1, 2}
      /\ res' = "success" /\ call[t].i = 2 => call'[t].got[2] = Answer(device, 1)
  <2>1. CASE res' = "success"
    <3>. DEFINE bytes == IF bus.read THEN Answer(device, bus.length) ELSE <<>>
    <3>1. call' = [call EXCEPT
               ![t].done = @ \cup Group(call[t].msgs, call[t].i),
               ![t].sent = @ \o bytes,
               ![t].got[call[t].i] = IF bus.read /\ ~bus.buffered THEN bytes ELSE @]
      BY <2>1 DEF Event
    <3>2. call[t].i = 2 => bus.read /\ ~bus.buffered /\ bytes = Answer(device, 1)
      BY <1>3
    <3>. HIDE DEF bytes
    <3>. QED
      BY <1>2, <3>1, <3>2 DEF Fields
  <2>2. CASE res' # "success"
    BY <1>2, <2>2 DEF Event
  <2>. QED
    BY <2>1, <2>2
<1>6. Answer(device, 1)[1] = device /\ device \in Byte
  BY DEF Answer, DevInv, TwimInv, GlobalsOK
<1>. QED
  BY <1>1, <1>2, <1>4, <1>5, <1>6 DEF ReadOK, Steady, At

LEMMA ReadTransfer ==
  ASSUME DevInv, NEW t \in Thread, Reading(t), Steady(t), Transfer(t)
  PROVE  ReadOK(t)' /\ device' = device
<1>1. /\ DOMAIN call = Thread /\ DOMAIN call[t] = Fields /\ ~At(t, "idle")
      /\ call[t].msgs = BurstRead /\ call[t].used = 0 /\ DOMAIN call[t].got = {1, 2}
      /\ call[t].i \in {1, 2} /\ Number(t) = 2
      /\ t \notin raced => device = before[t]
  BY ReadIsPlain
<1>2. ASSUME NEW error \in Error, Break(t, error), bus' = None \/ bus' = bus, device' = device
      PROVE  ReadOK(t)'
  <2>1. /\ call'[t].at = "exit" /\ call'[t].ret = error /\ call'[t].msgs = call[t].msgs
        /\ call'[t].i = call[t].i /\ call'[t].used = call[t].used
        /\ call'[t].got = call[t].got
    BY <1>1, <1>2 DEF Break, Fields
  <2>2. error # "ok"
    BY DEF Error
  <2>. QED
    BY <1>1, <1>2, <2>1, <2>2 DEF DevInv, ClientOK, ReadOK, Steady, At
<1>3. CASE Enter(t)
  BY <1>1, <1>3 DEF Enter, DevInv, ClientOK, ReadOK, Steady, At, Fields
<1>4. CASE Reject(t)
  BY <1>2, <1>4 DEF Reject, Fault, Error
<1>5. CASE Gather(t)
  BY <1>5, ReadIsPlain DEF Gather
<1>6. CASE Submit(t)
  <2>1. CASE \E error \in {"EBUSY", "EIO"} : Break(t, error) /\ UNCHANGED bus
    BY <1>2, <1>6, <2>1 DEF Submit, Error
  <2>2. CASE ~ \E error \in {"EBUSY", "EIO"} : Break(t, error) /\ UNCHANGED bus
    <3>1. /\ bus' = [thread |-> t, read |-> Msg(t).read, buffered |-> FALSE,
                     bytes |-> Msg(t).bytes, length |-> Msg(t).length]
          /\ call' = [call EXCEPT ![t].used = 0, ![t].at = "wait"]
          /\ bus = None
          /\ UNCHANGED <<completion, res, device>>
      BY <1>6, <2>2, ReadIsPlain DEF Submit
    <3>2. completion = 0
      BY <1>6 DEF Submit, DevInv, TwimInv, BusOK
    <3>3. IF bus'.read THEN bus'.length = 1 ELSE Len(bus'.bytes) = 1
      BY <3>1, ReadIsPlain
    <3>4. /\ call'[t].at = "wait" /\ call'[t].msgs = call[t].msgs
          /\ call'[t].used = 0 /\ call'[t].got = call[t].got
      BY <1>1, <3>1 DEF Fields
    <3>. QED
      BY <1>1, <3>1, <3>2, <3>3, <3>4 DEF ReadOK, Steady, At
  <2>. QED
    BY <2>1, <2>2
<1>7. CASE Taken(t)
  <2>1. CASE res # "success"
    BY <1>2, <1>7, <2>1 DEF Taken, IsSuccess, Error
  <2>2. CASE res = "success"
    <3>1. /\ call[t].at = "wait" /\ completion = 1 /\ completion' = 0
          /\ UNCHANGED <<res, bus, device>>
      BY <1>7 DEF Taken, At
    <3>2. bus = None
      BY <3>1 DEF DevInv, TwimInv, BusOK, At
    <3>3. /\ call'[t].at = (IF call[t].i = 2 THEN "exit" ELSE "loop")
          /\ call'[t].msgs = call[t].msgs
          /\ call'[t].used = 0 /\ call'[t].got = call[t].got
      BY <1>1, <1>7, <2>2 DEF Taken, IsSuccess, Fields
    <3>. QED
      BY <1>1, <2>2, <3>1, <3>2, <3>3 DEF DevInv, ClientOK, ReadOK, Steady, At
  <2>. QED
    BY <2>1, <2>2
<1>8. CASE TimeOut(t)
  <2>1. /\ call'[t].at = "timed out" /\ call'[t].msgs = call[t].msgs
        /\ call'[t].used = 0 /\ call'[t].got = call[t].got
        /\ UNCHANGED <<bus, device>>
    BY <1>1, <1>8 DEF TimeOut, Fields
  <2>. QED
    BY <1>1, <2>1 DEF DevInv, ClientOK, ReadOK, Steady, At
<1>9. CASE Recover(t)
  <2>1. bus # None => bus.thread = t
    BY <1>9, BusIsHoldersOwn DEF Recover, DevInv, TwimInv, SyncOK, Holding, At
  <2>2. device' = device
    BY <1>9, <2>1, ReadHasNoEffect DEF Recover, Reached
  <2>. QED
    BY <1>2, <1>9, <2>2 DEF Recover, Stopped, Error
<1>10. CASE Exit(t)
  <2>1. /\ call[t].at = "exit" /\ bus' = None /\ device' = device
        /\ call'[t].at = "returned" /\ call'[t].msgs = call[t].msgs
        /\ call'[t].used = 0 /\ call'[t].got = call[t].got /\ call'[t].ret = call[t].ret
    BY <1>1, <1>10 DEF Exit, Stopped, Fields, At
  <2>. QED
    BY <1>1, <2>1 DEF DevInv, ClientOK, ReadOK, Steady, At
<1>11. device' = device
  BY <1>9, ReadHasNoEffect, BusIsHoldersOwn
     DEF Transfer, Enter, Reject, Gather, Submit, Taken, TimeOut, Recover, Reached, Exit, DevInv,
         TwimInv, SyncOK, Holding, At
<1>. QED
  BY <1>3, <1>4, <1>5, <1>6, <1>7, <1>8, <1>9, <1>10, <1>11 DEF Transfer

\* The two parts of a write are gathered, and go to the register as one.
LEMMA WriteIsGathered ==
  ASSUME DevInv, NEW t \in Thread, NEW v, Writes(t, v)
  PROVE  /\ DOMAIN call = Thread /\ DOMAIN call[t] = Fields
         /\ call[t].i \in {1, 2} /\ Number(t) = 2
         /\ ConcatNext(call[t].msgs, call[t].i) <=> call[t].i = 1
         /\ ~Msg(t).read /\ Msg(t).length = 1
         /\ Msg(t).bytes \in Seq(Byte) /\ Len(Msg(t).bytes) = 1
         /\ call[t].i = 2 => Msg(t).bytes[1] = v
<1>1. /\ DOMAIN call = Thread /\ DOMAIN call[t] = Fields
      /\ call[t].msgs = BurstWrite(v) /\ ~At(t, "idle")
  BY DEF DevInv, TwimInv, CallOK, Writes
<1>2. call[t].i \in 1 .. Len(BurstWrite(v))
  BY <1>1 DEF DevInv, TwimInv, CallOK, Number
<1>3. call[t].i \in {1, 2} /\ Number(t) = 2
  <2>1. Len(BurstWrite(v)) = 2
    BY WriteFacts
  <2>2. call[t].i \in 1 .. 2
    BY <1>2, <2>1
  <2>. QED
    BY <1>1, <2>1, <2>2 DEF Number
<1>4. /\ ConcatNext(call[t].msgs, call[t].i) <=> call[t].i = 1
      /\ ~Msg(t).read /\ Msg(t).length = 1
      /\ call[t].i = 2 => Msg(t).bytes[1] = v
  BY <1>1, <1>3, WriteFacts DEF Msg
<1>5. Msg(t).bytes \in Seq(Byte) /\ Len(Msg(t).bytes) = 1
  BY <1>1, <1>4, MessageFacts DEF DevInv
<1>. QED
  BY <1>1, <1>3, <1>4, <1>5

LEMMA WriteFillsBuffer ==
  ASSUME DevInv, NEW t \in Thread, NEW v, Writes(t, v), At(t, "loop")
  PROVE  /\ Used(t) = call[t].i
         /\ Filled(t) \in Seq(Byte) /\ Len(Filled(t)) = call[t].i
         /\ call[t].i = 2 => Filled(t)[2] = v
<1>1. /\ call[t].i \in {1, 2} /\ ~Msg(t).read /\ Msg(t).length = 1
      /\ Msg(t).bytes \in Seq(Byte) /\ Len(Msg(t).bytes) = 1
      /\ call[t].i = 2 => Msg(t).bytes[1] = v
      /\ ConcatNext(call[t].msgs, call[t].i) <=> call[t].i = 1
  BY WriteIsGathered
<1>2. call[t].used = call[t].i - 1 /\ call[t].used <= Len(buffer) /\ buffer \in Seq(Byte)
  BY <1>1 DEF Writes, DevInv, TwimInv, BusOK, GlobalsOK
<1>3. InBuffer(t)
  BY <1>1, <1>2 DEF InBuffer, Gathered
<1>4. Used(t) = call[t].i
  BY <1>1, <1>2, <1>3 DEF Used
<1>. DEFINE front == SubSeq(buffer, 1, call[t].used)
<1>5. front \in Seq(Byte) /\ Len(front) = call[t].used
  <2>1. Len(buffer) \in Nat /\ call[t].used \in 0 .. Len(buffer)
    BY <1>1, <1>2, LenProperties
  <2>. QED
    BY <1>1, <1>2, <2>1, SubSeqProperties
<1>6. Filled(t) = front \o Msg(t).bytes
  BY <1>1, <1>3 DEF Filled
<1>. HIDE DEF front
<1>7. /\ Filled(t) \in Seq(Byte) /\ Len(Filled(t)) = call[t].used + 1
      /\ \A k \in 1 .. call[t].used + 1 :
           Filled(t)[k] = IF k <= call[t].used THEN front[k] ELSE Msg(t).bytes[k - call[t].used]
  <2>. DEFINE back == Msg(t).bytes
              used == call[t].used
  <2>1. /\ back \in Seq(Byte) /\ Len(back) = 1
        /\ front \in Seq(Byte) /\ Len(front) = used
        /\ Filled(t) = front \o back
    BY <1>1, <1>5, <1>6
  <2>. HIDE DEF back, used
  <2>2. /\ Filled(t) \in Seq(Byte) /\ Len(Filled(t)) = used + 1
        /\ \A k \in 1 .. used + 1 :
             Filled(t)[k] = IF k <= used THEN front[k] ELSE back[k - used]
    <3>1. /\ front \o back \in Seq(Byte)
          /\ Len(front \o back) = Len(front) + Len(back)
          /\ \A k \in 1 .. Len(front) + Len(back) :
               (front \o back)[k] = IF k <= Len(front) THEN front[k]
                                    ELSE back[k - Len(front)]
      BY <2>1, ConcatProperties
    <3>. QED
      BY <2>1, <3>1
  <2>. QED
    BY <2>2 DEF back, used
<1>8. call[t].i = 2 => Filled(t)[2] = v
  BY <1>1, <1>2, <1>7
<1>. QED
  BY <1>1, <1>2, <1>4, <1>7, <1>8

LEMMA WriteEvent ==
  ASSUME DevInv, NEW t \in Thread, NEW v, Writes(t, v), Steady(t), Event, bus.thread = t
  PROVE  Writes(t, v)'
<1>1. bus # None /\ bus' = None
  BY DEF Event
<1>2. /\ DOMAIN call = Thread /\ DOMAIN call[t] = Fields
      /\ call[t].at \in {"wait", "timed out"}
  BY <1>1, WriteIsGathered, BusIsHoldersOwn DEF DevInv
<1>3. Effect = v
  BY <1>1 DEF Writes, Effect, Written
<1>4. res' = "success" => device' = v
  BY <1>3 DEF Event
<1>5. call'[t].at = call[t].at /\ call'[t].msgs = call[t].msgs
  <2>1. CASE res' = "success"
    <3>. DEFINE bytes == IF bus.read THEN Answer(device, bus.length) ELSE <<>>
    <3>1. call' = [call EXCEPT
               ![t].done = @ \cup Group(call[t].msgs, call[t].i),
               ![t].sent = @ \o bytes,
               ![t].got[call[t].i] = IF bus.read /\ ~bus.buffered THEN bytes ELSE @]
      BY <2>1 DEF Event
    <3>. HIDE DEF bytes
    <3>. QED
      BY <1>2, <3>1 DEF Fields
  <2>2. CASE res' # "success"
    BY <1>2, <2>2 DEF Event
  <2>. QED
    BY <2>1, <2>2
<1>. QED
  BY <1>1, <1>2, <1>4, <1>5 DEF Writes, At

LEMMA WriteTransfer ==
  ASSUME DevInv, NEW t \in Thread, NEW v, Writes(t, v), Steady(t), Transfer(t)
  PROVE  Writes(t, v)'
<1>1. /\ DOMAIN call = Thread /\ DOMAIN call[t] = Fields /\ ~At(t, "idle")
      /\ call[t].msgs = BurstWrite(v)
      /\ call[t].i \in {1, 2} /\ Number(t) = 2
      /\ ConcatNext(call[t].msgs, call[t].i) <=> call[t].i = 1
  BY WriteIsGathered DEF Writes
<1>2. ASSUME NEW error \in Error, Break(t, error), bus' = None \/ bus' = bus
      PROVE  Writes(t, v)'
  <2>1. /\ call'[t].at = "exit" /\ call'[t].ret = error /\ call'[t].msgs = call[t].msgs
    BY <1>1, <1>2 DEF Break, Fields
  <2>2. error # "ok"
    BY DEF Error
  <2>. QED
    BY <1>1, <1>2, <2>1, <2>2 DEF Writes, At
<1>3. CASE Enter(t)
  <2>1. call[t].i = 1 /\ call[t].used = 0
    BY <1>3 DEF Enter, At, DevInv, TwimInv, DoneOK
  <2>2. /\ call'[t].at = "loop" /\ call'[t].msgs = call[t].msgs
        /\ call'[t].i = 1 /\ call'[t].used = 0 /\ bus' = bus
    BY <1>1, <1>3, <2>1 DEF Enter, Fields
  <2>. QED
    BY <2>2 DEF Writes, At
<1>4. CASE Reject(t)
  BY <1>2, <1>4 DEF Reject, Fault, Error
<1>5. CASE Gather(t)
  <2>1. call[t].i = 1 /\ call[t].at = "loop" /\ bus' = bus
    BY <1>1, <1>5 DEF Gather, At
  <2>2. Used(t) = 1 /\ Len(buffer') = 1
    BY <1>5, <2>1, WriteFillsBuffer DEF Gather, At
  <2>3. /\ call'[t].at = "loop" /\ call'[t].msgs = call[t].msgs
        /\ call'[t].i = 2 /\ call'[t].used = 1
    BY <1>1, <1>5, <2>1, <2>2 DEF Gather, Fields
  <2>. QED
    BY <2>1, <2>2, <2>3 DEF Writes, At
<1>6. CASE Submit(t)
  <2>1. CASE \E error \in {"EBUSY", "EIO"} : Break(t, error) /\ UNCHANGED bus
    BY <1>2, <2>1 DEF Error
  <2>2. CASE ~ \E error \in {"EBUSY", "EIO"} : Break(t, error) /\ UNCHANGED bus
    <3>1. /\ At(t, "loop") /\ call[t].i = 2 /\ completion' = completion /\ bus = None
          /\ buffer' = Filled(t)
          /\ call' = [call EXCEPT ![t].used = Used(t), ![t].at = "wait"]
      BY <1>1, <1>6, <2>2 DEF Submit
    <3>2. Used(t) = 2 /\ Filled(t) \in Seq(Byte) /\ Len(Filled(t)) = 2 /\ Filled(t)[2] = v
      BY <3>1, WriteFillsBuffer
    <3>3. ~Msg(t).read
      BY WriteIsGathered
    <3>4. ~bus'.read /\ bus'.bytes = SubSeq(Filled(t), 1, 2)
      BY <1>6, <2>2, <3>1, <3>2, <3>3 DEF Submit
    <3>5. Len(bus'.bytes) = 2 /\ bus'.bytes[2] = v
      BY <3>2, <3>4, SubSeqProperties
    <3>6. completion' = 0
      BY <3>1 DEF DevInv, TwimInv, BusOK
    <3>7. call'[t].at = "wait" /\ call'[t].msgs = call[t].msgs
      BY <1>1, <3>1 DEF Fields
    <3>. QED
      BY <1>1, <3>4, <3>5, <3>6, <3>7 DEF Writes, At
  <2>. QED
    BY <2>1, <2>2
<1>7. CASE Taken(t)
  <2>1. CASE res # "success"
    BY <1>2, <1>7, <2>1 DEF Taken, IsSuccess, Error
  <2>2. CASE res = "success"
    <3>1. /\ call[t].at = "wait" /\ completion = 1 /\ UNCHANGED <<bus, device>>
      BY <1>7 DEF Taken, At
    <3>2. ~ConcatNext(call[t].msgs, call[t].i) /\ bus = None
      BY <3>1 DEF DevInv, TwimInv, BusOK, At
    <3>3. call'[t].at = "exit" /\ call'[t].msgs = call[t].msgs
      BY <1>1, <1>7, <2>2, <3>2 DEF Taken, IsSuccess, Fields
    <3>. QED
      BY <2>2, <3>1, <3>2, <3>3 DEF Writes, Steady, At
  <2>. QED
    BY <2>1, <2>2
<1>8. CASE TimeOut(t)
  <2>1. /\ call'[t].at = "timed out" /\ call'[t].msgs = call[t].msgs
        /\ UNCHANGED <<bus, device>>
    BY <1>1, <1>8 DEF TimeOut, Fields
  <2>. QED
    BY <2>1 DEF Writes, At
<1>9. CASE Recover(t)
  BY <1>2, <1>9 DEF Recover, Stopped, Error
<1>10. CASE Exit(t)
  <2>1. /\ call[t].at = "exit" /\ bus' = None /\ device' = device
        /\ call'[t].at = "returned" /\ call'[t].msgs = call[t].msgs
        /\ call'[t].ret = call[t].ret
    BY <1>1, <1>10 DEF Exit, Stopped, Fields, At
  <2>. QED
    BY <2>1 DEF Writes, Steady, At
<1>. QED
  BY <1>3, <1>4, <1>5, <1>6, <1>7, <1>8, <1>9, <1>10 DEF Transfer

\* A step of the bus is one of the thread that holds it, or takes it.
Moves(t) == Transfer(t) \/ (Event /\ bus.thread = t)

LEMMA OthersWait ==
  ASSUME TwimInv, NEW t \in Thread, Moves(t)
  PROVE  /\ ~At(t, "idle")
         /\ \A u \in Thread : u # t => call'[u] = call[u] /\ call[u].at \notin Holding
         /\ device' # device => bus.thread = t
<1>1. CASE Event /\ bus.thread = t
  <2>1. bus # None /\ call[t].at \in {"wait", "timed out"}
    BY <1>1, BusIsHoldersOwn DEF Event
  <2>2. \A u \in Thread : u # t => call'[u] = call[u]
    BY <1>1 DEF Event, TwimInv
  <2>. QED
    BY <1>1, <2>1, <2>2, OneHolder DEF At, Holding
<1>2. CASE Enter(t)
  <2>1. transferSync = Free /\ device' = device /\ At(t, "enter")
    BY <1>2 DEF Enter
  <2>2. \A u \in Thread : u # t => call'[u] = call[u]
    BY <1>2 DEF Enter, TwimInv
  <2>3. \A u \in Thread : call[u].at \notin Holding
    BY <2>1, BusAssumption DEF TwimInv, SyncOK
  <2>. QED
    BY <2>1, <2>2, <2>3 DEF At
<1>3. CASE Transfer(t) /\ ~Enter(t)
  <2>1. call[t].at \in Holding
    BY <1>3 DEF Transfer, Reject, Gather, Submit, Taken, TimeOut, Recover, Exit, At, Holding
  <2>2. \A u \in Thread : u # t => call'[u] = call[u]
    BY <1>3 DEF Transfer, Reject, Gather, Submit, Taken, TimeOut, Recover, Exit, Break, TwimInv
  <2>3. device' # device => bus # None
    BY <1>3 DEF Transfer, Reject, Gather, Submit, Taken, TimeOut, Recover, Reached, Exit
  <2>4. bus # None => bus.thread = t
    BY <2>1, BusIsHoldersOwn DEF TwimInv, SyncOK
  <2>. QED
    BY <2>1, <2>2, <2>3, <2>4, OneHolder DEF At, Holding
<1>. QED
  BY <1>1, <1>2, <1>3 DEF Moves

LEMMA MovesDev ==
  ASSUME DevInv, NEW t \in Thread, Moves(t), UNCHANGED <<op, byte, before>>,
         raced' = IF device' = device THEN raced
                  ELSE raced \cup {u \in Thread : WritesBits(u) /\ u # bus.thread}
  PROVE  DevInv'
<1>1. TwimInv'
  BY EventTwim, TransferTwim DEF DevInv, Moves
<1>2. /\ ~At(t, "idle")
      /\ \A u \in Thread : u # t => call'[u] = call[u] /\ call[u].at \notin Holding
      /\ device' # device => bus.thread = t
  BY OthersWait DEF DevInv
<1>3. Steady(t)
  BY <1>2 DEF Steady
<1>4. ClientOK(t)'
  <2>1. OpOK(t)'
    BY DEF DevInv, ClientOK, OpOK, Does
  <2>2. ReadOK(t)'
    <3>1. CASE Reading(t)
      BY <1>3, <3>1, ReadEvent, ReadTransfer DEF Moves
    <3>2. CASE ~Reading(t)
      BY <3>2 DEF ReadOK, Reading, WritesBits
    <3>. QED
      BY <3>1, <3>2
  <2>3. BetweenOK(t)'
    BY <1>2 DEF DevInv, ClientOK, BetweenOK, Between, WritesBits
  <2>4. WriteOK(t)'
    <3>1. CASE Writing(t)
      <4>1. PICK v \in Byte :
              /\ t \in raced \/ op[t].unread \/ v = Inserted(op[t].field, before[t], op[t].data)
              /\ Writes(t, v)
        BY <3>1 DEF DevInv, ClientOK, WriteOK
      <4>2. Writes(t, v)'
        BY <1>3, <4>1, WriteEvent, WriteTransfer DEF Moves
      <4>. QED
        BY <1>3, <4>1, <4>2 DEF WriteOK, Steady
    <3>2. CASE ~Writing(t)
      BY <3>2 DEF WriteOK, Writing, WritesBits
    <3>. QED
      BY <3>1, <3>2
  <2>. QED
    BY <2>1, <2>2, <2>3, <2>4 DEF ClientOK
<1>5. ASSUME NEW u \in Thread, u # t
      PROVE  ClientOK(u)'
  <2>1. call'[u] = call[u] /\ call[u].at \notin Holding
    BY <1>2, <1>5
  <2>2. bus' # None => bus'.thread # u
    BY <1>1, <2>1 DEF TwimInv, BusIsWaitedFor, Holding
  <2>3. u \in raced => u \in raced'
    OBVIOUS
  <2>4. WritesBits(u) /\ device' # device => u \in raced'
    BY <1>2, <1>5
  <2>. QED
    BY <2>1, <2>2, <2>3, <2>4, ElsewhereClient
<1>6. raced' \subseteq Thread
  BY DEF DevInv
<1>. QED
  BY <1>1, <1>4, <1>5, <1>6 DEF DevInv

\* What was under way has perhaps reached the device: of a read of bits nothing can.
LEMMA SuspendDev ==
  ASSUME DevInv, Working(Suspend)
  PROVE  DevInv'
<1>1. /\ Suspend /\ TwimInv'
      /\ UNCHANGED <<driverVars, call, op, byte, before>>
      /\ bus' = None
  BY SuspendTwim DEF Working, Suspend, DevInv
<1>2. /\ device' # device => bus # None /\ device' = Effect
      /\ raced' = IF device' = device THEN raced
                  ELSE raced \cup {u \in Thread : WritesBits(u) /\ u # bus.thread}
  BY DEF Working, Suspend, Reached
<1>3. raced' \subseteq Thread /\ raced \subseteq raced'
  BY <1>2 DEF DevInv
<1>4. bus # None => bus.thread \in Thread /\ call[bus.thread].at \in {"wait", "timed out"}
  BY BusIsHoldersOwn DEF DevInv
<1>5. ASSUME NEW u \in Thread
      PROVE  ClientOK(u)'
  <2>1. ClientOK(u)
    BY DEF DevInv
  <2>2. device' # device /\ WritesBits(u) /\ u # bus.thread => u \in raced'
    BY <1>2
  <2>3. OpOK(u)'
    BY <1>1, <2>1 DEF ClientOK, OpOK, Does
  <2>4. ReadOK(u)'
    <3>1. Reading(u) => device' = device \/ u \in raced'
      BY <1>2, <2>2, ReadHasNoEffect DEF Reading
    <3>. QED
      BY <1>1, <1>3, <2>1, <3>1 DEF ClientOK, ReadOK, Reading, WritesBits, At, driverVars
  <2>5. BetweenOK(u)'
    <3>1. Between(u) => device' = device \/ u \in raced'
      BY <1>2, <1>4, <2>1, <2>2 DEF ClientOK, BetweenOK, Between, At
    <3>. QED
      BY <1>1, <1>3, <2>1, <3>1 DEF ClientOK, BetweenOK, Between, WritesBits, At
  <2>6. WriteOK(u)'
    <3>. SUFFICES ASSUME Writing(u)
                  PROVE  WriteOK(u)'
      BY <1>1 DEF WriteOK, Writing, WritesBits
    <3>1. PICK v \in Byte :
            /\ u \in raced \/ op[u].unread \/ v = Inserted(op[u].field, before[u], op[u].data)
            /\ Writes(u, v)
      BY <2>1 DEF ClientOK, WriteOK
    <3>2. \/ At(u, "wait") /\ completion = 1
          \/ call[u].at \in {"exit", "returned"}
          => device' = device \/ u \in raced'
      <4>1. At(u, "wait") /\ completion = 1 => bus = None
        BY DEF DevInv, TwimInv, BusOK
      <4>2. call[u].at \in {"exit", "returned"} /\ bus # None => u # bus.thread
        BY <1>4
      <4>. QED
        BY <1>2, <2>2, <4>1, <4>2 DEF Writing
    <3>3. Writes(u, v)'
      BY <1>1, <1>3, <3>1, <3>2 DEF Writes, At, driverVars
    <3>. QED
      BY <1>1, <1>3, <3>1, <3>3 DEF WriteOK
  <2>. QED
    BY <2>3, <2>4, <2>5, <2>6 DEF ClientOK
<1>. QED
  BY <1>1, <1>3, <1>5 DEF DevInv

LEMMA WorkDev ==
  ASSUME DevInv, Work
  PROVE  DevInv'
<1>1. CASE Working(Event)
  <2>1. bus # None => bus.thread \in Thread
    BY BusIsHoldersOwn DEF DevInv
  <2>2. bus # None
    BY <1>1 DEF Working, Event
  <2>. QED
    BY <1>1, <2>1, <2>2, MovesDev DEF Working, Moves
<1>2. CASE \E t \in Thread : Working(Transfer(t))
  BY <1>2, MovesDev DEF Working, Moves
<1>. QED
  BY <1>1, <1>2, SuspendDev DEF Work, Working

LEMMA ManageDev ==
  ASSUME DevInv, Manage
  PROVE  DevInv'
<1>1. UNCHANGED <<op, byte, before, raced, driverVars, call, bus, device>>
  BY DEF Manage, Managing, Configure, Resume, clientVars
<1>2. TwimInv'
  BY ManageTwim DEF DevInv, Manage, Managing
<1>3. \A u \in Thread : ClientOK(u)'
  BY <1>1, UntouchedClient
<1>. QED
  BY <1>1, <1>2, <1>3 DEF DevInv

\* A client begins or ends a call: nothing of the others changes.
LEMMA ClientDev ==
  ASSUME DevInv, NEW t \in Thread, TwimInv',
         UNCHANGED <<driverVars, bus, device>>,
         \A u \in Thread : u # t => call'[u] = call[u],
         \A u \in Thread : u # t => Steady(u),
         DOMAIN op' = Thread, byte' \in [Thread -> Byte], before' \in [Thread -> Byte],
         raced' \subseteq raced,
         ClientOK(t)'
  PROVE  DevInv'
<1>1. \A u \in Thread : u # t => ClientOK(u)'
  BY UntouchedClient DEF Steady
<1>. QED
  BY <1>1 DEF DevInv

LEMMA CallClient ==
  ASSUME DevInv, NEW t \in Thread, NEW msgs \in Listing, Call(t, msgs)
  PROVE  /\ UNCHANGED <<driverVars, bus, device>> /\ TwimInv'
         /\ \A u \in Thread : u # t => call'[u] = call[u]
         /\ call'[t].at = "enter" /\ call'[t].msgs = msgs /\ call'[t].used = 0
         /\ DOMAIN call'[t].got = DOMAIN msgs
         /\ bus # None => bus.thread # t
<1>1. UNCHANGED <<driverVars, bus, device>> /\ TwimInv' /\ At(t, "idle")
  BY CallTwim DEF Call, DevInv
<1>2. \A u \in Thread : u # t => call'[u] = call[u]
  BY DEF Call, DevInv, TwimInv
<1>3. call'[t] = [Idle EXCEPT !.at = "enter", !.msgs = msgs, !.got = [k \in DOMAIN msgs |-> <<>>]]
  BY DEF Call, DevInv, TwimInv
<1>4. /\ call'[t].at = "enter" /\ call'[t].msgs = msgs /\ call'[t].used = 0
      /\ DOMAIN call'[t].got = DOMAIN msgs
  BY <1>3 DEF Idle
<1>5. bus # None => bus.thread # t
  BY <1>1, BusIsHoldersOwn DEF DevInv, At
<1>. QED
  BY <1>1, <1>2, <1>4, <1>5

LEMMA ReturnClient ==
  ASSUME DevInv, NEW t \in Thread, Return(t)
  PROVE  /\ UNCHANGED <<driverVars, bus, device>> /\ TwimInv'
         /\ \A u \in Thread : u # t => call'[u] = call[u]
         /\ call[t].at = "returned" /\ call'[t].at = "idle"
<1>1. UNCHANGED <<driverVars, bus, device>> /\ TwimInv' /\ call[t].at = "returned"
  BY ReturnTwim DEF Return, DevInv, At
<1>2. (\A u \in Thread : u # t => call'[u] = call[u]) /\ call'[t] = Idle
  BY DEF Return, DevInv, TwimInv
<1>. QED
  BY <1>1, <1>2 DEF Idle

LEMMA BeginDev ==
  ASSUME DevInv, NEW t \in Thread, Begin(t)
  PROVE  DevInv'
<1>1. PICK job \in Jobs[t] :
        /\ op' = [op EXCEPT ![t] = job]
        /\ Call(t, job.msgs)
  BY DEF Begin
<1>2. /\ job.msgs \in Listing /\ job.stage = 1 /\ ~job.unread
      /\ job.kind \in {"bits", "bit"} => job.msgs = BurstRead
      /\ job \in [kind : {"read", "write", "bits", "bit", "list"},
                  field : [first : Nat, length : Nat], data : Byte, msgs : Listing,
                  stage : {1}, unread : BOOLEAN]
  BY JobAssumption
<1>3. /\ UNCHANGED <<driverVars, bus, device>> /\ TwimInv'
      /\ \A u \in Thread : u # t => call'[u] = call[u]
      /\ call'[t].at = "enter" /\ call'[t].msgs = job.msgs /\ call'[t].used = 0
      /\ DOMAIN call'[t].got = DOMAIN job.msgs
      /\ bus # None => bus.thread # t
  BY <1>1, <1>2, CallClient
<1>4. /\ DOMAIN op' = Thread /\ op'[t] = job
      /\ before' = [before EXCEPT ![t] = IF WritesBits(t)' THEN device ELSE {}]
      /\ byte' = byte /\ raced' = raced
      /\ device \in Byte /\ {} \in Byte
  BY <1>1 DEF Begin, DevInv, TwimInv, GlobalsOK, Byte
<1>5. \A u \in Thread : u # t => Steady(u)
  BY <1>1, <1>4 DEF DevInv, Steady
<1>6. before' \in [Thread -> Byte] /\ before'[t] = IF WritesBits(t)' THEN device ELSE {}
  BY <1>4 DEF DevInv
<1>7. ClientOK(t)'
  <2>1. OpOK(t)'
    <3>1. Does(t, job)'
      BY <1>4, JobShape DEF Does
    <3>. QED
      BY <3>1 DEF OpOK
  <2>2. ReadOK(t)'
    BY <1>2, <1>3, <1>4, <1>6, ReadFacts DEF ReadOK, Reading, WritesBits, At
  <2>3. BetweenOK(t)' /\ WriteOK(t)'
    BY <1>2, <1>4 DEF BetweenOK, Between, WriteOK, Writing
  <2>. QED
    BY <2>1, <2>2, <2>3 DEF ClientOK
<1>. QED
  BY <1>3, <1>4, <1>5, <1>6, <1>7, ClientDev DEF DevInv

\* A client without a job.
LEMMA NoJobOK ==
  ASSUME NEW t \in Thread, op'[t] = NoJob
  PROVE  ClientOK(t)'
<1>1. ~WritesBits(t)'
  BY DEF WritesBits, NoJob, Job
<1>3. Does(t, NoJob)'
  BY JobShape DEF Does
<1>. QED
  BY <1>1, <1>3 DEF ClientOK, OpOK, ReadOK, Reading, BetweenOK, Between, WriteOK, Writing

LEMMA HalfwayDev ==
  ASSUME DevInv, NEW t \in Thread, Halfway(t)
  PROVE  DevInv'
<1>1. /\ Reading(t) /\ Return(t) /\ ClientOK(t)
      /\ op' = [op EXCEPT ![t] =
           IF GoesOn(t) THEN [@ EXCEPT !.stage = 2, !.unread = call[t].ret # "ok"] ELSE NoJob]
      /\ before' = IF GoesOn(t) THEN before ELSE [before EXCEPT ![t] = {}]
      /\ raced' = IF GoesOn(t) THEN raced ELSE raced \ {t}
  BY DEF Halfway, Reading, DevInv
<1>2. PICK b \in IF call[t].ret = "ok" THEN {call[t].got[2][1]} ELSE Byte :
        byte' = [byte EXCEPT ![t] = IF GoesOn(t) THEN b ELSE {}]
  BY DEF Halfway
<1>3. /\ UNCHANGED <<driverVars, bus, device>> /\ TwimInv'
      /\ \A u \in Thread : u # t => call'[u] = call[u]
      /\ call[t].at = "returned" /\ call'[t].at = "idle"
  BY <1>1, ReturnClient
<1>4. b \in Byte /\ (t \in raced \/ call[t].ret # "ok" \/ b = before[t])
  BY <1>1, <1>2, <1>3 DEF ClientOK, ReadOK
<1>5. /\ DOMAIN op' = Thread /\ byte' \in [Thread -> Byte] /\ before' \in [Thread -> Byte]
      /\ raced' \subseteq raced
  <2>1. {} \in Byte
    BY DEF Byte
  <2>. QED
    BY <1>1, <1>2, <1>4, <2>1 DEF DevInv
<1>6. \A u \in Thread : u # t => Steady(u)
  BY <1>1, <1>2 DEF DevInv, Steady
<1>7. ClientOK(t)'
  <2>1. CASE ~GoesOn(t)
    BY <1>1, <2>1, NoJobOK DEF DevInv
  <2>2. CASE GoesOn(t)
    <3>1. /\ op'[t] = [op[t] EXCEPT !.stage = 2, !.unread = call[t].ret # "ok"]
          /\ byte'[t] = b /\ before' = before /\ raced' = raced
      BY <1>1, <1>2, <2>2 DEF DevInv
    <3>2. PICK job \in Jobs[t] \cup {NoJob} : Does(t, job)
      BY <1>1 DEF ClientOK, OpOK
    <3>4. op'[t].stage = 2 /\ (call[t].ret # "ok" => op'[t].unread)
      <4>1. DOMAIN op[t] = {"kind", "field", "data", "msgs", "stage", "unread"}
        BY <3>2 DEF Does, Shape
      <4>2. op'[t].stage = 2
        BY <3>1, <4>1
      <4>3. op'[t].unread = (call[t].ret # "ok")
        BY <3>1, <4>1
      <4>. QED
        BY <4>2, <4>3
    <3>8. Does(t, job)'
      <4>1. op[t] \in Shape
        BY <3>2 DEF Does
      <4>2. PICK m \in BOOLEAN : m = (call[t].ret # "ok")
        OBVIOUS
      <4>3. op'[t] = [op[t] EXCEPT !.stage = 2, !.unread = m]
        BY <3>1, <4>2
      <4>4. op'[t] \in Shape
        <5>1. [op[t] EXCEPT !.stage = 2, !.unread = m] \in Shape
          BY <4>1, Advanced
        <5>. QED
          BY <4>3, <5>1, Zenon
      <4>5. /\ op'[t].stage = 2
            /\ op'[t].kind = op[t].kind /\ op'[t].field = op[t].field
            /\ op'[t].data = op[t].data /\ op'[t].msgs = op[t].msgs
        BY <4>1, <4>3 DEF Shape
      <4>. QED
        BY <3>2, <4>4, <4>5 DEF Does
    <3>5. ReadOK(t)' /\ WriteOK(t)'
      BY <3>4 DEF ReadOK, Reading, WriteOK, Writing
    <3>6. BetweenOK(t)'
      BY <1>1, <1>3, <1>4, <3>1, <3>4 DEF BetweenOK, ClientOK, ReadOK, At
    <3>7. OpOK(t)'
      BY <3>8 DEF OpOK
    <3>. QED
      BY <3>5, <3>6, <3>7 DEF ClientOK
  <2>. QED
    BY <2>1, <2>2
<1>. QED
  BY <1>3, <1>5, <1>6, <1>7, ClientDev

LEMMA SecondDev ==
  ASSUME DevInv, NEW t \in Thread, Second(t)
  PROVE  DevInv'
<1>0. PICK v : v = Inserted(op[t].field, byte[t], op[t].data)
  OBVIOUS
<1>1. /\ op[t].stage = 2 /\ Call(t, BurstWrite(v))
      /\ op' = [op EXCEPT ![t].stage = 3]
      /\ byte' = [byte EXCEPT ![t] = {}]
      /\ UNCHANGED <<before, raced>>
  BY <1>0 DEF Second
<1>2. v \in Byte /\ BurstWrite(v) \in Listing
  <2>1. byte[t] \in Byte
    BY DEF DevInv
  <2>2. v \in Byte
    BY <1>0, <2>1, InsertedIsByte
  <2>. QED
    BY <2>2, JobAssumption
<1>3. t \in raced \/ op[t].unread \/ ~WritesBits(t) \/ v = Inserted(op[t].field, before[t], op[t].data)
  BY <1>0, <1>1 DEF DevInv, ClientOK, BetweenOK, Between
<1>4. /\ UNCHANGED <<driverVars, bus, device>> /\ TwimInv'
      /\ \A u \in Thread : u # t => call'[u] = call[u]
      /\ call'[t].at = "enter" /\ call'[t].msgs = BurstWrite(v) /\ call'[t].used = 0
      /\ bus # None => bus.thread # t
  BY <1>1, <1>2, CallClient
<1>5. /\ DOMAIN op' = Thread /\ byte' \in [Thread -> Byte]
      /\ op'[t] = [op[t] EXCEPT !.stage = 3]
  <2>1. {} \in Byte
    BY DEF Byte
  <2>. QED
    BY <1>1, <2>1 DEF DevInv
<1>6. \A u \in Thread : u # t => Steady(u)
  BY <1>1 DEF DevInv, Steady
<1>7. ClientOK(t)'
  <2>1. PICK job \in Jobs[t] \cup {NoJob} : Does(t, job)
    BY DEF DevInv, ClientOK, OpOK
  <2>2. op[t] \in Shape
    BY <2>1 DEF Does
  <2>3. op'[t] \in Shape
    BY <1>5, <2>2, Advanced
  <2>4. /\ op'[t].stage = 3 /\ op'[t].kind = op[t].kind /\ op'[t].field = op[t].field
        /\ op'[t].data = op[t].data /\ op'[t].msgs = op[t].msgs /\ op'[t].unread = op[t].unread
    BY <1>5, <2>2 DEF Shape
  <2>5. Does(t, job)'
    BY <2>1, <2>3, <2>4 DEF Does
  <2>6. OpOK(t)'
    BY <2>5 DEF OpOK
  <2>7. ReadOK(t)' /\ BetweenOK(t)'
    BY <2>4 DEF ReadOK, Reading, BetweenOK, Between
  <2>8. Writes(t, v)'
    BY <1>4 DEF Writes, At
  <2>9. WriteOK(t)'
    BY <1>1, <1>2, <1>3, <2>4, <2>8 DEF WriteOK, Writing, WritesBits
  <2>. QED
    BY <2>6, <2>7, <2>9 DEF ClientOK
<1>. QED
  BY <1>1, <1>4, <1>5, <1>6, <1>7, ClientDev DEF DevInv

LEMMA FinishDev ==
  ASSUME DevInv, NEW t \in Thread, Finish(t)
  PROVE  DevInv'
<1>1. /\ Return(t)
      /\ op' = [op EXCEPT ![t] = NoJob]
      /\ before' = [before EXCEPT ![t] = {}]
      /\ raced' = raced \ {t} /\ byte' = byte
      /\ {} \in Byte
  BY DEF Finish, Byte
<1>2. /\ UNCHANGED <<driverVars, bus, device>> /\ TwimInv'
      /\ \A u \in Thread : u # t => call'[u] = call[u]
  BY <1>1, ReturnClient
<1>3. DOMAIN op' = Thread /\ op'[t] = NoJob /\ before' \in [Thread -> Byte]
  BY <1>1 DEF DevInv
<1>4. \A u \in Thread : u # t => Steady(u)
  BY <1>1 DEF DevInv, Steady
<1>. QED
  BY <1>1, <1>2, <1>3, <1>4, NoJobOK, ClientDev DEF DevInv

LEMMA InitDev == DevInit => DevInv
<1>. SUFFICES ASSUME DevInit
              PROVE  DevInv
  OBVIOUS
<1>1. TwimInv /\ {} \in Byte
  BY InitTwim DEF DevInit, Byte
<1>2. ASSUME NEW t \in Thread
      PROVE  ClientOK(t)
  <2>1. op[t] = NoJob
    BY DEF DevInit
  <2>2. ~WritesBits(t)
    BY <2>1 DEF WritesBits, NoJob, Job
  <2>3. Does(t, NoJob)
    BY <2>1, JobShape DEF Does
  <2>. QED
    BY <2>2, <2>3 DEF ClientOK, OpOK, ReadOK, Reading, BetweenOK, Between, WriteOK, Writing
<1>. QED
  BY <1>1, <1>2 DEF DevInit, DevInv

LEMMA StutterDev ==
  ASSUME DevInv, UNCHANGED devVars
  PROVE  DevInv'
<1>1. UNCHANGED <<transferSync, completion, res, buffer, call, bus, device, power, frequency,
                  config, calls, op, byte, before, raced>>
  BY DEF devVars, twimVars, driverVars, speedVars, clientVars
<1>2. \A u \in Thread : CallOK(u)' /\ SyncOK(u)' /\ BusOK(u)' /\ DoneOK(u)'
  BY <1>1, UntouchedOK DEF DevInv, driverVars
<1>3. TwimInv'
  BY <1>1, <1>2 DEF DevInv, TwimInv, GlobalsOK, SpeedIsKept, BusIsWaitedFor, Msg
<1>4. \A u \in Thread : ClientOK(u)'
  BY <1>1, UntouchedClient DEF driverVars
<1>. QED
  BY <1>1, <1>3, <1>4 DEF DevInv

THEOREM Invariance == DevSpec => []DevInv
<1>1. ASSUME DevInv, [DevNext]_devVars
      PROVE  DevInv'
  <2>1. CASE \E t \in Thread : Begin(t) \/ Halfway(t) \/ Second(t) \/ Finish(t)
    BY <1>1, <2>1, BeginDev, HalfwayDev, SecondDev, FinishDev
  <2>2. CASE Work \/ Manage
    BY <1>1, <2>2, WorkDev, ManageDev
  <2>3. CASE UNCHANGED devVars
    BY <1>1, <2>3, StutterDev
  <2>. QED
    BY <1>1, <2>1, <2>2, <2>3 DEF DevNext
<1>. QED
  BY InitDev, <1>1, PTL DEF DevSpec

-----------------------------------------------------------------------------
(* Results                                                                 *)

LEMMA DevIsSound == DevInv => BusIsSound
<1>. SUFFICES ASSUME DevInv
              PROVE  BusIsSound
  OBVIOUS
<1>1. BusIsHolders /\ SpeedIsKept
  BY BusIsHoldersOwn DEF DevInv, TwimInv, GlobalsOK, BusIsHolders
<1>2. TwimTypeOK
  <2>1. ASSUME NEW t \in Thread
        PROVE  /\ call[t].at \in {"idle", "enter", "loop", "wait", "timed out", "exit", "returned"}
               /\ call[t].i \in 1 .. Number(t) \/ At(t, "idle")
               /\ call[t].msgs \in Listing \cup {<<>>}
               /\ call[t].used \in Nat
               /\ call[t].ret \in Error \cup {"ok"}
    BY DEF DevInv, TwimInv, CallOK, Places, Holding
  <2>2. completion \in 0 .. 1
    BY DEF DevInv, TwimInv, GlobalsOK
  <2>. QED
    BY <2>1, <2>2 DEF TwimTypeOK, DevInv, TwimInv, GlobalsOK
<1>3. ASSUME NEW t \in Thread
      PROVE  \E job \in Jobs[t] \cup {NoJob}, k \in 1 .. 3, u \in BOOLEAN :
               op[t] = [job EXCEPT !.stage = k, !.unread = u]
  <2>1. PICK job \in Jobs[t] \cup {NoJob} : Does(t, job)
    BY DEF DevInv, ClientOK, OpOK
  <2>2. op[t].stage \in 1 .. 3 /\ op[t].unread \in BOOLEAN
    BY <2>1 DEF Does, Shape
  <2>3. op[t] = [job EXCEPT !.stage = op[t].stage, !.unread = op[t].unread]
    BY <2>1, JobShape, SameJob DEF Does
  <2>. QED
    BY <2>2, <2>3
<1>. QED
  BY <1>1, <1>2, <1>3 DEF BusIsSound, DevTypeOK, DevInv

\* The bus belongs to one thread at a time and runs at the speed asked for, whatever
\* the threads do and the bus answers, and whenever (i2c_twim.c:59-211, 291-296).
THEOREM BusSafe == DevSpec => []BusIsSound
BY Invariance, DevIsSound, PTL

\* A transfer that returns 0 has been done, every message of it: no interrupt that
\* came after its thread had given up ends another's wait (i2c_twim.c:61-62, 155-165).
THEOREM TransfersDone == DevSpec => []AllDone
<1>1. ASSUME DevInv, NEW t \in Thread, Succeeded(t)
      PROVE  call[t].done = DOMAIN call[t].msgs
  <2>1. call[t].at = "returned" /\ call[t].ret = "ok"
    BY <1>1 DEF Succeeded, At
  <2>2. call[t].done = 1 .. Number(t) /\ call[t].msgs \in Listing
    BY <1>1, <2>1 DEF DevInv, TwimInv, DoneOK, CallOK, At
  <2>. QED
    BY <2>2, ListFacts DEF Number
<1>2. DevInv => AllDone
  BY <1>1 DEF AllDone
<1>. QED
  BY Invariance, <1>2, PTL

\* The bits of a field, and nothing else.
LEMMA FieldFacts ==
  ASSUME NEW first \in Nat, NEW length \in Nat, NEW data \in Byte, NEW value \in Byte,
         first - length + 1 .. first \subseteq Bit
  PROVE  LET f == [first |-> first, length |-> length]
             low == first - length + 1
             bits == low .. first
             new == Inserted(f, value, data)
         IN  /\ new \ bits = value \ bits
             /\ {b - low : b \in new \cap bits} = data \cap 0 .. length - 1
<1>. DEFINE f == [first |-> first, length |-> length]
            low == first - length + 1
            bits == low .. first
            new == Inserted(f, value, data)
<1>1. f.first = first /\ f.length = length
  OBVIOUS
<1>2. Mask(f) = bits
  <2>1. Mask(f) = {b \in Bit : first - length < b /\ b <= first}
    BY <1>1 DEF Mask
  <2>2. ASSUME NEW b \in Bit
        PROVE  b \in bits <=> first - length < b /\ b <= first
    <3>1. b \in Nat
      BY BusAssumption
    <3>. QED
      BY <3>1
  <2>3. bits \subseteq Bit
    OBVIOUS
  <2>. HIDE DEF bits, f
  <2>. QED
    BY <2>1, <2>2, <2>3
<1>3. \A b \in bits : b \in new <=> b - low \in data
  BY <1>1, <1>2, BusAssumption DEF Inserted, Shifted
<1>4. new \ bits = value \ bits
  BY <1>2 DEF Inserted
<1>. HIDE DEF f, new
<1>5. {b - low : b \in new \cap bits} = data \cap 0 .. length - 1
  <2>1. ASSUME NEW b \in new \cap bits
        PROVE  b - low \in data \cap 0 .. length - 1
    BY <1>3
  <2>2. ASSUME NEW x \in data \cap 0 .. length - 1
        PROVE  \E b \in new \cap bits : x = b - low
    <3>1. low + x \in bits /\ low + x - low = x
      OBVIOUS
    <3>. QED
      BY <1>3, <3>1
  <2>. QED
    BY <2>1, <2>2
<1>. QED
  BY <1>4, <1>5 DEF f, new

\* A write of bits that is told to have gone well has set its field and no other bit,
\* for every field that lies in the byte (i2cdevInit.c:129-137).
THEOREM BitsKept == DevSpec => OtherBitsKept
<1>. DEFINE Kept(t) ==
              WritesBits(t) /\ op[t].stage = 3 /\ op'[t] = NoJob /\ call[t].ret = "ok" =>
                LET f == op[t].field
                    low == f.first - f.length + 1
                    bits == low .. f.first
                IN  \/ t \in raced
                    \/ op[t].unread
                    \/ /\ device \ bits = before[t] \ bits
                       /\ {b - low : b \in device \cap bits} = op[t].data \cap 0 .. f.length - 1
<1>1. ASSUME DevInv, DevNext, NEW t \in Thread,
             WritesBits(t), op[t].stage = 3, op'[t] = NoJob, call[t].ret = "ok",
             t \notin raced, ~op[t].unread
      PROVE  device = Inserted(op[t].field, before[t], op[t].data)
  <2>1. op'[t] # op[t]
    BY <1>1, OpFacts DEF DevInv
  <2>2. call[t].at = "returned"
    <3>1. CASE \E u \in Thread : Begin(u)
      BY <1>1, <2>1, <3>1, OpFacts DEF Begin, DevInv
    <3>2. CASE \E u \in Thread : Halfway(u) \/ Second(u)
      BY <1>1, <2>1, <3>2 DEF Halfway, Second, DevInv
    <3>3. CASE \E u \in Thread : Finish(u)
      BY <1>1, <2>1, <3>3 DEF Finish, Return, At, DevInv
    <3>4. CASE Work \/ Manage
      BY <1>1, <2>1, <3>4 DEF Work, Working, Manage, Managing, clientVars
    <3>. QED
      BY <1>1, <3>1, <3>2, <3>3, <3>4 DEF DevNext
  <2>3. PICK v \in Byte :
          /\ v = Inserted(op[t].field, before[t], op[t].data)
          /\ Writes(t, v)
    BY <1>1 DEF DevInv, ClientOK, WriteOK, Writing
  <2>. QED
    BY <1>1, <2>2, <2>3 DEF Writes
<1>2. ASSUME DevInv, DevNext, NEW t \in Thread
      PROVE  Kept(t)
  <2>. SUFFICES ASSUME WritesBits(t), op[t].stage = 3, op'[t] = NoJob, call[t].ret = "ok",
                       t \notin raced, ~op[t].unread
                PROVE  LET f == op[t].field
                           low == f.first - f.length + 1
                           bits == low .. f.first
                       IN  /\ device \ bits = before[t] \ bits
                           /\ {b - low : b \in device \cap bits} = op[t].data \cap 0 .. f.length - 1
    OBVIOUS
  <2>1. device = Inserted(op[t].field, before[t], op[t].data)
    BY <1>1, <1>2
  <2>2. /\ op[t].field \in [first : Nat, length : Nat] /\ op[t].data \in Byte
        /\ op[t].field.first - op[t].field.length + 1 .. op[t].field.first \subseteq Bit
    BY <1>2, OpFacts DEF DevInv
  <2>3. before[t] \in Byte
    BY <1>2 DEF DevInv
  <2>4. op[t].field = [first |-> op[t].field.first, length |-> op[t].field.length]
    BY <2>2
  <2>5. op[t].field.first \in Nat /\ op[t].field.length \in Nat
    BY <2>2
  <2>. QED
    <3>1. PICK first \in Nat, length \in Nat :
            /\ op[t].field.first = first /\ op[t].field.length = length
            /\ op[t].field = [first |-> first, length |-> length]
            /\ first - length + 1 .. first \subseteq Bit
      BY <2>2, <2>4, <2>5
    <3>2. PICK data \in Byte, value \in Byte :
            /\ data = op[t].data /\ value = before[t]
            /\ device = Inserted([first |-> first, length |-> length], value, data)
      BY <2>1, <2>2, <2>3, <3>1
    <3>3. LET low == first - length + 1
              bits == low .. first
          IN  /\ device \ bits = value \ bits
              /\ {b - low : b \in device \cap bits} = data \cap 0 .. length - 1
      BY <3>1, <3>2, FieldFacts
    <3>. QED
      BY <3>1, <3>2, <3>3
<1>3. ASSUME DevInv, [DevNext]_devVars
      PROVE  [\A t \in Thread : Kept(t)]_devVars
  BY <1>2, <1>3
<1>4. [][\A t \in Thread : Kept(t)]_devVars <=> OtherBitsKept
  BY DEF OtherBitsKept
<1>. QED
  BY Invariance, <1>3, <1>4, PTL DEF DevSpec

-----------------------------------------------------------------------------
(* What the messages get: induction over the messages of a list              *)

\* A set that has 0 and the successors of its elements has every natural.
LEMMA Induction ==
  ASSUME NEW S \in SUBSET Nat, 0 \in S, \A n \in S : n + 1 \in S
  PROVE  S = Nat
<1>. DEFINE less == OpToRel(<, Nat)
<1>. SUFFICES ASSUME Nat \ S # {}
              PROVE  FALSE
  OBVIOUS
<1>1. IsWellFoundedOn(less, Nat)
  BY NatLessThanWellFounded
<1>2. \A m, n \in Nat : m < n => <<m, n>> \in less
  BY DEF OpToRel
<1>. HIDE DEF less
<1>3. PICK n \in Nat \ S : \A k \in Nat \ S : <<k, n>> \notin less
  BY <1>1, WFMin
<1>4. n # 0 /\ n \in Nat
  BY <1>3
<1>5. n - 1 \in Nat /\ n - 1 < n /\ n - 1 + 1 = n
  BY <1>4
<1>6. n - 1 \notin Nat \ S
  BY <1>2, <1>3, <1>5
<1>. QED
  BY <1>3, <1>5, <1>6

\* Sequences of bytes, one for each of n messages.
Parts(n) == [1 .. n -> Seq(Byte)]

LEMMA PartsAreSeq ==
  ASSUME NEW n \in Nat, NEW got \in Parts(n)
  PROVE  Len(got) = n /\ \A k \in 1 .. n : got[k] \in Seq(Byte)
<1>1. got \in Seq(Seq(Byte))
  BY SeqDef DEF Parts
<1>. QED
  BY <1>1, LenProperties DEF Parts

LEMMA JoinedExists ==
  ASSUME NEW got
  PROVE  \A n \in Nat :
           \E f : f = [k \in 0 .. n |-> IF k = 0 THEN <<>> ELSE f[k - 1] \o got[k]]
<1>. DEFINE row(f, k) == IF k = 0 THEN <<>> ELSE f[k - 1] \o got[k]
            S == {n \in Nat : \E f : f = [k \in 0 .. n |-> row(f, k)]}
<1>1. 0 \in S
  <2>. DEFINE f == [k \in 0 .. 0 |-> <<>>]
  <2>1. f = [k \in 0 .. 0 |-> row(f, k)]
    OBVIOUS
  <2>. QED
    BY <2>1
<1>2. ASSUME NEW n \in S
      PROVE  n + 1 \in S
  <2>1. PICK f : f = [k \in 0 .. n |-> row(f, k)]
    OBVIOUS
  <2>. DEFINE g == [k \in 0 .. n + 1 |-> row(f, k)]
  <2>2. ASSUME NEW k \in 0 .. n + 1
        PROVE  row(g, k) = row(f, k)
    <3>1. CASE k = 0
      BY <3>1
    <3>2. CASE k # 0
      <4>1. k - 1 \in 0 .. n
        BY <3>2
      <4>. HIDE DEF row
      <4>2. g[k - 1] = f[k - 1]
        BY <2>1, <4>1
      <4>. HIDE DEF g
      <4>. QED
        BY <4>2 DEF row
    <3>. QED
      BY <3>1, <3>2
  <2>3. g = [k \in 0 .. n + 1 |-> row(g, k)]
    <3>. HIDE DEF row
    <3>. QED
      BY <2>2
  <2>. HIDE DEF g, row
  <2>. QED
    BY <2>3
<1>3. S = Nat
  <2>. HIDE DEF S
  <2>1. S \in SUBSET Nat
    BY DEF S
  <2>. QED
    BY <1>1, <1>2, <2>1, Induction
<1>. QED
  BY <1>3

LEMMA JoinedStep ==
  ASSUME NEW n \in Nat, NEW got \in Parts(n)
  PROVE  /\ Joined(got)[0] = <<>>
         /\ \A k \in 1 .. n : Joined(got)[k] = Joined(got)[k - 1] \o got[k]
<1>. DEFINE row(f, k) == IF k = 0 THEN <<>> ELSE f[k - 1] \o got[k]
<1>1. Len(got) = n
  BY PartsAreSeq
<1>2. \E f : f = [k \in 0 .. n |-> row(f, k)]
  BY JoinedExists
<1>3. Joined(got) = CHOOSE f : f = [k \in 0 .. n |-> row(f, k)]
  BY <1>1 DEF Joined
<1>. DEFINE f == Joined(got)
<1>4. f = [k \in 0 .. n |-> row(f, k)]
  <2>. HIDE DEF row
  <2>. QED
    BY <1>2, <1>3
<1>5. \A k \in 0 .. n : f[k] = row(f, k)
  <2>. HIDE DEF row, f
  <2>. QED
    BY <1>4
<1>6. f[0] = <<>> /\ \A k \in 1 .. n : f[k] = f[k - 1] \o got[k]
  <2>1. 0 \in 0 .. n /\ \A k \in 1 .. n : k \in 0 .. n /\ k # 0
    OBVIOUS
  <2>. HIDE DEF f
  <2>. QED
    BY <1>5, <2>1
<1>. QED
  BY <1>6

LEMMA JoinedNext ==
  ASSUME NEW n \in Nat, NEW got \in Parts(n), NEW k \in Nat, k + 1 <= n
  PROVE  Joined(got)[k + 1] = Joined(got)[k] \o got[k + 1]
<1>1. PICK j \in 1 .. n : j = k + 1 /\ j - 1 = k
  OBVIOUS
<1>2. Joined(got)[j] = Joined(got)[j - 1] \o got[j]
  BY JoinedStep
<1>. QED
  BY <1>1, <1>2

LEMMA JoinedIsSeq ==
  ASSUME NEW n \in Nat, NEW got \in Parts(n), NEW k \in 0 .. n
  PROVE  Joined(got)[k] \in Seq(Byte)
<1>. DEFINE S == {m \in Nat : m <= n => Joined(got)[m] \in Seq(Byte)}
<1>1. 0 \in S
  BY JoinedStep, EmptySeq
<1>2. ASSUME NEW m \in S
      PROVE  m + 1 \in S
  <2>. SUFFICES ASSUME m + 1 <= n
                PROVE  Joined(got)[m + 1] \in Seq(Byte)
    OBVIOUS
  <2>1. m + 1 \in 1 .. n /\ m + 1 - 1 = m
    OBVIOUS
  <2>2. Joined(got)[m + 1] = Joined(got)[m] \o got[m + 1]
    BY JoinedNext
  <2>3. Joined(got)[m] \in Seq(Byte) /\ got[m + 1] \in Seq(Byte)
    BY <2>1, PartsAreSeq
  <2>. QED
    BY <2>2, <2>3, ConcatProperties
<1>3. S = Nat
  <2>. HIDE DEF S
  <2>1. S \in SUBSET Nat
    BY DEF S
  <2>. QED
    BY <1>1, <1>2, <2>1, Induction
<1>. QED
  BY <1>3

\* Messages that have got nothing add nothing.
LEMMA JoinedUpTo ==
  ASSUME NEW n \in Nat, NEW got \in Parts(n), NEW i \in 0 .. n,
         \A k \in i + 1 .. n : got[k] = <<>>
  PROVE  Joined(got)[n] = Joined(got)[i]
<1>. DEFINE S == {m \in Nat : i + m <= n => Joined(got)[i + m] = Joined(got)[i]}
<1>1. 0 \in S
  OBVIOUS
<1>2. ASSUME NEW m \in S
      PROVE  m + 1 \in S
  <2>. SUFFICES ASSUME i + (m + 1) <= n
                PROVE  Joined(got)[i + (m + 1)] = Joined(got)[i]
    OBVIOUS
  <2>1. i + m + 1 \in i + 1 .. n /\ i + m + 1 \in 1 .. n /\ i + m + 1 - 1 = i + m
        /\ i + (m + 1) = i + m + 1 /\ i \in 0 .. n
    OBVIOUS
  <2>2. Joined(got)[i + m + 1] = Joined(got)[i + m] \o got[i + m + 1]
    <3>1. i + m \in Nat /\ i + m + 1 <= n
      BY <2>1
    <3>. QED
      BY <3>1, JoinedNext
  <2>3. Joined(got)[i + m] = Joined(got)[i] /\ got[i + m + 1] = <<>>
    BY <2>1
  <2>4. Joined(got)[i] \in Seq(Byte)
    BY <2>1, JoinedIsSeq
  <2>. QED
    BY <2>1, <2>2, <2>3, <2>4, ConcatEmptySeq
<1>3. S = Nat
  <2>. HIDE DEF S
  <2>1. S \in SUBSET Nat
    BY DEF S
  <2>. QED
    BY <1>1, <1>2, <2>1, Induction
<1>4. n - i \in Nat /\ i + (n - i) = n
  OBVIOUS
<1>5. n - i \in S
  BY <1>3, <1>4
<1>. QED
  BY <1>4, <1>5

LEMMA JoinedOfNothing ==
  ASSUME NEW n \in Nat, NEW got \in Parts(n), \A k \in 1 .. n : got[k] = <<>>
  PROVE  Joined(got)[n] = <<>>
<1>1. PICK i \in 0 .. n : i = 0
  OBVIOUS
<1>2. \A k \in i + 1 .. n : got[k] = <<>>
  BY <1>1
<1>3. Joined(got)[n] = Joined(got)[i]
  BY <1>2, JoinedUpTo
<1>4. Joined(got)[0] = <<>>
  BY JoinedStep
<1>. QED
  BY <1>1, <1>3, <1>4

\* Where in the buffer the part of each message of a group begins.
Offset(msgs) ==
  LET o[k \in 0 .. Len(msgs)] ==
        IF k <= 1 \/ ~ConcatNext(msgs, k - 1) THEN 0 ELSE o[k - 1] + msgs[k - 1].length
  IN  o

EndOf(msgs, k) == Offset(msgs)[k] + msgs[k].length

LEMMA OffsetExists ==
  ASSUME NEW msgs
  PROVE  \A n \in Nat :
           \E o : o = [k \in 0 .. n |->
             IF k <= 1 \/ ~ConcatNext(msgs, k - 1) THEN 0 ELSE o[k - 1] + msgs[k - 1].length]
<1>. DEFINE row(o, k) == IF k <= 1 \/ ~ConcatNext(msgs, k - 1) THEN 0
                         ELSE o[k - 1] + msgs[k - 1].length
            S == {n \in Nat : \E o : o = [k \in 0 .. n |-> row(o, k)]}
<1>1. 0 \in S
  <2>. DEFINE o == [k \in 0 .. 0 |-> 0]
  <2>1. o = [k \in 0 .. 0 |-> row(o, k)]
    OBVIOUS
  <2>. QED
    BY <2>1
<1>2. ASSUME NEW n \in S
      PROVE  n + 1 \in S
  <2>1. PICK o : o = [k \in 0 .. n |-> row(o, k)]
    OBVIOUS
  <2>. DEFINE p == [k \in 0 .. n + 1 |-> row(o, k)]
  <2>2. ASSUME NEW k \in 0 .. n + 1
        PROVE  row(p, k) = row(o, k)
    <3>1. CASE k = 0
      BY <3>1
    <3>2. CASE k # 0
      <4>1. k - 1 \in 0 .. n
        BY <3>2
      <4>. HIDE DEF row
      <4>2. p[k - 1] = o[k - 1]
        BY <2>1, <4>1
      <4>. HIDE DEF p
      <4>. QED
        BY <4>2 DEF row
    <3>. QED
      BY <3>1, <3>2
  <2>3. p = [k \in 0 .. n + 1 |-> row(p, k)]
    <3>. HIDE DEF row
    <3>. QED
      BY <2>2
  <2>. HIDE DEF p, row
  <2>. QED
    BY <2>3
<1>3. S = Nat
  <2>. HIDE DEF S
  <2>1. S \in SUBSET Nat
    BY DEF S
  <2>. QED
    BY <1>1, <1>2, <2>1, Induction
<1>. QED
  BY <1>3

LEMMA OffsetStep ==
  ASSUME NEW msgs \in Listing, NEW k \in 1 .. Len(msgs)
  PROVE  Offset(msgs)[k] = IF k = 1 \/ ~ConcatNext(msgs, k - 1) THEN 0
                           ELSE EndOf(msgs, k - 1)
<1>. DEFINE row(o, j) == IF j <= 1 \/ ~ConcatNext(msgs, j - 1) THEN 0
                         ELSE o[j - 1] + msgs[j - 1].length
            n == Len(msgs)
            o == Offset(msgs)
<1>1. n \in Nat
  BY ListFacts
<1>2. \E p : p = [j \in 0 .. n |-> row(p, j)]
  BY <1>1, OffsetExists
<1>3. o = CHOOSE p : p = [j \in 0 .. n |-> row(p, j)]
  BY DEF Offset
<1>4. o = [j \in 0 .. n |-> row(o, j)]
  <2>. HIDE DEF row, o, n
  <2>. QED
    BY <1>2, <1>3
<1>5. k \in 0 .. n
  BY <1>1
<1>6. o[k] = row(o, k)
  <2>. HIDE DEF row, o, n
  <2>. QED
    BY <1>4, <1>5
<1>. HIDE DEF o
<1>7. k <= 1 <=> k = 1
  BY <1>1
<1>. QED
  BY <1>6, <1>7 DEF EndOf, o

LEMMA LengthFacts ==
  ASSUME NEW msgs \in Listing, NEW k \in 1 .. Len(msgs)
  PROVE  msgs[k].length \in Nat /\ msgs[k].read \in BOOLEAN
BY ListFacts, MessageAssumption

LEMMA OffsetIsNat ==
  ASSUME NEW msgs \in Listing, NEW k \in 1 .. Len(msgs)
  PROVE  Offset(msgs)[k] \in Nat /\ EndOf(msgs, k) \in Nat
<1>. DEFINE n == Len(msgs)
            S == {m \in Nat : m + 1 <= n => Offset(msgs)[m + 1] \in Nat}
<1>0. n \in Nat
  BY ListFacts
<1>1. 0 \in S
  <2>. SUFFICES ASSUME 1 <= n
                PROVE  Offset(msgs)[1] \in Nat
    OBVIOUS
  <2>1. 1 \in 1 .. n
    BY <1>0
  <2>. QED
    BY <2>1, OffsetStep
<1>2. ASSUME NEW m \in S
      PROVE  m + 1 \in S
  <2>. SUFFICES ASSUME m + 1 + 1 <= n
                PROVE  Offset(msgs)[m + 1 + 1] \in Nat
    OBVIOUS
  <2>1. PICK j \in 1 .. n : j = m + 1
    BY <1>0
  <2>2. j + 1 \in 1 .. n /\ j + 1 - 1 = j /\ j + 1 = m + 1 + 1
    BY <1>0, <2>1
  <2>3. Offset(msgs)[j] \in Nat
    BY <2>1
  <2>4. EndOf(msgs, j) \in Nat
    BY <2>3, LengthFacts DEF EndOf
  <2>5. Offset(msgs)[j + 1] \in {0, EndOf(msgs, j)}
    BY <2>2, OffsetStep
  <2>. QED
    BY <2>2, <2>4, <2>5
<1>3. S = Nat
  <2>. HIDE DEF S
  <2>1. S \in SUBSET Nat
    BY DEF S
  <2>. QED
    BY <1>1, <1>2, <2>1, Induction
<1>4. k - 1 \in Nat /\ k - 1 + 1 = k /\ k <= n
  BY <1>0
<1>5. k - 1 \in S
  BY <1>3, <1>4
<1>6. Offset(msgs)[k] \in Nat
  BY <1>4, <1>5
<1>. QED
  BY <1>6, LengthFacts DEF EndOf

LEMMA InGroup ==
  ASSUME NEW msgs, NEW i \in Nat \ {0}
  PROVE  /\ i \in Group(msgs, i)
         /\ Group(msgs, i) \subseteq 1 .. i
         /\ \A k \in Group(msgs, i) : k < i => ConcatNext(msgs, k) /\ k + 1 \in Group(msgs, i)
         /\ \A k \in 1 .. i - 1 : ConcatNext(msgs, k) /\ k + 1 \in Group(msgs, i)
                                    => k \in Group(msgs, i)
<1>1. i \in Group(msgs, i) /\ Group(msgs, i) \subseteq 1 .. i
  <2>1. i .. i - 1 = {} /\ i \in 1 .. i
    OBVIOUS
  <2>. QED
    BY <2>1 DEF Group
<1>2. ASSUME NEW k \in Group(msgs, i), k < i
      PROVE  ConcatNext(msgs, k) /\ k + 1 \in Group(msgs, i)
  <2>1. k \in 1 .. i /\ \A j \in k .. i - 1 : ConcatNext(msgs, j)
    BY DEF Group
  <2>2. k \in k .. i - 1 /\ k + 1 \in 1 .. i /\ k + 1 .. i - 1 \subseteq k .. i - 1
    BY <1>2, <2>1
  <2>. QED
    BY <2>1, <2>2 DEF Group
<1>3. ASSUME NEW k \in 1 .. i - 1, ConcatNext(msgs, k), k + 1 \in Group(msgs, i)
      PROVE  k \in Group(msgs, i)
  <2>1. \A j \in k + 1 .. i - 1 : ConcatNext(msgs, j)
    BY <1>3 DEF Group
  <2>2. k \in 1 .. i /\ \A j \in k .. i - 1 : j = k \/ j \in k + 1 .. i - 1
    OBVIOUS
  <2>. QED
    BY <1>3, <2>1, <2>2 DEF Group
<1>. QED
  BY <1>1, <1>2, <1>3

\* A group goes in one direction, and its parts lie one behind the other.
LEMMA GroupFacts ==
  ASSUME NEW msgs \in Listing, NEW i \in 1 .. Len(msgs), NEW k \in Group(msgs, i)
  PROVE  /\ k \in 1 .. i
         /\ msgs[k].read = msgs[i].read
         /\ EndOf(msgs, k) <= EndOf(msgs, i)
         /\ k < i => EndOf(msgs, k) <= Offset(msgs)[i]
<1>. DEFINE n == Len(msgs)
            S == {m \in Nat : m < i /\ i - m \in Group(msgs, i) =>
                   /\ msgs[i - m].read = msgs[i].read
                   /\ EndOf(msgs, i - m) <= EndOf(msgs, i)
                   /\ i - m < i => EndOf(msgs, i - m) <= Offset(msgs)[i]}
<1>0. n \in Nat /\ i \in Nat \ {0} /\ i <= n
  BY ListFacts
<1>1. 0 \in S
  BY <1>0, OffsetIsNat
<1>2. ASSUME NEW m \in S
      PROVE  m + 1 \in S
  <2>. SUFFICES ASSUME m + 1 < i, i - (m + 1) \in Group(msgs, i)
                PROVE  /\ msgs[i - (m + 1)].read = msgs[i].read
                       /\ EndOf(msgs, i - (m + 1)) <= EndOf(msgs, i)
                       /\ EndOf(msgs, i - (m + 1)) <= Offset(msgs)[i]
    OBVIOUS
  <2>1. PICK j \in 1 .. n : j = i - (m + 1) /\ j + 1 = i - m /\ j < i /\ m < i
    BY <1>0
  <2>2. j + 1 \in 1 .. n /\ j + 1 - 1 = j /\ j + 1 # 1
    BY <1>0, <2>1
  <2>3. ConcatNext(msgs, j) /\ j + 1 \in Group(msgs, i)
    BY <1>0, <2>1, InGroup
  <2>4. msgs[j].read = msgs[j + 1].read
    BY <2>3 DEF ConcatNext
  <2>5. /\ msgs[j + 1].read = msgs[i].read
        /\ EndOf(msgs, j + 1) <= EndOf(msgs, i)
        /\ j + 1 < i => EndOf(msgs, j + 1) <= Offset(msgs)[i]
    BY <2>1, <2>3
  <2>6. Offset(msgs)[j + 1] = EndOf(msgs, j)
    BY <2>2, <2>3, OffsetStep
  <2>7. EndOf(msgs, j + 1) = Offset(msgs)[j + 1] + msgs[j + 1].length
    BY DEF EndOf
  <2>8. /\ EndOf(msgs, j) \in Nat /\ EndOf(msgs, j + 1) \in Nat /\ msgs[j + 1].length \in Nat
        /\ EndOf(msgs, i) \in Nat /\ Offset(msgs)[i] \in Nat
    BY <2>2, OffsetIsNat, LengthFacts
  <2>9. EndOf(msgs, j) <= EndOf(msgs, j + 1)
    BY <2>6, <2>7, <2>8
  <2>10. EndOf(msgs, j) <= EndOf(msgs, i)
    BY <2>5, <2>8, <2>9
  <2>11. EndOf(msgs, j) <= Offset(msgs)[i]
    <3>1. CASE j + 1 = i
      BY <2>6, <2>8, <3>1
    <3>2. CASE j + 1 < i
      BY <2>5, <2>8, <2>9, <3>2
    <3>. QED
      BY <1>0, <2>1, <3>1, <3>2
  <2>. QED
    BY <2>1, <2>4, <2>5, <2>10, <2>11
<1>3. S = Nat
  <2>. HIDE DEF S
  <2>1. S \in SUBSET Nat
    BY DEF S
  <2>. QED
    BY <1>1, <1>2, <2>1, Induction
<1>4. k \in 1 .. i
  BY <1>0, InGroup
<1>5. i - k \in Nat /\ i - k < i /\ i - (i - k) = k
  BY <1>0, <1>4
<1>6. i - k \in S
  BY <1>3, <1>5
<1>. QED
  BY <1>4, <1>5, <1>6

\* The table of the copies in CopyBack.
CopyTable(w, msgs, n, used, bytes, got) ==
  w = [j \in 0 .. n |->
        [u \in 0 .. used |->
           IF j = 0 \/ u < msgs[j].length THEN got
           ELSE [w[j - 1][u - msgs[j].length] EXCEPT
                   ![j] = SubSeq(bytes, u - msgs[j].length + 1, u)]]]

LEMMA CopyTableExists ==
  ASSUME NEW msgs, NEW used, NEW bytes, NEW got
  PROVE  \A n \in Nat : \E w : CopyTable(w, msgs, n, used, bytes, got)
<1>. DEFINE row(w, j) == [u \in 0 .. used |->
               IF j = 0 \/ u < msgs[j].length THEN got
               ELSE [w[j - 1][u - msgs[j].length] EXCEPT
                       ![j] = SubSeq(bytes, u - msgs[j].length + 1, u)]]
            S == {n \in Nat : \E w : w = [j \in 0 .. n |-> row(w, j)]}
<1>1. 0 \in S
  <2>. DEFINE w == [j \in 0 .. 0 |-> [u \in 0 .. used |-> got]]
  <2>1. w = [j \in 0 .. 0 |-> row(w, j)]
    OBVIOUS
  <2>. QED
    BY <2>1
<1>2. ASSUME NEW n \in S
      PROVE  n + 1 \in S
  <2>1. PICK w : w = [j \in 0 .. n |-> row(w, j)]
    OBVIOUS
  <2>. DEFINE v == [j \in 0 .. n + 1 |-> row(w, j)]
  <2>2. ASSUME NEW j \in 0 .. n + 1
        PROVE  row(v, j) = row(w, j)
    <3>1. CASE j = 0
      BY <3>1
    <3>2. CASE j # 0
      <4>1. j - 1 \in 0 .. n
        BY <3>2
      <4>. HIDE DEF row
      <4>2. v[j - 1] = w[j - 1]
        BY <2>1, <4>1
      <4>. HIDE DEF v
      <4>. QED
        BY <4>2 DEF row
    <3>. QED
      BY <3>1, <3>2
  <2>3. v = [j \in 0 .. n + 1 |-> row(v, j)]
    <3>. HIDE DEF row
    <3>. QED
      BY <2>2
  <2>. HIDE DEF v, row
  <2>. QED
    BY <2>3
<1>3. S = Nat
  <2>. HIDE DEF S
  <2>1. S \in SUBSET Nat
    BY DEF S
  <2>. QED
    BY <1>1, <1>2, <2>1, Induction
<1>. QED
  BY <1>3 DEF CopyTable

\* What the table has at each place.
Copies(w, msgs, i, used, bytes, got) ==
  /\ \A u \in 0 .. used : w[0][u] = got
  /\ \A j \in 1 .. i, u \in 0 .. used :
       w[j][u] = IF u < msgs[j].length THEN got
                 ELSE [w[j - 1][u - msgs[j].length] EXCEPT
                         ![j] = SubSeq(bytes, u - msgs[j].length + 1, u)]

LEMMA CopyBackIsCopied ==
  ASSUME NEW msgs, NEW i \in Nat, NEW used, NEW bytes, NEW got
  PROVE  \E w : /\ Copies(w, msgs, i, used, bytes, got)
                /\ CopyBack(msgs, i, used, bytes, got) = w[i][used]
<1>1. PICK w : /\ CopyTable(w, msgs, i, used, bytes, got)
               /\ CopyBack(msgs, i, used, bytes, got) = w[i][used]
  <2>1. \E w : CopyTable(w, msgs, i, used, bytes, got)
    BY CopyTableExists
  <2>. QED
    BY <2>1 DEF CopyTable, CopyBack
<1>. DEFINE row(j) == [u \in 0 .. used |->
               IF j = 0 \/ u < msgs[j].length THEN got
               ELSE [w[j - 1][u - msgs[j].length] EXCEPT
                       ![j] = SubSeq(bytes, u - msgs[j].length + 1, u)]]
<1>2. w = [j \in 0 .. i |-> row(j)]
  BY <1>1 DEF CopyTable
<1>3. \A j \in 0 .. i : w[j] = row(j)
  <2>. HIDE DEF row
  <2>. QED
    BY <1>2
<1>4. Copies(w, msgs, i, used, bytes, got)
  <2>1. 0 \in 0 .. i
    OBVIOUS
  <2>2. \A u \in 0 .. used : w[0][u] = got
    <3>1. w[0] = row(0)
      BY <1>3, <2>1
    <3>. QED
      BY <3>1
  <2>3. ASSUME NEW j \in 1 .. i, NEW u \in 0 .. used
        PROVE  w[j][u] = IF u < msgs[j].length THEN got
                         ELSE [w[j - 1][u - msgs[j].length] EXCEPT
                                 ![j] = SubSeq(bytes, u - msgs[j].length + 1, u)]
    <3>1. w[j] = row(j) /\ j # 0
      BY <1>3
    <3>. QED
      BY <3>1
  <2>. QED
    BY <2>2, <2>3 DEF Copies
<1>. QED
  BY <1>1, <1>4

\* A message without a length has got nothing.
NothingForNoLength(msgs, i, got) == \A k \in 1 .. i : msgs[k].length = 0 => got[k] = <<>>

NothingIn(w, i, got) == \A j \in 0 .. i : w[j][0] = got

\* Before the group's first message nothing is copied, since the code goes on only
\* over messages without a length.
LEMMA NothingBefore ==
  ASSUME NEW msgs \in Listing, NEW i \in 1 .. Len(msgs), NEW used \in Nat, NEW bytes,
         NEW got \in Parts(Len(msgs)), NEW w, Copies(w, msgs, i, used, bytes, got),
         NothingForNoLength(msgs, i, got)
  PROVE  NothingIn(w, i, got)
<1>. DEFINE S == {m \in Nat : m <= i => w[m][0] = got}
<1>0. i \in Nat /\ i <= Len(msgs) /\ Len(msgs) \in Nat /\ 0 \in 0 .. used
  BY ListFacts
<1>1. 0 \in S
  BY <1>0 DEF Copies
<1>2. ASSUME NEW m \in S
      PROVE  m + 1 \in S
  <2>. SUFFICES ASSUME m + 1 <= i
                PROVE  w[m + 1][0] = got
    OBVIOUS
  <2>1. PICK k \in 1 .. i : k = m + 1 /\ k - 1 = m
    BY <1>0
  <2>2. w[k][0] = IF 0 < msgs[k].length THEN got
                  ELSE [w[k - 1][0 - msgs[k].length] EXCEPT
                          ![k] = SubSeq(bytes, 0 - msgs[k].length + 1, 0)]
    BY <1>0 DEF Copies
  <2>3. k \in 1 .. Len(msgs) /\ msgs[k].length \in Nat
    BY <1>0, LengthFacts
  <2>4. CASE msgs[k].length = 0
    <3>1. SubSeq(bytes, 1, 0) = <<>> /\ got[k] = <<>>
      BY <2>4, SubSeqEmpty DEF NothingForNoLength
    <3>2. w[k - 1][0] = got
      BY <2>1
    <3>3. 0 - msgs[k].length = 0 /\ 0 - msgs[k].length + 1 = 1
      BY <2>4
    <3>4. w[k][0] = [got EXCEPT ![k] = got[k]]
      BY <2>2, <2>4, <3>1, <3>2, <3>3
    <3>. QED
      BY <2>1, <2>3, <3>4 DEF Parts
  <2>5. CASE msgs[k].length # 0
    BY <2>1, <2>2, <2>3, <2>5
  <2>. QED
    BY <2>4, <2>5
<1>3. S = Nat
  <2>. HIDE DEF S
  <2>1. S \in SUBSET Nat
    BY DEF S
  <2>. QED
    BY <1>1, <1>2, <2>1, Induction
<1>4. \A j \in 0 .. i : j \in S /\ j <= i
  BY <1>0, <1>3
<1>. QED
  BY <1>4 DEF NothingIn

\* The part of the buffer that belongs to message k.
PartOf(msgs, bytes, k) == SubSeq(bytes, Offset(msgs)[k] + 1, EndOf(msgs, k))

\* h has the parts of the group that ends with message i, and for the rest what got has.
IsCopied(h, msgs, i, bytes, got) ==
  /\ h \in Parts(Len(msgs))
  /\ \A k \in 1 .. Len(msgs) :
       h[k] = IF k \in Group(msgs, i) THEN PartOf(msgs, bytes, k) ELSE got[k]

LEMMA PartIsSeq ==
  ASSUME NEW msgs \in Listing, NEW k \in 1 .. Len(msgs), NEW bytes \in Seq(Byte),
         EndOf(msgs, k) <= Len(bytes)
  PROVE  PartOf(msgs, bytes, k) \in Seq(Byte) /\ Len(PartOf(msgs, bytes, k)) = msgs[k].length
<1>1. /\ Offset(msgs)[k] \in Nat /\ EndOf(msgs, k) \in Nat /\ msgs[k].length \in Nat
      /\ EndOf(msgs, k) = Offset(msgs)[k] + msgs[k].length
  BY OffsetIsNat, LengthFacts DEF EndOf
<1>2. \A m \in Offset(msgs)[k] + 1 .. EndOf(msgs, k) : bytes[m] \in Byte
  <2>1. Len(bytes) \in Nat
    BY LenProperties
  <2>. QED
    BY <1>1, <2>1, ElementOfSeq
<1>3. PICK first \in Nat, last \in Nat :
         first = Offset(msgs)[k] + 1 /\ last = EndOf(msgs, k) /\ last - first + 1 = msgs[k].length
         /\ (first <= last \/ msgs[k].length = 0)
  BY <1>1
<1>4. \A m \in first .. last : bytes[m] \in Byte
  BY <1>2, <1>3
<1>5. /\ SubSeq(bytes, first, last) \in Seq(Byte)
      /\ Len(SubSeq(bytes, first, last)) = IF first <= last THEN last - first + 1 ELSE 0
  BY <1>4, SubSeqProperties
<1>6. PartOf(msgs, bytes, k) = SubSeq(bytes, first, last)
  BY <1>3 DEF PartOf
<1>7. Len(SubSeq(bytes, first, last)) = msgs[k].length
  <2>1. PICK l \in Nat : l = msgs[k].length
    BY <1>1
  <2>2. (IF first <= last THEN last - first + 1 ELSE 0) = l
    BY <1>3, <2>1
  <2>. QED
    BY <1>5, <2>1, <2>2
<1>. QED
  BY <1>5, <1>6, <1>7

LEMMA Ends ==
  ASSUME NEW msgs \in Listing, NEW i \in 1 .. Len(msgs), NEW j \in 1 .. i, NEW used \in Nat,
         EndOf(msgs, j) <= used
  PROVE  /\ EndOf(msgs, j) \in 0 .. used
         /\ Offset(msgs)[j] \in 0 .. used /\ msgs[j].length \in Nat
         /\ EndOf(msgs, j) = Offset(msgs)[j] + msgs[j].length
<1>1. j \in 1 .. Len(msgs)
  BY ListFacts
<1>2. /\ Offset(msgs)[j] \in Nat /\ EndOf(msgs, j) \in Nat /\ msgs[j].length \in Nat
  BY <1>1, OffsetIsNat, LengthFacts
<1>3. EndOf(msgs, j) = Offset(msgs)[j] + msgs[j].length
  BY DEF EndOf
<1>4. PICK a, b, c \in Nat : a = EndOf(msgs, j) /\ b = Offset(msgs)[j] /\ c = msgs[j].length
  BY <1>2
<1>5. a \in 0 .. used /\ b \in 0 .. used
  BY <1>3, <1>4
<1>. QED
  BY <1>2, <1>3, <1>4, <1>5

LEMMA CopyOfGroup ==
  ASSUME NEW msgs \in Listing, NEW i \in 1 .. Len(msgs), NEW bytes \in Seq(Byte),
         NEW used \in Nat, used = Len(bytes), EndOf(msgs, i) = used,
         NEW got \in Parts(Len(msgs)), NEW w,
         Copies(w, msgs, i, used, bytes, got),
         NothingForNoLength(msgs, i, got)
  PROVE  IsCopied(w[i][used], msgs, i, bytes, got)
<1>. DEFINE S == {m \in Nat : m + 1 <= i /\ EndOf(msgs, m + 1) <= used =>
                    IsCopied(w[m + 1][EndOf(msgs, m + 1)], msgs, m + 1, bytes, got)}
<1>0. /\ i \in Nat /\ i >= 1 /\ i <= Len(msgs) /\ Len(msgs) \in Nat /\ used \in Nat
      /\ 0 \in 0 .. used
  BY ListFacts, LenProperties
<1>10. NothingIn(w, i, got)
  BY NothingBefore
\* One copy.
<1>1. ASSUME NEW j \in 1 .. i, EndOf(msgs, j) <= used, NEW h,
             IF Offset(msgs)[j] = 0 /\ (j = 1 \/ ~ConcatNext(msgs, j - 1))
               THEN h = got
               ELSE j # 1 /\ ConcatNext(msgs, j - 1) /\ IsCopied(h, msgs, j - 1, bytes, got),
             w[j][EndOf(msgs, j)] = [h EXCEPT ![j] = PartOf(msgs, bytes, j)]
      PROVE  IsCopied(w[j][EndOf(msgs, j)], msgs, j, bytes, got)
  <2>1. j \in 1 .. Len(msgs) /\ j \in Nat \ {0}
    BY <1>0
  <2>2. PartOf(msgs, bytes, j) \in Seq(Byte)
    BY <1>1, <2>1, PartIsSeq
  <2>3. h \in Parts(Len(msgs))
    BY <1>1 DEF IsCopied
  <2>. DEFINE v == w[j][EndOf(msgs, j)]
  <2>4. /\ v \in Parts(Len(msgs))
        /\ \A k \in 1 .. Len(msgs) : v[k] = IF k = j THEN PartOf(msgs, bytes, j) ELSE h[k]
    BY <1>1, <2>1, <2>2, <2>3 DEF Parts
  <2>. HIDE DEF v
  <2>5. CASE Offset(msgs)[j] = 0 /\ (j = 1 \/ ~ConcatNext(msgs, j - 1))
    <3>1. Group(msgs, j) = {j}
      <4>1. CASE j = 1
        BY <4>1, <2>1, InGroup
      <4>2. CASE j # 1 /\ ~ConcatNext(msgs, j - 1)
        <5>1. j - 1 \in Nat \ {0} /\ j - 1 + 1 = j
          BY <2>1, <4>2
        <5>. QED
          BY <4>2, <5>1, GroupGrows
      <4>. QED
        BY <2>5, <4>1, <4>2
    <3>. QED
      BY <1>1, <2>4, <2>5, <3>1 DEF IsCopied, v
  <2>6. CASE ~(Offset(msgs)[j] = 0 /\ (j = 1 \/ ~ConcatNext(msgs, j - 1)))
    <3>1. j - 1 \in Nat \ {0} /\ j - 1 + 1 = j
      BY <1>1, <2>1, <2>6
    <3>2. Group(msgs, j) = Group(msgs, j - 1) \cup {j}
      BY <1>1, <2>6, <3>1, GroupGrows
    <3>. QED
      BY <1>1, <2>4, <2>6, <3>2 DEF IsCopied, v
  <2>. QED
    BY <2>5, <2>6
<1>2. ASSUME NEW j \in 1 .. i, EndOf(msgs, j) <= used
      PROVE  w[j][EndOf(msgs, j)] =
               [w[j - 1][Offset(msgs)[j]] EXCEPT ![j] = PartOf(msgs, bytes, j)]
  <2>1. /\ EndOf(msgs, j) \in 0 .. used
        /\ Offset(msgs)[j] \in Nat /\ msgs[j].length \in Nat
        /\ EndOf(msgs, j) = Offset(msgs)[j] + msgs[j].length
    BY <1>2, Ends
  <2>2. PICK u \in 0 .. used : u = EndOf(msgs, j)
    BY <2>1
  <2>3. w[j][u] = IF u < msgs[j].length THEN got
                  ELSE [w[j - 1][u - msgs[j].length] EXCEPT
                          ![j] = SubSeq(bytes, u - msgs[j].length + 1, u)]
    BY DEF Copies
  <2>4. ~(u < msgs[j].length) /\ u - msgs[j].length = Offset(msgs)[j]
    BY <2>1, <2>2
  <2>5. w[j][u] = [w[j - 1][u - msgs[j].length] EXCEPT
                     ![j] = SubSeq(bytes, u - msgs[j].length + 1, u)]
    BY <2>3, <2>4
  <2>. QED
    BY <2>2, <2>4, <2>5 DEF PartOf
<1>3. ASSUME NEW j \in 1 .. i, EndOf(msgs, j) <= used, j = 1 \/ ~ConcatNext(msgs, j - 1)
      PROVE  IsCopied(w[j][EndOf(msgs, j)], msgs, j, bytes, got)
  <2>1. Offset(msgs)[j] = 0
    <3>1. j \in 1 .. Len(msgs)
      BY <1>0
    <3>. QED
      BY <1>3, <3>1, OffsetStep
  <2>2. w[j - 1][0] = got
    <3>1. j - 1 \in 0 .. i
      BY <1>0
    <3>. QED
      BY <1>10, <3>1 DEF NothingIn
  <2>. QED
    BY <1>1, <1>2, <1>3, <2>1, <2>2
<1>4. 0 \in S
  <2>. SUFFICES ASSUME EndOf(msgs, 1) <= used
                PROVE  IsCopied(w[1][EndOf(msgs, 1)], msgs, 1, bytes, got)
    OBVIOUS
  <2>1. 1 \in 1 .. i
    BY <1>0
  <2>. QED
    BY <1>3, <2>1
<1>5. ASSUME NEW m \in S
      PROVE  m + 1 \in S
  <2>. SUFFICES ASSUME m + 1 + 1 <= i, EndOf(msgs, m + 1 + 1) <= used
                PROVE  IsCopied(w[m + 1 + 1][EndOf(msgs, m + 1 + 1)], msgs, m + 1 + 1, bytes, got)
    OBVIOUS
  <2>1. PICK j \in 1 .. i : j = m + 1 + 1 /\ j - 1 = m + 1 /\ j # 1
    BY <1>0
  <2>2. EndOf(msgs, j) <= used
    BY <2>1
  <2>3. CASE ~ConcatNext(msgs, j - 1)
    BY <1>3, <2>1, <2>2, <2>3
  <2>4. CASE ConcatNext(msgs, j - 1)
    <3>1. Offset(msgs)[j] = EndOf(msgs, j - 1)
      <4>1. j \in 1 .. Len(msgs)
        BY <1>0
      <4>. QED
        BY <2>1, <2>4, <4>1, OffsetStep
    <3>2. Offset(msgs)[j] <= used
      <4>1. Offset(msgs)[j] \in 0 .. used
        BY <2>2, Ends
      <4>. QED
        BY <4>1
    <3>3. IsCopied(w[j - 1][EndOf(msgs, j - 1)], msgs, j - 1, bytes, got)
      <4>1. m + 1 <= i /\ EndOf(msgs, m + 1) <= used
        BY <1>0, <2>1, <3>1, <3>2
      <4>2. IsCopied(w[m + 1][EndOf(msgs, m + 1)], msgs, m + 1, bytes, got)
        BY <4>1
      <4>. QED
        BY <2>1, <4>2
    <3>4. w[j][EndOf(msgs, j)] = [w[j - 1][EndOf(msgs, j - 1)] EXCEPT ![j] = PartOf(msgs, bytes, j)]
      BY <1>2, <2>2, <3>1
    <3>5. IsCopied(w[j][EndOf(msgs, j)], msgs, j, bytes, got)
      BY <1>1, <2>1, <2>2, <2>4, <3>3, <3>4
    <3>. QED
      BY <2>1, <3>5
  <2>. QED
    BY <2>3, <2>4
<1>6. S = Nat
  <2>. HIDE DEF S
  <2>1. S \in SUBSET Nat
    BY DEF S
  <2>. QED
    BY <1>4, <1>5, <2>1, Induction
<1>7. i - 1 \in Nat /\ i - 1 + 1 = i
  BY <1>0
<1>8. i - 1 \in S
  BY <1>6, <1>7
<1>9. IsCopied(w[i][EndOf(msgs, i)], msgs, i, bytes, got)
  BY <1>0, <1>7, <1>8
<1>. QED
  BY <1>9

LEMMA NothingOfNoLength ==
  ASSUME NEW s \in Seq(Byte)
  PROVE  Len(s) = 0 <=> s = <<>>
<1>1. Len(<<>>) = 0 /\ (s # <<>> => Len(s) \in Nat \ {0})
  BY EmptySeq
<1>. QED
  BY <1>1

LEMMA Associative ==
  ASSUME NEW s \in Seq(Byte), NEW t \in Seq(Byte), NEW u \in Seq(Byte)
  PROVE  (s \o t) \o u = s \o (t \o u)
BY ConcatAssociative

\* The first messages of h have got what those of got have, and what lies in the buffer
\* before the end of the last.
LEMMA JoinedCopy ==
  ASSUME NEW msgs \in Listing, NEW i \in 1 .. Len(msgs), NEW bytes \in Seq(Byte),
         EndOf(msgs, i) = Len(bytes),
         NEW got \in Parts(Len(msgs)), NEW h, IsCopied(h, msgs, i, bytes, got),
         \A k \in 1 .. Len(msgs) : k \in Group(msgs, i) \/ k > i => got[k] = <<>>
  PROVE  Joined(h)[Len(msgs)] = Joined(got)[Len(msgs)] \o bytes
<1>. DEFINE n == Len(msgs)
            G == Group(msgs, i)
            front(k) == IF k \in G THEN SubSeq(bytes, 1, EndOf(msgs, k)) ELSE <<>>
            joins(m) == Joined(h)[m] = Joined(got)[m] \o front(m)
            S == {m \in Nat : m <= i => joins(m)}
<1>0. /\ n \in Nat /\ i \in Nat \ {0} /\ i <= n /\ G \subseteq 1 .. i /\ i \in G
      /\ Len(bytes) \in Nat
  BY ListFacts, InGroup, LenProperties
<1>1. h \in Parts(n) /\ \A k \in 1 .. n : h[k] = IF k \in G THEN PartOf(msgs, bytes, k) ELSE got[k]
  BY DEF IsCopied
<1>2. joins(0)
  <2>1. 0 \notin G
    BY <1>0
  <2>2. Joined(h)[0] = <<>> /\ Joined(got)[0] = <<>>
    BY <1>0, <1>1, JoinedStep
  <2>3. <<>> \o <<>> = <<>>
    BY EmptySeq, ConcatEmptySeq
  <2>. QED
    BY <2>1, <2>2, <2>3
<1>3. ASSUME NEW m \in Nat, m + 1 <= i, joins(m)
      PROVE  joins(m + 1)
  <2>1. PICK j \in 1 .. n : j = m + 1 /\ j \in 1 .. i
    BY <1>0, <1>3
  <2>2. m \in Nat /\ m + 1 <= n /\ m < i /\ m \in 0 .. n
    BY <1>0, <1>3
  <2>3. PICK a \in Seq(Byte) : a = Joined(got)[m]
    BY <1>0, <2>2, JoinedIsSeq
  <2>4. Joined(h)[m] = a \o front(m)
    BY <1>3, <2>3
  <2>5. Joined(h)[j] = (a \o front(m)) \o h[j] /\ Joined(got)[j] = a \o got[j]
    <3>1. Joined(h)[m + 1] = Joined(h)[m] \o h[m + 1]
      BY <1>0, <1>1, <2>2, JoinedNext
    <3>2. Joined(got)[m + 1] = Joined(got)[m] \o got[m + 1]
      BY <1>0, <2>2, JoinedNext
    <3>. QED
      BY <2>1, <2>3, <2>4, <3>1, <3>2
  <2>6. CASE j \notin G
    <3>1. m \notin G
      BY <1>0, <2>1, <2>2, <2>6, InGroup
    <3>2. h[j] = got[j] /\ got[j] \in Seq(Byte)
      BY <1>0, <1>1, <2>6, PartsAreSeq
    <3>3. a \o <<>> = a /\ a \o got[j] \in Seq(Byte)
      BY <3>2, ConcatEmptySeq, ConcatProperties
    <3>4. (a \o got[j]) \o <<>> = a \o got[j]
      BY <3>3, ConcatEmptySeq
    <3>. QED
      BY <2>1, <2>5, <2>6, <3>1, <3>2, <3>3, <3>4
  <2>7. CASE j \in G
    <3>. DEFINE o == Offset(msgs)[j]
                e == EndOf(msgs, j)
    <3>1. o \in 0 .. Len(bytes) /\ e \in 0 .. Len(bytes) /\ o <= e
      <4>1. EndOf(msgs, j) <= EndOf(msgs, i)
        BY <2>7, GroupFacts
      <4>2. EndOf(msgs, j) <= Len(bytes)
        BY <4>1
      <4>3. /\ EndOf(msgs, j) \in 0 .. Len(bytes)
            /\ Offset(msgs)[j] \in 0 .. Len(bytes) /\ msgs[j].length \in Nat
            /\ EndOf(msgs, j) = Offset(msgs)[j] + msgs[j].length
        BY <1>0, <2>1, <4>2, Ends
      <4>. QED
        BY <4>3
    <3>2. front(m) = SubSeq(bytes, 1, o)
      <4>1. CASE m \in G
        <5>1. ConcatNext(msgs, m) /\ j # 1 /\ j - 1 = m
          BY <1>0, <2>1, <2>2, <4>1, InGroup
        <5>2. o = EndOf(msgs, m)
          BY <5>1, OffsetStep
        <5>. QED
          BY <4>1, <5>2
      <4>2. CASE m \notin G
        <5>1. m = 0 \/ ~ConcatNext(msgs, m)
          <6>1. m # 0 => m \in 1 .. i - 1
            BY <1>0, <2>2
          <6>. QED
            BY <1>0, <2>1, <2>7, <4>2, <6>1, InGroup
        <5>2. j - 1 = m /\ (m = 0 => j = 1)
          BY <2>1, <2>2
        <5>3. o = 0
          BY <5>1, <5>2, OffsetStep
        <5>4. SubSeq(bytes, 1, 0) = <<>>
          BY SubSeqEmpty
        <5>. QED
          BY <4>2, <5>3, <5>4
      <4>. QED
        BY <4>1, <4>2
    <3>3. h[j] = SubSeq(bytes, o + 1, e) /\ got[j] = <<>>
      BY <1>1, <2>7 DEF PartOf
    <3>. HIDE DEF o, e
    <3>4. /\ SubSeq(bytes, 1, o) \in Seq(Byte) /\ SubSeq(bytes, o + 1, e) \in Seq(Byte)
          /\ SubSeq(bytes, 1, o) \o SubSeq(bytes, o + 1, e) = SubSeq(bytes, 1, e)
      <4>1. /\ \A k \in 1 .. o : bytes[k] \in Byte
            /\ \A k \in o + 1 .. e : bytes[k] \in Byte
        BY <1>0, <3>1, ElementOfSeq
      <4>2. 1 \in Int /\ o \in Int /\ o + 1 \in Int /\ e \in Int
        BY <3>1
      <4>3. SubSeq(bytes, 1, o) \in Seq(Byte) /\ SubSeq(bytes, o + 1, e) \in Seq(Byte)
        BY <4>1, <4>2, SubSeqProperties
      <4>4. 1 \in 1 .. Len(bytes) + 1 /\ o \in 1 - 1 .. Len(bytes) /\ e \in o .. Len(bytes)
        BY <1>0, <3>1
      <4>5. SubSeq(bytes, 1, o) \o SubSeq(bytes, o + 1, e) = SubSeq(bytes, 1, e)
        BY <4>4, ConcatAdjacentSubSeq
      <4>. QED
        BY <4>3, <4>5
    <3>5. (a \o SubSeq(bytes, 1, o)) \o SubSeq(bytes, o + 1, e) = a \o SubSeq(bytes, 1, e)
      <4>1. PICK x, y \in Seq(Byte) : x = SubSeq(bytes, 1, o) /\ y = SubSeq(bytes, o + 1, e)
        BY <3>4
      <4>2. (a \o x) \o y = a \o (x \o y)
        BY Associative
      <4>. QED
        BY <3>4, <4>1, <4>2
    <3>6. a \o <<>> = a
      BY ConcatEmptySeq
    <3>7. front(j) = SubSeq(bytes, 1, e)
      BY <2>7 DEF e
    <3>. HIDE DEF front
    <3>8. Joined(h)[j] = a \o front(j) /\ Joined(got)[j] = a
      BY <2>5, <3>2, <3>3, <3>5, <3>6, <3>7
    <3>. QED
      BY <2>1, <3>8
  <2>. QED
    BY <2>6, <2>7
<1>4. S = Nat
  <2>. HIDE DEF joins
  <2>1. S \in SUBSET Nat
    OBVIOUS
  <2>2. 0 \in S
    BY <1>2
  <2>3. ASSUME NEW m \in S
        PROVE  m + 1 \in S
    <3>. SUFFICES ASSUME m + 1 <= i
                  PROVE  joins(m + 1)
      OBVIOUS
    <3>1. m \in Nat /\ m <= i
      BY <1>0
    <3>. QED
      BY <1>3, <3>1
  <2>. HIDE DEF S
  <2>. QED
    BY <2>1, <2>2, <2>3, Induction
<1>5. Joined(h)[i] = Joined(got)[i] \o bytes
  <2>1. SubSeq(bytes, 1, EndOf(msgs, i)) = bytes
    BY SubSeqFull
  <2>2. i \in S
    BY <1>0, <1>4
  <2>3. i \in G /\ front(i) = SubSeq(bytes, 1, EndOf(msgs, i))
    BY <1>0
  <2>4. joins(i)
    <3>1. i <= i
      BY <1>0
    <3>. HIDE DEF joins
    <3>. QED
      BY <2>2, <3>1
  <2>. HIDE DEF front
  <2>. QED
    BY <2>1, <2>3, <2>4
<1>6. \A k \in i + 1 .. n : k \in 1 .. n /\ k > i /\ k \notin G
  BY <1>0
<1>7. Joined(h)[n] = Joined(h)[i] /\ Joined(got)[n] = Joined(got)[i]
  <2>1. \A k \in i + 1 .. n : h[k] = <<>> /\ got[k] = <<>>
    BY <1>1, <1>6
  <2>2. i \in 0 .. n
    BY <1>0
  <2>. QED
    BY <1>0, <1>1, <2>1, <2>2, JoinedUpTo
<1>. QED
  BY <1>5, <1>7

\* What a message gets of its transfer.
Want(msgs, k) == IF msgs[k].read THEN msgs[k].length ELSE 0

\* The messages of S have got theirs, the others nothing.
Has(msgs, got, S) ==
  \A k \in 1 .. Len(msgs) :
    IF k \in S THEN Len(got[k]) = Want(msgs, k) ELSE got[k] = <<>>

\* The messages before the group that ends with message i.
Earlier(msgs, i) == (1 .. i) \ Group(msgs, i)

LEMMA JoinedGroup ==
  ASSUME NEW msgs \in Listing, NEW i \in 1 .. Len(msgs), NEW bytes \in Seq(Byte),
         EndOf(msgs, i) = Len(bytes),
         NEW got \in Parts(Len(msgs)), NEW h, IsCopied(h, msgs, i, bytes, got),
         Has(msgs, got, Earlier(msgs, i)), msgs[i].read
  PROVE  /\ h \in Parts(Len(msgs))
         /\ Joined(h)[Len(msgs)] = Joined(got)[Len(msgs)] \o bytes
         /\ Has(msgs, h, 1 .. i)
<1>0. Len(msgs) \in Nat /\ i \in Nat \ {0}
  BY ListFacts
<1>1. \A k \in 1 .. Len(msgs) : k \in Group(msgs, i) \/ k > i => got[k] = <<>>
  BY <1>0 DEF Has, Earlier
<1>2. Joined(h)[Len(msgs)] = Joined(got)[Len(msgs)] \o bytes
  BY ZenonT(40), <1>1, JoinedCopy
<1>3. h \in Parts(Len(msgs)) /\ \A k \in 1 .. Len(msgs) :
        h[k] = IF k \in Group(msgs, i) THEN PartOf(msgs, bytes, k) ELSE got[k]
  BY DEF IsCopied
<1>4. ASSUME NEW k \in 1 .. Len(msgs)
      PROVE  IF k \in 1 .. i THEN Len(h[k]) = Want(msgs, k) ELSE h[k] = <<>>
  <2>1. CASE k \in Group(msgs, i)
    <3>1. k \in 1 .. i /\ msgs[k].read = msgs[i].read /\ EndOf(msgs, k) <= EndOf(msgs, i)
      BY <2>1, GroupFacts
    <3>2. EndOf(msgs, k) <= Len(bytes)
      BY <3>1
    <3>3. Len(PartOf(msgs, bytes, k)) = msgs[k].length
      BY <3>2, PartIsSeq
    <3>. QED
      BY <1>3, <2>1, <3>1, <3>3 DEF Want
  <2>2. CASE k \notin Group(msgs, i)
    BY <1>0, <1>3, <2>2 DEF Has, Earlier
  <2>. QED
    BY <2>1, <2>2
<1>. QED
  BY <1>2, <1>3, <1>4 DEF Has

LEMMA CopiedBack ==
  ASSUME NEW msgs \in Listing, NEW i \in 1 .. Len(msgs), NEW bytes \in Seq(Byte),
         NEW used \in Nat, used = Len(bytes), EndOf(msgs, i) = used,
         NEW got \in Parts(Len(msgs)), Has(msgs, got, Earlier(msgs, i))
  PROVE  IsCopied(CopyBack(msgs, i, used, bytes, got), msgs, i, bytes, got)
<1>0. Len(msgs) \in Nat /\ i \in Nat
  BY ListFacts
<1>1. NothingForNoLength(msgs, i, got)
  <2>. SUFFICES ASSUME NEW k \in 1 .. i, msgs[k].length = 0
                PROVE  got[k] = <<>>
    BY DEF NothingForNoLength
  <2>1. k \in 1 .. Len(msgs)
    BY <1>0
  <2>2. got[k] \in Seq(Byte)
    BY <1>0, <2>1, PartsAreSeq
  <2>3. Len(got[k]) = 0 \/ got[k] = <<>>
    BY <2>1 DEF Has, Want
  <2>. QED
    BY <2>2, <2>3, NothingOfNoLength
<1>2. PICK w : /\ Copies(w, msgs, i, used, bytes, got)
               /\ CopyBack(msgs, i, used, bytes, got) = w[i][used]
  BY <1>0, CopyBackIsCopied
<1>3. IsCopied(w[i][used], msgs, i, bytes, got)
  BY <1>1, <1>2, CopyOfGroup
<1>. QED
  BY <1>2, <1>3

\* A read that did not go through the buffer.
LEMMA CopiedDirectly ==
  ASSUME NEW msgs \in Listing, NEW i \in 1 .. Len(msgs), NEW bytes \in Seq(Byte),
         EndOf(msgs, i) = Len(bytes), Offset(msgs)[i] = 0,
         NEW got \in Parts(Len(msgs)), Has(msgs, got, Earlier(msgs, i)),
         NEW h, h = [got EXCEPT ![i] = bytes]
  PROVE  IsCopied(h, msgs, i, bytes, got)
<1>0. Len(msgs) \in Nat /\ i \in Nat \ {0}
  BY ListFacts
<1>1. h \in Parts(Len(msgs))
  BY DEF Parts
<1>2. \A k \in 1 .. Len(msgs) : h[k] = IF k = i THEN bytes ELSE got[k]
  BY DEF Parts
<1>3. PartOf(msgs, bytes, i) = bytes
  BY SubSeqFull DEF PartOf
<1>4. ASSUME NEW k \in 1 .. Len(msgs), k \in Group(msgs, i), k # i
      PROVE  PartOf(msgs, bytes, k) = <<>> /\ got[k] = <<>>
  <2>1. k \in 1 .. i /\ EndOf(msgs, k) <= Offset(msgs)[i]
    BY <1>0, <1>4, GroupFacts
  <2>2. Offset(msgs)[k] \in Nat
    BY OffsetIsNat
  <2>3. EndOf(msgs, k) \in Nat /\ EndOf(msgs, k) <= 0
    BY <2>1, OffsetIsNat
  <2>4. SubSeq(bytes, Offset(msgs)[k] + 1, EndOf(msgs, k)) = <<>>
    BY <2>2, <2>3, SubSeqEmpty
  <2>. QED
    BY <1>4, <2>4 DEF PartOf, Has, Earlier
<1>5. i \in Group(msgs, i)
  BY <1>0, InGroup
<1>. QED
  BY <1>1, <1>2, <1>3, <1>4, <1>5 DEF IsCopied

\* A group that is written gets nothing.
LEMMA WritesGetNothing ==
  ASSUME NEW msgs \in Listing, NEW i \in 1 .. Len(msgs), ~msgs[i].read,
         NEW got \in Parts(Len(msgs)), Has(msgs, got, Earlier(msgs, i))
  PROVE  Has(msgs, got, 1 .. i)
<1>0. Len(msgs) \in Nat /\ i \in Nat \ {0}
  BY ListFacts
<1>1. ASSUME NEW k \in 1 .. Len(msgs)
      PROVE  IF k \in 1 .. i THEN Len(got[k]) = Want(msgs, k) ELSE got[k] = <<>>
  <2>1. CASE k \in Group(msgs, i)
    <3>1. k \in 1 .. i /\ msgs[k].read = msgs[i].read
      BY <2>1, GroupFacts
    <3>2. got[k] = <<>> /\ Len(<<>>) = 0
      BY <2>1, EmptySeq DEF Has, Earlier
    <3>. QED
      BY <3>1, <3>2 DEF Want
  <2>2. CASE k \notin Group(msgs, i)
    BY <1>0, <2>2 DEF Has, Earlier
  <2>. QED
    BY <2>1, <2>2
<1>. QED
  BY <1>1 DEF Has

\* From a message to the next.
LEMMA EarlierGrows ==
  ASSUME NEW msgs, NEW i \in Nat \ {0}
  PROVE  Earlier(msgs, i + 1) = IF ConcatNext(msgs, i) THEN Earlier(msgs, i) ELSE 1 .. i
<1>1. Group(msgs, i + 1) = IF ConcatNext(msgs, i) THEN Group(msgs, i) \cup {i + 1} ELSE {i + 1}
  BY GroupGrows
<1>2. 1 .. i + 1 = (1 .. i) \cup {i + 1} /\ i + 1 \notin 1 .. i
  OBVIOUS
<1>. QED
  BY <1>1, <1>2 DEF Earlier

LEMMA OffsetGrows ==
  ASSUME NEW msgs \in Listing, NEW i \in 1 .. Len(msgs), i < Len(msgs)
  PROVE  Offset(msgs)[i + 1] = IF ConcatNext(msgs, i) THEN EndOf(msgs, i) ELSE 0
<1>1. PICK j \in 1 .. Len(msgs) : j = i + 1 /\ j - 1 = i /\ j # 1
  BY ListFacts
<1>2. Offset(msgs)[j] = IF j = 1 \/ ~ConcatNext(msgs, j - 1) THEN 0 ELSE EndOf(msgs, j - 1)
  BY OffsetStep
<1>. QED
  BY <1>1, <1>2

-----------------------------------------------------------------------------
(* What the messages get: the steps                                          *)

\* The messages of S have got what was sent for them, the others nothing.
Sound(c, S) ==
  /\ c.got \in Parts(Len(c.msgs)) /\ c.sent \in Seq(Byte)
  /\ Has(c.msgs, c.got, S)
  /\ Joined(c.got)[Len(c.msgs)] = c.sent

\* All but those whose parts lie in the buffer.
StillInBuffer(c) ==
  /\ c.got \in Parts(Len(c.msgs)) /\ c.sent \in Seq(Byte)
  /\ Has(c.msgs, c.got, Earlier(c.msgs, c.i))
  /\ Joined(c.got)[Len(c.msgs)] \o buffer = c.sent
  /\ c.used = EndOf(c.msgs, c.i) /\ c.used = Len(buffer)

GotOK(t) ==
  /\ At(t, "enter") => Sound(call[t], {})
  /\ At(t, "loop") =>
       /\ Sound(call[t], Earlier(call[t].msgs, call[t].i))
       /\ call[t].used = Offset(call[t].msgs)[call[t].i]
  /\ At(t, "wait") /\ bus # None =>
       /\ Sound(call[t], Earlier(call[t].msgs, call[t].i))
       /\ Msg(t).read =>
            /\ call[t].used = 0 => Offset(call[t].msgs)[call[t].i] = 0
            /\ call[t].used # 0 => call[t].used = EndOf(call[t].msgs, call[t].i)
            /\ bus.length = EndOf(call[t].msgs, call[t].i)
  /\ At(t, "wait") /\ completion = 1 /\ res = "success" =>
       IF Msg(t).read /\ call[t].used # 0 THEN StillInBuffer(call[t])
       ELSE Sound(call[t], 1 .. call[t].i)
  /\ call[t].at \in {"exit", "returned"} /\ call[t].ret = "ok" =>
       Sound(call[t], 1 .. Number(t))

LEMMA SoundIsOfTheRecord ==
  ASSUME NEW c, NEW d, c.msgs = d.msgs, c.got = d.got, c.sent = d.sent, NEW S, Sound(c, S)
  PROVE  Sound(d, S)
BY DEF Sound

LEMMA ElsewhereGot ==
  ASSUME NEW u \in Thread, GotOK(u), call'[u] = call[u], call[u].at \notin Holding
  PROVE  GotOK(u)'
BY DEF GotOK, At, Number, Holding

LEMMA UntouchedGot ==
  ASSUME NEW u \in Thread, GotOK(u), call'[u] = call[u], UNCHANGED <<driverVars, bus>>
  PROVE  GotOK(u)'
<1>1. UNCHANGED <<completion, res, buffer, bus>>
  BY DEF driverVars
<1>2. StillInBuffer(call[u]) => StillInBuffer(call[u])'
  BY <1>1 DEF StillInBuffer
<1>. QED
  BY <1>1, <1>2 DEF GotOK, At, Number, Msg

LEMMA SuspendGot ==
  ASSUME Suspend, \A u \in Thread : GotOK(u)
  PROVE  \A u \in Thread : GotOK(u)'
<1>. SUFFICES ASSUME NEW u \in Thread
              PROVE  GotOK(u)'
  OBVIOUS
<1>1. UNCHANGED <<completion, res, buffer, call>> /\ bus' = None
  BY DEF Suspend, driverVars
<1>2. StillInBuffer(call[u]) => StillInBuffer(call[u])'
  BY <1>1 DEF StillInBuffer
<1>. QED
  BY <1>1, <1>2 DEF GotOK, At, Number, Msg

LEMMA CallGot ==
  ASSUME TwimInv, NEW t \in Thread, NEW msgs \in Listing, Call(t, msgs)
  PROVE  GotOK(t)'
<1>1. call'[t] = [Idle EXCEPT !.at = "enter", !.msgs = msgs, !.got = [k \in DOMAIN msgs |-> <<>>]]
  BY DEF Call, TwimInv
<1>2. /\ call'[t].at = "enter" /\ call'[t].msgs = msgs /\ call'[t].sent = <<>>
      /\ call'[t].got = [k \in DOMAIN msgs |-> <<>>]
  BY <1>1 DEF Idle
<1>3. Len(msgs) \in Nat /\ DOMAIN msgs = 1 .. Len(msgs) /\ <<>> \in Seq(Byte)
  BY ListFacts, EmptySeq
<1>4. PICK got : got = call'[t].got
  OBVIOUS
<1>5. got \in Parts(Len(msgs)) /\ \A k \in 1 .. Len(msgs) : got[k] = <<>>
  BY <1>2, <1>3, <1>4 DEF Parts
<1>6. Joined(got)[Len(msgs)] = <<>>
  BY <1>3, <1>5, JoinedOfNothing
<1>7. Sound(call[t], {})'
  BY <1>2, <1>3, <1>4, <1>5, <1>6 DEF Sound, Has
<1>. QED
  BY <1>2, <1>7 DEF GotOK, At

LEMMA EnterGot ==
  ASSUME TwimInv, NEW t \in Thread, GotOK(t), Enter(t)
  PROVE  GotOK(t)'
<1>1. DOMAIN call = Thread /\ DOMAIN call[t] = Fields /\ At(t, "enter")
  BY DEF TwimInv, CallOK, Enter
<1>2. /\ call'[t].at = "loop" /\ call'[t].msgs = call[t].msgs /\ call'[t].i = call[t].i
      /\ call'[t].used = call[t].used /\ call'[t].got = call[t].got /\ call'[t].sent = call[t].sent
  BY <1>1 DEF Enter, Fields
<1>3. call[t].i = 1 /\ call[t].used = 0 /\ call[t].msgs \in Listing
  BY <1>1 DEF TwimInv, CallOK, DoneOK, At
<1>4. Earlier(call[t].msgs, 1) = {}
  BY DEF Earlier, Group
<1>5. Offset(call[t].msgs)[1] = 0
  <2>1. 1 \in 1 .. Len(call[t].msgs)
    BY <1>3, ListFacts
  <2>. QED
    BY <1>3, <2>1, OffsetStep
<1>6. Sound(call[t], {})
  BY <1>1 DEF GotOK
<1>7. Sound(call[t], Earlier(call[t].msgs, call[t].i))'
  BY <1>2, <1>3, <1>4, <1>6 DEF Sound
<1>. QED
  BY <1>2, <1>3, <1>5, <1>7 DEF GotOK, At

LEMMA BreakGot ==
  ASSUME TwimInv, NEW t \in Thread, NEW error \in Error, Break(t, error)
  PROVE  GotOK(t)'
<1>1. call'[t].at = "exit" /\ call'[t].ret = error
  BY DEF Break, TwimInv, CallOK, Fields
<1>. QED
  BY <1>1 DEF GotOK, At, Error

LEMMA RejectGot ==
  ASSUME TwimInv, NEW t \in Thread, Reject(t)
  PROVE  GotOK(t)'
<1>1. Fault(t) \in Error /\ Break(t, Fault(t))
  BY DEF Reject, Fault, Error
<1>. QED
  BY <1>1, BreakGot

LEMMA GatherGot ==
  ASSUME TwimInv, NEW t \in Thread, GotOK(t), Gather(t)
  PROVE  GotOK(t)'
<1>1. DOMAIN call = Thread /\ DOMAIN call[t] = Fields /\ At(t, "loop")
      /\ ConcatNext(call[t].msgs, call[t].i)
      /\ call' = [call EXCEPT ![t].used = Used(t), ![t].i = @ + 1]
  BY DEF TwimInv, CallOK, Gather
<1>2. /\ call'[t].at = "loop" /\ call'[t].msgs = call[t].msgs /\ call'[t].i = call[t].i + 1
      /\ call'[t].used = Used(t) /\ call'[t].got = call[t].got /\ call'[t].sent = call[t].sent
  BY <1>1 DEF Fields, At
<1>3. /\ call[t].msgs \in Listing /\ call[t].i \in 1 .. Len(call[t].msgs)
      /\ call[t].i \in Nat \ {0} /\ call[t].i < Len(call[t].msgs)
  BY <1>1, MessageFacts DEF At, Number, ConcatNext
<1>4. /\ Sound(call[t], Earlier(call[t].msgs, call[t].i))
      /\ call[t].used = Offset(call[t].msgs)[call[t].i]
  BY <1>1 DEF GotOK
<1>5. Earlier(call[t].msgs, call[t].i + 1) = Earlier(call[t].msgs, call[t].i)
  BY <1>1, <1>3, EarlierGrows
<1>6. Offset(call[t].msgs)[call[t].i + 1] = EndOf(call[t].msgs, call[t].i)
  BY <1>1, <1>3, OffsetGrows
<1>7. Used(t) = EndOf(call[t].msgs, call[t].i)
  BY <1>1, <1>4 DEF Used, InBuffer, Gathered, EndOf, Msg
<1>8. Sound(call[t], Earlier(call[t].msgs, call[t].i))'
  BY <1>2, <1>4, <1>5 DEF Sound
<1>. QED
  BY <1>2, <1>6, <1>7, <1>8 DEF GotOK, At

LEMMA SubmitGot ==
  ASSUME TwimInv, NEW t \in Thread, GotOK(t), Submit(t)
  PROVE  GotOK(t)'
<1>1. /\ DOMAIN call = Thread /\ DOMAIN call[t] = Fields /\ At(t, "loop")
      /\ ~ConcatNext(call[t].msgs, call[t].i) /\ completion = 0 /\ completion' = completion
  BY DEF TwimInv, CallOK, BusOK, Submit
<1>2. CASE \E error \in {"EBUSY", "EIO"} : Break(t, error)
  BY <1>2, BreakGot DEF Error
<1>3. CASE /\ bus' = [thread |-> t, read |-> Msg(t).read, buffered |-> Used(t) # 0,
                     bytes |-> IF Used(t) = 0 THEN Msg(t).bytes
                               ELSE SubSeq(buffer', 1, IF Msg(t).read THEN 0 ELSE Used(t)),
                     length |-> IF Used(t) = 0 THEN Msg(t).length ELSE Used(t)]
           /\ call' = [call EXCEPT ![t].used = Used(t), ![t].at = "wait"]
  <2>1. /\ call'[t].at = "wait" /\ call'[t].msgs = call[t].msgs /\ call'[t].i = call[t].i
        /\ call'[t].used = Used(t) /\ call'[t].got = call[t].got /\ call'[t].sent = call[t].sent
    BY <1>1, <1>3 DEF Fields
  <2>2. /\ Sound(call[t], Earlier(call[t].msgs, call[t].i))
        /\ call[t].used = Offset(call[t].msgs)[call[t].i]
    BY <1>1 DEF GotOK
  <2>3. Sound(call[t], Earlier(call[t].msgs, call[t].i))'
    BY <2>1, <2>2 DEF Sound
  <2>4. /\ call[t].msgs \in Listing /\ call[t].i \in 1 .. Len(call[t].msgs)
        /\ Msg(t).length \in Nat /\ call[t].used \in Nat
    BY <1>1, MessageFacts DEF At, Number, TwimInv, CallOK
  <2>5. EndOf(call[t].msgs, call[t].i) = call[t].used + Msg(t).length
    BY <2>2 DEF EndOf, Msg
  <2>6. bus'.length = IF Used(t) = 0 THEN Msg(t).length ELSE Used(t)
    BY <1>3
  <2>7. ASSUME Msg(t).read
        PROVE  /\ Used(t) = 0 => Offset(call[t].msgs)[call[t].i] = 0
               /\ Used(t) # 0 => Used(t) = EndOf(call[t].msgs, call[t].i)
               /\ bus'.length = EndOf(call[t].msgs, call[t].i)
    <3>1. Used(t) = IF call[t].used # 0 THEN call[t].used + Msg(t).length ELSE 0
      BY <1>1, <2>7 DEF Used, InBuffer, Gathered, FromFlash
    <3>. QED
      BY <2>2, <2>4, <2>5, <2>6, <3>1
  <2>8. Msg(t)' = Msg(t)
    BY <2>1 DEF Msg
  <2>9. completion' # 1
    BY <1>1
  <2>. QED
    BY <2>1, <2>3, <2>7, <2>8, <2>9 DEF GotOK, At
<1>. QED
  BY <1>2, <1>3 DEF Submit

LEMMA AnswerFacts ==
  ASSUME TwimInv, bus # None
  PROVE  Answer(device, bus.length) \in Seq(Byte) /\ Len(Answer(device, bus.length)) = bus.length
<1>1. bus.length \in Nat /\ Answer(device, bus.length) \in Seq(Byte)
  BY BusIsHoldersOwn, EffectIsByte DEF Submitted
<1>2. DOMAIN Answer(device, bus.length) = 1 .. bus.length
  BY DEF Answer
<1>3. \A a \in Seq(Byte) : DOMAIN a = 1 .. Len(a) /\ Len(a) \in Nat
  BY LenProperties
<1>. QED
  BY <1>1, <1>2, <1>3

LEMMA EventGot ==
  ASSUME TwimInv, Event, NEW t \in Thread, t = bus.thread, GotOK(t)
  PROVE  GotOK(t)'
<1>1. /\ bus # None /\ bus' = None /\ completion' = 1
      /\ DOMAIN call = Thread /\ DOMAIN call[t] = Fields
      /\ call[t].at \in {"wait", "timed out"}
      /\ bus.read = Msg(t).read /\ bus.buffered = (call[t].used # 0)
  BY BusIsHoldersOwn DEF Event, TwimInv, CallOK, BusIsWaitedFor
<1>2. CASE res' # "success"
  <2>1. call' = call
    BY <1>2 DEF Event
  <2>. QED
    BY <1>1, <1>2, <2>1 DEF GotOK, At
<1>3. CASE res' = "success" /\ call[t].at = "wait"
  <2>3. PICK msgs \in Listing, i \in Nat :
          msgs = call[t].msgs /\ i = call[t].i /\ i \in 1 .. Len(msgs)
    BY <1>3, MessageFacts DEF At, Number
  <2>. DEFINE n == Len(msgs)
  <2>. DEFINE answer == IF bus.read THEN Answer(device, bus.length) ELSE <<>>
  <2>1. /\ buffer' = IF bus.read /\ bus.buffered THEN answer ELSE buffer
        /\ call' = [call EXCEPT
             ![t].done = @ \cup Group(msgs, i),
             ![t].sent = @ \o answer,
             ![t].got[i] = IF bus.read /\ ~bus.buffered THEN answer ELSE @]
    BY <1>3, <2>3 DEF Event
  <2>2. /\ answer \in Seq(Byte) /\ (bus.read => Len(answer) = bus.length)
        /\ ~bus.read => answer = <<>>
    BY <1>1, AnswerFacts, EmptySeq
  <2>4. Sound(call[t], Earlier(msgs, i))
    BY <1>1, <1>3, <2>3 DEF GotOK, At
  <2>. HIDE DEF answer
  <2>16. PICK bytes \in Seq(Byte) : bytes = answer
    BY <2>2
  <2>5. /\ call'[t].at = "wait" /\ call'[t].msgs = msgs /\ call'[t].i = i
        /\ call'[t].used = call[t].used
        /\ call'[t].sent = call[t].sent \o bytes
        /\ call'[t].got = [call[t].got EXCEPT ![i] = IF bus.read /\ ~bus.buffered THEN bytes ELSE @]
    BY <1>1, <1>3, <2>1, <2>3, <2>16 DEF Fields
  <2>6. PICK got \in Parts(n) : got = call[t].got
    BY <2>3, <2>4 DEF Sound
  <2>7. PICK sent \in Seq(Byte) : sent = call[t].sent
    BY <2>3, <2>4 DEF Sound
  <2>8. Has(msgs, got, Earlier(msgs, i)) /\ Joined(got)[n] = sent
    BY <2>3, <2>4, <2>6, <2>7 DEF Sound
  <2>9. Msg(t)' = Msg(t) /\ (Msg(t).read <=> msgs[i].read)
    BY <2>3, <2>5 DEF Msg
  <2>10. sent \o bytes \in Seq(Byte)
    BY <2>7, ConcatProperties
  <2>11. Msg(t).read =>
           /\ call[t].used = 0 => Offset(msgs)[i] = 0
           /\ call[t].used # 0 => call[t].used = EndOf(msgs, i)
           /\ bus.length = EndOf(msgs, i)
    BY <1>1, <1>3, <2>3 DEF GotOK, At
  <2>12. [got EXCEPT ![i] = @] = got
    BY <2>3, <2>6 DEF Parts
  <2>13. CASE Msg(t).read /\ call[t].used # 0
    <3>1. call'[t].got = got
      BY <1>1, <2>5, <2>6, <2>12, <2>13
    <3>2. buffer' = bytes
      BY <1>1, <2>1, <2>13, <2>16
    <3>3. StillInBuffer(call[t])'
      <4>1. call[t].used = Len(bytes)
        BY <1>1, <2>2, <2>11, <2>13, <2>16
      <4>. QED
        BY ZenonT(40), <2>3, <2>5, <2>6, <2>7, <2>8, <2>10, <2>11, <2>13, <3>1, <3>2, <4>1
        DEF StillInBuffer
    <3>. QED
      BY <1>1, <2>5, <2>9, <2>13, <3>3 DEF GotOK, At
  <2>14. CASE Msg(t).read /\ call[t].used = 0
    <3>1. PICK h : h = [got EXCEPT ![i] = bytes]
      OBVIOUS
    <3>2. call'[t].got = h
      BY <1>1, <2>5, <2>6, <2>14, <3>1
    <3>3. EndOf(msgs, i) = Len(bytes) /\ Offset(msgs)[i] = 0 /\ msgs[i].read
      BY <1>1, <2>2, <2>9, <2>11, <2>14, <2>16
    <3>4. IsCopied(h, msgs, i, bytes, got)
      BY <2>3, <2>8, <3>1, <3>3, CopiedDirectly
    <3>5. h \in Parts(n) /\ Joined(h)[n] = Joined(got)[n] \o bytes /\ Has(msgs, h, 1 .. i)
      <4>1. i \in 1 .. Len(msgs) /\ Has(msgs, got, Earlier(msgs, i))
        BY <2>3, <2>8
      <4>. QED
        BY <3>3, <3>4, <4>1, JoinedGroup
    <3>6. Sound(call[t], 1 .. call[t].i)'
      <4>1. Joined(h)[n] = sent \o bytes
        BY <2>8, <3>5
      <4>2. call'[t].msgs = msgs /\ call'[t].i = i /\ call'[t].sent = sent \o bytes
        BY <2>3, <2>5, <2>7
      <4>. QED
        BY <2>10, <3>2, <3>5, <4>1, <4>2 DEF Sound
    <3>. QED
      BY <1>1, <2>5, <2>9, <2>14, <3>6 DEF GotOK, At
  <2>15. CASE ~Msg(t).read
    <3>1. call'[t].got = got
      BY <1>1, <2>5, <2>6, <2>12, <2>15
    <3>2. sent \o bytes = sent
      BY <1>1, <2>2, <2>15, <2>16, ConcatEmptySeq
    <3>3. Has(msgs, got, 1 .. i)
      BY <2>3, <2>8, <2>9, <2>15, WritesGetNothing
    <3>4. Sound(call[t], 1 .. call[t].i)'
      <4>1. call'[t].msgs = msgs /\ call'[t].i = i /\ call'[t].sent = sent
        BY <2>3, <2>5, <2>7, <3>2
      <4>2. got \in Parts(n) /\ Joined(got)[n] = sent
        BY <2>8
      <4>. QED
        BY <2>10, <3>1, <3>3, <4>1, <4>2 DEF Sound
    <3>. QED
      BY <1>1, <2>5, <2>9, <2>15, <3>4 DEF GotOK, At
  <2>. QED
    BY <2>13, <2>14, <2>15
<1>4. CASE res' = "success" /\ call[t].at = "timed out"
  <2>. DEFINE answer == IF bus.read THEN Answer(device, bus.length) ELSE <<>>
  <2>1. call' = [call EXCEPT
          ![t].done = @ \cup Group(call[t].msgs, call[t].i),
          ![t].sent = @ \o answer,
          ![t].got[call[t].i] = IF bus.read /\ ~bus.buffered THEN answer ELSE @]
    BY <1>4 DEF Event
  <2>. HIDE DEF answer
  <2>2. call'[t].at = "timed out"
    BY <1>1, <1>4, <2>1 DEF Fields
  <2>. QED
    BY <2>2 DEF GotOK, At
<1>. QED
  BY <1>1, <1>2, <1>3, <1>4

LEMMA TakenGot ==
  ASSUME TwimInv, NEW t \in Thread, GotOK(t), Taken(t)
  PROVE  GotOK(t)'
<1>1. /\ DOMAIN call = Thread /\ DOMAIN call[t] = Fields
      /\ At(t, "wait") /\ completion = 1 /\ completion' = 0 /\ bus' = bus /\ bus = None
      /\ ~ConcatNext(call[t].msgs, call[t].i)
  BY DEF TwimInv, CallOK, BusOK, Taken
<1>2. CASE ~IsSuccess
  BY <1>2, BreakGot DEF Taken, Error
<1>3. CASE IsSuccess
  <2>. DEFINE msgs == call[t].msgs
              i == call[t].i
              n == Len(msgs)
              last == i = n
  <2>1. /\ call'[t].msgs = msgs /\ call'[t].used = 0 /\ call'[t].sent = call[t].sent
        /\ call'[t].got = IF Msg(t).read /\ call[t].used # 0
                            THEN CopyBack(msgs, i, call[t].used, buffer, call[t].got)
                            ELSE call[t].got
        /\ call'[t].i = (IF last THEN i ELSE i + 1)
        /\ call'[t].at = (IF last THEN "exit" ELSE "loop")
    BY <1>1, <1>3 DEF Taken, Fields, Number
  <2>2. msgs \in Listing /\ i \in 1 .. n /\ n \in Nat /\ i \in Nat \ {0}
    BY <1>1, MessageFacts DEF At, Number
  <2>3. Sound(call[t]', 1 .. i)
    <3>1. CASE Msg(t).read /\ call[t].used # 0
      <4>1. StillInBuffer(call[t])
        BY <1>1, <1>3, <3>1 DEF GotOK, IsSuccess
      <4>2. PICK got \in Parts(n) : got = call[t].got
        BY <4>1 DEF StillInBuffer
      <4>3. PICK used \in Nat : used = call[t].used
        BY DEF TwimInv, CallOK
      <4>4. PICK bytes \in Seq(Byte) : bytes = buffer
        BY DEF TwimInv, GlobalsOK
      <4>5. /\ Has(msgs, got, Earlier(msgs, i)) /\ call[t].sent \in Seq(Byte)
            /\ Joined(got)[n] \o bytes = call[t].sent
            /\ used = EndOf(msgs, i) /\ used = Len(bytes) /\ msgs[i].read
        BY <3>1, <4>1, <4>2, <4>3, <4>4 DEF StillInBuffer, Msg
      <4>6. PICK h : h = CopyBack(msgs, i, used, bytes, got)
        OBVIOUS
      <4>7. IsCopied(h, msgs, i, bytes, got)
        BY <2>2, <4>5, <4>6, CopiedBack
      <4>8. h \in Parts(n) /\ Joined(h)[n] = Joined(got)[n] \o bytes /\ Has(msgs, h, 1 .. i)
        BY <2>2, <4>5, <4>7, JoinedGroup
      <4>9. call'[t].got = h
        BY <2>1, <3>1, <4>2, <4>3, <4>4, <4>6
      <4>. QED
        BY <2>1, <4>5, <4>8, <4>9 DEF Sound
    <3>2. CASE ~(Msg(t).read /\ call[t].used # 0)
      <4>1. Sound(call[t], 1 .. i)
        BY <1>1, <1>3, <3>2 DEF GotOK, IsSuccess
      <4>. QED
        BY <2>1, <3>2, <4>1 DEF Sound
    <3>. QED
      BY <3>1, <3>2
  <2>4. CASE last
    BY <2>1, <2>3, <2>4 DEF GotOK, At, Number
  <2>5. CASE ~last
    <3>1. i < n
      BY <2>2, <2>5
    <3>2. Offset(msgs)[i + 1] = 0
      BY <1>1, <2>2, <3>1, OffsetGrows
    <3>3. Earlier(msgs, i + 1) = 1 .. i
      BY <1>1, <2>2, EarlierGrows
    <3>. QED
      BY <2>1, <2>3, <2>5, <3>2, <3>3 DEF GotOK, At
  <2>. QED
    BY <2>4, <2>5
<1>. QED
  BY <1>2, <1>3

LEMMA LeaveGot ==
  ASSUME TwimInv, NEW t \in Thread, GotOK(t), TimeOut(t) \/ Recover(t) \/ Exit(t) \/ Return(t)
  PROVE  GotOK(t)'
<1>1. DOMAIN call = Thread /\ DOMAIN call[t] = Fields
  BY DEF TwimInv, CallOK
<1>2. CASE TimeOut(t)
  <2>1. call'[t].at = "timed out"
    BY <1>1, <1>2 DEF TimeOut, Fields
  <2>. QED
    BY <2>1 DEF GotOK, At
<1>3. CASE Recover(t)
  BY <1>3, BreakGot DEF Recover, Error
<1>4. CASE Exit(t)
  <2>1. At(t, "exit") /\ call' = [call EXCEPT ![t].at = "returned"]
    BY <1>4 DEF Exit
  <2>2. /\ call'[t].at = "returned" /\ call'[t].ret = call[t].ret
        /\ call'[t].msgs = call[t].msgs /\ call'[t].got = call[t].got
        /\ call'[t].sent = call[t].sent
    BY <1>1, <2>1 DEF Fields
  <2>3. call[t].ret = "ok" => Sound(call[t], 1 .. Len(call[t].msgs))
    BY <2>1 DEF GotOK, At, Number
  <2>4. call[t].ret = "ok" => Sound(call[t], 1 .. Len(call[t].msgs))'
    BY <2>2, <2>3 DEF Sound
  <2>. QED
    BY <2>2, <2>4 DEF GotOK, At, Number
<1>5. CASE Return(t)
  <2>1. call'[t].at = "idle"
    BY <1>1, <1>5 DEF Return, Idle
  <2>. QED
    BY <2>1 DEF GotOK, At
<1>. QED
  BY <1>2, <1>3, <1>4, <1>5

LEMMA MovesGot ==
  ASSUME TwimInv, NEW t \in Thread, Moves(t), \A u \in Thread : GotOK(u)
  PROVE  \A u \in Thread : GotOK(u)'
<1>1. GotOK(t)'
  <2>1. CASE Event /\ bus.thread = t
    BY <2>1, EventGot
  <2>2. CASE Enter(t) \/ Reject(t) \/ Gather(t) \/ Submit(t) \/ Taken(t)
    BY <2>2, EnterGot, RejectGot, GatherGot, SubmitGot, TakenGot
  <2>3. CASE TimeOut(t) \/ Recover(t) \/ Exit(t)
    BY <2>3, LeaveGot
  <2>. QED
    BY <2>1, <2>2, <2>3 DEF Moves, Transfer
<1>2. \A u \in Thread : u # t => call'[u] = call[u] /\ call[u].at \notin Holding
  BY OthersWait
<1>3. \A u \in Thread : u # t => GotOK(u)'
  BY <1>2, ElsewhereGot
<1>. QED
  BY <1>1, <1>3

LEMMA ClientGot ==
  ASSUME DevInv, NEW t \in Thread, Begin(t) \/ Halfway(t) \/ Second(t) \/ Finish(t),
         \A u \in Thread : GotOK(u)
  PROVE  \A u \in Thread : GotOK(u)'
<1>1. CASE \E msgs \in Listing : Call(t, msgs)
  <2>1. PICK msgs \in Listing : Call(t, msgs)
    BY <1>1
  <2>2. UNCHANGED <<driverVars, bus>> /\ \A u \in Thread : u # t => call'[u] = call[u]
    BY <2>1, CallClient
  <2>3. GotOK(t)'
    BY <2>1, CallGot DEF DevInv
  <2>. QED
    BY <2>2, <2>3, UntouchedGot
<1>2. CASE Return(t)
  <2>1. UNCHANGED <<driverVars, bus>> /\ \A u \in Thread : u # t => call'[u] = call[u]
    BY <1>2, ReturnClient
  <2>2. GotOK(t)'
    BY <1>2, LeaveGot DEF DevInv
  <2>. QED
    BY <2>1, <2>2, UntouchedGot
<1>3. Begin(t) => \E msgs \in Listing : Call(t, msgs)
  <2>. SUFFICES ASSUME Begin(t)
                PROVE  \E msgs \in Listing : Call(t, msgs)
    OBVIOUS
  <2>1. PICK job \in Jobs[t] : Call(t, job.msgs)
    BY DEF Begin
  <2>2. job.msgs \in Listing
    BY JobAssumption
  <2>. QED
    BY <2>1, <2>2
<1>4. Second(t) => \E msgs \in Listing : Call(t, msgs)
  <2>. SUFFICES ASSUME Second(t)
                PROVE  \E msgs \in Listing : Call(t, msgs)
    OBVIOUS
  <2>1. PICK v : v = Inserted(op[t].field, byte[t], op[t].data)
    OBVIOUS
  <2>2. byte[t] \in Byte
    BY DEF DevInv
  <2>3. v \in Byte
    BY <2>1, <2>2, InsertedIsByte
  <2>4. BurstWrite(v) \in Listing
    BY <2>3, JobAssumption
  <2>. QED
    BY <2>1, <2>4 DEF Second
<1>5. Halfway(t) \/ Finish(t) => Return(t)
  BY DEF Halfway, Finish
<1>. QED
  BY <1>1, <1>2, <1>3, <1>4, <1>5

LEMMA GotStep ==
  ASSUME DevInv, \A u \in Thread : GotOK(u), [DevNext]_devVars
  PROVE  \A u \in Thread : GotOK(u)'
<1>1. CASE \E t \in Thread : Begin(t) \/ Halfway(t) \/ Second(t) \/ Finish(t)
  BY <1>1, ClientGot
<1>2. CASE Work
  <2>1. CASE Suspend
    BY <2>1, SuspendGot
  <2>2. CASE Event
    <3>1. Moves(bus.thread) /\ bus.thread \in Thread
      BY <2>2, BusIsHoldersOwn DEF DevInv, Event, Moves
    <3>. QED
      BY <3>1, MovesGot DEF DevInv
  <2>3. CASE \E t \in Thread : Transfer(t)
    BY <2>3, MovesGot DEF DevInv, Moves
  <2>. QED
    BY <1>2, <2>1, <2>2, <2>3 DEF Work, Working
<1>3. CASE Manage \/ UNCHANGED devVars
  <2>1. call' = call /\ UNCHANGED <<driverVars, bus>>
    BY <1>3 DEF Manage, Managing, Configure, Resume, devVars, twimVars
  <2>. QED
    BY <2>1, UntouchedGot
<1>. QED
  BY <1>1, <1>2, <1>3 DEF DevNext

\* A transfer that returns 0 has been done, and its messages have got what the device
\* sent for them, in order and in the lengths asked for: the parts of a gathered read
\* go back where they belong, whatever was gathered (i2c_twim.c:155-205).
THEOREM SuccessTheorem == DevSpec => []SuccessIsDone
<1>. DEFINE AllGot == \A u \in Thread : GotOK(u)
<1>1. DevInit => AllGot
  <2>. SUFFICES ASSUME DevInit, NEW u \in Thread
                PROVE  GotOK(u)
    OBVIOUS
  <2>1. call[u].at = "idle"
    BY DEF DevInit, TwimInit, Idle
  <2>. QED
    BY <2>1 DEF GotOK, At
<1>2. DevInv /\ AllGot /\ [DevNext]_devVars => AllGot'
  BY GotStep
<1>3. ASSUME DevInv, AllGot, NEW t \in Thread, Succeeded(t)
      PROVE  /\ Received(t) = call[t].sent
             /\ \A k \in Expected(t) : Len(call[t].got[k]) = call[t].msgs[k].length
  <2>1. call[t].at = "returned" /\ call[t].ret = "ok"
    BY <1>3 DEF Succeeded, At
  <2>2. call[t].msgs \in Listing
    BY <1>3, <2>1 DEF DevInv, TwimInv, CallOK, At
  <2>3. Sound(call[t], 1 .. Len(call[t].msgs))
    BY <1>3, <2>1 DEF GotOK, Number
  <2>4. Len(call[t].msgs) \in Nat /\ DOMAIN call[t].msgs = 1 .. Len(call[t].msgs)
    BY <2>2, ListFacts
  <2>5. Len(call[t].got) = Len(call[t].msgs)
    BY <2>3, <2>4, PartsAreSeq DEF Sound
  <2>6. Received(t) = call[t].sent
    BY <2>3, <2>5 DEF Received, Sound
  <2>7. \A k \in Expected(t) : Len(call[t].got[k]) = call[t].msgs[k].length
    BY <2>3, <2>4 DEF Expected, Sound, Has, Want
  <2>. QED
    BY <2>6, <2>7
<1>4. DevInv /\ AllGot /\ AllDone => SuccessIsDone
  BY <1>3 DEF SuccessIsDone
<1>. HIDE DEF AllGot
<1>. QED
  BY Invariance, TransfersDone, <1>1, <1>2, <1>4, PTL DEF DevSpec
=============================================================================
