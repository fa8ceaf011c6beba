------------------------------ MODULE I2cTwim ------------------------------
(***************************************************************************)
(* The driver of the I2C bus, i2c_twim.c.  A thread that transfers a list  *)
(* of messages takes transfer_sync, hands the peripheral one message after *)
(* the other and waits for completion_sync, which the interrupt gives; it  *)
(* waits 500 ms at most.  An interrupt may come after that, up to the time *)
(* the thread has disabled the peripheral.                                 *)
(*                                                                         *)
(* Messages in one direction that the bus need not separate are gathered   *)
(* in a buffer, as are those that are in flash.                            *)
(*                                                                         *)
(* The peripheral and the device on the bus are external: a transfer is    *)
(* refused, answered, done or not, or never ends.  The device has one      *)
(* register, read from its start and written with two bytes, the           *)
(* register's number and its value.                                        *)
(***************************************************************************)
EXTENDS Integers, Sequences

CONSTANTS
  Thread,      \* the threads that use the bus
  Free,        \* the holder of a free semaphore
  None,        \* no transfer
  Bit,         \* the bits of a byte
  Message,     \* the messages threads may ask for
  Listing,     \* the lists of messages they may ask for
  ConcatSize,  \* zephyr,concat-buf-size
  FlashSize,   \* zephyr,flash-buf-max-size
  DefaultSpeed,\* clock-frequency
  Speed,       \* the supported speeds
  CallLimit    \* how many transfers each thread asks for

Byte == SUBSET Bit

\* What the peripheral works on.
Submitted ==
  [thread : Thread, read : BOOLEAN, buffered : BOOLEAN, bytes : Seq(Byte), length : Nat]

ASSUME BusAssumption ==
  /\ Free \notin Thread
  /\ None \notin Speed /\ None \notin Submitted
  /\ Bit \subseteq Nat
  /\ DefaultSpeed \in Speed
  /\ ConcatSize \in Nat /\ FlashSize \in Nat
  /\ CallLimit \in [Thread -> Nat]
  /\ Listing \subseteq Seq(Message) \ {<<>>}

\* Their flags, whether they are in flash, their length and what they write.
ASSUME MessageAssumption ==
  \A m \in Message :
    /\ {m.read, m.stop, m.restart, m.ten, m.flash} \subseteq BOOLEAN
    /\ m.length \in Nat
    /\ m.bytes \in Seq(Byte)
    /\ m.read => m.bytes = <<>>
    /\ ~m.read => m.length = Len(m.bytes)

VARIABLES
  transferSync,  \* the thread that has taken transfer_sync
  completion,    \* the count of completion_sync
  res,           \* what the interrupt has reported last
  buffer,        \* msg_buf
  call,          \* each thread's call of i2c_nrfx_twim_transfer
  bus,           \* the transfer under way
  device,        \* the register of the device
  power,         \* is the peripheral initialised?
  frequency,     \* the speed it is set to
  config,        \* dev_config, the speed that was asked for, or None
  calls          \* how many transfers each thread has asked for

driverVars == <<transferSync, completion, res, buffer>>
speedVars  == <<power, frequency, config>>
twimVars   == <<driverVars, call, bus, device, speedVars, calls>>

\* The three errors are told apart in what is logged only.
Result == {"success", "error"}
Error  == {"ENOTSUP", "ENOSPC", "EINVAL", "EBUSY", "EIO"}

At(t, place) == call[t].at = place

\* The message under way, and how many there are.
Msg(t) == call[t].msgs[call[t].i]
Number(t) == Len(call[t].msgs)

-----------------------------------------------------------------------------
(* Messages                                                                *)

Idle == [at |-> "idle", msgs |-> <<>>, i |-> 1, used |-> 0, ret |-> "ok",
         got |-> <<>>, done |-> {}, sent |-> <<>>]

\* A fragment is merged with the next if it neither ends a transaction nor
\* changes its direction, nor the next one starts one.
ConcatNext(msgs, i) ==
  /\ i < Len(msgs)
  /\ ~msgs[i].stop
  /\ ~msgs[i + 1].restart
  /\ msgs[i].read = msgs[i + 1].read

\* Does it go through the buffer?  Then a written one is copied.
Gathered(t) == ConcatNext(call[t].msgs, call[t].i) \/ call[t].used # 0
FromFlash(t) == ~Gathered(t) /\ ~Msg(t).read /\ Msg(t).flash
InBuffer(t) == Gathered(t) \/ FromFlash(t)

Used(t) == IF InBuffer(t) THEN call[t].used + Msg(t).length ELSE 0

Filled(t) ==
  IF InBuffer(t) /\ ~Msg(t).read
    THEN SubSeq(buffer, 1, call[t].used) \o Msg(t).bytes
    ELSE buffer

\* Mutant: every part gets the start of the buffer.
CopyFromStart(msgs, i, used, bytes, got) ==
  LET copied[j \in 0 .. i] ==
        [u \in 0 .. used |->
           IF j = 0 \/ u < msgs[j].length THEN got
           ELSE [copied[j - 1][u - msgs[j].length] EXCEPT
                   ![j] = SubSeq(bytes, 1, msgs[j].length)]]
  IN  copied[i][used]

\* The parts of the buffer go to the messages they were gathered from, from the
\* last one back.  (The code looks at a length before the first message's, too;
\* whatever it is, no byte moves.)
CopyBack(msgs, i, used, bytes, got) ==
  LET copied[j \in 0 .. i] ==
        [u \in 0 .. used |->
           IF j = 0 \/ u < msgs[j].length THEN got
           ELSE [copied[j - 1][u - msgs[j].length] EXCEPT
                   ![j] = SubSeq(bytes, u - msgs[j].length + 1, u)]]
  IN  copied[i][used]

-----------------------------------------------------------------------------
(* The bus and its device                                                  *)

Written(d, bytes) == IF Len(bytes) = 2 THEN bytes[2] ELSE d
Answer(d, n) == [k \in 1 .. n |-> IF k = 1 THEN d ELSE Bit \ d]

\* The messages of the transfer that message i ends.
Group(msgs, i) ==
  {j \in 1 .. i : \A k \in j .. i - 1 : ConcatNext(msgs, k)}

Effect == IF bus.read THEN device ELSE Written(device, bus.bytes)

\* The bytes of a transfer that is stopped may have reached the device even so.
Reached == IF bus = None THEN {device} ELSE {device, Effect}

-----------------------------------------------------------------------------
(* i2c_nrfx_twim_transfer                                                  *)

Call(t, msgs) ==
  /\ At(t, "idle")
  /\ calls[t] < CallLimit[t]
  /\ call' = [call EXCEPT ![t] =
       [Idle EXCEPT !.at = "enter", !.msgs = msgs, !.got = [k \in DOMAIN msgs |-> <<>>]]]
  /\ calls' = [calls EXCEPT ![t] = @ + 1]
  /\ UNCHANGED <<driverVars, bus, device, speedVars>>

\* Mutant: completion_sync is left as it is.
LeftOver == completion

\* The dummy take.  What is in the buffer still is of no use to anybody.
Emptied == 0

Enter(t) ==
  /\ At(t, "enter") /\ transferSync = Free
  /\ transferSync' = t
  /\ completion' = Emptied
  /\ buffer' = <<>>
  /\ call' = [call EXCEPT ![t].at = "loop"]
  /\ UNCHANGED <<res, bus, device, speedVars, calls>>

Break(t, error) == call' = [call EXCEPT ![t].at = "exit", ![t].ret = error]

\* What is wrong with the message, before anything is sent.
Fault(t) ==
  CASE Msg(t).ten -> "ENOTSUP"
    [] ~Msg(t).ten /\ Gathered(t) /\ Used(t) > ConcatSize -> "ENOSPC"
    [] ~Msg(t).ten /\ FromFlash(t) /\ Used(t) > FlashSize -> "EINVAL"
    [] OTHER -> "none"

Reject(t) ==
  /\ At(t, "loop") /\ Fault(t) # "none"
  /\ Break(t, Fault(t))
  /\ UNCHANGED <<driverVars, bus, device, speedVars, calls>>

Gather(t) ==
  /\ At(t, "loop") /\ Fault(t) = "none" /\ ConcatNext(call[t].msgs, call[t].i)
  /\ buffer' = Filled(t)
  /\ call' = [call EXCEPT ![t].used = Used(t), ![t].i = @ + 1]
  /\ UNCHANGED <<transferSync, completion, res, bus, device, speedVars, calls>>

Submit(t) ==
  /\ At(t, "loop") /\ Fault(t) = "none" /\ ~ConcatNext(call[t].msgs, call[t].i)
  /\ buffer' = Filled(t)
  /\ \/ /\ bus = None
        /\ bus' = [thread |-> t, read |-> Msg(t).read, buffered |-> Used(t) # 0,
                   bytes |-> IF Used(t) = 0 THEN Msg(t).bytes
                             ELSE SubSeq(buffer', 1, IF Msg(t).read THEN 0 ELSE Used(t)),
                   length |-> IF Used(t) = 0 THEN Msg(t).length ELSE Used(t)]
        /\ call' = [call EXCEPT ![t].used = Used(t), ![t].at = "wait"]
     \/ \E error \in {"EBUSY", "EIO"} : Break(t, error) /\ UNCHANGED bus
  /\ UNCHANGED <<transferSync, completion, res, device, speedVars, calls>>

\* The interrupt: the event handler notes the result and gives completion_sync.
\* The bytes of a read are where the peripheral was told to put them.
Event ==
  /\ bus # None /\ power
  /\ \E result \in Result :
       /\ res' = result
       /\ IF result = "success"
            THEN LET t     == bus.thread
                     i     == call[t].i
                     bytes == IF bus.read THEN Answer(device, bus.length) ELSE <<>>
                 IN  /\ device' = Effect
                     /\ buffer' = IF bus.read /\ bus.buffered THEN bytes ELSE buffer
                     /\ call' = [call EXCEPT
                          ![t].done = @ \cup Group(call[t].msgs, i),
                          ![t].sent = @ \o bytes,
                          ![t].got[i] = IF bus.read /\ ~bus.buffered THEN bytes ELSE @]
            ELSE UNCHANGED <<device, buffer, call>>
  /\ completion' = 1
  /\ bus' = None
  /\ UNCHANGED <<transferSync, speedVars, calls>>

IsSuccess == res = "success"

Taken(t) ==
  /\ At(t, "wait") /\ completion = 1
  /\ completion' = 0
  /\ IF ~IsSuccess THEN Break(t, "EIO")
     ELSE LET c == call[t]
              last == c.i = Number(t)
          IN  call' = [call EXCEPT
                ![t].got = IF Msg(t).read /\ c.used # 0
                             THEN CopyBack(c.msgs, c.i, c.used, buffer, @) ELSE @,
                ![t].used = 0,
                ![t].i = IF last THEN @ ELSE @ + 1,
                ![t].at = IF last THEN "exit" ELSE "loop"]
  /\ UNCHANGED <<transferSync, res, buffer, bus, device, speedVars, calls>>

\* Mutant: K_FOREVER.
WaitForEver(t) == FALSE

TimeOut(t) ==
  /\ At(t, "wait") /\ completion = 0
  /\ call' = [call EXCEPT ![t].at = "timed out"]
  /\ UNCHANGED <<driverVars, bus, device, speedVars, calls>>

\* Mutant: the peripheral goes on.
NotStopped == bus

\* nrfx_twim_disable: no interrupt comes of what was under way.
Stopped == None

\* Disabled and recovered.
Recover(t) ==
  /\ At(t, "timed out")
  /\ device' \in Reached
  /\ bus' = Stopped
  /\ Break(t, "EIO")
  /\ UNCHANGED <<driverVars, speedVars, calls>>

GivenBack(t) == Free

Exit(t) ==
  /\ At(t, "exit")
  /\ bus' = Stopped
  /\ transferSync' = GivenBack(t)
  /\ call' = [call EXCEPT ![t].at = "returned"]
  /\ UNCHANGED <<completion, res, buffer, device, speedVars, calls>>

Return(t) ==
  /\ At(t, "returned")
  /\ call' = [call EXCEPT ![t] = Idle]
  /\ UNCHANGED <<driverVars, bus, device, speedVars, calls>>

-----------------------------------------------------------------------------
(* i2c_nrfx_twim_configure and twim_nrfx_pm_control                        *)

\* A speed that is not supported changes nothing.  It is configured
\* once here, and for a change.
Configure ==
  /\ config = None
  /\ \E speed \in Speed \ {frequency} : frequency' = speed /\ config' = speed
  /\ UNCHANGED <<driverVars, call, bus, device, power, calls>>

\* nrfx_twim_uninit stops what is under way, and no interrupt comes before the
\* device is resumed: nothing is asked about a transfer that is at work.
Suspend ==
  /\ power
  /\ power' = FALSE
  /\ bus' = None
  /\ device' \in Reached
  /\ UNCHANGED <<driverVars, call, frequency, config, calls>>

Restored == IF config = None THEN DefaultSpeed ELSE config

\* init_twim sets the default, configure what was asked for.
Resume ==
  /\ ~power
  /\ power' = TRUE
  /\ frequency' = Restored
  /\ UNCHANGED <<driverVars, call, bus, device, config, calls>>

-----------------------------------------------------------------------------
TwimInit ==
  /\ transferSync = Free
  /\ completion = 0
  /\ res = "success"
  /\ buffer = <<>>
  /\ call = [t \in Thread |-> Idle]
  /\ bus = None
  /\ device \in Byte
  /\ power = TRUE
  /\ frequency = DefaultSpeed
  /\ config = None
  /\ calls = [t \in Thread |-> 0]

Transfer(t) ==
  \/ Enter(t)
  \/ Reject(t)
  \/ Gather(t)
  \/ Submit(t)
  \/ Taken(t)
  \/ TimeOut(t)
  \/ Recover(t)
  \/ Exit(t)

TwimNext ==
  \/ \E t \in Thread : (\E msgs \in Listing : Call(t, msgs)) \/ Transfer(t) \/ Return(t)
  \/ Event
  \/ Configure
  \/ Suspend
  \/ Resume

TwimSpec == TwimInit /\ [][TwimNext]_twimVars

-----------------------------------------------------------------------------
(* Properties                                                              *)

TwimTypeOK ==
  /\ transferSync \in Thread \cup {Free}
  /\ completion \in 0 .. 1
  /\ res \in Result
  /\ buffer \in Seq(Byte)
  /\ \A t \in Thread :
       /\ call[t].at \in {"idle", "enter", "loop", "wait", "timed out", "exit", "returned"}
       /\ call[t].i \in 1 .. Number(t) \/ At(t, "idle")
       /\ call[t].msgs \in Listing \cup {<<>>}
       /\ call[t].used \in Nat
       /\ call[t].ret \in Error \cup {"ok"}
  /\ bus \in Submitted \cup {None}
  /\ device \in Byte
  /\ power \in BOOLEAN
  /\ frequency \in Speed
  /\ config \in Speed \cup {None}
  /\ \A t \in Thread : calls[t] \in 0 .. CallLimit[t]

\* What the bus does, it does for the thread that holds transfer_sync: the
\* messages of one transfer are not mixed with those of another (lines 59, 211).
BusIsHolders == bus # None => transferSync = bus.thread

Expected(t) == {k \in DOMAIN call[t].msgs : call[t].msgs[k].read}

\* What the first messages have got, for any number of them.
Joined(got) ==
  LET all[n \in 0 .. Len(got)] == IF n = 0 THEN <<>> ELSE all[n - 1] \o got[n]
  IN  all

Received(t) == Joined(call[t].got)[Len(call[t].got)]

Succeeded(t) == At(t, "returned") /\ call[t].ret = "ok"

\* A transfer that returns 0 has been done, every message of it: no interrupt of an
\* earlier transfer that came too late has ended it (lines 61-62, 155-165).
AllDone == \A t \in Thread : Succeeded(t) => call[t].done = DOMAIN call[t].msgs

\* It has been done, and each message has got the bytes that were sent for it, those
\* that went through the buffer as well (lines 155-205).
SuccessIsDone ==
  /\ AllDone
  /\ \A t \in Thread :
       Succeeded(t) =>
         /\ Received(t) = call[t].sent
         /\ \A k \in Expected(t) : Len(call[t].got[k]) = call[t].msgs[k].length

\* The peripheral runs at the speed that was asked for last, across suspending
\* and resuming (lines 291-296).
SpeedIsKept == power /\ config # None => frequency = config
=============================================================================
