------------------------------- MODULE I2cDev -------------------------------
(***************************************************************************)
(* What threads do with the bus, i2cdevInit.c: read and write a register   *)
(* of a device, or some bits of it.  Writing bits is two transfers, and    *)
(* nothing keeps another thread from writing the register between them.    *)
(* A transfer is one of I2cTwim.                                           *)
(***************************************************************************)
EXTENDS I2cTwim, FiniteSets

CONSTANTS
  Reg,    \* the number of the register
  Jobs    \* what each thread may do

VARIABLES
  op,     \* what each thread does
  byte,   \* the byte that each thread has read
  before, \* history: the register when a thread began to write bits
  raced   \* history: those during whose write another wrote the register

clientVars == <<op, byte, before, raced>>
devVars    == <<twimVars, clientVars>>

-----------------------------------------------------------------------------
(* Bits                                                                    *)

\* Mutant: the field starts one bit too high.
MaskTooHigh(f) == {b \in Bit : f.first - f.length + 1 < b /\ b <= f.first + 1}

Mask(f) == {b \in Bit : f.first - f.length < b /\ b <= f.first}

\* data << (bitStart - length + 1), what is left of it in a byte.
Shifted(f, data) == {b \in Bit : b - (f.first - f.length + 1) \in data}

\* i2cdevWriteBits
Inserted(f, value, data) == (value \ Mask(f)) \cup (Shifted(f, data) \cap Mask(f))

-----------------------------------------------------------------------------
(* Transfers                                                               *)

Part(read, stop, restart, bytes, n) ==
  [read |-> read, stop |-> stop, restart |-> restart, ten |-> FALSE,
   flash |-> FALSE, length |-> n, bytes |-> bytes]

\* i2c_burst_read: the register's number, then a read of its own.
BurstRead ==
  <<Part(FALSE, FALSE, FALSE, <<Reg>>, 1), Part(TRUE, TRUE, TRUE, <<>>, 1)>>

\* i2c_burst_write: the register's number and its value.
BurstWrite(value) ==
  <<Part(FALSE, FALSE, FALSE, <<Reg>>, 1), Part(FALSE, TRUE, FALSE, <<value>>, 1)>>

-----------------------------------------------------------------------------
(* Operations                                                              *)

\* What a thread does, how far it is, and whether a byte could be read.
Job(kind, field, data, msgs) ==
  [kind |-> kind, field |-> field, data |-> data, msgs |-> msgs, stage |-> 1,
   unread |-> FALSE]

NoField == [first |-> 0, length |-> 0]
NoJob   == Job("none", NoField, {}, <<>>)

\* A register read, a register written, a field of it written, which a single bit
\* is, too, and a list of messages that a driver hands over itself.
ReadReg       == Job("read", NoField, {}, BurstRead)
WriteReg(v)   == Job("write", NoField, v, BurstWrite(v))
WriteBits(f, v) == Job("bits", f, v, BurstRead)
WriteBit(b, v)  == Job("bit", [first |-> b, length |-> 1], v, BurstRead)
Transact(msgs)  == Job("list", NoField, {}, msgs)

\* The bits of a field lie in the byte.
ASSUME JobAssumption ==
  /\ {BurstRead} \cup {BurstWrite(v) : v \in Byte} \subseteq Listing
  /\ \A t \in Thread : \A job \in Jobs[t] :
       /\ job \in [kind : {"read", "write", "bits", "bit", "list"},
                   field : [first : Nat, length : Nat], data : Byte, msgs : Listing,
                   stage : {1}, unread : BOOLEAN]
       /\ ~job.unread
       /\ job.kind \in {"bits", "bit"} =>
            /\ job.msgs = BurstRead
            /\ job.field.first - job.field.length + 1 .. job.field.first \subseteq Bit

WritesBits(t) == op[t].kind \in {"bits", "bit"}

\* A job begins while CallLimit leaves it its transfers.
Begin(t) ==
  /\ op[t] = NoJob
  /\ \E job \in Jobs[t] :
       /\ job.kind \in {"bits", "bit"} => calls[t] + 2 <= CallLimit[t]
       /\ op' = [op EXCEPT ![t] = job]
       /\ Call(t, job.msgs)
  /\ before' = [before EXCEPT ![t] = IF WritesBits(t)' THEN device ELSE {}]
  /\ UNCHANGED <<byte, raced>>

\* i2cdevWriteBit does not look at the status of its read.
GoesOn(t) == call[t].ret = "ok" \/ op[t].kind = "bit"

\* The read of a write of bits is over.  If it failed, byte is what it was on the
\* stack.
Halfway(t) ==
  /\ WritesBits(t) /\ op[t].stage = 1
  /\ Return(t)
  /\ \E b \in IF call[t].ret = "ok" THEN {call[t].got[2][1]} ELSE Byte :
       byte' = [byte EXCEPT ![t] = IF GoesOn(t) THEN b ELSE {}]
  /\ op' = [op EXCEPT ![t] =
       IF GoesOn(t) THEN [@ EXCEPT !.stage = 2, !.unread = call[t].ret # "ok"] ELSE NoJob]
  /\ before' = IF GoesOn(t) THEN before ELSE [before EXCEPT ![t] = {}]
  /\ raced' = IF GoesOn(t) THEN raced ELSE raced \ {t}

Second(t) ==
  /\ op[t].stage = 2
  /\ Call(t, BurstWrite(Inserted(op[t].field, byte[t], op[t].data)))
  /\ op' = [op EXCEPT ![t].stage = 3]
  /\ byte' = [byte EXCEPT ![t] = {}]
  /\ UNCHANGED <<before, raced>>

Finish(t) ==
  /\ op[t] # NoJob
  /\ ~WritesBits(t) \/ op[t].stage = 3
  /\ Return(t)
  /\ op' = [op EXCEPT ![t] = NoJob]
  /\ before' = [before EXCEPT ![t] = {}]
  /\ raced' = raced \ {t}
  /\ UNCHANGED byte

\* A step of the bus; what it writes for one thread it writes behind the others.
Working(A) ==
  /\ A
  /\ raced' = IF device' = device THEN raced
              ELSE raced \cup {t \in Thread : WritesBits(t) /\ t # bus.thread}
  /\ UNCHANGED <<op, byte, before>>

Work == Working(Event \/ Suspend \/ \E t \in Thread : Transfer(t))

Managing(A) == A /\ UNCHANGED clientVars

Manage == Managing(Configure \/ Resume)

-----------------------------------------------------------------------------
DevInit ==
  /\ TwimInit
  /\ op = [t \in Thread |-> NoJob]
  /\ byte = [t \in Thread |-> {}]
  /\ before = [t \in Thread |-> {}]
  /\ raced = {}

DevNext ==
  \/ \E t \in Thread : Begin(t) \/ Halfway(t) \/ Second(t) \/ Finish(t)
  \/ Work
  \/ Manage

DevSpec == DevInit /\ [][DevNext]_devVars

\* The threads run; the kernel hands a free semaphore on and ends a wait after its
\* time.
FairDevSpec ==
  /\ DevSpec
  /\ \A t \in Thread :
       /\ SF_devVars(Working(Enter(t)))
       /\ WF_devVars(Working(Transfer(t) /\ ~At(t, "enter")))
       /\ WF_devVars(Halfway(t) \/ Second(t) \/ Finish(t))

-----------------------------------------------------------------------------
(* Properties                                                              *)

DevTypeOK ==
  /\ TwimTypeOK
  /\ \A t \in Thread :
       \E job \in Jobs[t] \cup {NoJob}, k \in 1 .. 3, u \in BOOLEAN :
         op[t] = [job EXCEPT !.stage = k, !.unread = u]
  /\ byte \in [Thread -> Byte]
  /\ before \in [Thread -> Byte]
  /\ raced \subseteq Thread

\* The bus belongs to one thread at a time and runs at the speed asked for, through
\* time-outs, suspending and resuming (i2c_twim.c:155-165, 211, 291-296).
BusIsSound == DevTypeOK /\ BusIsHolders /\ SpeedIsKept

\* A write of bits that is told to have gone well has set its field and nothing
\* else, although it is a read and a write later (i2cdevInit.c:129-137): unless
\* another thread wrote the register meanwhile, or a single bit went on from a
\* read that failed (117-120).
OtherBitsKept ==
  [][\A t \in Thread :
       WritesBits(t) /\ op[t].stage = 3 /\ op'[t] = NoJob /\ call[t].ret = "ok" =>
         LET f == op[t].field
             low == f.first - f.length + 1
             bits == low .. f.first
         IN  \/ t \in raced
             \/ op[t].unread
             \/ /\ device \ bits = before[t] \ bits
                /\ {b - low : b \in device \cap bits} = op[t].data \cap 0 .. f.length - 1
     ]_devVars

\* Every operation ends, whatever the bus does: a transfer that fails gives
\* transfer_sync back, too (lines 210-211).
JobEnds == \A t \in Thread : op[t] # NoJob ~> op[t] = NoJob
=============================================================================
