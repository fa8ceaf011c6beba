------------------------------- MODULE I2cDrv -------------------------------
(***************************************************************************)
(* The former driver of a bus, i2c_drv.c.  A thread copies its message to  *)
(* the driver under isBusFreeMutex, asks for a start condition and waits   *)
(* for isBusFreeSemaphore, a second at most; the interrupts of the port    *)
(* and of the DMA then carry the message from one event to the next.  They *)
(* have one priority: none interrupts another, all interrupt the threads.  *)
(*                                                                         *)
(* The port and the device on the bus are external: the device may refuse  *)
(* what it is sent, the port may be silent at any point, and the handler   *)
(* of an event may run so late that the last byte has left the port.       *)
(*                                                                         *)
(* The file is not among those that the build compiles.  The setup of the  *)
(* DMA, which it calls, is commented out (287-316): it is taken to be done. *)
(***************************************************************************)
EXTENDS Integers, Sequences

CONSTANTS
  Thread,     \* the threads that use the bus
  Free,       \* the holder of a free mutex
  Message,    \* what they may ask for
  MaxRetries, \* I2C_MAX_RETRIES
  Counts,     \* how many values nbrOfRetries has; in the code 256
  CallLimit   \* how many transfers each of them asks for

\* A message is read or written; its register has a number of some bytes, or none,
\* I2C_NO_INTERNAL_ADDRESS.
ASSUME DrvAssumption ==
  /\ Free \notin Thread
  /\ Counts \in Nat /\ MaxRetries \in 0 .. Counts - 1
  /\ CallLimit \in [Thread -> Nat]
  /\ Message \subseteq [read : BOOLEAN, address : 0 .. 2, length : Nat \ {0}]

VARIABLES
  mutex,      \* the thread that has taken isBusFreeMutex
  semaphore,  \* the count of isBusFreeSemaphore
  tx,         \* txMessage, its status and the retries left
  index,      \* messageIndex
  events,     \* are event interrupts enabled?  Those of the buffer?
  dma,        \* is the DMA set to read, its interrupts enabled?
  port,       \* what the port is doing
  wire,       \* what it has sent since the start condition
  spinning,   \* is a handler waiting for a start condition to go out?
  request,    \* what each thread has asked for, and how far it is
  pointed,    \* history: what was sent before the port turned to reading
  doubt,      \* history: what may have spoilt the transfer on the bus
  overtaken,  \* history: has an interrupt overtaken the end of a wait?
  calls       \* how many transfers each thread has asked for

portVars    == <<index, events, dma, port, wire>>
historyVars == <<pointed, doubt, overtaken>>
drvVars     == <<mutex, semaphore, tx, portVars, spinning, request, historyVars, calls>>

Phase == {"off", "start", "to send", "to receive", "sending", "receiving"}
Doubt == {"unclean", "retried", "late"}

At(t, place) == request[t].at = place
Moved(t, place) == request' = [request EXCEPT ![t].at = place]

\* t has waited in vain and has not reset the port yet.
Expired(t) == request[t].at \in {"expired", "cleared", "unlocked"}

NoMessage == [read |-> FALSE, address |-> 0, length |-> 1]
NoRequest == [at |-> "idle", message |-> NoMessage, ok |-> FALSE]

\* 0 stands for a byte of the register's number, j for byte j of the buffer.
Number(message) == [j \in 1 .. message.address |-> 0]
Whole(message)  == Number(message) \o [j \in 1 .. message.length |-> j]

-----------------------------------------------------------------------------
(* What the handlers do                                                    *)

\* i2cNotifyClient
Notify ==
  /\ semaphore' = 1
  /\ overtaken' = (overtaken \/ \E t \in Thread : Expired(t))

\* i2cTryNextMessage: a stop condition.
TryNextMessage == port' = "off" /\ events' = [event |-> FALSE, buffer |-> FALSE]

Finish(status) ==
  /\ tx' = [tx EXCEPT !.status = status]
  /\ Notify
  /\ TryNextMessage

-----------------------------------------------------------------------------
(* The event interrupt                                                     *)

\* Is the address sent as a transmitter's?
Transmits == ~tx.read \/ tx.address # 0

\* Mutant: a retry goes on where the last attempt ended.
IndexKept == index

IndexAtStart == 0

StartBit ==
  /\ port = "start" /\ events.event
  /\ index' = IndexAtStart
  /\ port' = IF Transmits THEN "to send" ELSE "to receive"
  /\ wire' = IF Transmits THEN <<>> ELSE wire
  /\ UNCHANGED <<mutex, semaphore, tx, events, dma, request, historyVars, calls>>

\* The number of the register is sent, and forgotten.
AddressToSend ==
  /\ port = "to send" /\ events.event
  /\ port' = "sending"
  /\ wire' = Number(tx)
  /\ tx' = [tx EXCEPT !.address = 0]
  /\ events' = [events EXCEPT !.buffer = TRUE]
  /\ UNCHANGED <<mutex, semaphore, index, dma, request, historyVars, calls>>

AddressToReceive ==
  /\ port = "to receive" /\ events.event
  /\ port' = "receiving"
  /\ events' = [event |-> FALSE, buffer |-> FALSE]
  /\ dma' = TRUE
  /\ UNCHANGED <<mutex, semaphore, tx, index, wire, request, historyVars, calls>>

AllSent(i) == i = tx.length

\* The register's number precedes a read: the port has to turn round.
BufferEmpty ==
  /\ port = "sending" /\ events.event /\ events.buffer
  /\ IF tx.read
       THEN /\ events' = [events EXCEPT !.buffer = FALSE]
            /\ UNCHANGED <<index, wire>>
       ELSE /\ wire' = Append(wire, index + 1)
            /\ index' = index + 1
            /\ events' = [events EXCEPT !.buffer = ~AllSent(index + 1)]
  /\ UNCHANGED <<mutex, semaphore, tx, dma, port, request, historyVars, calls>>

\* The last byte has left the port.  If the buffer's interrupt is enabled, its
\* handler comes too late to have filled it, and the message ends here.  The handler
\* of a read waits, in the interrupt, until the start condition has gone out (550).
ByteFinished ==
  /\ port = "sending" /\ events.event /\ wire # <<>>
  /\ doubt' = IF events.buffer /\ ~tx.read THEN doubt \cup {"late"} ELSE doubt
  /\ IF tx.read
       THEN /\ port' = "start"
            /\ pointed' = wire
            /\ UNCHANGED <<semaphore, tx, events, overtaken>>
       ELSE Finish(tx.status) /\ UNCHANGED pointed
  /\ spinning' = tx.read
  /\ UNCHANGED <<mutex, index, dma, wire, request, calls>>

\* The port, external: it has sent the start condition, and clears the bit.
StartSent ==
  /\ spinning
  /\ spinning' = FALSE
  /\ UNCHANGED <<mutex, semaphore, tx, portVars, request, historyVars, calls>>

-----------------------------------------------------------------------------
(* The error and the DMA interrupts                                        *)

\* The device refuses its address or a byte.  (nbrOfRetries has no sign.)
Refused ==
  /\ port \in {"to send", "to receive", "sending"}
  /\ IF tx.retries > 0
       THEN /\ tx' = [tx EXCEPT !.retries = @ - 1]
            /\ port' = "start"
            /\ doubt' = IF tx.numbered /\ port = "sending" THEN doubt \cup {"retried"} ELSE doubt
            /\ UNCHANGED <<semaphore, events, overtaken>>
       ELSE /\ tx' = [tx EXCEPT !.retries = (@ - 1) % Counts, !.status = "nack"]
            /\ Notify
            /\ TryNextMessage
            /\ UNCHANGED doubt
  /\ UNCHANGED <<mutex, index, dma, wire, request, pointed, calls>>

\* i2cdrvClearDMA
ClearDMA == dma' = FALSE

Received ==
  /\ port = "receiving" /\ dma
  /\ ClearDMA
  /\ Finish(tx.status)
  /\ UNCHANGED <<mutex, index, wire, request, pointed, doubt, calls>>

\* The DMA is not cleared after an error.
TransferError ==
  /\ port = "receiving" /\ dma
  /\ Finish("nack")
  /\ UNCHANGED <<mutex, index, dma, wire, request, pointed, doubt, calls>>

-----------------------------------------------------------------------------
(* i2cdrvMessageTransfer                                                   *)

Call(t) ==
  /\ At(t, "idle") /\ calls[t] < CallLimit[t]
  /\ \E message \in Message :
       request' = [request EXCEPT ![t] = [at |-> "asked", message |-> message, ok |-> FALSE]]
  /\ calls' = [calls EXCEPT ![t] = @ + 1]
  /\ UNCHANGED <<mutex, semaphore, tx, portVars, historyVars>>

\* numbered remembers that the message has a register, for the history.
CopyMessage(t) ==
  /\ At(t, "asked") /\ mutex = Free
  /\ mutex' = t
  /\ LET m == request[t].message
     IN  tx' = [read |-> m.read, address |-> m.address, length |-> m.length,
                numbered |-> m.address # 0, status |-> "ack", retries |-> MaxRetries]
  /\ Moved(t, "copied")
  /\ UNCHANGED <<semaphore, portVars, historyVars, calls>>

\* isBusFreeSemaphore is not emptied.
StartTransfer(t) ==
  /\ At(t, "copied")
  /\ dma' = (dma \/ tx.read)
  /\ events' = [event |-> TRUE, buffer |-> FALSE]
  /\ port' = "start"
  /\ doubt' = IF semaphore = 0 /\ port = "off" THEN {} ELSE {"unclean"}
  /\ pointed' = <<>>
  /\ Moved(t, "waiting")
  /\ UNCHANGED <<mutex, semaphore, tx, index, wire, overtaken, calls>>

Woken(t) ==
  /\ At(t, "waiting") /\ semaphore = 1
  /\ semaphore' = 0
  /\ Moved(t, "woken")
  /\ UNCHANGED <<mutex, tx, portVars, historyVars, calls>>

\* Mutant: portMAX_DELAY.
WaitForEver(t) == FALSE

Expire(t) ==
  /\ At(t, "waiting") /\ semaphore = 0
  /\ Moved(t, "expired")
  /\ UNCHANGED <<mutex, semaphore, tx, portVars, historyVars, calls>>

Clear(t) ==
  /\ At(t, "expired")
  /\ ClearDMA
  /\ Moved(t, "cleared")
  /\ UNCHANGED <<mutex, semaphore, tx, index, events, port, wire, historyVars, calls>>

\* i2cdrvTryToRestartBus clocks the device until it lets go of the bus; the port is
\* as it was ...
UnlockBus(t) ==
  /\ At(t, "cleared")
  /\ Moved(t, "unlocked")
  /\ UNCHANGED <<mutex, semaphore, tx, portVars, historyVars, calls>>

\* ... until it is reset.
Restart(t) ==
  /\ At(t, "unlocked")
  /\ port' = "off"
  /\ events' = [event |-> FALSE, buffer |-> FALSE]
  /\ Moved(t, "restarted")
  /\ UNCHANGED <<mutex, semaphore, tx, index, dma, wire, historyVars, calls>>

Leave(t) ==
  /\ At(t, "woken") \/ At(t, "restarted")
  /\ mutex' = Free
  /\ request' = [request EXCEPT ![t].at = "left",
                                ![t].ok = At(t, "woken") /\ tx.status = "ack"]
  /\ UNCHANGED <<semaphore, tx, portVars, historyVars, calls>>

Return(t) ==
  /\ At(t, "left")
  /\ request' = [request EXCEPT ![t] = NoRequest]
  /\ UNCHANGED <<mutex, semaphore, tx, portVars, historyVars, calls>>

-----------------------------------------------------------------------------
DrvInit ==
  /\ mutex = Free
  /\ semaphore = 0
  /\ tx = [read |-> FALSE, address |-> 0, length |-> 1, numbered |-> FALSE,
           status |-> "ack", retries |-> 0]
  /\ index = 0
  /\ events = [event |-> FALSE, buffer |-> FALSE]
  /\ dma = FALSE
  /\ port = "off"
  /\ wire = <<>>
  /\ spinning = FALSE
  /\ request = [t \in Thread |-> NoRequest]
  /\ pointed = <<>>
  /\ doubt = {}
  /\ overtaken = FALSE
  /\ calls = [t \in Thread |-> 0]

Interrupt ==
  \/ ByteFinished
  \/ /\ \/ StartBit
        \/ AddressToSend
        \/ AddressToReceive
        \/ BufferEmpty
        \/ Refused
        \/ Received
        \/ TransferError
     /\ UNCHANGED spinning

Ending(t) ==
  \/ Woken(t)
  \/ Expire(t) \/ Clear(t) \/ UnlockBus(t) \/ Restart(t)
  \/ Leave(t) \/ Return(t)

\* What a thread does, as long as no handler keeps the processor.
Copies(t)   == CopyMessage(t) /\ ~spinning /\ UNCHANGED spinning
Proceeds(t) == (StartTransfer(t) \/ Ending(t)) /\ ~spinning /\ UNCHANGED spinning

DrvNext ==
  \/ Interrupt /\ ~spinning
  \/ StartSent
  \/ \E t \in Thread :
       \/ Call(t) /\ ~spinning /\ UNCHANGED spinning
       \/ Copies(t) \/ Proceeds(t)

DrvSpec == DrvInit /\ [][DrvNext]_drvVars

\* The threads run, a wait ends after its time, the mutex is handed on, and a
\* device that is clocked lets go of the bus.  Nothing is asked of the port.
FairDrvSpec ==
  /\ DrvSpec
  /\ \A t \in Thread :
       /\ SF_drvVars(Copies(t))
       /\ WF_drvVars(Proceeds(t))

-----------------------------------------------------------------------------
(* Properties                                                              *)

TypeOK ==
  /\ mutex \in Thread \cup {Free}
  /\ semaphore \in 0 .. 1
  /\ tx \in [read : BOOLEAN, address : 0 .. 2, length : {m.length : m \in Message} \cup {1},
             numbered : BOOLEAN, status : {"ack", "nack"},
             retries : 0 .. Counts - 1]
  /\ index \in Nat
  /\ doubt = {} /\ port = "sending" => index <= tx.length
  /\ events \in [event : BOOLEAN, buffer : BOOLEAN]
  /\ {dma, overtaken, spinning} \subseteq BOOLEAN
  /\ port \in Phase
  /\ {wire, pointed} \subseteq Seq(Nat)
  /\ \A t \in Thread : request[t].message \in Message \cup {NoMessage}
  /\ doubt \subseteq Doubt
  /\ \A t \in Thread : calls[t] \in 0 .. CallLimit[t]

\* Unless an interrupt has come between the end of a wait and the reset of the
\* port (lines 416-426), a transfer meets an empty semaphore and a port at rest:
\* every notification has found its transfer, every transfer has had one.
StartsClean == "unclean" \in doubt => overtaken

\* A transfer that is about to report success has sent its register and all its
\* bytes, or the register it then read from: unless it met an old notification,
\* was refused after its register's number had been sent (line 488) and retried
\* without it (594), or an interrupt came so late that it was taken for the last
\* (520-534).
SuccessIsSound ==
  \A t \in Thread :
    At(t, "woken") /\ tx.status = "ack" /\ doubt = {} =>
      LET m == request[t].message
      IN  IF m.read THEN pointed = Number(m) ELSE wire = Whole(m)

\* No transfer takes up, or is told of, what another one left.
TransferIsSound == TypeOK /\ StartsClean /\ SuccessIsSound

\* A start condition that a handler waits for goes out in the end.
StartsGoOut == []<>~spinning

\* Every transfer ends, whatever else the port does: the wait of a thread has a limit,
\* the one of the handler, which lets no thread run, has none (550).
TransferEnds == StartsGoOut => \A t \in Thread : At(t, "asked") ~> At(t, "left")
=============================================================================
