-------------------------------- MODULE Log --------------------------------
(***************************************************************************)
(* The log, log.c: a client asks for blocks of variables, which timers and *)
(* the worker then turn into packets.                                      *)
(*                                                                         *)
(* Three threads: the log task answers requests under logLock; the timer   *)
(* task schedules a job for a block; the worker runs the jobs.  A job      *)
(* reads the head of its block's list before it takes the lock, and a job  *)
(* that finds the link lost resets the log without the lock.               *)
(*                                                                         *)
(* The code still calls FreeRTOS; the worker and the log task have the     *)
(* same priority, so either may run at any step.                           *)
(***************************************************************************)
EXTENDS Integers, Sequences, FiniteSets

CONSTANTS
  Id,            \* the numbers clients give their blocks
  FreeId,        \* BLOCK_ID_FREE
  Null,          \* the variable of a free operation, and no operation
  Memory,        \* the variable of a request that has an address instead of a number
  MaxBlocks,     \* LOG_MAX_BLOCKS
  MaxOps,        \* LOG_MAX_OPS
  MaxLength,     \* LOG_MAX_LEN
  Toc,           \* the table of contents: groups' starts and stops, variables
  Marker,        \* the number that stands for an address in a request
  MarkerV2,      \* the same, in a request of the second version
  SettingList,   \* what requests hold, as the loop over them divides it: sequences
                 \* of a number and a length
  TxSize,        \* CRTP_TX_QUEUE_SIZE
  JobSize,       \* WORKER_QUEUE_LENGTH
  RequestLimit   \* how many requests the client makes

ASSUME NameAssumption ==
  /\ FreeId \notin Id
  /\ Null # Memory /\ Null \notin Nat /\ Memory \notin Nat
  /\ Toc \in Seq([kind : {"start", "stop", "variable"}, name : STRING])

ASSUME NumberAssumption ==
  /\ MaxBlocks \in Nat \ {0} /\ MaxOps \in Nat \ {0} /\ MaxLength \in Nat
  /\ Marker \in Nat /\ MarkerV2 \in Nat
  /\ SettingList \subseteq Seq([id : Nat, length : Nat])
  /\ TxSize \in Nat \ {0} /\ JobSize \in Nat /\ RequestLimit \in Nat

VARIABLES
  blocks,    \* logBlocks: a number and the first operation
  timers,    \* what the timer task has been told of each block's timer
  pool,      \* logOps: a variable, a length, the next operation
  locked,    \* has the log task taken logLock?
  task,      \* the log task: where it is and what it works on
  worker,    \* the worker: where it is and what it works on
  jobs,      \* the blocks scheduled to run
  packets,   \* the packet the worker has made and not yet sent
  txQueue,   \* how many packets wait in txQueue
  connected, \* crtpIsConnected
  asked,     \* how many requests the client has made
  ticking,   \* the timers that the timer task runs
  overlap    \* history: the worker has reset the log while a request changed it

tables == <<blocks, timers, pool>>
outside == <<connected, asked>>
vars == <<tables, locked, task, worker, jobs, packets, txQueue, outside, ticking, overlap>>

Block == 0 .. MaxBlocks - 1
Op    == 0 .. MaxOps - 1

Least(S) == CHOOSE n \in S : \A k \in S : n <= k

-----------------------------------------------------------------------------
(* The table of contents                                                   *)

IsVariable(k) == Toc[k].kind = "variable"

\* The variables before place k.
Counted(k) == Cardinality({j \in 1 .. k - 1 : IsVariable(j)})

\* variableGetIndex: the place of the variable with this number, or Null.
VariableIndex(id) ==
  LET found == {k \in DOMAIN Toc : IsVariable(k) /\ Counted(k) = id}
  IN  IF found = {} THEN Null ELSE Least(found)

\* logTOCProcess counts for itself, and knows the group it is in; it has nothing to
\* say of a number out of range.
GroupAt(k) ==
  LET marks == {j \in 1 .. k - 1 : ~IsVariable(j)}
      last  == CHOOSE j \in marks : \A i \in marks : i <= j
  IN  IF marks = {} \/ Toc[last].kind = "stop" THEN "" ELSE Toc[last].name

TocItem(n) ==
  LET passed[k \in 1 .. Len(Toc) + 1] ==
        IF k = 1 THEN 0 ELSE passed[k - 1] + (IF IsVariable(k - 1) THEN 1 ELSE 0)
      found == {k \in 1 .. Len(Toc) : IsVariable(k) /\ passed[k] = n}
  IN  IF found = {} THEN <<>> ELSE <<GroupAt(Least(found)), Toc[Least(found)].name>>

\* logGetVarId: the place of a variable by its group and name.  A group lasts
\* until the next one starts.
CurrentGroup(k) ==
  LET starts == {j \in 1 .. k - 1 : Toc[j].kind = "start"}
  IN  IF starts = {} THEN "" ELSE Toc[CHOOSE j \in starts : \A i \in starts : i <= j].name

\* LOG_GROUP_START and LOG_GROUP_STOP bracket the variables of a group, and no
\* group has two variables of one name.
ASSUME TocAssumption ==
  \A k \in DOMAIN Toc : IsVariable(k) =>
    /\ \A j \in 1 .. k - 1 : Toc[j].kind = "stop" =>
         \E i \in j + 1 .. k - 1 : Toc[i].kind = "start"
    /\ \A j \in DOMAIN Toc :
         IsVariable(j) /\ CurrentGroup(j) = CurrentGroup(k) /\ Toc[j].name = Toc[k].name
           => j = k

VarId(group, name) ==
  LET found == {k \in DOMAIN Toc :
                  IsVariable(k) /\ CurrentGroup(k) = group /\ Toc[k].name = name}
  IN  IF found = {} THEN Null ELSE Least(found)

-----------------------------------------------------------------------------
(* Blocks and operations                                                   *)

\* The operations from this one on.  A list that does not end is cut.
Chain(p, first) ==
  LET walk[n \in 0 .. MaxOps] ==
        [o \in Op \cup {Null} |-> IF n = 0 \/ o = Null THEN <<>>
                                 ELSE <<o>> \o walk[n - 1][p[o].next]]
  IN  walk[MaxOps][first]

Ops(q) == {q[k] : k \in DOMAIN q}

Ends(p, first) ==
  LET c == Chain(p, first) IN c # <<>> => p[c[Len(c)]].next = Null

ItemAt(p, o) == [variable |-> p[o].variable, length |-> p[o].length]
Items(p, first) == LET c == Chain(p, first) IN [k \in DOMAIN c |-> ItemAt(p, c[k])]

LengthOf(item) == item.length
Lengths == UNION {{list[k].length : k \in DOMAIN list} : list \in SettingList}

Total(items) ==
  LET sum[n \in 0 .. Len(items)] ==
        IF n = 0 THEN 0 ELSE sum[n - 1] + LengthOf(items[n])
  IN  sum[Len(items)]

\* blockCalcLength
BlockLength(b) == Total(Items(pool, blocks[b].ops))

\* Mutant: any operation that is not the first of a list.
UnusedOps == {o \in Op : \A b \in Block : blocks[b].ops # o}

\* opsMalloc: the first of these.
FreeOps == {o \in Op : pool[o].variable = Null}

Live(b) == blocks[b].id # FreeId
LiveBlocks == {b \in Block : Live(b)}
WithId(i) == {b \in Block : blocks[b].id = i}

\* opsFree forgets only the variable.
Freed(p, ops) == [o \in Op |-> IF o \in ops THEN [p[o] EXCEPT !.variable = Null] ELSE p[o]]

-----------------------------------------------------------------------------
(* The log task                                                            *)

\* A packet without room for a number holds more settings than there are
\* operations: their number wraps around (log.c:390), and the loop goes on through
\* what lies behind the packet.
Request ==
  [cmd : {"create", "createV2", "append", "appendV2"}, id : Id,
   settings : SettingList]
  \cup [cmd : {"delete", "stop"}, id : Id]
  \cup [cmd : {"start"}, id : Id, period : {0, 1}]
  \cup [cmd : {"reset", "toc", "unknown"}]

Idle == [at |-> "idle"]

\* A request arrives: crtpReceivePacketBlock.
Receive(r) ==
  /\ task = Idle
  /\ asked < RequestLimit
  /\ asked' = asked + 1
  /\ task' = [at |-> "lock", request |-> r]
  /\ UNCHANGED <<tables, locked, worker, jobs, packets, txQueue, connected>>

Lock ==
  /\ task.at = "lock"
  /\ ~locked
  /\ locked' = TRUE
  /\ task' = [at |-> "run", request |-> task.request]
  /\ UNCHANGED <<tables, worker, jobs, packets, txQueue, outside>>

Asks(cmds) == task.at = "run" /\ task.request.cmd \in cmds

Finish(ret) == task' = [at |-> "answer", request |-> task.request, ret |-> ret]

GoOnWith(b, done) ==
  task' = [at |-> "append", request |-> task.request, block |-> b, done |-> done]

\* A job that runs for one of these blocks works on what it was not made for.
Outdate(gone) ==
  worker' = IF worker.at = "lock" /\ worker.block \in gone
              THEN [worker EXCEPT !.outdated = TRUE] ELSE worker

\* logCreateBlock, up to the append of its settings.
Create ==
  LET b == Least(Block \ LiveBlocks)
      i == task.request.id
  IN  /\ Asks({"create", "createV2"})
      /\ IF WithId(i) # {} \/ LiveBlocks = Block
           THEN /\ Finish(IF WithId(i) # {} THEN "EEXIST" ELSE "ENOMEM")
                /\ UNCHANGED tables
           ELSE /\ blocks' = [blocks EXCEPT ![b] = [id |-> i, ops |-> Null]]
                /\ timers' = [timers EXCEPT ![b] = "stopped"]
                /\ GoOnWith(b, 0)
                /\ UNCHANGED pool
      /\ UNCHANGED <<locked, worker, jobs, packets, txQueue, outside>>

\* logAppendBlock, up to its loop.
FindBlock ==
  /\ Asks({"append", "appendV2"})
  /\ IF WithId(task.request.id) = {}
       THEN Finish("ENOENT")
       ELSE GoOnWith(Least(WithId(task.request.id)), 0)
  /\ UNCHANGED <<tables, locked, worker, jobs, packets, txQueue, outside>>

Settings == task.request.settings
Current  == Settings[task.done + 1]

\* What a setting stands for in a request of the first version: a variable, or
\* the place behind the setting, in the packet p that the next request overwrites.
Reading(id)   == IF id = Marker   THEN Memory ELSE VariableIndex(id)
ReadingV2(id) == IF id = MarkerV2 THEN Memory ELSE VariableIndex(id)

IsV2 == task.request.cmd \in {"createV2", "appendV2"}

\* How far a round moves i.  Two settings of the first version are as long as an
\* address; two of the second are longer by two bytes (log.c:616).
StepOver(s) == IF s.id = (IF IsV2 THEN MarkerV2 ELSE Marker) THEN 3 ELSE 1

Fits(b, s) == BlockLength(b) + s.length <= MaxLength

\* One round of the loop of logAppendBlock: an operation is chosen and filled.
\* A list without end keeps the task in blockCalcLength, for ever.
AppendRound(version2, variable) ==
  LET b == task.block
      o == Least(FreeOps)
  IN  /\ task.at = "append"
      /\ IsV2 = version2
      /\ task.done < Len(Settings)
      /\ Ends(pool, blocks[b].ops)
      /\ IF Fits(b, Current) /\ FreeOps # {} /\ variable # Null
           THEN /\ pool' = [pool EXCEPT ![o].variable = variable,
                                        ![o].length = Current.length]
                /\ task' = [at |-> "link", request |-> task.request, block |-> b,
                            done |-> task.done, op |-> o]
           ELSE /\ Finish(IF ~Fits(b, Current) THEN "E2BIG"
                          ELSE IF FreeOps = {} THEN "ENOMEM" ELSE "ENOENT")
                /\ UNCHANGED pool
      /\ UNCHANGED <<blocks, timers, locked, worker, jobs, packets, txQueue, outside>>

AppendRoundV1 == task.at = "append" /\ AppendRound(FALSE, Reading(Current.id))
AppendRoundV2 == task.at = "append" /\ AppendRound(TRUE, ReadingV2(Current.id))

\* Mutant: the operation keeps the next one it had.
PutLastAsIs(p, first, o) ==
  LET c == Chain(p, first) IN IF c = <<>> THEN p ELSE [p EXCEPT ![c[Len(c)]].next = o]

\* The loop of blockAppendOps: o follows the last operation.
PutLast(p, first, o) ==
  LET q == [p EXCEPT ![o].next = Null]
      c == Chain(q, first)
  IN  IF c = <<>> THEN q ELSE [q EXCEPT ![c[Len(c)]].next = o]

\* blockAppendOps
Link ==
  LET b == task.block
  IN  /\ task.at = "link"
      /\ pool' = PutLast(pool, blocks[b].ops, task.op)
      /\ blocks' = [blocks EXCEPT ![b].ops = IF @ = Null THEN task.op ELSE @]
      /\ GoOnWith(b, task.done + StepOver(Current))
      /\ UNCHANGED <<timers, locked, worker, jobs, packets, txQueue, outside>>

Appended ==
  /\ task.at = "append"
  /\ task.done >= Len(Settings)
  /\ Finish("ok")
  /\ UNCHANGED <<tables, locked, worker, jobs, packets, txQueue, outside>>

\* logDeleteBlock of these blocks; their heads stay.
DeleteBlocks(gone) ==
  /\ pool' = Freed(pool, UNION {Ops(Chain(pool, blocks[b].ops)) : b \in gone})
  /\ timers' = [b \in Block |-> IF b \in gone THEN "none" ELSE timers[b]]
  /\ blocks' = [b \in Block |-> IF b \in gone THEN [blocks[b] EXCEPT !.id = FreeId]
                                ELSE blocks[b]]

Delete ==
  LET gone == WithId(task.request.id)
  IN  /\ Asks({"delete"})
      /\ DeleteBlocks(gone)
      /\ Outdate(gone)
      /\ Finish(IF gone = {} THEN "ENOENT" ELSE "ok")
      /\ UNCHANGED <<locked, jobs, packets, txQueue, outside>>

\* workerSchedule: nothing waits for room, and nobody looks at the result.
Scheduled(b) == IF Len(jobs) < JobSize THEN Append(jobs, b) ELSE jobs

\* xTimerChangePeriod and xTimerStart wait 100 ticks for the timer task to take
\* the command; nobody looks at the result.
Start ==
  LET found == WithId(task.request.id)
      b     == Least(found)
  IN  /\ Asks({"start"})
      /\ Finish(IF found = {} THEN "ENOENT" ELSE "ok")
      /\ timers' \in IF found # {} /\ task.request.period > 0
                       THEN {[timers EXCEPT ![b] = "running"], timers} ELSE {timers}
      /\ jobs' = IF found # {} /\ task.request.period = 0 THEN Scheduled(b) ELSE jobs
      /\ UNCHANGED <<blocks, pool, locked, worker, packets, txQueue, outside>>

Stop ==
  LET found == WithId(task.request.id)
  IN  /\ Asks({"stop"})
      /\ Finish(IF found = {} THEN "ENOENT" ELSE "ok")
      /\ timers' = [b \in Block |-> IF b \in found THEN "stopped" ELSE timers[b]]
      /\ UNCHANGED <<blocks, pool, locked, worker, jobs, packets, txQueue, outside>>

\* The end of logReset: everything is free.
ForceFree(p) == [o \in Op |-> [p[o] EXCEPT !.variable = Null]]
NoIds(t)     == [b \in Block |-> [t[b] EXCEPT !.id = FreeId]]
StopTimers   == timers' = [b \in Block |-> IF Live(b) THEN "none" ELSE timers[b]]

\* CONTROL_RESET
ResetCommand ==
  /\ Asks({"reset"})
  /\ pool' = ForceFree(pool)
  /\ blocks' = NoIds(blocks)
  /\ StopTimers
  /\ Outdate(LiveBlocks)
  /\ Finish("ok")
  /\ UNCHANGED <<locked, jobs, packets, txQueue, outside>>

\* A command that logControlProcess does not know.
Unknown ==
  /\ Asks({"unknown"})
  /\ Finish("ENOEXEC")
  /\ UNCHANGED <<tables, locked, worker, jobs, packets, txQueue, outside>>

\* logTOCProcess changes nothing but the packet.
AnswerToc ==
  /\ Asks({"toc"})
  /\ Finish("ok")
  /\ UNCHANGED <<tables, locked, worker, jobs, packets, txQueue, outside>>

\* Mutant: an answer that reports an error leaves the lock taken.
LockAfter(ret) == ret # "ok"

Unlocked(ret) == FALSE

\* crtpSendPacketBlock of the answer, and then the unlock: the task holds the
\* lock while it waits for room.
Answer ==
  /\ task.at = "answer"
  /\ txQueue < TxSize
  /\ txQueue' = txQueue + 1
  /\ locked' = Unlocked(task.ret)
  /\ task' = Idle
  /\ UNCHANGED <<tables, worker, jobs, packets, outside>>

-----------------------------------------------------------------------------
(* Timers and the worker                                                   *)

\* The timer task takes the commands that wait for it.
TimersFollow ==
  /\ ticking' = [b \in Block |-> timers[b] = "running"]
  /\ UNCHANGED <<tables, locked, task, worker, jobs, packets, txQueue, outside>>

\* logBlockTimed.  A timer goes on until the timer task has been told; its block
\* may have been deleted.
TimerFires(b) ==
  /\ ticking[b]
  /\ jobs' = Scheduled(b)
  /\ jobs' # jobs
  /\ UNCHANGED <<tables, locked, task, worker, packets, txQueue, outside>>

\* logRunBlock, up to the lock: the list is chosen here.
TakeJob ==
  LET b == Head(jobs)
  IN  /\ worker = Idle
      /\ jobs # <<>>
      /\ jobs' = Tail(jobs)
      /\ worker' = [at |-> "lock", block |-> b, ops |-> blocks[b].ops,
                    outdated |-> ~Live(b)]
      /\ UNCHANGED <<tables, locked, task, packets, txQueue, outside>>

\* Mutant: a packet that is just full counts as too long.
RoomFor(used, n) == used + n < MaxLength

\* appendToPacket, the four bytes before the values left aside.
HasRoom(used, n) == used + n <= MaxLength

NoPacket == [id |-> FreeId, items |-> <<>>]

\* The values go into the packet until one does not fit.
PacketOf(p, first) ==
  LET items == Items(p, first)
      full  == {k \in DOMAIN items :
                  ~HasRoom(Total(SubSeq(items, 1, k - 1)), items[k].length)}
  IN  IF full = {} THEN items ELSE SubSeq(items, 1, Least(full) - 1)

\* logRunBlock under the lock.
Collect ==
  LET b == worker.block
  IN  /\ worker.at = "lock"
      /\ ~locked
      /\ packets' = [id |-> blocks[b].id, items |-> PacketOf(pool, worker.ops)]
      /\ worker' = [at |-> "send"]
      /\ UNCHANGED <<tables, locked, task, jobs, txQueue, outside>>

\* crtpSendPacket, which does not wait.
SendPacket ==
  /\ worker.at = "send"
  /\ connected
  /\ txQueue' = IF txQueue < TxSize THEN txQueue + 1 ELSE txQueue
  /\ worker' = Idle
  /\ packets' = NoPacket
  /\ UNCHANGED <<tables, locked, task, jobs, outside>>

\* The link is lost: logReset and crtpReset, without the lock.
LinkLost ==
  /\ worker.at = "send"
  /\ ~connected
  /\ worker' = [at |-> "reset", block |-> 0]
  /\ packets' = NoPacket
  /\ UNCHANGED <<tables, locked, task, jobs, txQueue, outside>>

\* One round of the loop of logReset.
WorkerDeletes ==
  LET b == worker.block
  IN  /\ worker.at = "reset"
      /\ b < MaxBlocks
      /\ DeleteBlocks({b} \cap LiveBlocks)
      /\ worker' = [worker EXCEPT !.block = b + 1]
      /\ UNCHANGED <<locked, task, jobs, packets, txQueue, outside>>

WorkerFrees ==
  /\ worker.at = "reset"
  /\ worker.block = MaxBlocks
  /\ pool' = ForceFree(pool)
  /\ blocks' = NoIds(blocks)
  /\ worker' = [at |-> "purge"]
  /\ UNCHANGED <<timers, locked, task, jobs, packets, txQueue, outside>>

\* crtpReset.  A task that waits for room is woken; its answer is lost.
WorkerPurges ==
  LET waits == task.at = "answer" /\ txQueue = TxSize
  IN  /\ worker.at = "purge"
      /\ txQueue' = 0
      /\ task' = IF waits THEN Idle ELSE task
      /\ locked' = (locked /\ ~waits)
      /\ worker' = Idle
      /\ UNCHANGED <<tables, jobs, packets, outside>>

-----------------------------------------------------------------------------
(* The radio                                                               *)

LinkChanges ==
  /\ connected' = ~connected
  /\ UNCHANGED <<tables, locked, task, worker, jobs, packets, txQueue, asked>>

Transmit ==
  /\ connected
  /\ txQueue > 0
  /\ txQueue' = txQueue - 1
  /\ UNCHANGED <<tables, locked, task, worker, jobs, packets, outside>>

-----------------------------------------------------------------------------
Init ==
  /\ blocks = [b \in Block |-> [id |-> FreeId, ops |-> Null]]
  /\ timers = [b \in Block |-> "none"]
  /\ pool = [o \in Op |-> [variable |-> Null, length |-> 0, next |-> Null]]
  /\ locked = FALSE
  /\ task = Idle
  /\ worker = Idle
  /\ jobs = <<>>
  /\ packets = NoPacket
  /\ txQueue = 0
  /\ connected = TRUE
  /\ asked = 0
  /\ ticking = [b \in Block |-> FALSE]
  /\ overlap = FALSE

\* A step of the log task other than the arrival of a request and its answer.
Control ==
  \/ Create
  \/ FindBlock
  \/ AppendRoundV1
  \/ AppendRoundV2
  \/ Link
  \/ Appended
  \/ Delete
  \/ Start
  \/ Stop
  \/ ResetCommand
  \/ Unknown
  \/ AnswerToc

Run == TakeJob \/ Collect \/ SendPacket \/ LinkLost \/ WorkerDeletes \/ WorkerFrees
         \/ WorkerPurges

Step ==
  \/ \E r \in Request : Receive(r)
  \/ Lock
  \/ Control
  \/ Answer
  \/ \E b \in Block : TimerFires(b)
  \/ Run
  \/ LinkChanges
  \/ Transmit

\* The worker resets the log while the task is in the middle of a request.
Overlaps == worker.at = "reset" /\ task.at \in {"run", "append", "link"}

Next ==
  /\ (Step /\ UNCHANGED ticking) \/ TimersFollow
  /\ overlap' = (overlap \/ Overlaps')

Spec == Init /\ [][Next]_vars

\* Both threads run, and so does the radio, as long as the link is up.
FairSpec ==
  /\ Spec
  /\ SF_vars(Lock /\ Next)
  /\ WF_vars(Control /\ Next)
  /\ WF_vars(Answer /\ Next)
  /\ WF_vars(Run /\ Next)
  /\ SF_vars(Transmit /\ Next)

-----------------------------------------------------------------------------
(* Properties                                                              *)

TaskState ==
  {Idle}
  \cup [at : {"lock", "run"}, request : Request]
  \cup [at : {"append"}, request : Request, block : Block, done : Nat]
  \cup [at : {"link"}, request : Request, block : Block, done : Nat, op : Op]
  \cup [at : {"answer"}, request : Request,
        ret : {"ok", "EEXIST", "ENOENT", "ENOMEM", "E2BIG", "ENOEXEC"}]

WorkerState ==
  {Idle}
  \cup [at : {"lock"}, block : Block, ops : Op \cup {Null}, outdated : BOOLEAN]
  \cup [at : {"reset"}, block : 0 .. MaxBlocks]
  \cup [at : {"send", "purge"}]

\* What is stored and where the threads are; the log task holds the lock from
\* the start of a request to its answer.
TypeOK ==
  /\ blocks \in [Block -> [id : Id \cup {FreeId}, ops : Op \cup {Null}]]
  /\ timers \in [Block -> {"none", "stopped", "running"}]
  /\ pool \in [Op -> [variable : DOMAIN Toc \cup {Memory, Null},
                      length : {0} \cup Lengths,
                      next : Op \cup {Null}]]
  /\ locked \in BOOLEAN
  /\ task \in TaskState
  /\ worker \in WorkerState
  /\ jobs \in Seq(Block) /\ Len(jobs) <= JobSize
  /\ txQueue \in 0 .. TxSize
  /\ connected \in BOOLEAN
  /\ asked \in 0 .. RequestLimit
  /\ ticking \in [Block -> BOOLEAN]
  /\ overlap \in BOOLEAN
  /\ locked <=> task.at \notin {"idle", "lock"}

ListOf(b) == Ops(Chain(pool, blocks[b].ops))

\* Every list of a live block ends, no operation is in two of them, and the
\* operations in use are those of the lists and the one about to be linked
\* (log.c:520, 913): none is lost, none is given out twice.
ListsAreSound ==
  /\ \A b \in LiveBlocks : Ends(pool, blocks[b].ops)
  /\ \A b, c \in LiveBlocks : b # c => ListOf(b) \cap ListOf(c) = {}
  /\ {o \in Op : pool[o].variable # Null} =
       (UNION {ListOf(b) : b \in LiveBlocks})
         \cup {o \in Op : task.at = "link" /\ task.op = o}

\* The big lock (log.c:216) protects them, but for a request that the worker's
\* reset falls into, which takes no lock.
PoolIsSound == overlap \/ ListsAreSound

\* A timer that has been told to run, and not to stop since, belongs to a block
\* there is: its callback's argument and its own memory are the block's (log.c:440,
\* 650).  One whose block is gone ends as soon as the timer task follows.
TimersOfLiveBlocks ==
  overlap \/ \A b \in Block : timers[b] = "running" => Live(b)

\* What the client has configured is what LogConfig promises: blocks come and go
\* as a whole, items come one by one and last, within the limits of a packet, of
\* the blocks and of the pool.
ConfigOfBlocks ==
  IF overlap THEN [i \in {} |-> <<>>]
  ELSE [i \in {blocks[b].id : b \in LiveBlocks} |->
          Items(pool, blocks[Least(WithId(i))].ops)]

Config == INSTANCE LogConfig WITH
  Item <- [variable : DOMAIN Toc \cup {Memory}, length : Lengths],
  config <- ConfigOfBlocks, spoilt <- overlap

ImplementsConfig == Config!ConfigSpec

\* A packet has the number of its block and every value of it, in order, unless
\* the block has been deleted since the worker read its head: the list is read
\* before the lock (log.c:724), and what append accepts (log.c:514) never is
\* dropped (log.c:853-863).  A block that was empty at first gives an empty one.
PacketIsWhole ==
  [][(worker.at = "lock" /\ worker'.at = "send") =>
       LET b == worker.block
       IN  \/ overlap
           \/ worker.outdated
           \/ /\ packets'.id = blocks[b].id
              /\ packets'.items \in {Items(pool, blocks[b].ops), Items(pool, worker.ops)}
     ]_vars

Asked(s) ==
  [variable |-> IF IsV2 THEN ReadingV2(s.id) ELSE Reading(s.id), length |-> s.length]

\* The places of the settings that are read before place done + 1, in order: an
\* address takes two more.
ReadBefore(at, n, done) ==
  /\ \A k \in 1 .. n :
       LET next == IF k = n THEN done + 1 ELSE at[k + 1]
       IN  next = at[k] + (IF Asked(Settings[at[k]]).variable = Memory THEN 3 ELSE 1)
  /\ IF n = 0 THEN done = 0 ELSE at[1] = 1

EndWith(items, at, n) ==
  /\ Len(items) >= n
  /\ \A k \in 1 .. n : items[Len(items) - n + k] = Asked(Settings[at[k]])

Stored(items, done) ==
  \E n \in 0 .. done : \E at \in [1 .. n -> 1 .. Len(Settings)] :
    ReadBefore(at, n, done) /\ EndWith(items, at, n)

\* A request for settings that is answered with success has stored all of them,
\* at the end of its block (log.c:509-552), unless the worker's reset fell into it.
\* An address takes the place of two settings; in the second version, whose settings
\* are longer, these are not those of the client (log.c:616), which is why nothing
\* is said of the settings that it puts behind an address.
SuccessIsStored ==
  [][(task.at = "append" /\ task'.at = "answer") =>
       LET found == WithId(task.request.id)
       IN  \/ overlap
           \/ task'.ret # "ok"
           \/ /\ found # {}
              /\ \E done \in Len(Settings) .. Len(Settings) + 2 :
                   Stored(Items(pool, blocks[Least(found)].ops), done)
     ]_vars

\* The variable that is logged under a number is the one that the table of
\* contents names under it (log.c:286-305, 892): three walks over the same table
\* agree.
NumbersAgree ==
  task.at = "link" /\ pool[task.op].variable \notin {Memory, Null} =>
    LET item == TocItem(Current.id)
    IN  item # <<>> /\ VarId(item[1], item[2]) = pool[task.op].variable

\* The log's tables agree with each other and with the table of contents, whatever
\* is asked for, in whatever order the two threads get the lock.
LogIsSound == TypeOK /\ PoolIsSound /\ TimersOfLiveBlocks /\ NumbersAgree

\* Every request is answered, though the task holds the lock while it waits for
\* room and the worker resets the queue: as long as the link comes back.
RequestIsAnswered ==
  []<>connected => (task # Idle ~> task = Idle \/ overlap)
=============================================================================
