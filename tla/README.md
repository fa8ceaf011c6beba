# A verification of the Zephyr nano drone firmware

The firmware is the Crazyflie's, in the middle of being moved from FreeRTOS to
Zephyr. The modules here model the parts that arbitrate, store and carry data
between threads, as the source stands: what a port leaves half done is modelled
as it is, not as it is meant to become. `tlc` checks small instances, `tlapm`
proves theorems for every value of the constants.

## 1. The system

| Component | Source | State | Operations | Hard parts | Status |
|---|---|---|---|---|---|
| Commander | `commander.c`, `crtp_commander.c` | a slot for the setpoint, a slot for its priority | set, relax, get | overwriting a slot takes two kernel calls without a lock; timeouts | `Commander` |
| High-level commander | `crtp_commander_high_level.c` | the planner, `lockTraj`, trajectories, last position | commands, disable, tell state, get setpoint, define, start | the lock covers a part only; commands from several threads | `HighLevel`, `Trajectories` |
| Key-value storage | `storage.c`, `kve.c`, `kve_storage.c` | bytes of an EEPROM partition, a mutex | store, fetch, delete, foreach, reformat, test | power failures, failing writes, stale bytes, full table | `KveStore`, `KveMemory` |
| EEPROM | `eeprom.c` | pages, attempts | read and write buffers | refused pages, polling, power failures | `Eeprom` |
| Configuration block | `configblockeeprom.c` | one record with checksum | start, upgrade, defaults, write | older versions, bad data, failures in the middle of the start | `ConfigBlock` |
| Packet stack, radio link | `crtp.c`, `comm.c`, `radiolink.c` | `txQueue`, port queues, callbacks, link, a queue of one packet, a delivery queue | send with and without waiting, reset, receive, dispatch | full queues, reset against senders, polled by the radio | `Crtp` |
| Log | `log.c` | blocks, a pool of operations, timers, the table of contents | create, append, delete, start, stop, reset, run | timers and worker against requests; a reset without the lock | `Log`, `LogConfig` |
| I2C bus | `i2c_twim.c`, `i2cdevInit.c` | a transfer, two semaphores, the peripheral's power and speed | transfer, configure, suspend, registers, bits | interrupts against timeouts, two transfers for one write of bits | `I2cTwim`, `I2cDev` |
| Former bus driver | `i2c_drv.c` | a message, a semaphore, a mutex, the port | transfer, three interrupts | retries, late interrupts, a dead bus | `I2cDrv` |
| Start and supervision | `system.c`, `watchdog.c`, `worker.c` | flags, a start mutex, the watchdog | init, test, start, wait | order of initialisations, priorities, resets | `System` |
| Services, application channel | `platformservice.c`, `crtpservice.c`, `app_channel.c` | one static packet, a queue, a flag | answer, send, receive | senders that wait with a mutex held, full queues | `Services` |
| Controllers | `controller.c`, `controller_pid.c` | desired yaw, thrust, outputs, memory of the PIDs | select, update | angles that wrap, rates, power cut | `Controller` |
| Console | `console.c` | a buffer, a semaphore | print | see section 5 | - |
| Mathematics, power management, LEDs | `math3d.h`, `pm.c`, `led.c`, ... | - | - | floats, or commented out | - |

How they interact. The stabilizer thread (not in the repository) asks the
high-level commander for a setpoint, offers it to the commander and reads the
commander's setpoint, which the controller turns into thrust and moments. The
radio's packets come up through the syslink task (not in the repository),
`crtpPacketDelivery`, `crtpRxTask` and the callbacks of the ports; the setpoint
port's callback calls the commander, which disables the planner or tells it the
state. The log, the service tasks and the application send packets down through
`txQueue`. The log's worker resets the packet stack when the link is lost.
Storage and configuration block use the EEPROM, which uses the I2C bus. The
system task starts all of them, and their threads wait for it.

What makes each correct, in short: a source that nothing interrupts has its
setpoint in force, and stale setpoints cut power (commander); a command is
carried out from one moment's state, motors are off after a landing
(high-level); a fetch returns what was last stored, and nothing that happens to
a call loses other keys (storage); a start uses the block it finds and stores
what it uses (configuration); accepted packets are sent once, in order, and in
the end (packet stack); a block logs what its client asked for, and no
operation is lost (log); a transfer that reports success has been done, and
ends (I2C); nobody flies before everything is tested (start); what a sender
meant is sent (application channel); the desired yaw is the allowed one nearest
to what was asked for (controller).

Priorities: `config.h:61` says "Higher number higher priority", Zephyr reads
lower numbers as more urgent. The models follow the kernel: the stabilizer (5)
is less urgent than the receive tasks (2) and the syslink task (3).

## 2. Modules

| Module | What | Definitions and code |
|---|---|---|
| `Commander` | the setpoint arbiter | `setpointQueue`, `priorityQueue` are the two queues; `SetXxx`, `RelaxXxx`, `GetXxx` are the steps of `commanderSetSetpoint`, `commanderRelaxPriority`, `commanderGetSetpoint` between which a thread can lose the processor; `Tick` is time |
| `HighLevel` | the high-level commander's threads and lock | `Call`, `Lock`, `Plan` are `handleCommand`; `LockForGoal` ... `InvalidEval` are `crtpCommanderHighLevelGetSetpoint` |
| `Trajectories` | its data; EXTENDS `HighLevel`, each of whose steps is part of a step here | `Define`, `Start`, `TellPosition`, `TellRest`, `StorePosition`, `StoreRest`, `CopyPosition`, `CopyRest` |
| `KveStore` | what the storage promises | a function from keys to values, and two byte counters that decide what fits |
| `KveMemory` | the storage, byte by byte | the operators have the names of the functions of `kve.c` and `kve_storage.c`; a call is the list of its writes; `INSTANCE`s `KveStore` as `Promise` |
| `Eeprom` | a write of a buffer, and the device | `Begin`, `Sent`, `Refused`, `Answered`, `Unanswered` are `eepromWriteBuffer`; `EndOfCycle`, `Torn` the device |
| `ConfigBlock` | the start of the configuration; EXTENDS `Eeprom` | `PowerOn` ... `DefaultEnds` are `configblockInit` |
| `Crtp` | packet stack and radio link | `Send...`, `TxTake`, `TxSend`, `Reset`: the way down; `Dispatch...`, `Answer`, `RxTake`, `RxHandOver`: the way up |
| `LogConfig` | what a client of the log is promised | blocks as sequences of items |
| `Log` | the log, with its list structures and three threads; `INSTANCE`s `LogConfig` as `Config` | `Create`, `FindBlock`, `AppendRoundV1/V2`, `Link`, `Delete`, `Start`, `Stop`, `ResetCommand`, `Unknown` are the log task; `TimersFollow`, `TimerFires` the timer task; `TakeJob` ... `WorkerPurges` the worker; `TocItem`, `VarId`, `VariableIndex` the three walks over the table of contents |
| `I2cTwim` | the bus driver | `Enter`, `Gather`, `Submit`, `Taken`, `TimeOut`, `Recover`, `Exit` are `i2c_nrfx_twim_transfer`; `Event` the interrupt |
| `I2cDev` | what threads do with the bus; EXTENDS `I2cTwim` | `WriteBits`, `WriteBit`, `ReadReg`, `WriteReg` |
| `I2cDrv` | the former bus driver | one action per branch of the interrupt handlers; `StartSent` is the port; `CopyMessage` ... `Leave` are `i2cdrvMessageTransfer` |
| `System` | the start | `Initialise`, `Test`, `Start`, `WatchdogInit`, `WorkerLoop` are the system task; `Lock`, `Unlock` `systemWaitStart` |
| `Services` | service tasks and application channel | `Receive`, `SendAnswer`, `Ignore`, `IncomingPacket`; `Call` ... `UnlockSend` are `sendDataPacket`; `TxTake`, `LinkTakes` are `crtpTxTask` |
| `Firmware` | `System` and `Services` together, with the watchdog's reset | `StartUp`, `Work`, `Reset` |
| `Controller` | the choice of a controller, and the decisions of `controllerPid` | `ControllerInit`, `Update` |
| `MC...` | instances for TLC | constants only |
| `LinkProof` (`Crtp`, `Commander`), `FlightProof` (`Trajectories`, `Controller`), `LogProof`, `StorageProof` (`KveStore`, `ConfigBlock`), `KveProof` (`KveMemory`), `I2cProof`, `I2cDrvProof`, `FirmwareProof` | the theorems | |

Definitions called *mutant* in a comment are wrong variants of the definition
that follows them, with a plausible mistake; no specification uses them. They
serve to see that a property fails when the code has the mistake.

### Commander
An "overwrite" of a slot is `k_msgq_get` and `k_msgq_put`: two actions.
`Scheduled` is the kernel: a thread in the middle of an operation runs until it
is done or a more urgent one is ready. A timestamp is kept as an age, counted
up to `Shutdown + 1`, so that time is finite; the wrap-around of the tick count
is left out. `polled` and `Punctual` state an assumption: the stabilizer reads
a setpoint at least once per tick of the model (some 500 ms). Without it a
source could fall silent and the stabilizer miss the whole interval in which
the priority is reset (`commander.c:114-118`; the shutdown branch does not reset
it), and lower priorities would be refused for ever. Not modelled:
`commanderGetInactivityTime`, the assertion on malformed packets. The planner
is an on/off switch here; that its own code may switch it off
(`crtp_commander_high_level.c:368`) shows in `HighLevel`.

`AcceptedIsInForce` speaks of threads that nothing interrupts, since the code
gives no more. A receiver that preempts the stabilizer between a get and a put
peeks an empty priority slot and fails the assertion at `commander.c:81`
(`SetPeekFails`, `halted`); and the stabilizer, preempted between its priority
check (83) and the overwrite (86-90), puts a lower priority over a higher one,
although the comment at line 85 calls this a "potential race but without effect
on functionality". No property forbids that, since the code does it; what is
left is that the displaced source's next setpoint is in force again.

### HighLevel and Trajectories
The planner's own code is not in the repository. `CurrentGoal` and `Planned`
take it to do what `planner.h` says: an active trajectory evaluates to a valid
goal, a landing cuts the motors when it ends, commands may be refused, a stop
may not. Commands of another group change nothing and are left out, and so is
the rate at which the stabilizer is answered. The "programming error" of line
367 is reached: a take-off accepted between the evaluation and the questions
after it is undone by `plan_disable`.

A start that is refused may have changed the trajectory even so: there is one
static trajectory for each type, and `start_trajectory` fills it (602-605,
616-620) before it asks the planner. `Overwritten` is the planner that follows
what it was not asked to. `UnchangedWhileEvaluated` holds for refused starts,
too, since they write under the lock.

`Trajectories` adds where a command starts from. `crtpCommanderHighLevelTellState`
stores position, velocity and yaw under the lock, the stabilizer stores them
without it (324-326, 360-362); a command that plans between these stores gets
halves of two moments. What the commander tells is `lastState`, by reference
(`commander.c:102`), a copy of the estimate that the stabilizer makes without
the lock (133): `CopyPosition` and `CopyRest`. So there are three ways to mix two
moments, and `StartIsWhole` says that there is no fourth: the command comes
between the stabilizer's two stores, the commander's stores have met those, or
they have met the copy. A definition is written without the lock (636), tested
without it (598-599) and used with it; nothing in the code excludes that it
changes in between, and no property speaks of it. Not modelled: uploads into
the trajectory memory, which nothing in the code protects, so that there is
nothing to check.

### KveStore and KveMemory
`storageMutex` makes a call one step. Inside, the step knows its writes, in
order, and so what is there when the power fails before the last page has been
written (`CutShort`: whole pages are written or not), or when a write fails and
the code goes on (`WithFault`). Facts of the code that the model keeps:
`EEPROM_SIZE` is `0x1FFF` while the partition ends at `0x2000`, so that its last
byte cannot be read (`Accessible = MemSize - 1`); a header read that fails
leaves the previous header in the variable; an unwritten end tag is not
noticed; a length of 0 makes a search endless (`Hang`). `char` is unsigned, as
on ARM. Failing writes are modelled for calls that read nothing after a write
(`blind`), not during a defragmentation. Reads fail only past the EEPROM. The
partition is taken to be a memory of its own, although its addresses are sent
as one byte (see below). `kveForeach` reads a key of up to 255 bytes and a final
0 into a static buffer of 64 (131) without a test of its length; nothing is said
of what runs after one has gone past its end. `OverrunsBuffer` says when that
happens (`KeyBuffer` is the 64), and `ForeachVisitsEachOnce` speaks of tables
where it does not. Nothing in the repository calls `storageForeach`.

Two documents promise more than the code gives, and the properties say less. A
table filled to the last byte `kve.c:37` allows ends where the three bytes of a
header can no longer be read: the search misses the end tag (`BrimTheorem`) and
the next start reformats a sound table, although `kve_storage.h:95-97` has that
for corrupted ones; so `DeleteIsAtomic` is about tables that pass the test. After a power failure between `kve.c:84` and 86 a moved
entry is there twice in a table that passes `kveCheck`; `storageDelete` removes
the first, returns true, and the key still has a value (`storage.h:57-61`).

### Eeprom and ConfigBlock
A page is sent up to 10 times, its end asked for up to 30 times. The waits in
between are the statements `K_MSEC(6)` and `K_MSEC(1)`, which do not wait, so
that the attempts may be used up during one cycle of the device. The device is
taken to be one that is addressed by one byte, as `i2cdevWriteReg16` does it:
`i2cdev.h:134` speaks of a 16-bit address, the parameter is a `uint8_t`, and
`eeprom.c` tests only `EEPROM_SIZE`. So `Named(a)` is `a % Numbers`, and what is
beyond a byte's reach is written at the beginning of the device: `Region` is
what a write's addresses name, and the properties say of that region that it
gets the whole of what was written and that nothing else changes. A client's
write beyond it therefore may land on the configuration block, which the run has;
`storage.c:30` puts the key-value store at 1024, which is sent as 0; the 24AA64
named in the code would take the first byte of data for the rest of the address. Power that fails leaves any part of a page's
bytes. The checksum is a sum of bytes: a torn block may verify by chance, so no
property speaks of a torn block's content. A read that fails once at the start
makes the defaults overwrite a good block; the properties except starts with a
failed transfer (`excuse`). Left out: a write of length 0, which returns an
uninitialised status.

### Crtp
Two queues are called `txQueue` in the code, one in `crtp.c`, one in
`radiolink.c`; they are two here. The transmission's timeout of 100 ms and its
retry change nothing and are a stutter. `syslinkSendPacket` is commented out at
present; "sent" means taken for it. `xQueueReceive` is taken to return 0 for a
packet, as `radiolink.c:179` has it. A kernel queue gives a freed place to a
waiting sender; which one is left open. `RxWaits` is the scheduler: the syslink
task runs only while the more urgent `crtpRxTask` sleeps, waits for a packet,
or waits for a lock in a callback. `accepted`, `sent`, `received` and `handled`
are histories for the properties. The radio polls with null packets without
limit; other packets are numbered as they arrive, so that `HandledInOrder` can
say of a callback's calls that their numbers rise and that none of the packets
taken for it is missing among them. If `crtpPacketDelivery` is full, the
assertion stops the system (`halted`); this is reached, because `crtpRxTask`
may sleep or wait meanwhile. More that shows in the model: a packet sent with
`txQueue` full is refused (while `crtp.h:86` says the oldest is dropped); a
sender that waits loses its packet to a reset (`crtp.h:95` says it waits until
there is a place); and `crtp.c:175` puts a packet into its port's queue only
when that already is full, so that a task that waits on the queue never gets
one, although line 177 says "we should never drop a packet". `Log` and
`Services` are modelled as if packets arrived, or there would be nothing to
see of them. (All port queues also share one buffer.)

### LogConfig and Log
The log still calls FreeRTOS; its worker and its task have one priority, so
either may run at any step. The lists of operations are linked through the pool
as in the code, and `Ends`, `Chain` follow them. Under the lock the log task's
append is a step per setting; the unlocked places are the worker's: it reads a
block's first operation before it takes the lock (724), and at a lost link it
resets blocks, timers and pool after it has given it back (873-875). `overlap`
remembers that this reset fell into a request; then the lists may be in any
state, and the "Big lock that protects the log datastructures" (216) has not
protected them. Otherwise the log implements `LogConfig`: blocks come and go as
wholes, items come one at a time and last, within three limits, and an append
that fails in the middle leaves the items before the failure, as in the code.
Values are variables and lengths; a job of a deleted block may run with its
former operations and the number -1.

Requests are modelled as the code reads them, which is not always as they were
meant. An address in a request is not what is stored: the operation gets a
pointer to the place behind the setting in the static request packet (544, 612),
which the next request overwrites; the models call it `Memory`, whatever it
points to. In the second version a setting has three bytes, an address four, but
`i += 2` (616) goes two settings on: the settings behind an address are not the
client's, and the request still is answered with success. `StepOver` goes on as the
code does, and `SuccessIsStored` says that every setting the loop reads has been
stored, in order. A request too short for its settings makes their number wrap
around (390), and the loop reads what lies behind the packet until the block or
the pool is full: `SettingList` has one of these. A command that is not known
is answered with ENOEXEC (`Unknown`).

Timers belong to the timer task, which takes commands from a queue: `timers` is
what it has been told, `ticking` what it does; a start waits 100 ticks for room
and nobody looks at the result, so that it may be lost; a timer that was stopped
or deleted may fire once more. Not modelled: the timer's period, dropped packets
(counted when the send succeeds), what FreeRTOS makes of the memory of a timer
that is created anew while its deletion is in the queue.

### I2cTwim, I2cDev and I2cDrv
Messages are lists of parts with their flags; the device has one register. An
interrupt may come after the wait of 500 ms has ended, until the peripheral is
disabled, and gives `completion_sync` to nobody: the next transfer empties it
first. `I2cDev`'s writes of bits are two transfers; another thread may write the
register in between (`raced`), and a single bit goes on from a read that failed
(`unread`); in all other cases `OtherBitsKept`. With `concat_buf_size` at its
default of 0 every `i2c_burst_write` would fail with -ENOSPC; the instance has a
buffer of 2. `twim_nrfx_pm_control` asks nothing: the peripheral may be suspended
in the middle of a transfer, which then is stopped, and a transfer may be asked
for while it is suspended; no interrupt comes before it is resumed, and the
thread's wait ends by its time. (A suspended peripheral is taken not to stop at
the assertions of its library.)

`I2cDrv` has one action for each branch of the event, error and DMA handlers.
The port may be silent, the device may refuse, a handler may come so late that
the last byte has left. Three things spoil a success in the code, and
`SuccessIsSound` names them: a notification of an earlier transfer, a retry
after the register's number was forgotten, a late end of a byte; for a property
that forbade these the code would be wrong. When the register's number of
a read is out, the handler asks for a second start condition and waits in a loop
for it to go out (550), with no limit: until it does (`StartSent`) no thread runs, and no wait
ends (`spinning`). So `TransferEnds` holds only if the port does not hold it back
for ever (`StartsGoOut`). The build does not compile `i2c_drv.c` (the glob in
`CMakeLists.txt` does not reach it), and the setup of the DMA, 287-316, is
commented out; the model takes it to be done, as the handlers and
`i2cdrvMessageTransfer` do. Left out: the branches the comments say do not happen, pins and clocks. A bus whose data line
stays low would make the driver clock for ever; the device is taken to let go.

### System, Services and Firmware
`System` is the start: initialisations in their order, the tests, the mutex
`canStartMutex`, held from `systemInit` to `systemStart`, and the threads that
wait. `GetsTime` is the scheduler after the start: `workerLoop` returns exactly
when the work queue has been initialised (`worker.h` says the opposite), the
statement `K_FOREVER;` in the loop behind it does not wait, and so the system
task spins, less urgent threads and the idle thread get no time, the watchdog is
not fed and resets the processor. That happens in the model, again and again,
and the properties hold across it. `Boosted` is the kernel's priority
inheritance, without which `UrgentPass` fails: a less urgent owner would keep
the mutex. Taken for granted: the system task gets time although `main` spins;
the watchdog's device is there. Also seen: `watchdogNormalStartTest` runs before
`watchdogInit` and so always passes; `system.c:278` says a failed start "can be
forced" by a parameter that line 420 makes read-only.

`Services` has the service tasks and the application channel, whose senders
share one static packet under `sendMutex`, which they keep while they wait for
room. `APPCHANNEL_MTU` is 31 and the packet stack's limit 30 (`crtp.h:11`): a
packet of 31 bytes fails the assertion and stops the system. The overflow flag is read and
cleared in two steps: a loss in between goes unreported, a false report is
excluded. One thread is taken to receive, since the packet it fills is static. `crtpTxTask`
takes a packet from the queue and offers it to the link until the link takes it
(`crtp.c:149`; `held`, `LinkTakes`), which it does when the radio polls; nothing in
the repository guarantees that, nor that the task gets the processor beside the
system task, which spins at the same priority (`config.h:68-69`). So `SendReturns`
has the premise `TransmissionGetsOn`.

`Firmware` puts them together: a thread of the application passes the start and
then uses the channel, and a reset restarts both. `UsedWhenReady` is about the
two together.

### Controller
Thrust, moments and errors are there or not; angles are multiples of
180/`Half`. `Forced` is the controller that the configuration may force
(`controller.c:49-65`). A type beyond the enumeration is ignored; types 2 to 4 have no entry
in the table and are not asked for, AutoSelect becomes PID. The control laws
are external.

## 3. Runs

| Run | Instance | Shows |
|---|---|---|
| `commander` | stabilizer and two receivers, urgencies as in `config.h`; timeouts 1 and 2 | the slots are refilled, an uninterrupted source's setpoint is in force, silence cuts power, the planner takes over |
| `high_level` | two threads with a command each, a trajectory of one type, definitions that come and go, an estimate of two points | no command, accepted or refused, changes the trajectory during its evaluation, starts are whole but for the three unlocked windows, commands return, motors are cut |
| `kve_store` | three keys, two sizes | the end tag keeps clear of the last bytes |
| `kve` | three keys, two values, 20 bytes | the bytes implement `KveStore`, its counters of live and empty bytes included; foreach visits each key once |
| `kve_mishap` | two keys, two values, 17 bytes, one mishap | what power failures and failing writes can and cannot do |
| `config_block` | five initial contents, two client writes, one of which may lie beyond what a byte names, two power failures | success means stored whole where the addresses name, nothing else changes, a start uses what it finds and stores what it uses, and ends |
| `crtp` | two senders, two ports, queues of two | accepted packets are sent once, in order, in the end; callbacks get packets in order |
| `log` | two blocks, three operations, three variables, three requests of either version, with addresses or too short | the log implements `LogConfig`, loses no operation, sends whole packets, stores what it reports and reads, agrees on numbers, answers |
| `i2c` | two threads, bits and lists of messages, suspension at any time | a transfer that reports success has been done, the bus is its holder's, other bits are kept, every job ends |
| `i2c_drv` | two threads, four kinds of messages, two retries, a handler that waits | a clean start, a sound success, an end unless a start condition is held back for ever |
| `firmware` | two application threads and the stabilizer, three sets of faults, queues of one | nobody passes before all is tested, waiting threads are not forgotten, the static packet is not mixed up, the application gets its packets in order, sends return if the transmission gets on |
| `controller` | steps of 15 degrees, three rates, a limit of 60 degrees | the yaw is the nearest allowed one |

The state properties of one component that belong together are the conjuncts of
one invariant, its type invariant first: `TableIsSound`, `LogIsSound`,
`BusIsSound`, `TransferIsSound`, `BlockIsSound`, `MessagesAreSound`,
`StartIsSound`. The type invariants of `Commander`, `HighLevel`, `KveStore` and
`Crtp` are proved (section 4) and checked in no run.

Bounds. *Commander*: three threads are the three priorities there are; two ticks
separate fresh, stale and expired. *HighLevel*: two threads let one be overtaken
by another; the lock's protocol does not depend on more commands, and the
theorems hold for any number; two points tell two moments apart, and one type
lets a start write over what the planner follows. *KveMemory*: the partition holds the version, three short entries or two
long ones, a hole between entries, an end tag and stale bytes behind; pages of 8
and chunks of 4 bytes make values span pages and moves take several overlapping
chunks; with three keys two entries can be moved together. In `kve_mishap` two
entries of both keys fill the table to the last byte allowed. One mishap per
behaviour, with arbitrary calls before and after it. All keys fit the buffer of a
foreach. *ConfigBlock*: a block is one page, as in the code; the device has
three, of which a byte names two; a client's write can cross into the next, lie
beyond what a byte names, be empty or be refused; two power failures allow one in the start that repairs the first.
*Crtp*: queues of two and two packets per sender fill the queues and leave
senders waiting, one port has a callback that can wait and one a task. *Log*:
three requests can create, fill and delete or restart a block while its job
runs; three operations are exhausted by two appends, or by one request that is
too short; four settings leave something behind an address in either version. *I2c*: two bits let
one be written and one kept; one thread has two calls, so that the end of one
can meet the start of the next. *Firmware*: queues of one packet are full at
once; a call per sender lets two meet. `SendLimit`, `ReceiveLimit`, `CallLimit`,
`MishapLimit`, `ClientLimit`, `PowerLimit`, `RequestLimit`, `AskLimit` and the age
`Shutdown + 1` are the only cuts.

Fairness. *Commander*: each thread in the middle of an operation goes on
(strong, since it waits for the processor again and again), the stabilizer's
loop asks again and again, time passes. *HighLevel*: threads run, a freed lock is
given to a waiting thread in the end (the kernel queues waiters), the
stabilizer's loop runs, a landing ends. Commands and low-level setpoints have no
fairness. *Crtp*: tasks run, callbacks return, a connected radio polls. Nothing
is assumed of senders, resets or broadcasts. *ConfigBlock*: the task runs;
nothing is asked of the device, since the attempts are counted. *Log*: both
threads run, a free lock is handed on, and while the link is up the radio takes
packets; the answer is claimed only if the link comes back again and again.
*I2c*: threads run, a free semaphore is handed on, a wait ends after its time;
nothing of the bus, nor that a suspended device is resumed. *I2cDrv*: threads run
while no handler waits; that a start condition goes out is a premise of the
property, not an assumption. *Firmware*: the system task, the threads that wait,
the service tasks and those that send run when the scheduler lets them; that
`crtpTxTask` gets on is a premise of `SendReturns` only.

Deadlock is checked except where an assertion that failed stops the system
(`firmware`, `commander`, `crtp`), and where all calls may have been made
(`i2c_drv`, `config_block`).

## 4. Proofs

| Theorem | Statement | Argument |
|---|---|---|
| `LinkProof!TypeCorrect`, `RefillTheorem` | types; a slot is empty only between a thread's get and its put | a get by `t` leaves `t` before its put; every put fills the slot; one case per action |
| `LinkProof!InForceTheorem` | a thread that nothing interrupts has its setpoint in force afterwards | while such a thread is in the middle of an operation no other is `Scheduled`, so what it emptied stays so; the invariant says, for each place of such a thread, what the slots hold |
| `FlightProof!TypeTheorem`, `UnchangedTheorem` | types; the trajectory is constant while it is evaluated | the thread at work under the lock is its holder (`LockIsHeld`), and `Plan` needs the lock |
| `FlightProof!Refinement` | `Trajectories` implements `HighLevel`; so its theorems hold there (`UnchangedWithData`) | step by step: a step with data is a step without, or a stutter |
| `FlightProof!WholeTheorem` | a start mixes no two moments but in the three unlocked windows | `KnownOK`: which halves of the last position and of the commander's copy have been stored, and whose they are; what is told agrees with what is told from unless a store or the copy came between (`mingled`) |
| `StorageProof!EndTagTheorem` | the end tag keeps clear of the last bytes | the strict bound of `Fits`, through overwrites, holes and defragmentation |
| `StorageProof!BrimTheorem` | the search for the end fails exactly at the greatest length a store allows | arithmetic from `EndTagIsAccessible` |
| `KveProof!TableTheorem` | unless a write fails, a chain of items leads to an end tag that can be read, after any number of power failures | `TableInv`: a set of addresses and an end that form a `Table`; kept by an append (`AppendDoes`), a hole (`HoleDoes`) and each round of a defragmentation; after a power failure the test accepts such a table or reformats (`SearchFindsTable`) |
| `KveProof!StoreTheorem` | when nothing fails (`MishapLimit = 0`), `KveMemory` implements `KveStore` | `StoreInv`: the table `Holds` some function from keys to values, each key in at most one item; each call leaves a table that holds what `KveStore` says, with the bytes of items and holes that it counts (`TableShows`) |
| `KveProof!ForeachTheorem` | when nothing fails, `kveForeach` visits each matching key once, with its value clipped, if all of these fit its buffer | the matching items of the table in order of address are what is told (`Tells`), by induction from the end of the table downwards |
| `KveProof!DeleteTheorem` | a power failure during a delete spares the other keys and leaves the deleted one or takes it, from any table that passes the test | the header that makes an item a hole differs from the one there in its last byte only, and a write cut short ends before it (`TornHoleIsNothing`) |
| `LinkProof!TransmittedTheorem` | what is sent, followed by what is on its way, is what was accepted | lemmas on sequences (`HeadThenTail`, `FrontOfConcat`, `AppendToConcat`), one lemma per action |
| `LinkProof!HandledTheorem` | a callback gets its packets once and in order | packets are numbered as they arrive (`Numbered`); delivery, taking and handing over each move one packet along (`ArrivalInOrder`, `TakenInOrder`, `HandedOverInOrder`) |
| `LinkProof!TypeTheorem` | no queue outgrows its buffer | needs `BlockedHaveTurns`: a waiting sender has a packet left, or its count could pass `SendLimit` |
| `FirmwareProof!StartSafe` | nobody is past the start before everything has been initialised and has passed its test, or uses the channel before it is there; no waiting thread is forgotten | the gate is `Shut`, the mutex the system task's since the first initialisation, or `Opened`; `UsersHavePassed` ties a sender to the gate, across resets |
| `FirmwareProof!MessagesSafe` | what is sent is what the sender meant; the application gets its packets in order, and no false alarm of a loss | the static packet is that of the holder of `sendMutex` (`MutexIsOwned`, `PacketIsItsOwn`), also while it waits for room |
| `I2cProof!BusSafe` | the bus is its holder's, at the speed asked for | a transfer at work is that of the thread that waits for it, or that gave it up and is about to disable the peripheral (`BusIsWaitedFor`); a suspension only takes it away |
| `LogProof!TablesAreSound` | the log's tables are sound: blocks and their operations, the pool, the numbers | lists as witnesses: for each block a sequence of places of the pool that `Ends` and `Chain` follow, no two sharing a place (`Sound`); each request and the worker's steps keep them, unless `overlap` |
| `LogProof!PacketsAreWhole`, `SuccessMeansStored` | a packet has all of a block's items, in order; an append that reports success has stored every setting that its loop reads | what the worker has copied so far is a prefix of its job's list; what an append has linked so far are the settings that it has read (`AppendOK`) |
| `LogProof!ConfigIsImplemented` | `Log` implements `LogConfig` | step by step, with the lists of the invariant as the blocks of the abstract state |
| `I2cProof!SuccessTheorem` | a transfer that returns 0 has been done, and what its messages have got is what was sent, in order and in the lengths asked for | `GotOK`: what the messages have got at each place of a call, and what still lies in the buffer; a group's parts lie one behind the other (`OffsetStep`, `GroupFacts`), `CopyBack` puts each where it belongs (`CopyOfGroup`) and touches no earlier message (`NothingBefore`), and joined they are the buffer (`JoinedCopy`) |
| `I2cProof!TransfersDone` | a transfer that returns 0 has had every message done | `DoneOK`: what is done at each place of a call; a late interrupt's `completion` is emptied before the next wait |
| `I2cProof!BitsKept` | a write of bits changes no other bit, but for another thread's write and a failed read | `ReadOK`, `BetweenOK`, `WriteOK`: what the register and the byte are during the read, between the two transfers, and during the write |
| `I2cDrvProof!TransferTheorem` | types; a transfer starts clean, and a success is sound, but for the three doubts | `OwnerOK`: `txMessage` is what the mutex's holder asked for; `NotifiedOK`: one notification per transfer; `WorkOK`: what is on the wire in each phase of the port |
| `StorageProof!BlockTheorem` | a start without failures uses what it found, one that reports success has stored what it uses, a write that reports success is whole where its addresses name | `WrittenOK`: what a job has done is in the cells and the device's page touches none of it; `StartOK`: what each phase of the start knows; a stored block verifies and is loaded (`StoredIsLoaded`) |
| `StorageProof!KeptTheorem` | nothing else changes | a page does not wrap at the end of the device's page, nor at the end of what a byte names, a whole number of pages (`PlacedInOrder`, `NamedApart`), so the device writes a part of the job's region (`KeptOK`) |
| `FlightProof!YawTheorem` | the desired yaw is the allowed angle nearest to the one asked for | `Distance` is the least difference over whole turns, `CapAngle` stays within whole turns, the cut is at the limit |

They assume the named `ASSUME`s of the modules, which TLC evaluates in the runs
and which say what the code or its callers guarantee: `Faults` are sets of
components that are tested, since only a test can fail; a listing has a message
(`i2c_nrfx_twim_transfer` gets none without); fields lie within the register;
`None` is no type; a block fits into the device and into what one byte
addresses, whole pages of which there are; a write is not longer than that;
numbers of retries fit their variable.

The invariants are not inductive alone. `TransmittedInOrder` needs the types of
the queues, `HandledInOrder` the numbers,
`UnchangedWhileEvaluated` the agreement of lock and places. That a success of a
bus transfer is sound at its end follows only from what is true at each
interrupt before, and so for the phases of the configuration's start. Each
strengthening was checked by TLC on the run's instance before it was proved.

Arithmetic modulo a variable page is proved from division (`DivMod`,
`ModUnique`, `ModAdd`); the checksum is a recursive function, unfolded for the
four bytes it sums.

Lists of any length (the log's, the bus's) need induction. The library's
theorems on it take an operator, so it is a lemma on sets of naturals here,
proved from the well-foundedness of `<` (`Induction`): a recursive function is
shown to exist as a table, row by row, and then to have the rows of its
definition (`JoinedExists`, `JoinedStep`; `CopyTableExists`, `CopyBackIsCopied`).

The theorems are about the specifications without fairness, which those with
fairness imply.

The bytes of the storage. A table of `kve.c` has no index: what is in it is what
a walk from its first byte finds. The proofs name what the walk would find, a
set of addresses `A` and an end `e` (`Table(m, A, e)`), prove once that the
searches follow it (`SearchFollowsTable`, and `SearchFindsTable` back), and from
then on reason about `A` and `e`. `kveStorageMoveMemory` copies in chunks over
its own source, downwards: `MoveDoes` shows that the destination gets what the
source had at first. One round of `kveDefrag` moves a group of items to the hole
before it (`RoundMoved`), so that the set becomes another one, `Packed`, with
the same items; that the rounds end is proved from the address of the hole,
which grows. `StoreTheorem` and `ForeachTheorem` have `MishapLimit = 0` as a
hypothesis, as the run `kve` has: after a mishap a key can be there twice or the
table be reformatted, and the two statements are not meant. An EEPROM whose
bytes are all equal does not pass the test, whatever the byte is
(`BlankIsFormatted`), so that the first start formats it.

`KeyAssumption` and `PartitionAssumption` say what the types of the code say: a
key is a string without a zero and its length fits in a byte, a length fits in
two bytes and is not the end tag, the partition is shorter than 64 kB and
`EEPROM_SIZE` leaves out at most its last byte.

Left to TLC: every liveness property, since fairness is beyond the prover; and
`MishapsAreContained`, which compares all that a power failure or a failed write
in the middle of a call can leave with what was there before: for that the proof
would need what the searches find in tables that are not chains.

## 5. Not modelled

The console: its semaphore starts at 0 and is given only by who has taken it,
so the first thread that prints waits for ever; nobody prints, and its
initialisation and test are steps of `System`. The queue monitor: compiled only
with a debug option, and every registration of a queue is commented out. `pm.c`
and `led.c` are commented out. Mathematics and control laws are floating point;
headers without code describe parts that are elsewhere. Inside modelled
components: statistics, radio settings, P2P packets, RSSI, lengths of C buffers,
arming (two flags that code outside the repository reads), uploads of
trajectories, the group mask. `k_uptime_get()/1e6`
(`crtp_commander_high_level.c:316`) takes milliseconds for microseconds, which
makes trajectories a thousand times slower; time is not part of `HighLevel`.

## 6. Plan

Everything planned has been modelled. Every safety property that a run checks is
proved as well, but `MishapsAreContained`. Its part about writing over a value
in place and about deleting would follow from lemmas like `TornHoleIsNothing`;
its part about appending needs the tables that a cut append leaves, whose chain
goes on into stale bytes.
