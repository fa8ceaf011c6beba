------------------------------ MODULE Commander ------------------------------
(***************************************************************************)
(* The setpoint arbiter of commander.c, driven by crtp_commander.c.        *)
(*                                                                         *)
(* Every source of setpoints (the stabilizer itself for the high-level     *)
(* planner, the radio, an external receiver) is a thread.  The arbiter's   *)
(* state is two message queues of one slot each, and an "overwrite" of a   *)
(* slot is a k_msgq_get followed by a k_msgq_put: two kernel calls, between *)
(* which a more urgent thread may run the whole of another operation.      *)
(*                                                                         *)
(* Time is kept as ages: the age of a setpoint is the number of ticks since *)
(* its timestamp, counted up to Shutdown + 1 ("expired").                  *)
(***************************************************************************)
EXTENDS Integers, Sequences

CONSTANTS
  Thread,       \* the threads that call the commander
  Stabilizer,   \* the one that also consumes setpoints
  Relaxer,      \* the threads that can call commanderRelaxPriority
  Priority,     \* Priority[t]: the arbitration priority t's setpoints carry
  Urgency,      \* Urgency[t]: how urgent the kernel's scheduler deems t
  TimeSlice,    \* does the kernel slice time among equally urgent threads?
  Null,         \* the source of nullSetpoint
  Stabilize,    \* COMMANDER_WDT_TIMEOUT_STABILIZE, in ticks
  Shutdown,     \* COMMANDER_WDT_TIMEOUT_SHUTDOWN, in ticks
  Punctual      \* does the stabilizer read a setpoint at least once a tick?

\* commander.h: the bottom of the priority scale
Disable   == 0
Lowest    == 1
HighLevel == 1

ASSUME ThreadAssumption ==
  /\ Stabilizer \in Thread
  /\ Relaxer \subseteq Thread \ {Stabilizer}
  /\ Priority \in [Thread -> Nat \ {0}]
  /\ Urgency \in [Thread -> Nat]
  /\ TimeSlice \in BOOLEAN
  /\ Null \notin Thread

ASSUME TimeoutAssumption ==
  /\ Stabilize \in Nat
  /\ Shutdown \in Nat
  /\ Stabilize < Shutdown
  /\ Punctual \in BOOLEAN

Age == 0 .. Shutdown + 1

\* Mutant: an age that does not grow.
NeverOlder(a) == a

Older(a) == IF a > Shutdown THEN a ELSE a + 1

\* The priorities the priority slot can hold.
ActivePriority == {Disable, Lowest} \cup {Priority[t] : t \in Thread}

Setpoint == [from : Thread \cup {Null}, age : Age]

\* The points of the code at which a thread can lose the processor.
Place == {"idle", "offered", "stamp", "getSetpoint", "putSetpoint",
          "getPriority", "putPriority", "disablePlanner",
          "tell", "getRelaxed", "putRelaxed",
          "checkAge", "getReset", "putReset"}

VARIABLES
  setpointQueue,  \* the setpoint slot: a sequence of at most one setpoint
  priorityQueue,  \* the priority slot: a sequence of at most one priority
  pc,             \* where each thread is in the commander's code
  stamp,          \* the age of the timestamp a thread gave to its setpoint
  output,         \* the stabilizer's copy of the setpoint
  leveling,       \* has the stabilizer's copy been changed to level flight?
  plannerEnabled, \* does the high-level planner have an opinion?
  uptime,         \* ticks since boot, the age of a zero timestamp
  polled,         \* Punctual: has a setpoint been read since the last tick?
  panicked        \* an assertion has failed

arbiterVars ==
  <<setpointQueue, priorityQueue, pc, stamp, output, leveling,
    plannerEnabled, uptime, polled, panicked>>

-----------------------------------------------------------------------------
(* k_msgq_get and k_msgq_put with K_NO_WAIT on a queue of one slot: a get of *)
(* an empty queue and a put into a full one do nothing but return an error,  *)
(* which the code ignores.                                                   *)

Slot(S) == {<<>>} \cup {<<x>> : x \in S}

\* Mutants: a peek for a get, and a put that is left out.
PeekForGet(q) == q
PutNothing(q, x) == q

Get(q) == <<>>

Put(q, x) == IF q = <<>> THEN <<x>> ELSE q

-----------------------------------------------------------------------------
(* A thread in the middle of an operation keeps the processor until it is    *)
(* done or a more urgent thread becomes ready; one that may be waiting for   *)
(* lockTraj (at "tell") does not keep it.                                    *)

Running(t) == pc[t] \notin {"idle", "tell"}

Scheduled(t) ==
  /\ ~panicked
  /\ \A u \in Thread \ {t} :
       Running(u) => \/ Urgency[u] < Urgency[t]
                     \/ TimeSlice /\ Urgency[u] = Urgency[t]

\* t, scheduled, goes from one point of the code to another.
Step(t, from, to) ==
  /\ Scheduled(t)
  /\ pc[t] = from
  /\ pc' = [pc EXCEPT ![t] = to]

Panic ==
  /\ panicked' = TRUE
  /\ UNCHANGED <<setpointQueue, priorityQueue, pc, stamp, output, leveling,
                 plannerEnabled, uptime, polled>>

-----------------------------------------------------------------------------
(* commanderSetSetpoint.  The stabilizer calls it only for the planner, when *)
(* crtpCommanderHighLevelGetSetpoint had a setpoint to offer.                *)

PlannerOffers(t) ==
  /\ t = Stabilizer
  /\ plannerEnabled
  /\ Step(t, "idle", "offered")
  /\ UNCHANGED <<setpointQueue, priorityQueue, stamp, output, leveling,
                 plannerEnabled, uptime, polled, panicked>>

\* Where commanderSetSetpoint is called from.
Caller(t) == IF t = Stabilizer THEN "offered" ELSE "idle"

\* A source may replace one of its own priority or lower.
Outranks(priority, active) == priority >= active

\* The peek of the active priority fails: __ASSERT(peekResult == 0).
SetPeekFails(t) ==
  /\ Scheduled(t) /\ pc[t] = Caller(t)
  /\ priorityQueue = <<>>
  /\ Panic

SetAccepted(t) ==
  /\ priorityQueue # <<>>
  /\ Outranks(Priority[t], Head(priorityQueue))
  /\ Step(t, Caller(t), "stamp")
  /\ UNCHANGED <<setpointQueue, priorityQueue, stamp, output, leveling,
                 plannerEnabled, uptime, polled, panicked>>

SetRefused(t) ==
  /\ priorityQueue # <<>>
  /\ ~Outranks(Priority[t], Head(priorityQueue))
  /\ Step(t, Caller(t), "idle")
  /\ UNCHANGED <<setpointQueue, priorityQueue, stamp, output, leveling,
                 plannerEnabled, uptime, polled, panicked>>

SetStamp(t) ==
  /\ Step(t, "stamp", "getSetpoint")
  /\ stamp' = [stamp EXCEPT ![t] = 0]
  /\ UNCHANGED <<setpointQueue, priorityQueue, output, leveling,
                 plannerEnabled, uptime, polled, panicked>>

SetGetSetpoint(t) ==
  /\ Step(t, "getSetpoint", "putSetpoint")
  /\ setpointQueue' = Get(setpointQueue)
  /\ UNCHANGED <<priorityQueue, stamp, output, leveling, plannerEnabled,
                 uptime, polled, panicked>>

SetPutSetpoint(t) ==
  /\ Step(t, "putSetpoint", "getPriority")
  /\ setpointQueue' = Put(setpointQueue, [from |-> t, age |-> stamp[t]])
  /\ stamp' = [stamp EXCEPT ![t] = 0]
  /\ UNCHANGED <<priorityQueue, output, leveling, plannerEnabled, uptime, polled,
                 panicked>>

SetGetPriority(t) ==
  /\ Step(t, "getPriority", "putPriority")
  /\ priorityQueue' = Get(priorityQueue)
  /\ UNCHANGED <<setpointQueue, stamp, output, leveling, plannerEnabled,
                 uptime, polled, panicked>>

SetPutPriority(t) ==
  /\ Step(t, "putPriority",
          IF Priority[t] > HighLevel THEN "disablePlanner" ELSE "idle")
  /\ priorityQueue' = Put(priorityQueue, Priority[t])
  /\ UNCHANGED <<setpointQueue, stamp, output, leveling, plannerEnabled,
                 uptime, polled, panicked>>

\* crtpCommanderHighLevelDisable
SetDisablePlanner(t) ==
  /\ Step(t, "disablePlanner", "idle")
  /\ plannerEnabled' = FALSE
  /\ UNCHANGED <<setpointQueue, priorityQueue, stamp, output, leveling,
                 uptime, polled, panicked>>

-----------------------------------------------------------------------------
(* commanderRelaxPriority                                                    *)

RelaxCall(t) ==
  /\ t \in Relaxer
  /\ Step(t, "idle", "tell")
  /\ UNCHANGED <<setpointQueue, priorityQueue, stamp, output, leveling,
                 plannerEnabled, uptime, polled, panicked>>

\* crtpCommanderHighLevelTellState, which waits for lockTraj
RelaxTellState(t) ==
  /\ Step(t, "tell", "getRelaxed")
  /\ UNCHANGED <<setpointQueue, priorityQueue, stamp, output, leveling,
                 plannerEnabled, uptime, polled, panicked>>

RelaxGetPriority(t) ==
  /\ Step(t, "getRelaxed", "putRelaxed")
  /\ priorityQueue' = Get(priorityQueue)
  /\ UNCHANGED <<setpointQueue, stamp, output, leveling, plannerEnabled,
                 uptime, polled, panicked>>

RelaxPutPriority(t) ==
  /\ Step(t, "putRelaxed", "idle")
  /\ priorityQueue' = Put(priorityQueue, Lowest)
  /\ UNCHANGED <<setpointQueue, stamp, output, leveling, plannerEnabled,
                 uptime, polled, panicked>>

-----------------------------------------------------------------------------
(* commanderGetSetpoint, called by the stabilizer                            *)

\* A peek of an empty queue leaves the caller's copy as it was.
GetPeek(t) ==
  /\ t = Stabilizer
  /\ Step(t, "idle", "checkAge")
  /\ IF setpointQueue = <<>>
       THEN UNCHANGED <<output, leveling>>
       ELSE /\ output' = Head(setpointQueue)
            /\ leveling' = FALSE
  /\ UNCHANGED <<setpointQueue, priorityQueue, stamp, plannerEnabled, uptime, polled,
                 panicked>>

GetFresh(t) ==
  /\ output.age <= Stabilize
  /\ Step(t, "checkAge", "idle")
  /\ polled' = TRUE
  /\ UNCHANGED <<setpointQueue, priorityQueue, stamp, output, leveling,
                 plannerEnabled, uptime, panicked>>

GetExpired(t) ==
  /\ output.age > Shutdown
  /\ Step(t, "checkAge", "idle")
  /\ output' = [from |-> Null, age |-> uptime]
  /\ leveling' = FALSE
  /\ polled' = TRUE
  /\ UNCHANGED <<setpointQueue, priorityQueue, stamp, plannerEnabled, uptime,
                 panicked>>

GetStale(t) ==
  /\ output.age > Stabilize
  /\ output.age <= Shutdown
  /\ Step(t, "checkAge", "getReset")
  /\ UNCHANGED <<setpointQueue, priorityQueue, stamp, output, leveling,
                 plannerEnabled, uptime, polled, panicked>>

GetResetPriority(t) ==
  /\ Step(t, "getReset", "putReset")
  /\ priorityQueue' = Get(priorityQueue)
  /\ UNCHANGED <<setpointQueue, stamp, output, leveling, plannerEnabled,
                 uptime, polled, panicked>>

GetLevel(t) ==
  /\ Step(t, "putReset", "idle")
  /\ priorityQueue' = Put(priorityQueue, Disable)
  /\ leveling' = TRUE
  /\ polled' = TRUE
  /\ UNCHANGED <<setpointQueue, stamp, output, plannerEnabled, uptime, panicked>>

-----------------------------------------------------------------------------
\* commanderGetActivePriority changes nothing, unless its assertion fails.
ActivePriorityFails(t) ==
  /\ Scheduled(t) /\ pc[t] = "idle"
  /\ priorityQueue = <<>>
  /\ Panic

\* A high-level command (take-off, go-to, ...) gives the planner a goal.
PlannerCommand ==
  /\ ~panicked
  /\ ~plannerEnabled
  /\ plannerEnabled' = TRUE
  /\ UNCHANGED <<setpointQueue, priorityQueue, pc, stamp, output, leveling,
                 uptime, polled, panicked>>

\* The tick interrupt, at any time.
Tick ==
  /\ ~panicked
  /\ polled
  /\ polled' = ~Punctual
  /\ setpointQueue' =
       IF setpointQueue = <<>>
         THEN <<>>
         ELSE << [Head(setpointQueue) EXCEPT !.age = Older(@)] >>
  /\ stamp' = [t \in Thread |->
                 IF pc[t] \in {"getSetpoint", "putSetpoint"}
                   THEN Older(stamp[t]) ELSE stamp[t]]
  /\ output' = [output EXCEPT !.age = Older(@)]
  /\ uptime' = Older(uptime)
  /\ UNCHANGED <<priorityQueue, pc, leveling, plannerEnabled, panicked>>

-----------------------------------------------------------------------------
\* commanderInit, with the planner stopped: it then asks for motors off.
ArbiterInit ==
  /\ setpointQueue = << [from |-> Null, age |-> 0] >>
  /\ priorityQueue = << Disable >>
  /\ pc = [t \in Thread |-> "idle"]
  /\ stamp = [t \in Thread |-> 0]
  /\ output = [from |-> Null, age |-> 0]
  /\ leveling = FALSE
  /\ plannerEnabled = TRUE
  /\ uptime = 0
  /\ polled = TRUE
  /\ panicked = FALSE

SetSetpoint(t) ==
  \/ PlannerOffers(t)
  \/ SetPeekFails(t) \/ SetAccepted(t) \/ SetRefused(t) \/ SetStamp(t)
  \/ SetGetSetpoint(t) \/ SetPutSetpoint(t)
  \/ SetGetPriority(t) \/ SetPutPriority(t)
  \/ SetDisablePlanner(t)

RelaxPriority(t) ==
  \/ RelaxCall(t) \/ RelaxTellState(t)
  \/ RelaxGetPriority(t) \/ RelaxPutPriority(t)

GetSetpoint(t) ==
  \/ GetPeek(t) \/ GetFresh(t) \/ GetExpired(t) \/ GetStale(t)
  \/ GetResetPriority(t) \/ GetLevel(t)

ArbiterNext ==
  \/ \E t \in Thread :
       SetSetpoint(t) \/ RelaxPriority(t) \/ GetSetpoint(t)
         \/ ActivePriorityFails(t)
  \/ PlannerCommand
  \/ Tick

ArbiterSpec == ArbiterInit /\ [][ArbiterNext]_arbiterVars

(* The kernel runs every ready thread that nothing more urgent keeps waiting, *)
(* the stabilizer's loop asks for a setpoint and offers the planner's again   *)
(* and again, and time passes.                                                *)
Fairness ==
  /\ \A t \in Thread : SF_arbiterVars(
       pc[t] # "idle" /\ (SetSetpoint(t) \/ RelaxPriority(t) \/ GetSetpoint(t)))
  /\ SF_arbiterVars(PlannerOffers(Stabilizer))
  /\ SF_arbiterVars(GetPeek(Stabilizer))
  /\ WF_arbiterVars(Tick)

FairArbiterSpec == ArbiterSpec /\ Fairness

-----------------------------------------------------------------------------
(* Properties                                                                *)

ArbiterTypeOK ==
  /\ setpointQueue \in Slot(Setpoint)
  /\ priorityQueue \in Slot(ActivePriority)
  /\ pc \in [Thread -> Place]
  /\ stamp \in [Thread -> Age]
  /\ output \in Setpoint
  /\ leveling \in BOOLEAN
  /\ plannerEnabled \in BOOLEAN
  /\ uptime \in Age
  /\ polled \in BOOLEAN
  /\ panicked \in BOOLEAN

\* Whoever empties a slot refills it, or finds it refilled by another: however
\* the gets and puts of commander.c:86-90, 104-105 and 117-118 interleave, a
\* slot is empty only while some thread is between its get and its put.
SlotsAreRefilled ==
  /\ setpointQueue = <<>> => \E t \in Thread : pc[t] = "putSetpoint"
  /\ priorityQueue = <<>> =>
       \E t \in Thread : pc[t] \in {"putPriority", "putRelaxed", "putReset"}

\* The threads that no other can interrupt in the middle of an operation.
Uninterrupted ==
  {t \in Thread : \A u \in Thread \ {t} :
     \/ Urgency[u] < Urgency[t]
     \/ ~TimeSlice /\ Urgency[u] = Urgency[t]}

\* A setpoint accepted from a thread that nothing interrupts is in force, under
\* its own priority, when commanderSetSetpoint is done with the two slots: no
\* put is lost to a full slot (commander.c:86-90), whatever state interrupted
\* threads left the slots in.
AcceptedIsInForce ==
  [][\A t \in Uninterrupted :
       pc[t] = "putPriority" /\ pc'[t] # "putPriority" =>
         /\ setpointQueue' # <<>>
         /\ Head(setpointQueue').from = t
         /\ priorityQueue' = <<Priority[t]>>]_arbiterVars

\* No thread is about to put a setpoint into the slot.
Quiet(t) == pc[t] \notin {"stamp", "getSetpoint", "putSetpoint"}

\* When setpoints stop coming, the stabilizer is in the end told, for good, to
\* cut power (the shutdown timeout, commander.c:114-115).
WatchdogCutsPower ==
  <>[](\A t \in Thread : Quiet(t)) =>
     <>panicked \/ <>[](pc[Stabilizer] = "idle" => output.from = Null)

\* When every other source falls silent while the planner has an opinion, the
\* planner gets control: the stabilize timeout resets the priority before the
\* shutdown timeout hides it (commander.c:116-118).
PlannerTakesOver ==
  <>[](plannerEnabled /\ \A t \in Thread \ {Stabilizer} : pc[t] = "idle")
    => <>panicked \/ []<>(setpointQueue # <<>> /\ Head(setpointQueue).from = Stabilizer)
==============================================================================
