------------------------------- MODULE System -------------------------------
(***************************************************************************)
(* system.c: the start of the firmware.                                    *)
(*                                                                         *)
(* The system task initialises the components in a fixed order, tests      *)
(* them, opens canStartMutex, which it has held since systemInit, and sets *)
(* up the watchdog.  The threads that the components have created wait in  *)
(* systemWaitStart: until isInit is set, then for the mutex, which each    *)
(* passes on.                                                              *)
(*                                                                         *)
(* What the system task does afterwards matters as well: workerLoop        *)
(* returns at once, and the statement K_FOREVER of the loop behind it does *)
(* not wait.  Threads less urgent than the system task then get no time,   *)
(* the idle thread among them, which feeds the watchdog.                   *)
(***************************************************************************)
EXTENDS Naturals, Sequences, FiniteSets

CONSTANTS
  Thread,      \* the threads that call systemWaitStart
  Creator,     \* Creator[t]: the component whose initialisation creates t
  Urgent,      \* the threads more urgent than the system task
  Nobody,      \* holds the mutex when it is free
  SystemTask,
  Crews,       \* the sets of threads that may be there together
  Faults       \* the sets of components that may fail their test together

VARIABLES
  crew,      \* the threads that are there
  ready,     \* the components initialised; "system" stands for isInit
  phase,     \* where the system task is
  broken,    \* the components whose tests fail
  mutex,     \* canStartMutex: who holds it
  at,        \* at[t]: where t is in systemWaitStart
  wdt        \* is the watchdog set up?

sysVars == <<crew, ready, phase, broken, mutex, at, wdt>>

\* Mutant: the mutex is locked once the flag is set.
LockLast ==
  <<"crtp", "console", "configblock", "storage", "worker", "ledseq", "app", "system",
    "startMutex">>

\* systemInit: "startMutex" stands for its lock, "system" for isInit, its last
\* assignment.
SystemInit ==
  <<"startMutex", "crtp", "console", "configblock", "storage", "worker", "ledseq",
    "app", "system">>

\* commInit: "radiolink" is the first setting of the link with what it needs.
CommInit ==
  <<"radiolink", "crtpservice", "platformservice", "log", "param", "locSrv", "comm">>

InitOrder == SystemInit \o CommInit \o <<"commander", "deck", "stabilizer", "mem">>

Component == {InitOrder[i] : i \in DOMAIN InitOrder}

\* What systemTest, commTest and the tests of the other components look at.
InSystemTest == {"system", "ledseq", "worker"}

InCommTest ==
  {"comm", "radiolink", "crtp", "crtpservice", "platformservice", "console", "param"}

Tested ==
  InSystemTest \cup InCommTest
    \cup {"configblock", "storage", "commander", "stabilizer", "deck", "mem"}

ASSUME SystemAssumption ==
  /\ Creator \in [Thread -> Component]
  /\ Urgent \subseteq Thread
  /\ Nobody # SystemTask /\ {Nobody, SystemTask} \cap Thread = {}
  /\ Crews \subseteq SUBSET Thread
  /\ Faults \subseteq SUBSET Tested

-----------------------------------------------------------------------------
(* The system task                                                         *)

NextComponent == InitOrder[Cardinality(ready) + 1]

\* One initialisation after the other.
Initialise ==
  /\ phase = "init"
  /\ ready # Component
  /\ ready' = ready \cup {NextComponent}
  /\ mutex' = IF NextComponent = "startMutex" THEN SystemTask ELSE mutex
  /\ UNCHANGED <<crew, phase, broken, at, wdt>>

\* systemTest: isInit, the LED sequences and the worker.
SystemTest == InSystemTest \subseteq ready \ broken

\* static err of watchdog.c is 0 until watchdogInit has run.
WatchdogNormalStartTest == phase = "init"

SelfTestPasses == Tested \subseteq ready \ broken /\ WatchdogNormalStartTest

\* The tests.  If one of them fails, the task looks for ever at selftestPassed,
\* which nobody can set, or, if systemTest itself fails, goes on without a start.
Test ==
  /\ phase = "init"
  /\ ready = Component
  /\ phase' = IF SelfTestPasses THEN "tested"
              ELSE IF SystemTest THEN "failed" ELSE "done"
  /\ UNCHANGED <<crew, ready, broken, mutex, at, wdt>>

\* k_mutex_unlock gives the mutex to the most urgent waiting thread.  a: where the
\* threads are.
PassOn(a) ==
  LET waiting == {t \in Thread : a[t] = "waits"}
      first   == IF waiting \cap Urgent # {} THEN waiting \cap Urgent ELSE waiting
  IN  IF waiting = {}
        THEN mutex' = Nobody /\ at' = a
        ELSE \E t \in first : mutex' = t /\ at' = [a EXCEPT ![t] = "owns"]

\* systemStart, first half.
Start ==
  /\ phase = "tested"
  /\ PassOn(at)
  /\ phase' = "open"
  /\ UNCHANGED <<crew, ready, broken, wdt>>

\* systemStart, second half.  The watchdog's device is taken to be there.
WatchdogInit ==
  /\ phase = "open"
  /\ phase' = "started"
  /\ wdt' = TRUE
  /\ UNCHANGED <<crew, ready, broken, mutex, at>>

\* workerLoop returns because the work queue runs already.
WorkerLoop ==
  /\ phase = "started"
  /\ "worker" \in ready
  /\ phase' = "done"
  /\ UNCHANGED <<crew, ready, broken, mutex, at, wdt>>

-----------------------------------------------------------------------------
(* The other threads                                                       *)

\* The system task needs all the time it can get.
Spins == phase \in {"failed", "done"}

\* The mutex lends its owner the urgency of those who wait for it.
Boosted(t) == mutex = t /\ \E u \in Urgent : at[u] = "waits"

GetsTime(t) ==
  /\ t \in crew
  /\ Creator[t] \in ready
  /\ Spins => t \in Urgent \/ Boosted(t)

\* systemWaitStart, once isInit is seen.
Lock(t) ==
  /\ GetsTime(t)
  /\ at[t] = "polls"
  /\ "system" \in ready
  /\ IF mutex = Nobody
       THEN mutex' = t /\ at' = [at EXCEPT ![t] = "owns"]
       ELSE at' = [at EXCEPT ![t] = "waits"] /\ UNCHANGED mutex
  /\ UNCHANGED <<crew, ready, phase, broken, wdt>>

\* Mutant: the mutex is kept.
Keep(t) ==
  /\ GetsTime(t)
  /\ at[t] = "owns"
  /\ at' = [at EXCEPT ![t] = "passed"]
  /\ UNCHANGED <<crew, ready, phase, broken, mutex, wdt>>

\* systemWaitStart, the end.
Unlock(t) ==
  /\ GetsTime(t)
  /\ at[t] = "owns"
  /\ PassOn([at EXCEPT ![t] = "passed"])
  /\ UNCHANGED <<crew, ready, phase, broken, wdt>>

\* vApplicationIdleHook feeds the watchdog when no thread wants the processor.
IdleRuns == ~Spins

\* The watchdog has not been fed for WDT_MAX_WINDOW.  WDT_FLAG_RESET_SOC: everything
\* starts again, with the same faults.
WatchdogReset ==
  /\ wdt
  /\ ~IdleRuns
  /\ ready' = {}
  /\ phase' = "init"
  /\ mutex' = Nobody
  /\ at' = [t \in Thread |-> "polls"]
  /\ wdt' = FALSE
  /\ UNCHANGED <<crew, broken>>

-----------------------------------------------------------------------------
SysInit ==
  /\ crew \in Crews
  /\ ready = {}
  /\ phase = "init"
  /\ broken \in Faults
  /\ mutex = Nobody
  /\ at = [t \in Thread |-> "polls"]
  /\ wdt = FALSE

SystemTaskNext == Initialise \/ Test \/ Start \/ WatchdogInit \/ WorkerLoop

\* Everything but the reset, which other modules take part in.
SysNext ==
  \/ SystemTaskNext
  \/ \E t \in Thread : Lock(t) \/ Unlock(t)

SysSpec == SysInit /\ [][SysNext \/ WatchdogReset]_sysVars

-----------------------------------------------------------------------------
(* Properties                                                                *)

SysTypeOK ==
  /\ crew \in Crews
  /\ ready \subseteq Component
  /\ phase \in {"init", "tested", "open", "started", "failed", "done"}
  /\ broken \in Faults
  /\ mutex \in Thread \cup {Nobody, SystemTask}
  /\ at \in [Thread -> {"polls", "waits", "owns", "passed"}]
  /\ wdt \in BOOLEAN
  /\ \A t \in Thread : mutex = t <=> at[t] = "owns"

\* A thread leaves systemWaitStart only when every component is initialised and
\* has passed its test, however early it called and whatever polls and waits there
\* with it, after a reset by the watchdog as well (system.c:83, 312-321).
StartIsEarned ==
  (\E t \in Thread : at[t] \in {"owns", "passed"}) =>
    ready = Component /\ broken = {}

\* The watchdog runs only after the start, so that slow initialisations and
\* tests are not cut short, and no thread waits for a mutex that is free.
NoneForgotten ==
  /\ wdt => ready = Component /\ phase \in {"started", "done"}
  /\ mutex = Nobody => \A t \in Thread : at[t] # "waits"
=============================================================================
