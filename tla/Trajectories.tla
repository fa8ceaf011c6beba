---------------------------- MODULE Trajectories ----------------------------
(***************************************************************************)
(* The data of the high-level commander: where a command starts from, and  *)
(* the trajectories it may start.  The threads are those of HighLevel,     *)
(* whose every step is part of a step here.                                *)
(*                                                                         *)
(* lockTraj covers what the commander tells of the state and what commands *)
(* read of it.  It covers neither what the stabilizer stores after it has  *)
(* evaluated the trajectory, nor its copy of the estimate, which is what   *)
(* the commander tells, nor definitions, nor the test of one before it is  *)
(* started.                                                                *)
(*                                                                         *)
(* A command for another group, or for a compressed trajectory in reverse, *)
(* changes nothing and is left out.  The stabilizer asks for a goal in one *)
(* of ten of its loops; the loops between, which only copy the estimate,   *)
(* are left out.                                                           *)
(***************************************************************************)
EXTENDS HighLevel

CONSTANTS
  Type,        \* the ways pieces are stored: plain or compressed
  Point,       \* what the state estimate may say
  Origin       \* where pos, vel and yaw are at first

ASSUME DataAssumption ==
  /\ None \notin Type
  /\ Origin \in Point

VARIABLES
  definitions,  \* trajectory_descriptions: the type of each, None if invalid
  chosen,       \* for a caller that starts a trajectory: how it reads the pieces
  flown,        \* the type of the started trajectory the planner has, if any
  state,        \* the stabilizer's estimate
  lastState,    \* the commander's copy of it, in two parts, as pos and rest are
  pos, rest,    \* the last known setpoint: its position; its velocity and yaw
  written,      \* in this loop of the stabilizer: 1 pos, 2 rest, 3 it has left,
                \* 4 the position of lastState
  telling,      \* is the commander between its two stores?
  mingled       \* history: the commander's stores have met others, or the copy

trajectoryVars == <<definitions, chosen, flown>>
knownVars      == <<state, lastState, pos, rest, written, telling, mingled>>
dataVars       == <<vars, trajectoryVars, knownVars>>

-----------------------------------------------------------------------------
(* Trajectories                                                            *)

\* What the API's functions and the radio's packets ask for, but for a start.
Order == {cmd \in Command : cmd.goal \notin Slot}

Give(c) ==
  /\ \E cmd \in Order : Call(c, cmd)
  /\ UNCHANGED <<trajectoryVars, knownVars>>

\* The type that decides how the trajectory is started, None if none is.
TypeOf(s) == definitions[s]

\* The test comes before the lock, and a trajectory there is not is no error.
Start(c) ==
  /\ \E s \in Slot :
       /\ TypeOf(s) # None
       /\ Call(c, [to |-> "flying", goal |-> s])
       /\ chosen' = [chosen EXCEPT ![c] = TypeOf(s)]
  /\ UNCHANGED <<definitions, flown, knownVars>>

\* No lock: a start may be between its test and its plan.
Define(s, t) ==
  /\ definitions' = [definitions EXCEPT ![s] = t]
  /\ UNCHANGED <<vars, chosen, flown, knownVars>>

-----------------------------------------------------------------------------
(* Where commands start from                                               *)

\* Mutant: the commander stores without the lock.
Unheard == FALSE

\* crtpCommanderHighLevelTellState: both stores under the lock.  What it is told
\* is lastState, by reference.
Telling == telling

Copying == written = 4

TellPosition ==
  /\ ~telling
  /\ lockTraj = Free
  /\ telling' = TRUE
  /\ pos' = lastState.pos
  /\ mingled' = (written = 1 \/ Copying)
  /\ UNCHANGED <<vars, trajectoryVars, state, lastState, rest, written>>

TellRest ==
  /\ telling
  /\ telling' = FALSE
  /\ rest' = lastState.rest
  /\ mingled' = (mingled \/ written = 1)
  /\ UNCHANGED <<vars, trajectoryVars, state, lastState, pos, written>>

TakeLock(c) ==
  /\ ~Telling
  /\ Lock(c)
  /\ UNCHANGED <<trajectoryVars, knownVars>>

\* There is one static trajectory for each type: a start writes it although the
\* planner may follow the one started before.
Overwrites(c) ==
  {planner.goal, command[c].goal} \subseteq Slot /\ chosen[c] = flown

\* The plan starts from pos, vel and yaw.  It is accepted or refused.
MakePlan(c) ==
  /\ \/ /\ PlanAs(c, Accepted(planner, command[c]))
        /\ flown' = IF command[c].to = "idle" THEN flown ELSE chosen[c]
     \/ /\ ~Overwrites(c) /\ command[c].to # "idle"
        /\ PlanAs(c, planner)
        /\ UNCHANGED flown
     \/ /\ Overwrites(c)
        /\ PlanAs(c, Overwritten(planner, command[c]))
        /\ UNCHANGED flown
  /\ chosen' = [chosen EXCEPT ![c] = None]
  /\ UNCHANGED <<definitions, knownVars>>

DisablePlanner == Disable /\ UNCHANGED <<trajectoryVars, knownVars>>

-----------------------------------------------------------------------------
(* The stabilizer                                                          *)

BeginCycle ==
  /\ written = 0
  /\ Ask
  /\ state' \in Point
  /\ UNCHANGED <<trajectoryVars, lastState, pos, rest, written, telling, mingled>>

Begin ==
  /\ ~Telling
  /\ LockForGoal
  /\ UNCHANGED <<trajectoryVars, knownVars>>

Question ==
  /\ CurrentGoal \/ CheckDisabled \/ CheckStopped
  /\ UNCHANGED <<trajectoryVars, knownVars>>

\* The estimate, or the point of the trajectory that the stabilizer follows.
Stores == place = "estimate" \/ (place = "checkEval" /\ ev # None)
Known  == IF place = "estimate" THEN state ELSE ev

StorePosition ==
  /\ Stores /\ written = 0
  /\ pos' = Known
  /\ written' = 1
  /\ mingled' = telling
  /\ UNCHANGED <<vars, trajectoryVars, state, lastState, rest, telling>>

StoreRest ==
  /\ Stores /\ written = 1
  /\ rest' = Known
  /\ written' = 2
  /\ mingled' = (mingled \/ telling)
  /\ UNCHANGED <<vars, trajectoryVars, state, lastState, pos, telling>>

Leave ==
  /\ \/ written = 2 /\ (Inactive \/ Follow)
     \/ InvalidEval
  /\ written' = 3
  /\ UNCHANGED <<trajectoryVars, state, lastState, pos, rest, telling, mingled>>

\* The end of commanderGetSetpoint, which the stabilizer calls next: no lock.
CopyPosition ==
  /\ written = 3
  /\ lastState' = [lastState EXCEPT !.pos = state]
  /\ written' = 4
  /\ mingled' = (mingled \/ telling)
  /\ UNCHANGED <<vars, trajectoryVars, state, pos, rest, telling>>

\* The estimate is not used again.
CopyRest ==
  /\ Copying
  /\ lastState' = [lastState EXCEPT !.rest = state]
  /\ written' = 0
  /\ state' = Origin
  /\ UNCHANGED <<vars, trajectoryVars, pos, rest, telling, mingled>>

-----------------------------------------------------------------------------
DataInit ==
  /\ Init
  /\ definitions = [s \in Slot |-> None]
  /\ chosen = [c \in Caller |-> None]
  /\ flown = None
  /\ state = Origin
  /\ lastState = [pos |-> Origin, rest |-> Origin]
  /\ pos = Origin
  /\ rest = Origin
  /\ written = 0
  /\ telling = FALSE
  /\ mingled = FALSE

Cycle ==
  \/ BeginCycle \/ Begin \/ Question \/ StorePosition \/ StoreRest \/ Leave
  \/ CopyPosition \/ CopyRest

DataNext ==
  \/ \E c \in Caller : Give(c) \/ Start(c) \/ TakeLock(c) \/ MakePlan(c)
  \/ \E s \in Slot, t \in Type \cup {None} : Define(s, t)
  \/ TellPosition
  \/ TellRest
  \/ DisablePlanner
  \/ Cycle

DataSpec == DataInit /\ [][DataNext]_dataVars

\* As in HighLevel; the commander's thread runs, too.
FairDataSpec ==
  /\ DataSpec
  /\ \A c \in Caller : SF_dataVars(TakeLock(c)) /\ WF_dataVars(MakePlan(c))
  /\ SF_dataVars(Begin)
  /\ WF_dataVars(Cycle)
  /\ WF_dataVars(TellRest)
  /\ SF_dataVars(Question /\ CurrentGoal /\ planner'.state = "idle")

-----------------------------------------------------------------------------
(* Properties                                                              *)

Plans(c) == pc[c] = "planning" /\ pc'[c] = "idle"

\* A command plans from a position, a velocity and a yaw of the same moment
\* (lines 450-453) but for three ways to mix two: it comes between the
\* stabilizer's unlocked stores (324-326, 360-362), the commander's stores have met
\* those, or they have met the copy of the estimate they read (commander.c:102, 133).
StartIsWhole ==
  [][\A c \in Caller :
       Plans(c) => pos = rest \/ written = 1 \/ mingled]_dataVars
=============================================================================
