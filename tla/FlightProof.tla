---------------------------- MODULE FlightProof ----------------------------
(* What flies the copter: the high-level commander, for any number of threads *)
(* that give commands, any trajectories and any points; and the decisions of  *)
(* the PID controller, for any circle of angles, limit and rates.             *)
EXTENDS Trajectories, Controller, TLAPS

(***************************************************************************)
(* The high-level commander: what lockTraj protects, and what it does not  *)
(***************************************************************************)

\* The thread that is at work under the lock is the one that holds it.
LockIsHeld ==
  /\ lockTraj = Stabilizer <=> place = "evaluating"
  /\ \A c \in Caller : lockTraj = c <=> pc[c] = "planning"

Inv == TypeOK /\ LockIsHeld

LEMMA InitInv == Init => Inv
BY ThreadAssumption DEF Init, Inv, TypeOK, LockIsHeld, Command, NoCommand

LEMMA CommandInv ==
  ASSUME Inv, NEW c \in Caller, HandleCommand(c)
  PROVE  Inv'
<1>1. ASSUME NEW cmd \in Command, Call(c, cmd)
      PROVE  Inv'
  <2>1. TypeOK'
    BY <1>1, ThreadAssumption DEF Inv, TypeOK, Call, stabilizerVars
  <2>2. LockIsHeld'
    BY <1>1 DEF Inv, TypeOK, LockIsHeld, Call, stabilizerVars
  <2>. QED
    BY <2>1, <2>2 DEF Inv
<1>2. CASE Lock(c)
  <2>1. TypeOK'
    BY <1>2 DEF Inv, TypeOK, Lock, stabilizerVars
  <2>2. LockIsHeld'
    BY <1>2, ThreadAssumption DEF Inv, TypeOK, LockIsHeld, Lock, stabilizerVars
  <2>. QED
    BY <2>1, <2>2 DEF Inv
<1>3. CASE Plan(c)
  <2>1. planner' \in [state : {"idle", "flying", "landing", "disabled"},
                      goal  : Goal \cup {None}]
    <3>1. command[c] \in Command
      BY DEF Inv, TypeOK
    <3>2. planner' \in Planned(planner, command[c])
      BY <1>3 DEF Plan, PlanAs
    <3>. QED
      BY <3>1, <3>2, ThreadAssumption
         DEF Inv, TypeOK, Planned, Accepted, Overwritten, Command
  <2>2. TypeOK'
    BY <1>3, <2>1 DEF Inv, TypeOK, Plan, PlanAs, Command, NoCommand, stabilizerVars
  <2>3. LockIsHeld'
    BY <1>3, ThreadAssumption DEF Inv, TypeOK, LockIsHeld, Plan, PlanAs, stabilizerVars
  <2>. QED
    BY <2>2, <2>3 DEF Inv
<1>. QED
  BY <1>1, <1>2, <1>3 DEF HandleCommand

LEMMA DisableInv ==
  ASSUME Inv, Disable
  PROVE  Inv'
BY DEF Inv, TypeOK, LockIsHeld, Disable, Disabled, stabilizerVars, callerVars

LEMMA GetSetpointInv ==
  ASSUME Inv, GetSetpoint
  PROVE  Inv'
<1>1. CASE Ask \/ LockForGoal
  BY <1>1, ThreadAssumption
     DEF Inv, TypeOK, LockIsHeld, Ask, LockForGoal, Go, callerVars
<1>2. CASE CurrentGoal
  <2>1. /\ planner' \in [state : {"idle", "flying", "landing", "disabled"},
                         goal  : Goal \cup {None}]
        /\ ev' \in Goal \cup {None}
    BY <1>2 DEF Inv, TypeOK, CurrentGoal
  <2>2. TypeOK'
    BY <1>2, <2>1 DEF Inv, TypeOK, CurrentGoal, Unlocked, Go, callerVars
  <2>3. LockIsHeld'
    BY <1>2, ThreadAssumption
       DEF Inv, TypeOK, LockIsHeld, CurrentGoal, Unlocked, Go, callerVars
  <2>. QED
    BY <2>2, <2>3 DEF Inv
<1>3. CASE CheckDisabled \/ CheckStopped
  BY <1>3 DEF Inv, TypeOK, LockIsHeld, CheckDisabled, CheckStopped, Go, callerVars
<1>4. CASE Inactive \/ Follow
  BY <1>4 DEF Inv, TypeOK, LockIsHeld, Inactive, Follow, Return, Go, MotorsOff,
              callerVars
<1>5. CASE InvalidEval
  BY <1>5 DEF Inv, TypeOK, LockIsHeld, InvalidEval, Return, Go, Disabled,
              callerVars
<1>. QED
  BY <1>1, <1>2, <1>3, <1>4, <1>5 DEF GetSetpoint

LEMMA StepInv == Inv /\ [Next]_vars => Inv'
<1>. SUFFICES ASSUME Inv, [Next]_vars PROVE Inv'
  OBVIOUS
<1>1. CASE \E c \in Caller : HandleCommand(c)
  BY <1>1, CommandInv
<1>2. CASE Disable
  BY <1>2, DisableInv
<1>3. CASE GetSetpoint
  BY <1>3, GetSetpointInv
<1>4. CASE UNCHANGED vars
  BY <1>4 DEF Inv, TypeOK, LockIsHeld, vars, stabilizerVars, callerVars
<1>. QED
  BY <1>1, <1>2, <1>3, <1>4 DEF Next

\* A command changes the trajectory only as the holder of the lock; nothing else
\* changes it, so that it stays the same throughout an evaluation.
LEMMA StepUnchanged ==
  ASSUME Inv, [Next]_vars, place = "evaluating"
  PROVE  planner'.goal = planner.goal
<1>1. lockTraj = Stabilizer
  BY DEF Inv, LockIsHeld
<1>2. ASSUME NEW c \in Caller, HandleCommand(c)
      PROVE  planner'.goal = planner.goal
  <2>1. pc[c] # "planning"
    BY <1>1, ThreadAssumption DEF Inv, LockIsHeld
  <2>. QED
    BY <1>2, <2>1 DEF HandleCommand, Call, Lock, Plan, PlanAs
<1>3. CASE Disable \/ GetSetpoint
  BY <1>3 DEF Inv, TypeOK, Disable, Disabled, GetSetpoint, Ask, LockForGoal, CurrentGoal,
              CheckDisabled, CheckStopped, Inactive, Follow, InvalidEval, Return, Go
<1>4. CASE UNCHANGED vars
  BY <1>4 DEF vars
<1>. QED
  BY <1>2, <1>3, <1>4 DEF Next

\* For any threads and trajectories, every variable keeps its type: the lock has
\* one holder (crtp_commander_high_level.c:315-318, 448-451).
THEOREM TypeTheorem == Spec => []TypeOK
<1>1. Inv => TypeOK
  BY DEF Inv
<1>. QED
  BY <1>1, InitInv, StepInv, PTL DEF Spec

\* For any threads and trajectories, the trajectory does not change while the
\* stabilizer evaluates it (lines 106-107).
THEOREM UnchangedTheorem == Spec => UnchangedWhileEvaluated
<1>1. Inv /\ [Next]_vars =>
        [place = "evaluating" => planner'.goal = planner.goal]_vars
  BY StepUnchanged
<1>. QED
  BY <1>1, InitInv, StepInv, PTL DEF Spec, UnchangedWhileEvaluated
-----------------------------------------------------------------------------
(* The high-level commander without its data                               *)

LEMMA StepOfHighLevel == [DataNext]_dataVars => [Next]_vars
<1>. SUFFICES ASSUME [DataNext]_dataVars
              PROVE  [Next]_vars
  OBVIOUS
<1>1. ASSUME NEW c \in Caller, Give(c) \/ Start(c) \/ TakeLock(c) \/ MakePlan(c)
      PROVE  Next
  <2>1. CASE Give(c)
    BY <2>1 DEF Give, Order, HandleCommand, Next
  <2>2. CASE Start(c)
    <3>1. PICK s \in Slot : Call(c, [to |-> "flying", goal |-> s])
      BY <2>2 DEF Start
    <3>2. [to |-> "flying", goal |-> s] \in Command
      BY ThreadAssumption DEF Command
    <3>. QED
      BY <3>1, <3>2 DEF HandleCommand, Next
  <2>3. CASE TakeLock(c)
    BY <2>3 DEF TakeLock, HandleCommand, Next
  <2>4. CASE MakePlan(c)
    <3>1. PICK p : /\ PlanAs(c, p)
                   /\ \/ p = Accepted(planner, command[c])
                      \/ ~Overwrites(c) /\ command[c].to # "idle" /\ p = planner
                      \/ Overwrites(c) /\ p = Overwritten(planner, command[c])
      BY <2>4 DEF MakePlan
    <3>2. p \in Planned(planner, command[c])
      BY <3>1 DEF Planned, Overwrites
    <3>. QED
      BY <3>1, <3>2 DEF Plan, HandleCommand, Next
  <2>. QED
    BY <1>1, <2>1, <2>2, <2>3, <2>4
<1>2. CASE \E s \in Slot, t \in Type \cup {None} : Define(s, t)
  BY <1>2 DEF Define
<1>3. CASE \/ TellPosition \/ TellRest \/ StorePosition \/ StoreRest
           \/ CopyPosition \/ CopyRest
  BY <1>3 DEF TellPosition, TellRest, StorePosition, StoreRest, CopyPosition, CopyRest
<1>4. CASE DisablePlanner \/ BeginCycle \/ Begin \/ Question \/ Leave
  BY <1>4 DEF DisablePlanner, BeginCycle, Begin, Question, Leave, GetSetpoint, Next
<1>5. CASE UNCHANGED dataVars
  BY <1>5 DEF dataVars
<1>. QED
  BY <1>1, <1>2, <1>3, <1>4, <1>5 DEF DataNext, Cycle

\* With what the commander tells, definitions and the stabilizer's stores, the
\* high-level commander still does nothing that HighLevel does not.
THEOREM Refinement == DataSpec => Spec
BY StepOfHighLevel, PTL DEF DataSpec, DataInit, Spec

\* So no command changes the trajectory during an evaluation, whatever is defined and
\* told meanwhile (lines 106-107).
COROLLARY UnchangedWithData == DataSpec => UnchangedWhileEvaluated
BY Refinement, UnchangedTheorem, PTL

-----------------------------------------------------------------------------
(* What is known when a command plans                                      *)

\* While the commander tells, it has the lock.  What is half written is that of the
\* estimate or of the trajectory, and else the two parts are one, unless the stores met.
KnownOK ==
  /\ telling => lockTraj = Free
  /\ written \in {1, 2} => Stores
  /\ written \in {3, 4} => place = "idle"
  /\ written # 4 => lastState.pos = lastState.rest
  /\ written = 4 => lastState.pos = state
  /\ ~mingled =>
       /\ telling => pos = lastState.pos /\ written \notin {1, 4}
       /\ written = 1 => pos = Known
       /\ ~telling /\ written # 1 => pos = rest

LastState == [pos : Point, rest : Point]

DataTypeOK ==
  /\ state \in Point
  /\ lastState \in LastState
  /\ written \in 0 .. 4
  /\ telling \in BOOLEAN
  /\ mingled \in BOOLEAN

DataInv ==
  /\ Inv
  /\ DataTypeOK
  /\ KnownOK

LEMMA InitData == DataInit => DataInv
<1>. SUFFICES ASSUME DataInit
              PROVE  DataInv
  OBVIOUS
<1>1. Inv
  BY InitInv DEF DataInit
<1>2. DataTypeOK
  <2>1. state \in Point /\ lastState \in LastState /\ written \in 0 .. 4
    BY DataAssumption DEF DataInit, LastState
  <2>2. telling \in BOOLEAN /\ mingled \in BOOLEAN
    BY DEF DataInit
  <2>. QED
    BY <2>1, <2>2 DEF DataTypeOK
<1>3. KnownOK
  BY DEF DataInit, KnownOK
<1>. QED
  BY <1>1, <1>2, <1>3 DEF DataInv

\* A caller takes and releases the lock, and writes none of what is known.
LEMMA CallerData ==
  ASSUME DataInv, Inv', NEW c \in Caller,
         Give(c) \/ Start(c) \/ TakeLock(c) \/ MakePlan(c)
  PROVE  DataInv'
<1>1. UNCHANGED <<place, ev, knownVars>>
  BY DEF Give, Start, TakeLock, MakePlan, PlanAs, Call, Lock, stabilizerVars
<1>2. telling => lockTraj' = Free
  <2>1. CASE Give(c) \/ Start(c)
    BY <2>1 DEF Give, Start, Call, DataInv, KnownOK
  <2>2. CASE TakeLock(c)
    BY <2>2 DEF TakeLock, Telling
  <2>3. CASE MakePlan(c)
    BY <2>3 DEF MakePlan, PlanAs
  <2>. QED
    BY <2>1, <2>2, <2>3
<1>3. DataTypeOK'
  BY <1>1 DEF DataInv, DataTypeOK, knownVars
<1>4. KnownOK'
  BY <1>1, <1>2 DEF DataInv, KnownOK, Stores, Known, knownVars
<1>. QED
  BY <1>3, <1>4 DEF DataInv

LEMMA DefineData ==
  ASSUME DataInv, Inv', NEW s \in Slot, NEW t \in Type \cup {None}, Define(s, t)
  PROVE  DataInv'
<1>1. UNCHANGED <<place, ev, lockTraj, knownVars>>
  BY DEF Define, vars
<1>. QED
  BY <1>1 DEF DataInv, KnownOK, DataTypeOK, Stores, Known, knownVars

LEMMA TellData ==
  ASSUME DataInv, Inv', TellPosition \/ TellRest
  PROVE  DataInv'
<1>1. UNCHANGED <<place, ev, lockTraj, state, lastState, written>>
  BY DEF TellPosition, TellRest, vars
<1>2. DataTypeOK'
  BY <1>1 DEF TellPosition, TellRest, DataInv, DataTypeOK
<1>3. CASE TellPosition
  BY <1>1, <1>2, <1>3 DEF TellPosition, Copying, DataInv, DataTypeOK, KnownOK, Stores, Known
<1>4. CASE TellRest
  BY <1>1, <1>2, <1>4 DEF TellRest, DataInv, DataTypeOK, KnownOK, Stores, Known
<1>. QED
  BY <1>3, <1>4

\* The stabilizer's steps in the planner.
LEMMA AskData ==
  ASSUME DataInv, Inv', BeginCycle \/ Begin \/ Question
  PROVE  DataInv'
<1>1. /\ UNCHANGED <<lastState, pos, rest, written, telling, mingled>>
      /\ telling => lockTraj' = Free
      /\ state' \in Point
  BY DEF BeginCycle, Begin, Question, Telling, Ask, LockForGoal, CurrentGoal,
         CheckDisabled, CheckStopped, Unlocked, DataInv, DataTypeOK, KnownOK, knownVars
<1>2. written = 0
  <2>1. CASE BeginCycle
    BY <2>1 DEF BeginCycle
  <2>2. CASE Begin \/ Question
    <3>1. place \in {"asking", "evaluating", "checkDisabled", "checkStopped"}
      BY <2>2 DEF Begin, Question, LockForGoal, CurrentGoal, CheckDisabled,
                  CheckStopped, Go
    <3>. QED
      BY <3>1 DEF DataInv, DataTypeOK, KnownOK, Stores
  <2>. QED
    BY <2>1, <2>2
<1>3. DataTypeOK'
  BY <1>1 DEF DataInv, DataTypeOK
<1>4. KnownOK'
  BY <1>1, <1>2 DEF DataInv, KnownOK
<1>. QED
  BY <1>3, <1>4 DEF DataInv

LEMMA StoreData ==
  ASSUME DataInv, Inv', StorePosition \/ StoreRest
  PROVE  DataInv'
<1>1. UNCHANGED <<place, ev, lockTraj, state, lastState, telling>>
  BY DEF StorePosition, StoreRest, vars
<1>2. DataTypeOK'
  BY <1>1 DEF StorePosition, StoreRest, DataInv, DataTypeOK
<1>3. KnownOK'
  BY <1>1 DEF StorePosition, StoreRest, DataInv, DataTypeOK, KnownOK, Stores, Known
<1>. QED
  BY <1>2, <1>3 DEF DataInv

LEMMA LeaveData ==
  ASSUME DataInv, Inv', Leave
  PROVE  DataInv'
<1>1. /\ UNCHANGED <<lockTraj, state, lastState, pos, rest, telling, mingled>>
      /\ place' = "idle" /\ written' = 3
  BY DEF Leave, Inactive, Follow, InvalidEval, Return, Go
<1>2. written # 1 /\ written # 4
  BY DEF Leave, Inactive, Follow, InvalidEval, Return, Go, DataInv, KnownOK, Stores
<1>3. DataTypeOK'
  BY <1>1 DEF DataInv, DataTypeOK
<1>4. KnownOK'
  BY <1>1, <1>2 DEF DataInv, KnownOK
<1>. QED
  BY <1>3, <1>4 DEF DataInv

LEMMA CopyData ==
  ASSUME DataInv, Inv', CopyPosition \/ CopyRest
  PROVE  DataInv'
<1>1. UNCHANGED <<place, ev, lockTraj, pos, rest, telling>>
  BY DEF CopyPosition, CopyRest, vars
<1>2. CASE CopyPosition
  <2>1. /\ lastState' \in LastState /\ lastState'.pos = state /\ state' = state
        /\ written = 3 /\ written' = 4 /\ mingled' = (mingled \/ telling)
    BY <1>2 DEF CopyPosition, DataInv, DataTypeOK, LastState
  <2>2. DataTypeOK'
    BY <1>1, <2>1 DEF DataInv, DataTypeOK
  <2>3. KnownOK'
    BY <1>1, <2>1 DEF DataInv, DataTypeOK, KnownOK
  <2>. QED
    BY <2>2, <2>3 DEF DataInv
<1>3. CASE CopyRest
  <2>1. /\ lastState' \in LastState /\ lastState'.pos = lastState.pos
        /\ lastState'.rest = state /\ state' \in Point
        /\ written = 4 /\ written' = 0 /\ mingled' = mingled
    BY <1>3, DataAssumption DEF CopyRest, Copying, DataInv, DataTypeOK, LastState
  <2>2. DataTypeOK'
    BY <1>1, <2>1 DEF DataInv, DataTypeOK
  <2>3. KnownOK'
    BY <1>1, <2>1 DEF DataInv, DataTypeOK, KnownOK
  <2>. QED
    BY <2>2, <2>3 DEF DataInv
<1>. QED
  BY <1>2, <1>3

LEMMA NextData == DataInv /\ Inv' /\ [DataNext]_dataVars => DataInv'
<1>. SUFFICES ASSUME DataInv, Inv', [DataNext]_dataVars
              PROVE  DataInv'
  OBVIOUS
<1>1. CASE UNCHANGED dataVars
  BY <1>1 DEF DataInv, DataTypeOK, KnownOK, Stores, Known, dataVars, vars, knownVars
<1>2. CASE DisablePlanner
  BY <1>2 DEF DisablePlanner, Disable, DataInv, DataTypeOK, KnownOK, Stores, Known,
              stabilizerVars, knownVars
<1>3. CASE Cycle
  BY <1>3, AskData, StoreData, LeaveData, CopyData DEF Cycle
<1>. QED
  BY <1>1, <1>2, <1>3, CallerData, DefineData, TellData DEF DataNext

THEOREM DataInvariance == DataSpec => []DataInv
<1>1. DataSpec => []Inv
  BY Refinement, InitInv, StepInv, PTL DEF Spec
<1>. QED
  BY <1>1, InitData, NextData, PTL DEF DataSpec

-----------------------------------------------------------------------------
(* Result                                                                  *)

\* A command plans from a position, a velocity and a yaw of the same moment, unless it
\* comes between the stabilizer's two stores, or the commander's stores met those or
\* the copy of the estimate (crtp_commander_high_level.c:324-326, 360-362, 450-453;
\* commander.c:102, 133).
THEOREM WholeTheorem == DataSpec => StartIsWhole
<1>1. ASSUME DataInv, DataNext, NEW c \in Caller, Plans(c)
      PROVE  pos = rest \/ written = 1 \/ mingled
  <2>1. lockTraj = c
    BY <1>1 DEF Plans, DataInv, Inv, LockIsHeld
  <2>2. ~telling
    <3>1. lockTraj # Free
      BY <2>1, ThreadAssumption
    <3>. QED
      BY <1>1, <3>1 DEF DataInv, KnownOK
  <2>. QED
    BY <1>1, <2>2 DEF DataInv, KnownOK
<1>2. ASSUME DataInv, [DataNext]_dataVars
      PROVE  [\A c \in Caller : Plans(c) => pos = rest \/ written = 1 \/ mingled]_dataVars
  BY <1>1, <1>2
<1>. QED
  BY DataInvariance, <1>2, PTL DEF DataSpec, StartIsWhole

(***************************************************************************)
(* The PID controller: angles on the circle                                *)
(***************************************************************************)

\* Whole turns.
Turn == 2 * Half
Turns == {m \in Int : m % Turn = 0}

LEMMA DivisionOfInts ==
  ASSUME NEW a \in Int, NEW p \in Nat \ {0}
  PROVE  a % p \in 0 .. p - 1 /\ a \div p \in Int /\ a = p * (a \div p) + (a % p)
  BY SMTT(30)

LEMMA RestIsUnique ==
  ASSUME NEW p \in Nat \ {0}, NEW q \in Int, NEW r \in 0 .. p - 1
  PROVE  (p * q + r) % p = r
  BY SMTT(30)

LEMMA TurnIsNat == Half \in Nat \ {0} /\ Turn \in Nat \ {0}
BY ControllerAssumption DEF Turn

LEMMA MultiplesAreTurns ==
  ASSUME NEW q \in Int
  PROVE  Turn * q \in Turns
<1>1. Turn * q \in Int
  BY TurnIsNat
<1>2. 0 \in 0 .. Turn - 1
  BY TurnIsNat
<1>3. (Turn * q + 0) % Turn = 0
  BY <1>2, TurnIsNat, RestIsUnique
<1>4. Turn * q + 0 = Turn * q
  BY <1>1
<1>. QED
  BY <1>1, <1>3, <1>4 DEF Turns

LEMMA TurnsAreMultiples ==
  ASSUME NEW m \in Turns
  PROVE  m \in Int /\ \E q \in Int : m = Turn * q
<1>1. m \in Int /\ m % Turn = 0
  BY DEF Turns
<1>2. m = Turn * (m \div Turn) + (m % Turn) /\ m \div Turn \in Int
  BY <1>1, TurnIsNat, DivisionOfInts
<1>. DEFINE q == m \div Turn
<1>3. m = Turn * q + 0 /\ q \in Int
  BY <1>1, <1>2
<1>. HIDE DEF q
<1>4. Turn * q \in Int
  BY <1>3, TurnIsNat
<1>. QED
  BY <1>1, <1>3, <1>4

LEMMA Distributes ==
  ASSUME NEW p \in Nat, NEW q \in Int, NEW r \in Int
  PROVE  p * q + p * r = p * (q + r) /\ p * q - p * r = p * (q - r)
OBVIOUS

\* Turns can be added and taken off.
LEMMA TurnsAddUp ==
  ASSUME NEW m \in Turns, NEW n \in Turns
  PROVE  m + n \in Turns /\ m - n \in Turns
<1>1. PICK q \in Int : m = Turn * q
  BY TurnsAreMultiples
<1>2. PICK r \in Int : n = Turn * r
  BY TurnsAreMultiples
<1>3. m + n = Turn * (q + r) /\ m - n = Turn * (q - r)
  BY <1>1, <1>2, TurnIsNat, Distributes
<1>4. q + r \in Int /\ q - r \in Int
  OBVIOUS
<1>. QED
  BY <1>3, <1>4, MultiplesAreTurns

LEMMA NoTurnOrMore ==
  ASSUME NEW m \in Turns
  PROVE  m \in Int /\ (m = 0 \/ m >= Turn \/ m <= -Turn)
<1>1. m \in Int
  BY TurnsAreMultiples
<1>2. PICK q \in Int : m = Turn * q
  BY TurnsAreMultiples
<1>3. CASE q = 0
  BY <1>2, <1>3, TurnIsNat
<1>4. CASE q >= 1
  <2>1. Turn * q >= Turn * 1
    BY <1>4, TurnIsNat, SMTT(30)
  <2>. QED
    BY <1>1, <1>2, <2>1, TurnIsNat
<1>5. CASE q <= -1
  <2>1. Turn * q <= Turn * (-1)
    BY <1>5, TurnIsNat, SMTT(30)
  <2>. QED
    BY <1>1, <1>2, <2>1, TurnIsNat
<1>. QED
  BY <1>1, <1>3, <1>4, <1>5

LEMMA SomeTurns ==
  0 \in Turns /\ Turn \in Turns /\ -Turn \in Turns
<1>1. Turn * 0 = 0 /\ Turn * 1 = Turn /\ Turn * (-1) = -Turn
  BY TurnIsNat
<1>. QED
  BY <1>1, MultiplesAreTurns

LEMMA RestOfTurns ==
  ASSUME NEW d \in Int
  PROVE  d % Turn \in 0 .. Turn - 1 /\ d - (d % Turn) \in Turns
<1>1. /\ d % Turn \in 0 .. Turn - 1
      /\ d \div Turn \in Int
      /\ d = Turn * (d \div Turn) + (d % Turn)
  BY TurnIsNat, DivisionOfInts
<1>. DEFINE q == d \div Turn
<1>2. q \in Int /\ d = Turn * q + (d % Turn)
  BY <1>1
<1>. HIDE DEF q
<1>3. Turn * q \in Int
  BY <1>2, TurnIsNat
<1>4. d - (d % Turn) = Turn * q
  BY <1>1, <1>2, <1>3
<1>. QED
  BY <1>1, <1>2, <1>4, MultiplesAreTurns

\* The loops of capAngle end in range, whole turns away, at the same angle if it was
\* in range.
LEMMA CapAngleProperties ==
  ASSUME NEW a \in Int
  PROVE  /\ CapAngle(a) \in Angle
         /\ CapAngle(a) - a \in Turns
         /\ a \in Angle => CapAngle(a) = a
<1>. DEFINE Fits(x) ==
       /\ (x - a) % (2 * Half) = 0
       /\ a \in Angle => x = a
       /\ a > Half => x # -Half
       /\ a < -Half => x # Half
<1>1. ASSUME NEW x \in Angle, x - a \in Turns
      PROVE  (x - a) % (2 * Half) = 0
  BY <1>1 DEF Turns, Turn
<1>2. Half \in Nat \ {0} /\ Turn = 2 * Half
  BY TurnIsNat DEF Turn
<1>3. \E x \in Angle : Fits(x)
  <2>1. CASE a \in Angle
    <3>1. a - a \in Turns
      BY SomeTurns
    <3>2. Fits(a)
      BY <1>1, <1>2, <2>1, <3>1 DEF Angle
    <3>. QED
      BY <2>1, <3>2
  <2>2. CASE a \notin Angle
    <3>. DEFINE r == (a + Half) % Turn
                x == r - Half
    <3>1. r \in 0 .. Turn - 1 /\ (a + Half) - r \in Turns
      BY <1>2, RestOfTurns
    <3>. HIDE DEF r
    <3>2. x \in Angle /\ x # Half
      BY <1>2, <3>1 DEF Angle
    <3>3. x - a \in Turns
      <4>1. 0 - ((a + Half) - r) \in Turns
        BY <3>1, SomeTurns, TurnsAddUp
      <4>2. 0 - ((a + Half) - r) = x - a
        BY <1>2, <3>1
      <4>. QED
        BY <4>1, <4>2
    <3>4. CASE x # -Half \/ a < -Half
      <4>1. Fits(x)
        BY <1>1, <1>2, <2>2, <3>2, <3>3, <3>4
      <4>. QED
        BY <3>2, <4>1
    <3>5. CASE x = -Half /\ ~(a < -Half)
      <4>1. Half \in Angle
        BY <1>2 DEF Angle
      <4>2. (x - a) + Turn \in Turns
        BY <3>3, SomeTurns, TurnsAddUp
      <4>3. (x - a) + Turn = Half - a
        BY <1>2, <3>5
      <4>4. Half # -Half
        BY <1>2
      <4>5. Fits(Half)
        BY <1>1, <2>2, <3>5, <4>1, <4>2, <4>3, <4>4
      <4>. QED
        BY <4>1, <4>5
    <3>. QED
      BY <3>4, <3>5
  <2>. QED
    BY <2>1, <2>2
<1>4. CapAngle(a) = CHOOSE x \in Angle : Fits(x)
  BY DEF CapAngle
<1>5. CapAngle(a) \in Angle /\ Fits(CapAngle(a))
  BY <1>3, <1>4
<1>6. CapAngle(a) - a \in Int
  BY <1>2, <1>5 DEF Angle
<1>. QED
  BY <1>2, <1>5, <1>6 DEF Turns

\* The distance of two headings is the least that their difference can be made by
\* whole turns.
LEMMA DistanceIsLeast ==
  ASSUME NEW x \in Int, NEW y \in Int
  PROVE  /\ Distance(x, y) \in 0 .. Half
         /\ \A m \in Turns : Distance(x, y) <= x - y + m \/ Distance(x, y) <= -(x - y + m)
         /\ \E m \in Turns : Distance(x, y) = x - y + m \/ Distance(x, y) = -(x - y + m)
<1>. DEFINE d == x - y
            r == d % Turn
<1>1. Half \in Nat \ {0} /\ Turn = 2 * Half
  BY TurnIsNat DEF Turn
<1>2. d \in Int
  OBVIOUS
<1>3. r \in 0 .. Turn - 1 /\ d - r \in Turns
  BY <1>2, RestOfTurns
<1>4. Distance(x, y) = IF r > Half THEN Turn - r ELSE r
  BY <1>1 DEF Distance
<1>. HIDE DEF r, d
<1>5. Distance(x, y) \in 0 .. Half
  BY <1>1, <1>3, <1>4
<1>6. ASSUME NEW m \in Turns
      PROVE  Distance(x, y) <= d + m \/ Distance(x, y) <= -(d + m)
  <2>1. (d - r) + m \in Turns
    BY <1>3, <1>6, TurnsAddUp
  <2>. DEFINE n == (d - r) + m
  <2>2. n \in Int /\ (n = 0 \/ n >= Turn \/ n <= -Turn)
    BY <2>1, NoTurnOrMore
  <2>3. m \in Int
    BY <1>6, TurnsAreMultiples
  <2>4. d + m = r + n
    BY <1>2, <1>3, <2>3
  <2>. HIDE DEF n
  <2>. QED
    BY <1>1, <1>3, <1>4, <2>2, <2>4
<1>7. \E m \in Turns : Distance(x, y) = d + m \/ Distance(x, y) = -(d + m)
  <2>1. 0 - (d - r) \in Turns /\ (0 - (d - r)) - Turn \in Turns
    BY <1>3, SomeTurns, TurnsAddUp
  <2>2. d + (0 - (d - r)) = r /\ -(d + ((0 - (d - r)) - Turn)) = Turn - r
    BY <1>1, <1>2, <1>3
  <2>3. CASE r > Half
    BY <1>4, <2>1, <2>2, <2>3
  <2>4. CASE ~(r > Half)
    BY <1>4, <2>1, <2>2, <2>4
  <2>. QED
    BY <2>3, <2>4
<1>. QED
  BY <1>5, <1>6, <1>7 DEF d

LEMMA DistanceIsNoMore ==
  ASSUME NEW x \in Int, NEW y \in Int, NEW m \in Turns, NEW n \in Nat,
         x - y + m \in -n .. n
  PROVE  Distance(x, y) <= n
<1>1. m \in Int /\ Distance(x, y) \in 0 .. Half
  BY TurnsAreMultiples, DistanceIsLeast
<1>2. Distance(x, y) <= x - y + m \/ Distance(x, y) <= -(x - y + m)
  BY DistanceIsLeast
<1>. QED
  BY <1>1, <1>2, TurnIsNat

(***************************************************************************)
(* The PID controller: the yaw setpoint                                    *)
(***************************************************************************)

LEMMA LimitIsNat == YawMaxDelta \in Nat /\ YawMaxDelta <= Half
BY ControllerAssumption

\* The setpoint that a velocity gives, and the way to what it asked for.
LEMMA VelocityTurns ==
  ASSUME NEW yaw \in Angle, NEW rate \in Rates
  PROVE  /\ yaw + rate \in Int
         /\ CapAngle(yaw + rate) \in Angle
         /\ CapAngle(yaw + rate) - (yaw + rate) \in Turns
<1>1. yaw + rate \in Int
  BY ControllerAssumption DEF Angle
<1>. QED
  BY <1>1, CapAngleProperties

LEMMA WithinIsInt ==
  ASSUME NEW wanted \in Angle, NEW actual \in Angle
  PROVE  Within(wanted, actual) \in Int
BY LimitIsNat, TurnIsNat DEF Within, Angle

LEMMA NextYawOfVelocity ==
  ASSUME NEW rate, NEW actual
  PROVE  NextYaw([yaw |-> "velocity", rate |-> rate], actual) =
           CapAngle(Within(CapAngle(desiredYaw + rate), actual))
BY DEF NextYaw

\* Of two headings that differ by whole turns, one may stand for the other.
LEMMA NearestOfWithin ==
  ASSUME NEW wanted \in Int, NEW actual \in Angle, YawMaxDelta # 0
  PROVE  LET next == CapAngle(Within(CapAngle(wanted), actual))
         IN  /\ next \in Allowed(actual)
             /\ \A x \in Allowed(actual) : Distance(next, wanted) <= Distance(x, wanted)
<1>. DEFINE w     == CapAngle(wanted)
            delta == CapAngle(w - actual)
            in    == Within(w, actual)
            next  == CapAngle(in)
<1>1. Half \in Nat \ {0} /\ Turn = 2 * Half /\ YawMaxDelta \in Nat \ {0} /\ YawMaxDelta <= Half
  BY TurnIsNat, LimitIsNat DEF Turn
<1>2. w \in Int /\ w - wanted \in Turns
  BY <1>1, CapAngleProperties DEF Angle
<1>3. actual \in Int
  BY <1>1 DEF Angle
<1>4. w - actual \in Int
  BY <1>2, <1>3
<1>5. delta \in -Half .. Half /\ delta - (w - actual) \in Turns
  BY <1>4, CapAngleProperties DEF Angle
<1>6. in = IF delta > YawMaxDelta THEN actual + YawMaxDelta
           ELSE IF delta < -YawMaxDelta THEN actual - YawMaxDelta
           ELSE w
  BY <1>1 DEF Within
<1>. HIDE DEF w, delta, in
<1>7. in \in Int
  BY <1>1, <1>2, <1>3, <1>6
<1>8. next \in Angle /\ next \in Int /\ next - in \in Turns
  BY <1>1, <1>7, CapAngleProperties DEF Angle
<1>. HIDE DEF next
<1>. DEFINE e == next - actual
\* By whole turns, the way from the actual heading to the next one is the way to the
\* wanted one, cut at the limit.
<1>. DEFINE cut == IF delta > YawMaxDelta THEN YawMaxDelta
                   ELSE IF delta < -YawMaxDelta THEN -YawMaxDelta
                   ELSE delta
<1>9. cut \in -YawMaxDelta .. YawMaxDelta
  BY <1>1, <1>5
<1>10. cut - (in - actual) \in Turns
  <2>1. CASE delta > YawMaxDelta \/ delta < -YawMaxDelta
    <3>1. cut - (in - actual) = 0
      BY <1>1, <1>3, <1>5, <1>6, <2>1
    <3>. QED
      BY <3>1, SomeTurns
  <2>2. CASE ~(delta > YawMaxDelta) /\ ~(delta < -YawMaxDelta)
    BY <1>5, <1>6, <2>2
  <2>. QED
    BY <2>1, <2>2
<1>11. delta - (wanted - actual) \in Turns
  <2>1. (delta - (w - actual)) + (w - wanted) \in Turns
    BY <1>2, <1>5, TurnsAddUp
  <2>2. (delta - (w - actual)) + (w - wanted) = delta - (wanted - actual)
    BY <1>2, <1>3, <1>5
  <2>. QED
    BY <2>1, <2>2
<1>. HIDE DEF cut
<1>12. cut - (next - actual) \in Turns
  <2>1. (cut - (in - actual)) - (next - in) \in Turns
    BY <1>8, <1>10, TurnsAddUp
  <2>2. (cut - (in - actual)) - (next - in) = cut - (next - actual)
    BY <1>3, <1>7, <1>8, <1>9
  <2>. QED
    BY <2>1, <2>2
<1>13. next \in Allowed(actual)
  <2>1. next - actual + (cut - (next - actual)) = cut
    BY <1>3, <1>8, <1>9
  <2>2. Distance(next, actual) <= YawMaxDelta
    BY <1>1, <1>3, <1>8, <1>9, <1>12, <2>1, DistanceIsNoMore
  <2>. QED
    BY <1>1, <1>8, <2>2 DEF Allowed
<1>. DEFINE short == IF delta > YawMaxDelta THEN delta - YawMaxDelta
                     ELSE IF delta < -YawMaxDelta THEN -delta - YawMaxDelta
                     ELSE 0
<1>14. short \in Nat /\ cut - delta \in -short .. short
  BY <1>1, <1>5 DEF cut
<1>15. Distance(next, wanted) <= short
  <2>. DEFINE m == (cut - (next - actual)) - (delta - (wanted - actual))
  <2>1. m \in Turns
    BY <1>11, <1>12, TurnsAddUp
  <2>2. next - wanted + m = cut - delta
    BY <1>3, <1>5, <1>8, <1>9
  <2>. HIDE DEF m
  <2>. QED
    BY <1>8, <1>14, <2>1, <2>2, DistanceIsNoMore
<1>16. ASSUME NEW x \in Allowed(actual)
       PROVE  short <= Distance(x, wanted)
  <2>1. x \in Int /\ Distance(x, actual) <= YawMaxDelta
    BY <1>1, <1>16 DEF Allowed, Angle
  <2>2. PICK m \in Turns : \/ Distance(x, actual) = x - actual + m
                           \/ Distance(x, actual) = -(x - actual + m)
    BY <1>3, <2>1, DistanceIsLeast
  <2>3. m \in Int /\ Distance(x, actual) \in 0 .. Half
    BY <1>3, <2>1, <2>2, TurnsAreMultiples, DistanceIsLeast
  <2>4. x - actual + m \in -YawMaxDelta .. YawMaxDelta
    BY <1>1, <1>3, <2>1, <2>2, <2>3
  <2>5. PICK n \in Turns : \/ Distance(x, wanted) = x - wanted + n
                           \/ Distance(x, wanted) = -(x - wanted + n)
    BY <2>1, DistanceIsLeast
  <2>6. n \in Int /\ Distance(x, wanted) \in 0 .. Half
    BY <2>1, <2>5, TurnsAreMultiples, DistanceIsLeast
  <2>. DEFINE k == (n - m) + (delta - (wanted - actual))
              f == x - actual + m
  <2>7. k \in Int /\ (k = 0 \/ k >= Turn \/ k <= -Turn)
    BY <1>11, <2>2, <2>5, TurnsAddUp, NoTurnOrMore
  <2>8. f \in -YawMaxDelta .. YawMaxDelta
    BY <2>4
  <2>9. x - wanted + n = f + (k - delta)
    <3>1. k - delta = (n - m) - (wanted - actual)
      BY <1>3, <1>5, <2>3, <2>6
    <3>. QED
      BY <1>3, <2>1, <2>3, <2>6, <3>1
  <2>. HIDE DEF k, f
  <2>. QED
    BY <1>1, <1>5, <2>5, <2>6, <2>7, <2>8, <2>9
<1>17. ASSUME NEW x \in Allowed(actual)
       PROVE  Distance(next, wanted) <= Distance(x, wanted)
  <2>1. x \in Int
    BY <1>1, <1>17 DEF Allowed, Angle
  <2>2. Distance(next, wanted) \in 0 .. Half /\ Distance(x, wanted) \in 0 .. Half
    BY <1>8, <2>1, DistanceIsLeast
  <2>3. short <= Distance(x, wanted)
    BY <1>16, <1>17
  <2>. QED
    BY <1>14, <1>15, <2>2, <2>3
<1>. QED
  BY <1>13, <1>17 DEF next, in, w

\* The yaw setpoint stays on the circle.
ControlInv == desiredYaw \in Angle

LEMMA NextYawIsAngle ==
  ASSUME desiredYaw \in Angle, NEW sp \in Setpoint, NEW actual \in Angle
  PROVE  NextYaw(sp, actual) \in Angle
<1>. DEFINE velocity == Within(CapAngle(desiredYaw + sp.rate), actual)
<1>1. /\ sp.yaw \in {"velocity", "abs", "disable"}
      /\ sp.rate \in Rates
      /\ sp.angle \in {-Half, Half + 1}
  BY DEF Setpoint
<1>2. velocity \in Int
  BY <1>1, VelocityTurns, WithinIsInt
<1>3. sp.angle \in Int /\ desiredYaw \in Int
  BY <1>1, TurnIsNat DEF Angle
<1>. HIDE DEF velocity
<1>4. NextYaw(sp, actual) =
        CapAngle(CASE sp.yaw = "velocity" -> velocity
                   [] sp.yaw = "abs"      -> sp.angle
                   [] sp.yaw = "disable"  -> desiredYaw)
  BY DEF NextYaw, velocity
<1>5. CASE sp.yaw = "velocity"
  BY <1>2, <1>4, <1>5, CapAngleProperties
<1>6. CASE sp.yaw = "abs"
  BY <1>3, <1>4, <1>6, CapAngleProperties
<1>7. CASE sp.yaw = "disable"
  BY <1>3, <1>4, <1>7, CapAngleProperties
<1>. QED
  BY <1>1, <1>5, <1>6, <1>7

LEMMA ControlInvariance == ControlSpec => []ControlInv
<1>1. ControlInit => ControlInv
  BY TurnIsNat DEF ControlInit, ControlInv, Angle
<1>2. ControlInv /\ [ControlNext]_controlVars => ControlInv'
  <2>1. ASSUME ControlInv, NEW type \in {AutoSelect, PID, Count}, ControllerInit(type)
        PROVE  ControlInv'
    BY <2>1 DEF ControllerInit, ControlInv
  <2>2. ASSUME ControlInv, NEW sp \in Setpoint, NEW actual \in Angle, NEW due \in Due,
               Update(sp, actual, due)
        PROVE  ControlInv'
    <3>1. desiredYaw' \in {actual, NextYaw(sp, actual), desiredYaw}
      BY <2>2 DEF Update
    <3>. QED
      BY <2>2, <3>1, NextYawIsAngle DEF ControlInv
  <2>3. ASSUME ControlInv, UNCHANGED controlVars
        PROVE  ControlInv'
    BY <2>3 DEF controlVars, ControlInv
  <2>. QED
    BY <2>1, <2>2, <2>3 DEF ControlNext
<1>. QED
  BY <1>1, <1>2, PTL DEF ControlSpec

\* On any circle and with any limit, a yaw velocity turns the setpoint to the allowed
\* heading that is nearest to the one asked for (controller_pid.c:64-80).
THEOREM YawTheorem == ControlSpec => []YawIsNearest
<1>1. ControlInv => YawIsNearest
  <2>. SUFFICES ASSUME desiredYaw \in Angle, NEW actual \in Angle, NEW rate \in Rates
                PROVE  LET wanted == desiredYaw + rate
                           next == NextYaw([yaw |-> "velocity", rate |-> rate], actual)
                       IN  /\ next \in Allowed(actual)
                           /\ \A x \in Allowed(actual) :
                                Distance(next, wanted) <= Distance(x, wanted)
    BY DEF ControlInv, YawIsNearest
  <2>. DEFINE wanted == desiredYaw + rate
              next == CapAngle(Within(CapAngle(wanted), actual))
  <2>1. NextYaw([yaw |-> "velocity", rate |-> rate], actual) = next
    BY NextYawOfVelocity
  <2>2. /\ wanted \in Int
        /\ CapAngle(wanted) \in Angle
        /\ CapAngle(wanted) - wanted \in Turns
    BY VelocityTurns
  <2>. HIDE DEF wanted
  <2>3. next \in Allowed(actual) /\ \A x \in Allowed(actual) :
          Distance(next, wanted) <= Distance(x, wanted)
    <3>1. CASE YawMaxDelta # 0
      BY <2>2, <3>1, NearestOfWithin
    <3>2. CASE YawMaxDelta = 0
      <4>1. CapAngle(wanted) \in Int
        BY <2>2, TurnIsNat DEF Angle
      <4>2. next = CapAngle(wanted)
        BY <2>2, <3>2, <4>1, CapAngleProperties DEF Within
      <4>3. next \in Allowed(actual)
        BY <2>2, <3>2, <4>2 DEF Allowed
      <4>4. Distance(next, wanted) = 0
        BY <2>2, <4>2, TurnIsNat DEF Distance, Turns, Turn
      <4>5. ASSUME NEW x \in Allowed(actual)
            PROVE  0 <= Distance(x, wanted)
        <5>1. x \in Int
          BY <4>5, TurnIsNat DEF Allowed, Angle
        <5>. QED
          BY <2>2, <5>1, TurnIsNat, DistanceIsLeast
      <4>. QED
        BY <4>3, <4>4, <4>5
    <3>. QED
      BY <3>1, <3>2
  <2>. QED
    BY <2>1, <2>3 DEF wanted
<1>. QED
  BY <1>1, ControlInvariance, PTL
=============================================================================
