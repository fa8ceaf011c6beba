----------------------------- MODULE HighLevel -----------------------------
(***************************************************************************)
(* The high-level commander, crtp_commander_high_level.c: commands from    *)
(* the radio and from applications give the planner a trajectory, and the  *)
(* stabilizer asks it for a setpoint 100 times a second.                   *)
(*                                                                         *)
(* lockTraj covers the evaluation of the trajectory and its replacement by *)
(* a command.  It covers neither the questions the stabilizer asks the     *)
(* planner after the evaluation, nor plan_disable, which the commander     *)
(* calls for every setpoint of a higher priority.                          *)
(*                                                                         *)
(* The planner itself is not part of the source: its functions are taken   *)
(* to do what planner.h says of them.                                      *)
(***************************************************************************)
EXTENDS Naturals

CONSTANTS
  Caller,     \* the threads that give commands: the task's and applications'
  Stabilizer, \* the thread that asks for setpoints
  Free,       \* the holder of a free lock
  Goal,       \* the trajectories commands ask for
  Slot,       \* those that start_trajectory starts, by the number of a definition
  None,       \* no trajectory, and no opinion
  Null,       \* the null setpoint: motors off
  CallLimit   \* how many commands a caller gives

ASSUME ThreadAssumption ==
  /\ Stabilizer \notin Caller
  /\ Free \notin Caller \cup {Stabilizer}
  /\ Slot \subseteq Goal
  /\ None \notin Goal
  /\ Null \notin Goal \cup {None}
  /\ CallLimit \in Nat

VARIABLES
  planner,   \* its state, and the trajectory it follows or followed last
  lockTraj,  \* the thread that holds the lock
  place,     \* where the stabilizer is in crtpCommanderHighLevelGetSetpoint
  ev,        \* the stabilizer's evaluation of the trajectory, None if invalid
  setpoint,  \* what the stabilizer's last question gave: a goal, Null, or None
  pc,        \* where each caller is in handleCommand
  command,   \* the command each caller gives
  calls      \* how many commands each caller has given

vars == <<planner, lockTraj, place, ev, setpoint, pc, command, calls>>

stabilizerVars == <<place, ev, setpoint>>
callerVars     == <<pc, command, calls>>

\* A command and the state it puts the planner into: takeoff, go_to and
\* start_trajectory, land, or stop.
Command ==
  [to : {"flying", "landing"}, goal : Goal] \cup [to : {"idle"}, goal : {None}]

NoCommand == [to |-> "idle", goal |-> None]

IsDisabled == planner.state = "disabled"
IsStopped  == planner.state = "idle"

Disabled(p) == [p EXCEPT !.state = "disabled"]

-----------------------------------------------------------------------------
(* handleCommand                                                           *)

Call(c, cmd) ==
  /\ pc[c] = "idle"
  /\ calls[c] < CallLimit
  /\ pc' = [pc EXCEPT ![c] = "waiting"]
  /\ command' = [command EXCEPT ![c] = cmd]
  /\ calls' = [calls EXCEPT ![c] = @ + 1]
  /\ UNCHANGED <<planner, lockTraj, stabilizerVars>>

\* Mutant: the lock is taken whoever holds it.
LockAnyway(c) ==
  /\ pc[c] = "waiting"
  /\ lockTraj' = c
  /\ pc' = [pc EXCEPT ![c] = "planning"]
  /\ UNCHANGED <<planner, stabilizerVars, command, calls>>

Lock(c) ==
  /\ pc[c] = "waiting"
  /\ lockTraj = Free
  /\ lockTraj' = c
  /\ pc' = [pc EXCEPT ![c] = "planning"]
  /\ UNCHANGED <<planner, stabilizerVars, command, calls>>

\* The planner obeys.
Accepted(p, cmd) ==
  IF cmd.to = "idle"
    THEN [p EXCEPT !.state = "idle"]
    ELSE [state |-> cmd.to, goal |-> cmd.goal]

\* start_trajectory writes its static trajectory before the planner may refuse it:
\* a planner that follows the one started before then follows the new one.
Overwritten(p, cmd) == [p EXCEPT !.goal = cmd.goal]

\* plan_takeoff, plan_land, plan_go_to..., plan_start_trajectory may refuse;
\* plan_stop does not.  Whether two trajectories share a static one is left open.
Planned(p, cmd) ==
  {Accepted(p, cmd)} \cup
  (IF {p.goal, cmd.goal} \subseteq Slot THEN {p, Overwritten(p, cmd)}
   ELSE IF cmd.to = "idle" THEN {}
   ELSE {p})

PlanAs(c, p) ==
  /\ pc[c] = "planning"
  /\ planner' = p
  /\ lockTraj' = Free
  /\ pc' = [pc EXCEPT ![c] = "idle"]
  /\ command' = [command EXCEPT ![c] = NoCommand]
  /\ UNCHANGED <<stabilizerVars, calls>>

Plan(c) == \E p \in Planned(planner, command[c]) : PlanAs(c, p)

\* crtpCommanderHighLevelDisable, called by the commander, without the lock.
Disable ==
  /\ planner' = Disabled(planner)
  /\ UNCHANGED <<lockTraj, stabilizerVars, callerVars>>

-----------------------------------------------------------------------------
(* crtpCommanderHighLevelGetSetpoint                                       *)

Go(from, to) == place = from /\ place' = to

\* What it returns; None stands for false.  The evaluation is a local variable.
Return(from, s) == Go(from, "idle") /\ setpoint' = s /\ ev' = None

\* The stabilizer's loop asks, and waits for the lock.
Ask ==
  /\ Go("idle", "asking")
  /\ setpoint' = None
  /\ UNCHANGED <<planner, lockTraj, ev, callerVars>>

LockForGoal ==
  /\ Go("asking", "evaluating")
  /\ lockTraj = Free
  /\ lockTraj' = Stabilizer
  /\ UNCHANGED <<planner, ev, setpoint, callerVars>>

\* Mutant: the lock is kept when there is no trajectory.
Kept(e) == IF e = None THEN Stabilizer ELSE Free

Unlocked(e) == Free

\* plan_current_goal, which evaluates an active trajectory, and then the unlock.
\* Motors are cut when a landing ends.
CurrentGoal ==
  /\ Go("evaluating", "checkDisabled")
  /\ \/ /\ planner.state \in {"flying", "landing"}
        /\ ev' = planner.goal
        /\ UNCHANGED planner
     \/ /\ planner.state \in {"idle", "disabled"}
        /\ ev' = None
        /\ UNCHANGED planner
     \/ /\ planner.state = "landing"
        /\ ev' = None
        /\ planner' = [planner EXCEPT !.state = "idle"]
  /\ lockTraj' = Unlocked(ev')
  /\ UNCHANGED <<setpoint, callerVars>>

CheckDisabled ==
  /\ Go("checkDisabled", IF IsDisabled THEN "estimate" ELSE "checkStopped")
  /\ UNCHANGED <<planner, lockTraj, ev, setpoint, callerVars>>

CheckStopped ==
  /\ Go("checkStopped", IF IsStopped THEN "estimate" ELSE "checkEval")
  /\ UNCHANGED <<planner, lockTraj, ev, setpoint, callerVars>>

\* Mutant: no opinion of a stopped planner.
NoOpinion == None

MotorsOff == Null

\* The planner is asked again, after pos, vel and yaw have been set.
Inactive ==
  /\ Return("estimate", IF IsStopped THEN MotorsOff ELSE None)
  /\ UNCHANGED <<planner, lockTraj, callerVars>>

Follow ==
  /\ ev # None
  /\ Return("checkEval", ev)
  /\ UNCHANGED <<planner, lockTraj, callerVars>>

\* "Not disabled or stopped but invalid eval indicates a programming error."
InvalidEval ==
  /\ ev = None
  /\ Return("checkEval", None)
  /\ planner' = Disabled(planner)
  /\ UNCHANGED <<lockTraj, callerVars>>

-----------------------------------------------------------------------------
Init ==
  /\ planner = [state |-> "idle", goal |-> None]
  /\ lockTraj = Free
  /\ place = "idle"
  /\ ev = None
  /\ setpoint = None
  /\ pc = [c \in Caller |-> "idle"]
  /\ command = [c \in Caller |-> NoCommand]
  /\ calls = [c \in Caller |-> 0]

HandleCommand(c) ==
  \/ \E cmd \in Command : Call(c, cmd)
  \/ Lock(c)
  \/ Plan(c)

GetSetpoint ==
  \/ Ask
  \/ LockForGoal
  \/ CurrentGoal
  \/ CheckDisabled
  \/ CheckStopped
  \/ Inactive
  \/ Follow
  \/ InvalidEval

Next == (\E c \in Caller : HandleCommand(c)) \/ Disable \/ GetSetpoint

Spec == Init /\ [][Next]_vars

\* Every thread runs, the stabilizer in a loop; the kernel hands a freed lock to
\* a waiting thread; a landing takes a limited time.
FairSpec ==
  /\ Spec
  /\ \A c \in Caller : SF_vars(Lock(c)) /\ WF_vars(Plan(c))
  /\ SF_vars(LockForGoal)
  /\ WF_vars(GetSetpoint)
  /\ SF_vars(CurrentGoal /\ planner'.state = "idle")

-----------------------------------------------------------------------------
(* Properties                                                              *)

TypeOK ==
  /\ planner \in [state : {"idle", "flying", "landing", "disabled"},
                  goal  : Goal \cup {None}]
  /\ lockTraj \in Caller \cup {Stabilizer, Free}
  /\ place \in {"idle", "asking", "evaluating", "checkDisabled", "checkStopped",
                "estimate", "checkEval"}
  /\ ev \in Goal \cup {None}
  /\ setpoint \in Goal \cup {Null, None}
  /\ pc \in [Caller -> {"idle", "waiting", "planning"}]
  /\ command \in [Caller -> Command]
  /\ calls \in [Caller -> 0 .. CallLimit]

\* Line 106: the lock "makes sure that we don't evaluate the trajectory while it
\* is being changed", by a command.
UnchangedWhileEvaluated ==
  [][place = "evaluating" => planner'.goal = planner.goal]_vars

\* Every command returns: no thread keeps the lock, or waits for it for ever,
\* whichever way the stabilizer leaves (lines 318-370).
CommandReturns == \A c \in Caller : pc[c] # "idle" ~> pc[c] = "idle"

\* After a landing or a stop the stabilizer is told to turn the motors off,
\* unless a new command or a low-level setpoint takes over (lines 327-333).
MotorsAreCut ==
  planner.state \in {"landing", "idle"} ~>
    setpoint = Null \/ planner.state \in {"flying", "disabled"}
=============================================================================
