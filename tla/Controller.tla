----------------------------- MODULE Controller -----------------------------
(***************************************************************************)
(* controller.c and controller_pid.c: which controller runs, and what one  *)
(* call of the PID controller decides.  The control laws themselves, in    *)
(* floating point, are not in the repository but for their calls; here a   *)
(* thrust or moment is zero or not, a PID has built up an error or not,    *)
(* and an angle is a multiple of 180/Half degrees.                         *)
(***************************************************************************)
EXTENDS Integers

CONSTANTS
  Forced,       \* the controller CONFIG_CONTROLLER_... forces, AutoSelect if none
  Half,         \* 180 degrees
  YawMaxDelta,  \* attitudeControllerGetYawMaxDelta; 0: no limit
  Rates         \* the yaw velocities, per period of the attitude controller

\* ControllerTypeAutoSelect, ControllerTypePID, ControllerType_COUNT.
AutoSelect == 0
PID == 1
Count == 5

ASSUME ControllerAssumption ==
  /\ Forced \in {AutoSelect, PID}
  /\ Half \in Nat \ {0}
  /\ YawMaxDelta \in 0 .. Half
  /\ Rates \subseteq -Half .. Half

VARIABLES
  currentController,
  desiredYaw,      \* attitudeDesired.yaw
  actuatorThrust,  \* 0 or 1
  control,         \* the outputs: thrust and moment (roll, pitch, yaw), 0 or 1
  windup           \* do the PIDs remember an error?

controlVars == <<currentController, desiredYaw, actuatorThrust, control, windup>>

Angle == -Half .. Half

-----------------------------------------------------------------------------
(* controller.c                                                            *)

\* controllerInit: a type out of range is ignored, even if a controller is forced;
\* AutoSelect is the PID.
Selected(type) ==
  IF type \notin 0 .. Count - 1 THEN currentController
  ELSE IF Forced # AutoSelect THEN Forced
  ELSE IF type = AutoSelect THEN PID
  ELSE type

ControllerInit(type) ==
  /\ currentController' = Selected(type)
  /\ UNCHANGED <<desiredYaw, actuatorThrust, control, windup>>

-----------------------------------------------------------------------------
(* controller_pid.c                                                        *)

\* Whole turns are taken off or added until the angle is in range; of the two ends
\* that are the same heading it becomes the one it comes to first.
CapAngle(angle) ==
  CHOOSE x \in Angle :
    /\ (x - angle) % (2 * Half) = 0
    /\ angle \in Angle => x = angle
    /\ angle > Half => x # -Half
    /\ angle < -Half => x # Half

\* Mutant: the difference of two angles is taken as it is.
WithinStraight(wanted, actual) ==
  LET delta == wanted - actual
  IN  IF YawMaxDelta = 0 THEN wanted
      ELSE IF delta > YawMaxDelta THEN actual + YawMaxDelta
      ELSE IF delta < -YawMaxDelta THEN actual - YawMaxDelta
      ELSE wanted

\* The yaw setpoint is kept within YawMaxDelta of the current yaw.
Within(wanted, actual) ==
  LET delta == CapAngle(wanted - actual)
  IN  IF YawMaxDelta = 0 THEN wanted
      ELSE IF delta > YawMaxDelta THEN actual + YawMaxDelta
      ELSE IF delta < -YawMaxDelta THEN actual - YawMaxDelta
      ELSE wanted

\* The yaw setpoint after a period of the attitude controller.  sp: the setpoint.
NextYaw(sp, actual) ==
  CapAngle(CASE sp.yaw = "velocity" -> Within(CapAngle(desiredYaw + sp.rate), actual)
             [] sp.yaw = "abs"      -> sp.angle
             [] sp.yaw = "disable"  -> desiredYaw)

\* What may be due in a call: the attitude controller runs at 500 Hz, the position
\* controller at 100 Hz, the calls come at 1000 Hz.
Due == {{}, {"attitude"}, {"attitude", "position"}}

\* Setpoints: the modes of yaw and of z, the latter disabled or automatic.  "abs" also
\* stands for a yaw given by a quaternion.
Setpoint ==
  {[yaw |-> y, rate |-> r, angle |-> a, z |-> z, thrust |-> t] :
     y \in {"velocity", "abs", "disable"}, r \in Rates, a \in {-Half, Half + 1},
     z \in {"disable", "auto"}, t \in {0, 1}}

\* positionController sets the thrust if it is due, in its own way; the setpoint's
\* thrust is taken if the attitude controller is due and z is disabled.
Thrusts(sp, due) ==
  IF "attitude" \in due /\ sp.z = "disable" THEN {sp.thrust}
  ELSE IF "position" \in due THEN {0, 1}
  ELSE {actuatorThrust}

\* controllerPid, called through the table; that of AutoSelect is a null pointer, and
\* stabilizerInit calls controllerInit first.
Update(sp, actual, due) ==
  /\ currentController = PID
  /\ \E thrust \in Thrusts(sp, due), moment \in {0, 1}, error \in BOOLEAN :
       /\ actuatorThrust' = thrust
       /\ IF thrust = 0
            THEN /\ control' = [thrust |-> 0, moment |-> 0]
                 /\ windup' = FALSE
                 /\ desiredYaw' = actual
            ELSE /\ control' = [thrust |-> thrust,
                                moment |-> IF "attitude" \in due
                                             THEN moment ELSE control.moment]
                 /\ windup' = IF due # {} THEN error ELSE windup
                 /\ desiredYaw' = IF "attitude" \in due
                                    THEN NextYaw(sp, actual) ELSE desiredYaw
  /\ UNCHANGED currentController

-----------------------------------------------------------------------------
ControlInit ==
  /\ currentController = AutoSelect
  /\ desiredYaw = 0
  /\ actuatorThrust = 0
  /\ control = [thrust |-> 0, moment |-> 0]
  /\ windup = FALSE

\* The stabilizer's thread.  Types between PID and Count have no entry in the table.
ControlNext ==
  \/ \E type \in {AutoSelect, PID, Count} : ControllerInit(type)
  \/ \E sp \in Setpoint, actual \in Angle, due \in Due : Update(sp, actual, due)

ControlSpec == ControlInit /\ [][ControlNext]_controlVars

-----------------------------------------------------------------------------
(* Properties                                                                *)

\* How far apart two headings are, on the circle.
Distance(x, y) ==
  LET d == (x - y) % (2 * Half) IN IF d > Half THEN 2 * Half - d ELSE d

Allowed(actual) ==
  IF YawMaxDelta = 0 THEN Angle ELSE {x \in Angle : Distance(x, actual) <= YawMaxDelta}

\* A yaw velocity turns the setpoint to the allowed heading nearest to the one it
\* asks for, across +-180 degrees as well (controller_pid.c:64-80).
YawIsNearest ==
  \A actual \in Angle, rate \in Rates :
    LET wanted == desiredYaw + rate
        next == NextYaw([yaw |-> "velocity", rate |-> rate], actual)
    IN  /\ next \in Allowed(actual)
        /\ \A x \in Allowed(actual) : Distance(next, wanted) <= Distance(x, wanted)
=============================================================================
