\* Zephyr's reading of config.h: the receivers preempt the stabilizer.  It
\* reads a setpoint at least once a tick; a tick stands for some 500 ms.
SPECIFICATION FairArbiterSpec
CONSTANTS
  stab = stab
  rx = rx
  extrx = extrx
  Thread = {stab, rx, extrx}
  Stabilizer = stab
  Relaxer = {rx}
  Priority <- MCPriority
  Urgency <- MCUrgency
  TimeSlice = FALSE
  Null = null
  Stabilize = 1
  Shutdown = 2
  Punctual = TRUE
INVARIANTS
  SlotsAreRefilled
PROPERTIES
  AcceptedIsInForce
  WatchdogCutsPower
  PlannerTakesOver
\* a failed assertion stops the system
CHECK_DEADLOCK FALSE
