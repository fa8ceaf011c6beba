CONSTANTS
  log = log
  console = console
  setpoint = setpoint
  Sender = {log, console}
  Port = {setpoint, log}
  NoPort = none
  Called = {setpoint}
  MayWait = {setpoint}
  Served = {log}
  TxQueueSize = 2
  RxQueueSize = 2
  DeliverySize = 2
  SendLimit = 2
  ReceiveLimit = 2
SPECIFICATION FairSpec
INVARIANTS
  TransmittedInOrder
  HandledInOrder
PROPERTIES
  AcceptedIsSent
\* a failed assertion stops the system
CHECK_DEADLOCK FALSE
