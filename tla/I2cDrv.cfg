CONSTANTS
  sensors = sensors
  deck = deck
  Thread = {sensors, deck}
  Free = free
  Message <- MCMessage
  MaxRetries = 2
  Counts = 4
  CallLimit <- MCCallLimit
SPECIFICATION FairDrvSpec
INVARIANTS
  TransferIsSound
PROPERTIES
  TransferEnds
CHECK_DEADLOCK FALSE
