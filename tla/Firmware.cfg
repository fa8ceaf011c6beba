CONSTANTS
  reader = reader
  writer = writer
  stabilizer = stabilizer
  Nobody = Nobody
  SystemTask = SystemTask
  Unowned = Unowned
  Thread = {reader, writer, stabilizer}
  App = {reader, writer}
  Reader = reader
  Urgent = {reader, writer}
  Creator <- MCCreator
  Crews = {{reader, writer}, {reader, stabilizer}}
  Faults <- MCFaults
  TxQueueSize = 1
  AppQueueSize = 1
  MaxDataSize = 30
  Mtu = 31
  Lengths = {30, 31}
  AskLimit = 2
  CallLimit = 1
SPECIFICATION FairSpec
INVARIANTS
  StartIsSound
  MessagesAreSound
PROPERTIES
  UrgentPass
  SendReturns
\* a failed assertion stops the system
CHECK_DEADLOCK FALSE
