CONSTANTS
  motor = motor
  power = power
  Id = {motor, power}
  FreeId = free
  Null = null
  Memory = memory
  MaxBlocks = 2
  MaxOps = 3
  MaxLength = 3
  Marker = 2
  MarkerV2 = 3
  Toc <- MCToc
  SettingList <- MCSettingList
  TxSize = 1
  JobSize = 1
  RequestLimit = 3
SPECIFICATION FairSpec
INVARIANTS
  LogIsSound
PROPERTIES
  ImplementsConfig
  PacketIsWhole
  SuccessIsStored
  RequestIsAnswered
