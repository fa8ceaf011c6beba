CONSTANTS
  Values = 3
  Cells = 18
  EepromSize = 17
  PageSize = 6
  Numbers = 12
  MaxTries = 2
  MaxPolls = 2
  Magic = 2
  DefaultContent <- MCDefault
  Initial <- MCInitial
  ClientWrites <- MCWrites
  ClientLimit = 2
  PowerLimit = 2
SPECIFICATION FairBlockSpec
INVARIANTS
  BlockIsSound
PROPERTIES
  OutsideKept
  StartEnds
CHECK_DEADLOCK FALSE
