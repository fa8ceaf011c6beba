CONSTANTS
  sensors = sensors
  deck = deck
  Thread = {sensors, deck}
  Free = free
  None = none
  Bit = {0, 1}
  Message <- MCMessage
  Listing <- MCListing
  ConcatSize = 2
  FlashSize = 1
  DefaultSpeed = "standard"
  Speed = {"standard", "fast"}
  CallLimit <- MCCallLimit
  Reg = {}
  Jobs <- MCJobs
SPECIFICATION FairDevSpec
INVARIANTS
  BusIsSound
  SuccessIsDone
PROPERTIES
  OtherBitsKept
  JobEnds
