CONSTANTS
  k1 = k1
  k2 = k2
  k3 = k3
  short = short
  long = long
  Key = {k1, k2, k3}
  Value = {short, long}
  Absent = Absent
  EntrySize <- MCEntrySize
  MemSize = 22
  Accessible = 21
SPECIFICATION Spec
INVARIANTS
  EndTagIsAccessible
