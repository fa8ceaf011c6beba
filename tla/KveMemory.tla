----------------------------- MODULE KveMemory -----------------------------
(***************************************************************************)
(* The key-value table of kve.c and kve_storage.c, byte by byte, in its    *)
(* partition of the EEPROM:                                                *)
(*                                                                         *)
(*   version | entry or hole | ... | entry or hole | FF FF (end tag) | ... *)
(*                                                                         *)
(* An entry is a header (two bytes of full length, one of key length), the *)
(* key and the data; a hole has key length 0.  What follows the end tag is *)
(* whatever was there before.                                              *)
(*                                                                         *)
(* storageMutex makes each call of storage.c one step; the sequence of     *)
(* writes a call makes shows when the power fails between two of them, or  *)
(* when a write itself fails, which kve.c never notices.                   *)
(***************************************************************************)
EXTENDS Integers, Sequences, SequencesExt, FiniteSetsExt

CONSTANTS
  MemSize,     \* KVE_PARTITION_LENGTH
  Accessible,  \* the bytes of the partition that lie below EEPROM_SIZE
  PageSize,    \* bytes the EEPROM writes at once; the partition is aligned
  ChunkSize,   \* bytes kveStorageMoveMemory moves at once
  ClipSize,    \* bytes of data kveForeach passes on
  KeyBuffer,   \* bytes kveForeach has for a key and its final 0
  Key,         \* the keys in use: sequences of bytes other than 0
  Value,       \* the values in use: sequences of bytes, none empty
  Blank,       \* the byte an unwritten EEPROM reads as
  MishapLimit  \* how many calls are cut short by a restart or have a failing
               \* write

\* A length takes two bytes, of which EndTag is one value; a key is a string of
\* C, and its length takes a byte.
ASSUME KeyAssumption ==
  /\ \A k \in Key : k \in Seq(1 .. 255) /\ Len(k) \in 1 .. 255
  /\ \A v \in Value : v \in Seq(0 .. 255) /\ v # <<>>
  /\ \A k \in Key, v \in Value : 3 + Len(k) + Len(v) < 256 * 256 - 1

\* The partition is shorter than 64 kB; EEPROM_SIZE leaves out its last byte.
ASSUME PartitionAssumption ==
  /\ MemSize \in 6 .. 256 * 256 - 1
  /\ Accessible \in MemSize - 1 .. MemSize
  /\ PageSize \in Nat \ {0}
  /\ ChunkSize \in Nat \ {0}
  /\ {ClipSize, KeyBuffer} \subseteq Nat
  /\ Blank \in 0 .. 255
  /\ MishapLimit \in Nat

VARIABLES
  mem,         \* the bytes of the partition
  result,      \* what the last call returned, or the test at the last restart
  stuck,       \* a search goes round for ever, holding storageMutex
  crashes,     \* how many calls were cut short by a restart
  faults       \* how many calls had a failing write

vars == <<mem, result, stuck, crashes, faults>>

Byte == 0 .. 255

Version   == 1
FirstItem == 1
EndTag    == 256 * 256 - 1
Invalid   == -1      \* KVE_STORAGE_INVALID_ADDRESS
Beyond    == -1      \* a byte a read did not deliver

-----------------------------------------------------------------------------
(* Reading                                                                   *)

FullLength(m, a) == m[a] + 256 * m[a + 1]
KeyLength(m, a)  == m[a + 2]

Bytes(m, a, n) ==
  [i \in 1 .. n |-> IF a + i - 1 < Accessible THEN m[a + i - 1] ELSE Beyond]

IsEnd(m, a) == FullLength(m, a) = EndTag

\* The addresses a search that starts at a visits below limit, up to the end
\* tag, or to an entry of length 0 that it would visit again and again.
Visited(m, a, limit) ==
  LET visited[b \in Nat] ==
        IF b >= limit \/ IsEnd(m, b) THEN {}
        ELSE {b} \cup (IF FullLength(m, b) = 0 THEN {}
                       ELSE visited[b + FullLength(m, b)])
  IN  visited[a]

First(S) == IF S = {} THEN Invalid ELSE Min(S)

\* Mutants: only the lengths of the keys are compared, and a longer key is taken
\* for its prefix.
HasKeyLength(m, a, k) == KeyLength(m, a) = Len(k)
HasPrefix(m, a, k) ==
  KeyLength(m, a) >= Len(k) /\ Bytes(m, a + 3, Len(k)) = k

HasKey(m, a, k) == KeyLength(m, a) = Len(k) /\ Bytes(m, a + 3, Len(k)) = k

FindItemByKey(m, k) ==
  First({a \in Visited(m, FirstItem, MemSize - 3) : HasKey(m, a, k)})

IsPast(m, a) == a >= MemSize - 2 \/ IsEnd(m, a) \/ FullLength(m, a) = 0

\* Where a search that starts at the item a leaves the items behind.
PastItems(m, a) ==
  LET past[b \in Nat] == IF IsPast(m, b) THEN b ELSE past[b + FullLength(m, b)]
  IN  past[a]

\* The read of a header fails if it reaches past the EEPROM.  The variable it
\* should have filled keeps the header of the item before, so that the search
\* goes past the limit.
IsTag(m, a) == a < MemSize - 2 /\ a + 3 <= Accessible /\ IsEnd(m, a)

FindEnd(m, a) ==
  LET e == PastItems(m, a)
  IN  IF /\ IsTag(m, e)
         /\ \A i \in Visited(m, a, MemSize - 2) : FullLength(m, i) >= 4
        THEN e ELSE Invalid

\* It does not look at the end tag, which is a hole if a 0 follows it.
FindHole(m, a) ==
  LET e == PastItems(m, a)
  IN  First({i \in Visited(m, a, MemSize - 2) \cup
                   (IF IsTag(m, e) THEN {e} ELSE {}) : KeyLength(m, i) = 0})

FindNextItem(m, a) ==
  IF IsEnd(m, a)
    THEN Invalid
    ELSE First({i \in Visited(m, a + FullLength(m, a), MemSize - 3) :
                  KeyLength(m, i) # 0})

\* Does the search for k come to an end?
SearchEnds(m, k) ==
  \/ FindItemByKey(m, k) # Invalid
  \/ \A a \in Visited(m, FirstItem, MemSize - 3) : FullLength(m, a) # 0

DataLength(m, a) == FullLength(m, a) - KeyLength(m, a) - 3

\* An entry too short for its key has a data length that wraps around.
ReadLength(m, a, n) ==
  IF DataLength(m, a) < 0 THEN n ELSE Min({DataLength(m, a), n})

Data(m, a, n) == Bytes(m, a + 3 + KeyLength(m, a), ReadLength(m, a, n))

\* kveFetch into a buffer that takes any value; no data if there is no entry.
Fetch(m, k) ==
  LET a == FindItemByKey(m, k)
  IN  IF a = Invalid THEN <<>> ELSE Data(m, a, MemSize)

\* Mutant: a key that is the prefix itself is passed over.
FindItemByProperPrefix(m, a, p) ==
  First({i \in Visited(m, a, MemSize - 3) :
           KeyLength(m, i) > Len(p) /\ Bytes(m, i + 3, Len(p)) = p})

Matches(m, a, p) == KeyLength(m, a) >= Len(p) /\ Bytes(m, a + 3, Len(p)) = p

FindItemByPrefix(m, a, p) ==
  First({i \in Visited(m, a, MemSize - 3) : Matches(m, i, p)})

\* It copies the key of what it finds, and a 0, to a buffer that the caller has for
\* it, however long the key is: that of kveForeach, static, has 64 bytes, and a key
\* has up to 255.  Of what runs once one has gone past its end nothing is said.
OverrunsBuffer(m, p) ==
  \E i \in Visited(m, FirstItem, MemSize - 3) :
    Matches(m, i, p) /\ KeyLength(m, i) >= KeyBuffer

\* kveForeach: what func is called with, as long as it returns true; of an entry
\* of length 0, which it would be called with again and again, once.
Foreach(m, start, p) ==
  LET calls[b \in Nat] ==
        LET a == FindItemByPrefix(m, b, p)
        IN  IF a = Invalid THEN <<>>
            ELSE << <<Bytes(m, a + 3, KeyLength(m, a)), Data(m, a, ClipSize)>> >>
                   \o (IF FullLength(m, a) = 0 THEN <<>>
                       ELSE calls[a + FullLength(m, a)])
  IN  calls[start]

\* kveCheck
Check(m) == m[0] = Version /\ FindEnd(m, FirstItem) # Invalid

-----------------------------------------------------------------------------
(* Writing.  A call is a record of the memory so far and the writes made.    *)

Begin(m) == [mem |-> m, log |-> <<>>]

Overlay(m, at, bytes) ==
  [a \in DOMAIN m |-> IF a \in at .. at + Len(bytes) - 1
                        THEN bytes[a - at + 1] ELSE m[a]]

Write(s, a, bytes) ==
  [mem |-> Overlay(s.mem, a, bytes),
   log |-> Append(s.log, [at |-> a, bytes |-> bytes])]

WriteHeader(s, a, full, keyLength) ==
  Write(s, a, <<full % 256, full \div 256, keyLength>>)

ItemSize(k, v) == 3 + Len(k) + Len(v)

WriteItem(s, a, k, v) ==
  Write(Write(WriteHeader(s, a, ItemSize(k, v), Len(k)), a + 3, k),
        a + 3 + Len(k), v)

\* Mutant: the bytes are erased before the hole is marked.
EraseItem(s, a, full) ==
  WriteHeader(Write(s, a, [i \in 1 .. full |-> 0]), a, full, 0)

WriteHole(s, a, full) == WriteHeader(s, a, full, 0)

WriteEnd(s, a) == Write(s, a, <<255, 255>>)

\* One chunk: x is the call so far and how many bytes have been moved.
MoveChunk(x, from, to, n) ==
  LET moving == Min({n - x.moved, ChunkSize})
  IN  [call  |-> Write(x.call, to + x.moved,
                       Bytes(x.call.mem, from + x.moved, moving)),
       moved |-> x.moved + moving]

MoveMemory(s, from, to, n) ==
  LET chunks[i \in 0 .. n] ==
        IF i = 0 THEN [call |-> s, moved |-> 0]
        ELSE LET x == chunks[i - 1]
             IN  IF x.moved = n THEN x ELSE MoveChunk(x, from, to, n)
  IN  chunks[n].call

\* The body of kveDefrag's loop, for the hole at h.
DefragHole(s, h) ==
  LET item == FindNextItem(s.mem, h)
      hole == FindHole(s.mem, item)
      end  == IF hole = Invalid THEN FindEnd(s.mem, item) ELSE hole
      n    == end - item
  IN  IF item = Invalid
        THEN [call |-> WriteEnd(s, h), hole |-> Invalid]
        ELSE [call |-> WriteHole(MoveMemory(s, item, h, n), h + n, item - h),
              hole |-> h + n]

\* Each round leaves its hole behind a later address.
Defrag(s) ==
  LET rounds[i \in 0 .. MemSize] ==
        IF i = 0 THEN [call |-> s, hole |-> FindHole(s.mem, FirstItem)]
        ELSE LET x == rounds[i - 1]
             IN  IF x.hole = Invalid THEN x ELSE DefragHole(x.call, x.hole)
  IN  rounds[MemSize].call

\* Mutant: no room is kept for the end tag.
FitsWithoutTag(a, k, v) == a + ItemSize(k, v) < MemSize

Fits(a, k, v) == a + ItemSize(k, v) + 2 < MemSize

\* The body of appendItemToEnd, which is run again after a defragmentation.
PutAtEnd(s, k, v) ==
  LET end == FindEnd(s.mem, FirstItem)
  IN  WriteEnd(WriteItem(s, end, k, v), end + ItemSize(k, v))

\* What a call did and returned; it is blind if it reads nothing after its
\* writes that could tell whether they succeeded.
Called(s, ok, blind) == [call |-> s, ok |-> ok, blind |-> blind]

AppendItemToEnd(s, k, v) ==
  LET packed == Defrag(s)
      end    == FindEnd(s.mem, FirstItem)
  IN  IF end = Invalid
        THEN Called(s, FALSE, TRUE)
        ELSE IF Fits(end, k, v)
          THEN Called(PutAtEnd(s, k, v), TRUE, TRUE)
          ELSE IF Fits(FindEnd(packed.mem, FirstItem), k, v)
            THEN Called(PutAtEnd(packed, k, v), TRUE, FALSE)
            ELSE Called(packed, FALSE, FALSE)

StoreCall(m, k, v) ==
  LET a == FindItemByKey(m, k)
      s == Begin(m)
  IN  IF a = Invalid
        THEN AppendItemToEnd(s, k, v)
        ELSE IF FullLength(m, a) # ItemSize(k, v)
          THEN AppendItemToEnd(WriteHole(s, a, FullLength(m, a)), k, v)
          ELSE Called(WriteItem(s, a, k, v), TRUE, TRUE)

DeleteCall(m, k) ==
  LET a == FindItemByKey(m, k)
      s == Begin(m)
  IN  IF a = Invalid
        THEN Called(s, FALSE, TRUE)
        ELSE Called(WriteHole(s, a, FullLength(m, a)), TRUE, TRUE)

\* storageReformat, but for the check of the result
FormatCall(m) ==
  Called(WriteEnd(Write(Begin(m), 0, <<Version>>), FirstItem), TRUE, FALSE)

\* Mutant: the table is not tested.
BootUntested(m) == m

\* storageTest
Boot(m) == IF Check(m) THEN m ELSE FormatCall(m).call.mem

-----------------------------------------------------------------------------
(* A call, complete, cut short, or with a write that fails                   *)

Apply(m, log) ==
  LET applied[i \in 0 .. Len(log)] ==
        IF i = 0 THEN m ELSE Overlay(applied[i - 1], log[i].at, log[i].bytes)
  IN  applied[Len(log)]

\* eepromWriteBuffer writes page by page, and gives up at a page that fails.
Torn(w) ==
  {[w EXCEPT !.bytes = SubSeq(@, 1, n)] :
     n \in {i \in 0 .. Len(w.bytes) - 1 : i = 0 \/ (w.at + i) % PageSize = 0}}

\* What a call leaves when the power fails before its last page is written.
CutShort(m, log) ==
  UNION {{Apply(Apply(m, SubSeq(log, 1, i - 1)), <<w>>) : w \in Torn(log[i])} :
           i \in DOMAIN log}

\* What a call leaves when one of its writes fails.
WithFault(m, log) ==
  UNION {{Apply(m, [log EXCEPT ![i] = w]) : w \in Torn(log[i])} : i \in DOMAIN log}

CanGoWrong == crashes + faults < MishapLimit

Complete(r) ==
  /\ mem' = r.call.mem
  /\ result' = r.ok
  /\ UNCHANGED <<stuck, crashes, faults>>

\* The power fails during the call; storageTest runs at the next start.
Crash(r) ==
  /\ CanGoWrong
  /\ \E m \in CutShort(mem, r.call.log) : mem' = Boot(m)
  /\ result' = TRUE
  /\ crashes' = crashes + 1
  /\ UNCHANGED <<stuck, faults>>

\* A write fails, which kve.c ignores.
Fault(r) ==
  /\ r.blind
  /\ CanGoWrong
  /\ mem' \in WithFault(mem, r.call.log)
  /\ result' = r.ok
  /\ faults' = faults + 1
  /\ UNCHANGED <<stuck, crashes>>

Hang ==
  /\ stuck' = TRUE
  /\ UNCHANGED <<mem, result, crashes, faults>>

Run(r) == Complete(r) \/ Crash(r) \/ Fault(r)

Store(k, v) ==
  /\ ~stuck
  /\ IF SearchEnds(mem, k) THEN Run(StoreCall(mem, k, v)) ELSE Hang

Delete(k) ==
  /\ ~stuck
  /\ IF SearchEnds(mem, k) THEN Run(DeleteCall(mem, k)) ELSE Hang

Format == ~stuck /\ Run(FormatCall(mem))

\* A restart between two calls, which also ends a search that hangs.
Restart ==
  /\ mem' = Boot(mem)
  /\ result' = TRUE
  /\ stuck' = FALSE
  /\ UNCHANGED <<crashes, faults>>

-----------------------------------------------------------------------------
\* The first start, with a blank EEPROM.
Init ==
  /\ mem = Boot([a \in 0 .. MemSize - 1 |-> Blank])
  /\ result = TRUE
  /\ stuck = FALSE
  /\ crashes = 0
  /\ faults = 0

Next ==
  \/ \E k \in Key, v \in Value : Store(k, v)
  \/ \E k \in Key : Delete(k)
  \/ Format
  \/ Restart

Spec == Init /\ [][Next]_vars
-----------------------------------------------------------------------------
(* Properties                                                                *)

TypeOK ==
  /\ mem \in [0 .. MemSize - 1 -> Byte]
  /\ result \in BOOLEAN
  /\ stuck \in BOOLEAN
  /\ crashes \in Nat /\ faults \in Nat
  /\ crashes + faults <= MishapLimit

Items == Visited(mem, FirstItem, MemSize - 2)

\* The bytes kveGetStats counts for items, or for holes.
Total(m, a, ofHoles) ==
  LET total[b \in Nat] ==
        IF IsPast(m, b) THEN 0
        ELSE (IF ofHoles = (KeyLength(m, b) = 0) THEN FullLength(m, b) ELSE 0)
               + total[b + FullLength(m, b)]
  IN  total[a]

Live  == Total(mem, FirstItem, FALSE)
Holes == Total(mem, FirstItem, TRUE)

Promise == INSTANCE KveStore WITH
  Absent    <- <<>>,
  EntrySize <- ItemSize,
  store     <- [k \in Key |-> Fetch(mem, k)],
  live      <- Live,
  holes     <- Holes

\* When nothing fails, the bytes behave as the key-value store does: a fetch
\* finds what was last stored, whatever entries, holes and remains of the past
\* lie in between and however often the table has been defragmented.
ImplementsStore == Promise!Spec

Prefix == (UNION {Prefixes(k) : k \in Key}) \ {<<>>}

\* kveForeach calls its function once for each key with the prefix, with the
\* value a fetch returns, clipped, if it has room for all those keys (kve.c:131).
ForeachVisitsEachOnce ==
  \A p \in Prefix :
    LET calls == Foreach(mem, FirstItem, p)
    IN  ~OverrunsBuffer(mem, p) =>
          /\ ToSet(calls) =
               {<<k, SubSeq(Fetch(mem, k), 1, Min({Len(Fetch(mem, k)), ClipSize}))>> :
                  k \in {x \in Key : IsPrefix(p, x) /\ Fetch(mem, x) # <<>>}}
          /\ IsInjective(calls)

\* Every entry has room for a header and a key, and the entries lead to an end
\* tag: no search runs on for ever or off the table.
Sound ==
  /\ \A a \in Items : FullLength(mem, a) >= 4
  /\ PastItems(mem, FirstItem) <= MemSize - 3
  /\ IsEnd(mem, PastItems(mem, FirstItem))

\* Unless a write failed, the table is sound, whatever a power failure left, once
\* storageTest has run (kve.c:187-205, storage.c:108-123).
TableIsSound == TypeOK /\ (faults = 0 => Sound)

Others(k) == Key \ {k}

Kept(k) == Fetch(mem', k) = Fetch(mem, k)

\* The step cuts short a call that would have made these writes.
Interrupts(call) ==
  /\ crashes' # crashes
  /\ \E m \in CutShort(mem, call.log) : mem' = Boot(m)

\* An interrupted delete is done or not done, and loses nothing else: the one
\* header it writes differs in one byte from the one there (kve.c:169-179).
\* A table so full that the test at the next start misses its end tag is emptied
\* then, whether or not a delete is interrupted.
DeleteIsAtomic ==
  [][\A k \in Key :
       Check(mem) /\ Interrupts(DeleteCall(mem, k).call) =>
         /\ \A o \in Others(k) : Kept(o)
         /\ Kept(k) \/ Fetch(mem', k) = <<>>]_vars

Formatted(m) == IsEnd(m, FirstItem)

CrashSparesOthers(k, v) ==
  LET r == StoreCall(mem, k, v)
  IN  r.blind /\ Interrupts(r.call) =>
        \/ \A o \in Others(k) : Fetch(mem, o) # <<>> => Kept(o)
        \/ Formatted(mem')

InPlaceFaultSparesOthers(k, v) ==
  /\ faults' # faults
  /\ \/ mem' \in WithFault(mem, DeleteCall(mem, k).call.log)
     \/ /\ Len(Fetch(mem, k)) = Len(v)
        /\ mem' \in WithFault(mem, StoreCall(mem, k, v).call.log)
  => \A o \in Others(k) : Kept(o)

\* A power failure during a store that does not defragment leaves every other
\* key its value, or a table that storageTest found corrupt and emptied
\* (kve.c:37-39, 104-109).  A write that fails while an entry is written over or
\* deleted harms no other key: the entries keep their lengths (kve.c:109, 174).
\* Whatever failing writes made of the table, the next start leaves a sound one.
MishapsAreContained ==
  [][/\ \A k \in Key, v \in Value :
          CrashSparesOthers(k, v) /\ InPlaceFaultSparesOthers(k, v)
     /\ Restart => Sound']_vars
=============================================================================
