------------------------------ MODULE KveStore ------------------------------
(***************************************************************************)
(* What the key-value storage of storage.c promises when nothing fails: a   *)
(* partial function from keys to values, of which each entry takes some    *)
(* bytes of a bounded partition.  Entries that are deleted or outgrown      *)
(* become holes; holes are reclaimed only when an entry does not fit after  *)
(* the last one.  KveMemory has the bytes.                                  *)
(*                                                                         *)
(* storageMutex makes every call of storage.c one step.                    *)
(***************************************************************************)
EXTENDS Integers

CONSTANTS
  Key,         \* the keys in use
  Value,       \* the values in use
  Absent,      \* what a key without a value has
  EntrySize(_, _),
               \* bytes of an entry: header, key and data
  MemSize,     \* KVE_PARTITION_LENGTH
  Accessible   \* the bytes of the partition that lie below EEPROM_SIZE

ASSUME EntryAssumption ==
  /\ Absent \notin Value
  /\ \A k \in Key, v \in Value : EntrySize(k, v) \in Nat \ {0, 1, 2, 3}

\* EEPROM_SIZE is 0x1FFF and the partition ends at 0x2000.
ASSUME MemoryAssumption ==
  /\ MemSize \in Nat
  /\ Accessible \in Nat
  /\ Accessible <= MemSize
  /\ 6 <= MemSize
  /\ 4 <= Accessible

FirstItem == 1   \* FIRST_ITEM_ADDRESS
EndTag    == 2   \* KVE_END_TAG_LENDTH
Header    == 3   \* sizeof(kveItemHeader_t)

VARIABLES
  store,    \* the value of each key
  live,     \* bytes that entries take
  holes,    \* bytes that holes take
  result    \* what the last call returned

vars == <<store, live, holes, result>>

-----------------------------------------------------------------------------
Present(k) == store[k] # Absent

\* The bytes k's entry takes.
Taken(k) == IF Present(k) THEN EntrySize(k, store[k]) ELSE 0

\* Mutant: no room is kept for the end tag.
FitsWithoutTag(used, n) == FirstItem + used + n < MemSize

\* Can an entry of n bytes and a new end tag go after the first `used` bytes?
Fits(used, n) == FirstItem + used + n + EndTag < MemSize

\* kveStorageFindEnd reads a whole header where the end tag is; if that
\* reaches past the EEPROM the read fails, and so does the search.
EndIsFound == FirstItem + live + holes + Header <= Accessible

Bind(k, v) == store' = [store EXCEPT ![k] = v]

-----------------------------------------------------------------------------
\* kveStore: an entry of the same size is written over.
Overwrite(k, v) ==
  /\ Present(k)
  /\ EntrySize(k, v) = Taken(k)
  /\ result' = TRUE
  /\ UNCHANGED <<live, holes>>
  /\ Bind(k, v)

\* Any other entry is made a hole before a new one is appended.
Outgrown(k, v) == Present(k) => EntrySize(k, v) # Taken(k)

AppendItem(k, v) ==
  /\ Outgrown(k, v)
  /\ EndIsFound
  /\ Fits(live + holes, EntrySize(k, v))
  /\ result' = TRUE
  /\ live' = live - Taken(k) + EntrySize(k, v)
  /\ holes' = holes + Taken(k)
  /\ Bind(k, v)

\* kveDefrag, then the append.
DefragAndAppend(k, v) ==
  /\ Outgrown(k, v)
  /\ EndIsFound
  /\ ~Fits(live + holes, EntrySize(k, v))
  /\ Fits(live - Taken(k), EntrySize(k, v))
  /\ result' = TRUE
  /\ live' = live - Taken(k) + EntrySize(k, v)
  /\ holes' = 0
  /\ Bind(k, v)

\* "Memory full!": the old entry is gone all the same.
Full(k, v) ==
  /\ Outgrown(k, v)
  /\ EndIsFound
  /\ ~Fits(live + holes, EntrySize(k, v))
  /\ ~Fits(live - Taken(k), EntrySize(k, v))
  /\ result' = FALSE
  /\ live' = live - Taken(k)
  /\ holes' = 0
  /\ Bind(k, Absent)

\* "Table corrupted!": likewise.
EndNotFound(k, v) ==
  /\ Outgrown(k, v)
  /\ ~EndIsFound
  /\ result' = FALSE
  /\ live' = live - Taken(k)
  /\ holes' = holes + Taken(k)
  /\ Bind(k, Absent)

Store(k, v) ==
  \/ Overwrite(k, v)
  \/ AppendItem(k, v)
  \/ DefragAndAppend(k, v)
  \/ Full(k, v)
  \/ EndNotFound(k, v)

Delete(k) ==
  /\ result' = Present(k)
  /\ live' = live - Taken(k)
  /\ holes' = holes + Taken(k)
  /\ Bind(k, Absent)

Format ==
  /\ store' = [k \in Key |-> Absent]
  /\ live' = 0
  /\ holes' = 0
  /\ result' = TRUE

\* A restart between two calls: storageTest reformats a table it deems corrupt.
Restart ==
  IF EndIsFound
    THEN /\ result' = TRUE
         /\ UNCHANGED <<store, live, holes>>
    ELSE Format

-----------------------------------------------------------------------------
\* A blank EEPROM, formatted by storageTest.
Init ==
  /\ store = [k \in Key |-> Absent]
  /\ live = 0
  /\ holes = 0
  /\ result = TRUE

Next ==
  \/ \E k \in Key, v \in Value : Store(k, v)
  \/ \E k \in Key : Delete(k)
  \/ Format
  \/ Restart

Spec == Init /\ [][Next]_vars

-----------------------------------------------------------------------------
StoreTypeOK ==
  /\ store \in [Key -> Value \cup {Absent}]
  /\ live \in Int
  /\ holes \in Nat
  /\ result \in BOOLEAN

\* The end tag lies within the bytes that can be read: what the strict bound of
\* kve.c:37 and 46 preserves through overwrites, holes and defragmentation,
\* although the partition's last byte is outside the EEPROM.
EndTagIsAccessible == FirstItem + live + holes + EndTag < MemSize
=============================================================================
