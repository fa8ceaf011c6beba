---------------------------- MODULE StorageProof ----------------------------
(* What is kept in the EEPROM: the space accounting of the key-value storage, *)
(* the driver of the device, and the configuration block, for any sizes,      *)
(* contents and limits.                                                       *)
EXTENDS KveStore, ConfigBlock, SequenceTheorems, TLAPS

(***************************************************************************)
(* The key-value storage                                                   *)
(***************************************************************************)

\* What an entry takes is a number of bytes.
LEMMA TakenIsNat ==
  ASSUME StoreTypeOK, NEW k \in Key
  PROVE  Taken(k) \in Nat
<1>1. CASE Present(k)
  <2>1. store[k] \in Value
    BY <1>1 DEF StoreTypeOK, Present
  <2>. QED
    BY <1>1, <2>1, EntryAssumption DEF Taken
<1>2. CASE ~Present(k)
  BY <1>2 DEF Taken
<1>. QED
  BY <1>1, <1>2

\* A new entry takes at least a header and a key.
LEMMA SizeIsNat ==
  ASSUME NEW k \in Key, NEW v \in Value
  PROVE  EntrySize(k, v) \in Nat
BY EntryAssumption

LEMMA BindKeepsType ==
  ASSUME StoreTypeOK, NEW k \in Key, NEW v \in Value \cup {Absent}, Bind(k, v)
  PROVE  store' \in [Key -> Value \cup {Absent}]
BY DEF StoreTypeOK, Bind

\* What a step preserves: the types, and the place of the end tag.
StoreInv == StoreTypeOK /\ EndTagIsAccessible

LEMMA StoreInitInv == Init => StoreInv
BY MemoryAssumption DEF Init, StoreInv, StoreTypeOK, EndTagIsAccessible, FirstItem, EndTag

LEMMA StoreKeepsInv ==
  ASSUME StoreInv, NEW k \in Key, NEW v \in Value, Store(k, v)
  PROVE  StoreInv'
<1>1. StoreTypeOK /\ EndTagIsAccessible
  BY DEF StoreInv
<1>2. PICK old \in Nat : old = Taken(k)
  BY <1>1, TakenIsNat
<1>3. PICK new \in Nat : new = EntrySize(k, v)
  BY SizeIsNat
<1>4. live \in Int /\ holes \in Nat /\ MemSize \in Nat
  BY <1>1, MemoryAssumption DEF StoreTypeOK
<1>5. CASE Overwrite(k, v)
  <2>1. store' \in [Key -> Value \cup {Absent}]
    BY <1>1, <1>5, BindKeepsType DEF Overwrite
  <2>. QED
    BY <1>1, <1>5, <2>1 DEF Overwrite, StoreInv, StoreTypeOK, EndTagIsAccessible
<1>6. CASE AppendItem(k, v)
  <2>1. store' \in [Key -> Value \cup {Absent}]
    BY <1>1, <1>6, BindKeepsType DEF AppendItem
  <2>2. /\ live' = live - old + new
        /\ holes' = holes + old
        /\ result' = TRUE
        /\ FirstItem + (live + holes) + new + EndTag < MemSize
    BY <1>2, <1>3, <1>6 DEF AppendItem, Fits
  <2>3. live' \in Int /\ holes' \in Nat
    BY <1>2, <1>4, <2>2
  <2>4. FirstItem + live' + holes' + EndTag < MemSize
    BY <1>2, <1>4, <2>2 DEF FirstItem, EndTag
  <2>. QED
    BY <2>1, <2>2, <2>3, <2>4 DEF StoreInv, StoreTypeOK, EndTagIsAccessible
<1>7. CASE DefragAndAppend(k, v)
  <2>1. store' \in [Key -> Value \cup {Absent}]
    BY <1>1, <1>7, BindKeepsType DEF DefragAndAppend
  <2>2. /\ live' = live - old + new
        /\ holes' = 0
        /\ result' = TRUE
        /\ FirstItem + (live - old) + new + EndTag < MemSize
    BY <1>2, <1>3, <1>7 DEF DefragAndAppend, Fits
  <2>3. live' \in Int /\ holes' \in Nat
    BY <1>2, <1>4, <2>2
  <2>4. FirstItem + live' + holes' + EndTag < MemSize
    BY <1>2, <1>4, <2>2 DEF FirstItem, EndTag
  <2>. QED
    BY <2>1, <2>2, <2>3, <2>4 DEF StoreInv, StoreTypeOK, EndTagIsAccessible
<1>8. CASE Full(k, v)
  <2>1. store' \in [Key -> Value \cup {Absent}]
    BY <1>1, <1>8, BindKeepsType DEF Full
  <2>2. /\ live' = live - old
        /\ holes' = 0
        /\ result' = FALSE
    BY <1>2, <1>3, <1>8 DEF Full
  <2>3. live' \in Int /\ holes' \in Nat
    BY <1>2, <1>4, <2>2
  <2>4. FirstItem + live' + holes' + EndTag < MemSize
    BY <1>1, <1>2, <1>4, <2>2 DEF EndTagIsAccessible, FirstItem, EndTag
  <2>. QED
    BY <2>1, <2>2, <2>3, <2>4 DEF StoreInv, StoreTypeOK, EndTagIsAccessible
<1>9. CASE EndNotFound(k, v)
  <2>1. store' \in [Key -> Value \cup {Absent}]
    BY <1>1, <1>9, BindKeepsType DEF EndNotFound
  <2>2. /\ live' = live - old
        /\ holes' = holes + old
        /\ result' = FALSE
    BY <1>2, <1>3, <1>9 DEF EndNotFound
  <2>3. live' \in Int /\ holes' \in Nat
    BY <1>2, <1>4, <2>2
  <2>4. FirstItem + live' + holes' + EndTag < MemSize
    BY <1>1, <1>2, <1>4, <2>2 DEF EndTagIsAccessible, FirstItem, EndTag
  <2>. QED
    BY <2>1, <2>2, <2>3, <2>4 DEF StoreInv, StoreTypeOK, EndTagIsAccessible
<1>. QED
  BY <1>5, <1>6, <1>7, <1>8, <1>9 DEF Store

LEMMA DeleteKeepsInv ==
  ASSUME StoreInv, NEW k \in Key, Delete(k)
  PROVE  StoreInv'
<1>1. StoreTypeOK /\ EndTagIsAccessible
  BY DEF StoreInv
<1>2. live \in Int /\ holes \in Nat /\ MemSize \in Nat
  BY <1>1, MemoryAssumption DEF StoreTypeOK
<1>3. store' \in [Key -> Value \cup {Absent}]
  BY <1>1, BindKeepsType DEF Delete
<1>4. PICK old \in Nat : old = Taken(k)
  BY <1>1, TakenIsNat
<1>5. live' = live - old /\ holes' = holes + old
  BY <1>4 DEF Delete
<1>6. live' \in Int /\ holes' \in Nat
  BY <1>2, <1>5
<1>7. FirstItem + live' + holes' + EndTag < MemSize
  BY <1>1, <1>2, <1>5 DEF EndTagIsAccessible, FirstItem, EndTag
<1>8. result' \in BOOLEAN
  BY DEF Delete, Present
<1>. QED
  BY <1>3, <1>6, <1>7, <1>8 DEF StoreInv, StoreTypeOK, EndTagIsAccessible

LEMMA FormatGivesInv ==
  ASSUME Format
  PROVE  StoreInv'
BY MemoryAssumption DEF Format, StoreInv, StoreTypeOK, EndTagIsAccessible, FirstItem, EndTag

LEMMA StoreNextInv == StoreInv /\ [Next]_vars => StoreInv'
<1>. SUFFICES ASSUME StoreInv, [Next]_vars
              PROVE  StoreInv'
  OBVIOUS
<1>1. CASE \E k \in Key, v \in Value : Store(k, v)
  BY <1>1, StoreKeepsInv
<1>2. CASE \E k \in Key : Delete(k)
  BY <1>2, DeleteKeepsInv
<1>3. CASE Format
  BY <1>3, FormatGivesInv
<1>4. CASE Restart
  <2>1. CASE EndIsFound
    BY <1>4, <2>1 DEF Restart, StoreInv, StoreTypeOK, EndTagIsAccessible
  <2>2. CASE ~EndIsFound
    BY <1>4, <2>2, FormatGivesInv DEF Restart
  <2>. QED
    BY <2>1, <2>2
<1>5. CASE UNCHANGED vars
  BY <1>5 DEF StoreInv, StoreTypeOK, EndTagIsAccessible, vars
<1>. QED
  BY <1>1, <1>2, <1>3, <1>4, <1>5 DEF Next

LEMMA StoreInvHolds == Spec => []StoreInv
BY StoreInitInv, StoreNextInv, PTL DEF Spec

\* No sequence of stores, deletes, defragmentations, formats and restarts
\* writes the end tag, or an entry, over the last bytes of the partition
\* (kve.c:37, 46).
THEOREM EndTagTheorem == Spec => []EndTagIsAccessible
<1>1. StoreInv => EndTagIsAccessible
  BY DEF StoreInv
<1>. QED
  BY <1>1, StoreInvHolds, PTL

\* With the sizes of storage.c and eeprom.h, the search for the end fails on
\* one length of the table only: the longest that a store allows.
THEOREM BrimTheorem ==
  ASSUME Accessible = MemSize - 1
  PROVE  Spec => [](~EndIsFound <=> FirstItem + live + holes + EndTag = MemSize - 1)
<1>1. StoreInv => (~EndIsFound <=> FirstItem + live + holes + EndTag = MemSize - 1)
  <2>. SUFFICES ASSUME StoreInv
                PROVE  ~EndIsFound <=> FirstItem + live + holes + EndTag = MemSize - 1
    OBVIOUS
  <2>1. live \in Int /\ holes \in Nat /\ MemSize \in Nat
    BY MemoryAssumption DEF StoreInv, StoreTypeOK
  <2>2. FirstItem + live + holes + EndTag < MemSize
    BY DEF StoreInv, EndTagIsAccessible
  <2>. QED
    BY <2>1, <2>2 DEF EndIsFound, FirstItem, EndTag, Header
<1>. QED
  BY <1>1, StoreInvHolds, PTL

(***************************************************************************)
(* The configuration block and the EEPROM: the inductive invariant         *)
(***************************************************************************)

Place == {"none", "sending", "asking", "ended"}

Job ==
  [at : Place, address : Nat, bytes : Seq(Byte), done : Nat, tries : Nat, polls : Nat,
   ok : BOOLEAN]

AtWork == At("sending") \/ At("asking")

\* What the driver and the device hold.
DeviceOK ==
  /\ cells \in [Address -> Byte]
  /\ \A a \in DOMAIN cycle : cycle[a] \in Byte
  /\ job \in Job
  /\ allowed \subseteq Nat

\* How far a job may be.
JobOK ==
  /\ job.tries <= MaxTries /\ job.polls <= MaxPolls
  /\ Len(job.bytes) <= Numbers
  /\ IF AtWork
       THEN /\ job.done < Len(job.bytes)
            /\ job.address + Len(job.bytes) <= EepromSize
            /\ job.ok = FALSE
            /\ (At("sending") => job.tries < MaxTries)
            /\ (At("asking") => job.polls < MaxPolls)
       ELSE job.done <= Len(job.bytes)

\* Where byte j of the job goes: by its length, no two of its bytes go to one place.
ByteAt(j) == Named(job.address + j - 1)

\* The first n bytes of the job are in the cells.
Stored(n) == \A j \in 1 .. n : cells[ByteAt(j)] = job.bytes[j]

\* What has been written of a job, and what the device is writing.
WrittenOK ==
  /\ AtWork => Stored(job.done)
  /\ At("sending") => \A j \in 1 .. job.done : ByteAt(j) \notin DOMAIN cycle
  /\ At("asking") => IF Busy THEN cycle = Page(PageIndex)
                             ELSE Stored(job.done + PageIndex)
  /\ At("ended") /\ job.ok => /\ Stored(Len(job.bytes))
                              /\ (job.bytes # <<>> => ~Busy)

\* The block, its content, and what was found.
ContentOK ==
  /\ block \in [1 .. 2 -> Byte] /\ boot \in [1 .. 2 -> Byte]
  /\ cbOk \in BOOLEAN /\ excuse \in BOOLEAN /\ changed \in BOOLEAN
  /\ clients \in 0 .. ClientLimit /\ failures \in 0 .. PowerLimit

\* The job that writes the block.
WritesBlock(content) ==
  ~At("none") /\ job.address = 0 /\ job.bytes = Written(content)

Resting == At("none") /\ ~Busy

\* Where the start is, and what it knows.
StartOK ==
  \/ /\ phase = "off"
     /\ Resting /\ cbOk = FALSE
  \/ /\ phase = "testing"
     /\ Resting /\ cbOk = FALSE
     /\ boot = Loads /\ excuse = FALSE
  \/ /\ phase = "upgrade"
     /\ WritesBlock(block) /\ boot = block /\ excuse = FALSE
  \/ /\ phase = "default"
     /\ At("none") /\ cbOk = FALSE
     /\ excuse \/ boot = DefaultContent
  \/ /\ phase = "defaulting"
     /\ WritesBlock(block) /\ block = DefaultContent
     /\ excuse \/ boot = DefaultContent
  \/ /\ phase = "failed"
     /\ excuse
  \/ /\ phase = "running"
     /\ excuse \/ InUse = boot
     /\ changed \/ (Resting /\ Loads = InUse)

BlockInv ==
  /\ DeviceOK
  /\ JobOK
  /\ WrittenOK
  /\ ContentOK
  /\ StartOK

\* Nothing is written but where jobs were told to.
KeptOK ==
  /\ DOMAIN cycle \subseteq allowed \cap Address
  /\ AtWork => Region(job.address, job.bytes) \subseteq allowed

-----------------------------------------------------------------------------
(* What is in a block                                                      *)

Content == [1 .. 2 -> Byte]

LEMMA BlockConstants ==
  /\ Magic \in Byte /\ Version \in Byte /\ DefaultContent \in Content
  /\ Values \in Nat \ {0} /\ Cells \in Nat /\ EepromSize \in Nat /\ EepromSize <= Cells
  /\ 5 <= EepromSize /\ 5 <= Numbers /\ Numbers \in Nat \ {0} /\ PageSize \in Nat \ {0}
  /\ Numbers <= Cells
  /\ MaxTries \in Nat \ {0} /\ MaxPolls \in Nat \ {0}
  /\ Version = 1 /\ Size(Version) = 5 /\ 0 .. 4 \subseteq Address
<1>1. Magic \in Byte /\ 1 \in Byte /\ DefaultContent \in Content
  BY ConfigAssumption DEF Content
<1>2. Version = 1 /\ Size(Version) = 5
  BY DEF Version, Size
<1>3. 5 <= EepromSize /\ 5 <= Numbers
  BY <1>2, BlockAssumption
<1> QED
  BY <1>1, <1>2, <1>3, EepromAssumption DEF Address

LEMMA ContentIsSeq ==
  ASSUME NEW content \in Content
  PROVE  /\ content \in Seq(Byte) /\ Len(content) = 2
         /\ content[1] \in Byte /\ content[2] \in Byte
<1>1. content \in [1 .. 2 -> Byte]
  BY DEF Content
<1>2. content \in Seq(Byte)
  <2>1. content = [j \in 1 .. 2 |-> content[j]]
    BY <1>1
  <2>2. \A j \in 1 .. 2 : content[j] \in Byte
    BY <1>1
  <2>3. [j \in 1 .. 2 |-> content[j]] \in Seq(Byte)
    BY <2>2
  <2> QED
    BY <2>1, <2>3
<1>3. DOMAIN content = 1 .. 2
  BY <1>1
<1>4. Len(content) = 2
  BY <1>2, <1>3, LenProperties
<1> QED
  BY <1>1, <1>2, <1>4

\* A checksum is a byte: the sum's definition is unfolded for four of them.
LEMMA ChecksumOfFour ==
  ASSUME NEW bytes, Len(bytes) = 4, \A j \in 1 .. 4 : bytes[j] \in Byte
  PROVE  Checksum(bytes) \in Byte
<1> DEFINE Sums(f) == [j \in 0 .. 4 |-> IF j = 0 THEN 0 ELSE f[j - 1] + bytes[j]]
           sum == CHOOSE f : f = Sums(f)
           w == [j \in 0 .. 4 |-> IF j = 0 THEN 0
                             ELSE IF j = 1 THEN bytes[1]
                             ELSE IF j = 2 THEN bytes[1] + bytes[2]
                             ELSE IF j = 3 THEN bytes[1] + bytes[2] + bytes[3]
                             ELSE bytes[1] + bytes[2] + bytes[3] + bytes[4]]
<1>1. \A j \in 1 .. 4 : bytes[j] \in Nat
  BY DEF Byte
<1>2. w = Sums(w)
  <2>1. \A j \in 0 .. 4 : w[j] = Sums(w)[j]
    BY <1>1
  <2> QED
    BY <2>1
<1>3. sum = Sums(sum)
  <2> HIDE DEF w, Sums
  <2> QED
    BY <1>2
<1>4. sum[4] \in Nat
  <2> HIDE DEF sum
  <2>1. sum[0] = 0
    BY <1>3
  <2>2. sum[1] = sum[0] + bytes[1] /\ sum[2] = sum[1] + bytes[2]
        /\ sum[3] = sum[2] + bytes[3] /\ sum[4] = sum[3] + bytes[4]
    BY <1>3
  <2> QED
    BY <1>1, <2>1, <2>2
<1>5. Checksum(bytes) = sum[4] % Values
  BY DEF Checksum
<1> HIDE DEF sum
<1> QED
  BY <1>4, <1>5, EepromAssumption DEF Byte

\* The bytes before the checksum.
Front(content) == <<Magic, Version>> \o content

LEMMA FrontProperties ==
  ASSUME NEW content \in Content
  PROVE  /\ Front(content) \in Seq(Byte) /\ Len(Front(content)) = 4
         /\ Front(content)[1] = Magic /\ Front(content)[2] = Version
         /\ Front(content)[3] = content[1] /\ Front(content)[4] = content[2]
<1> DEFINE s == <<Magic, Version>>
<1>1. s \in Seq(Byte) /\ Len(s) = 2 /\ s[1] = Magic /\ s[2] = Version
  BY BlockConstants
<1>2. content \in Seq(Byte) /\ Len(content) = 2
  BY ContentIsSeq
<1>3. Front(content) = s \o content
  BY DEF Front
<1> HIDE DEF s
<1>4. /\ s \o content \in Seq(Byte) /\ Len(s \o content) = 4
      /\ \A i \in 1 .. 4 : (s \o content)[i] = IF i <= 2 THEN s[i] ELSE content[i - 2]
  <2> DEFINE l == Len(s)
             k == Len(content)
  <2>1. /\ s \o content \in Seq(Byte) /\ Len(s \o content) = l + k
        /\ \A i \in 1 .. l + k : (s \o content)[i] = IF i <= l THEN s[i] ELSE content[i - l]
    BY <1>1, <1>2, ConcatProperties
  <2>2. l = 2 /\ k = 2
    BY <1>1, <1>2
  <2> HIDE DEF l, k
  <2> QED
    BY <2>1, <2>2
<1> QED
  BY <1>1, <1>3, <1>4

LEMMA AppendAt ==
  ASSUME NEW s \in Seq(Byte), NEW b \in Byte
  PROVE  /\ Append(s, b) \in Seq(Byte) /\ Len(Append(s, b)) = Len(s) + 1
         /\ \A j \in 1 .. Len(s) : Append(s, b)[j] = s[j]
         /\ Append(s, b)[Len(s) + 1] = b
  OBVIOUS
LEMMA AppendByte ==
  ASSUME NEW s \in Seq(Byte), Len(s) = 4, NEW b \in Byte
  PROVE  /\ Append(s, b) \in Seq(Byte) /\ Len(Append(s, b)) = 5
         /\ \A j \in 1 .. 4 : Append(s, b)[j] = s[j]
         /\ Append(s, b)[5] = b
<1> DEFINE t == Append(s, b)
           n == Len(s)
<1>1. t \in Seq(Byte) /\ Len(t) = n + 1 /\ (\A j \in 1 .. n : t[j] = s[j]) /\ t[n + 1] = b
  BY AppendAt
<1>2. n = 4
  OBVIOUS
<1> HIDE DEF t, n
<1>3. t \in Seq(Byte) /\ Len(t) = 5 /\ (\A j \in 1 .. 4 : t[j] = s[j]) /\ t[5] = b
  BY <1>1, <1>2
<1> QED
  BY <1>3 DEF t

LEMMA WrittenProperties ==
  ASSUME NEW content \in Content
  PROVE  /\ Written(content) \in Seq(Byte) /\ Len(Written(content)) = 5
         /\ \A j \in 1 .. 4 : Written(content)[j] = Front(content)[j]
         /\ Written(content)[5] = Checksum(Front(content))
<1> DEFINE f == Front(content)
           c == Checksum(f)
<1>1. f \in Seq(Byte) /\ Len(f) = 4
  BY FrontProperties
<1>2. \A j \in 1 .. 4 : f[j] \in Byte
  BY <1>1, ElementOfSeq
<1>3. c \in Byte
  BY <1>1, <1>2, ChecksumOfFour
<1>4. Written(content) = Append(f, c)
  BY DEF Written, Front
<1> HIDE DEF f, c
<1>5. /\ Append(f, c) \in Seq(Byte) /\ Len(Append(f, c)) = 5
      /\ \A j \in 1 .. 4 : Append(f, c)[j] = f[j]
      /\ Append(f, c)[5] = c
  BY <1>1, <1>3, AppendByte
<1> QED
  BY <1>4, <1>5 DEF f, c

\* A block that is stored as it was written is found, and what it holds is used.
LEMMA StoredIsLoaded ==
  ASSUME cells \in [Address -> Byte], NEW content \in Content,
         \A j \in 1 .. 5 : cells[j - 1] = Written(content)[j]
  PROVE  Loads = content
<1> DEFINE r == Read(4)
           f == Front(content)
<1>1. /\ cells[0] = Magic /\ cells[1] = Version
      /\ cells[2] = content[1] /\ cells[3] = content[2]
      /\ cells[4] = Checksum(f)
  <2>1. /\ cells[0] = Written(content)[1] /\ cells[1] = Written(content)[2]
        /\ cells[2] = Written(content)[3] /\ cells[3] = Written(content)[4]
        /\ cells[4] = Written(content)[5]
    <3>1. \A j \in 1 .. 5 : cells[j - 1] = Written(content)[j]
      OBVIOUS
    <3> QED
      BY <3>1
  <2> QED
    BY <2>1, WrittenProperties, FrontProperties
<1>2. r = f
  <2>1. f \in Seq(Byte) /\ Len(f) = 4
    BY FrontProperties
  <2>2. \A j \in 1 .. 4 : r[j] = cells[j - 1] /\ cells[j - 1] \in Byte
    BY BlockConstants DEF Read
  <2>3. r \in Seq(Byte) /\ Len(r) = 4
    BY <2>2 DEF Read
  <2>4. \A j \in 1 .. 4 : r[j] = f[j]
    <3>1. r[1] = f[1] /\ r[2] = f[2] /\ r[3] = f[3] /\ r[4] = f[4]
      BY <1>1, <2>2, FrontProperties
    <3> QED
      BY <3>1
  <2> HIDE DEF r, f
  <2> QED
    BY <2>1, <2>3, <2>4, SeqEqual
<1>3. Verifies(Version)
  <2>1. cells[4] = Checksum(r)
    BY <1>1, <1>2
  <2>2. Size(Version) - 1 = 4
    BY BlockConstants
  <2> QED
    BY <2>1, <2>2 DEF Verifies
<1>4. IsNew
  BY <1>1, <1>3 DEF IsNew, IsBlock
<1>5. Loads = <<cells[2], cells[3]>>
  <2>1. ~IsOld
    BY <1>1, BlockConstants DEF IsOld
  <2> QED
    BY <1>4, <2>1 DEF Loads
<1>6. <<cells[2], cells[3]>> = content
  <2>1. <<cells[2], cells[3]>> \in Seq(Byte) /\ Len(<<cells[2], cells[3]>>) = 2
    BY BlockConstants
  <2>2. <<cells[2], cells[3]>>[1] = content[1] /\ <<cells[2], cells[3]>>[2] = content[2]
    BY <1>1
  <2>3. content \in Seq(Byte) /\ Len(content) = 2
    BY ContentIsSeq
  <2> DEFINE t == <<cells[2], cells[3]>>
  <2> HIDE DEF t
  <2>4. \A j \in 1 .. 2 : t[j] = content[j]
    <3>1. t[1] = content[1] /\ t[2] = content[2]
      BY <2>2 DEF t
    <3> QED
      BY <3>1
  <2>5. t \in Seq(Byte) /\ Len(t) = 2
    BY <2>1 DEF t
  <2>6. t = content
    BY <2>3, <2>4, <2>5, SeqEqual
  <2> QED
    BY <2>6 DEF t
<1> QED
  BY <1>5, <1>6

-----------------------------------------------------------------------------
(* Pages                                                                   *)

LEMMA DivMod ==
  ASSUME NEW a \in Nat, NEW p \in Nat \ {0}
  PROVE  a % p \in 0 .. p - 1 /\ a \div p \in Nat /\ a = p * (a \div p) + (a % p)
  BY SMTT(30)

LEMMA ModUnique ==
  ASSUME NEW a \in Nat, NEW p \in Nat \ {0}, NEW q \in Nat, NEW r \in 0 .. p - 1,
         a = p * q + r
  PROVE  a % p = r
  BY SMTT(30)

\* Within a page, offsets add up.
LEMMA ModAdd ==
  ASSUME NEW a \in Nat, NEW k \in Nat, NEW p \in Nat \ {0}, (a % p) + k < p
  PROVE  (a + k) % p = (a % p) + k
<1> DEFINE q == a \div p
           m == p * q
<1>1. q \in Nat /\ a % p \in 0 .. p - 1 /\ a = m + (a % p)
  BY DivMod
<1> HIDE DEF q
<1>2. m \in Nat
  BY <1>1
<1> HIDE DEF m
<1>3. (a % p) + k \in 0 .. p - 1 /\ a + k = m + ((a % p) + k)
  BY <1>1, <1>2
<1>4. a + k \in Nat /\ a + k = p * q + ((a % p) + k)
  BY <1>3 DEF m
<1> QED
  BY <1>1, <1>3, <1>4, ModUnique

LEMMA ModSmall ==
  ASSUME NEW a \in Nat, NEW p \in Nat \ {0}, a < p
  PROVE  a % p = a
  BY SMTT(30)

\* What a job at work has sent, and has left.
LEMMA AtWorkProperties ==
  ASSUME DeviceOK, JobOK, AtWork
  PROVE  /\ job.address \in Nat /\ job.done \in Nat /\ Len(job.bytes) \in Nat
         /\ Current \in Nat /\ Current = job.address + job.done
         /\ Left \in Nat \ {0} /\ Left = Len(job.bytes) - job.done
         /\ PageIndex \in 1 .. Left
         /\ PageIndex <= PageSize - (Current % PageSize)
         /\ Current % PageSize \in 0 .. PageSize - 1
         /\ job.address + Len(job.bytes) <= EepromSize
<1> DEFINE l == Len(job.bytes)
           r == Current % PageSize
<1>1. job.address \in Nat /\ job.done \in Nat /\ job.bytes \in Seq(Byte)
  BY DEF DeviceOK, Job
<1>2. l \in Nat
  BY <1>1
<1>3. job.done < l /\ job.address + l <= EepromSize
  BY DEF JobOK
<1> HIDE DEF l
<1>4. Current \in Nat /\ Current = job.address + job.done
  BY <1>1 DEF Current
<1>5. Left = l - job.done
  BY DEF Left, l
<1>6. Left \in Nat \ {0}
  BY <1>1, <1>2, <1>3, <1>5
<1>7. r \in 0 .. PageSize - 1
  BY <1>4, DivMod, BlockConstants
<1>8. PageIndex = IF PageSize - r < Left THEN PageSize - r ELSE Left
  BY DEF PageIndex
<1> HIDE DEF r
<1>9. PageIndex \in 1 .. Left /\ PageIndex <= PageSize - r
  BY <1>6, <1>7, <1>8, BlockConstants
<1> QED
  BY <1>1, <1>2, <1>3, <1>4, <1>5, <1>6, <1>7, <1>9 DEF l, r

\* A page lies in what a byte can name, or nowhere: its offset survives the cut.
LEMMA PageDivides ==
  ASSUME NEW a \in Nat
  PROVE  /\ Named(a) \in Nat /\ Named(a) < Numbers
         /\ Named(a) % PageSize = a % PageSize
         /\ (Named(a) - (Named(a) % PageSize)) + PageSize <= Numbers
<1>1. PICK n \in Nat \ {0}, p \in Nat \ {0} : n = Numbers /\ p = PageSize /\ n % p = 0
  BY EepromAssumption
<1>2. PICK s \in Nat : s = Named(a) /\ s < n
  BY <1>1, DivMod DEF Named
<1>3. PICK d \in Nat : a = n * d + s
  <2>1. a \div n \in Nat /\ a = n * (a \div n) + (a % n)
    BY DivMod
  <2>2. a % n = s
    BY <1>1, <1>2 DEF Named
  <2> QED
    BY <2>1, <2>2
<1>4. PICK m \in Nat : n = p * m
  <2>1. n \div p \in Nat /\ n = p * (n \div p) + (n % p)
    BY <1>1, DivMod
  <2>2. n = p * (n \div p)
    BY <1>1, <2>1
  <2> QED
    BY <2>1, <2>2
<1>5. PICK q \in Nat, r \in 0 .. p - 1 : s = p * q + r /\ r = s % p
  BY <1>1, <1>2, DivMod
<1>6. a = p * (m * d + q) + r
  <2>1. a = (p * m) * d + (p * q + r)
    BY <1>3, <1>4, <1>5
  <2> QED
    BY <2>1, <1>1, <1>3, <1>4, <1>5
<1>7. a % p = r
  <2>1. PICK e \in Nat : e = m * d + q
    BY <1>3, <1>4, <1>5
  <2>2. a = p * e + r
    BY <1>6, <2>1
  <2>3. r \in 0 .. p - 1
    BY <1>5
  <2> QED
    BY <2>2, <2>3, ModUnique
<1>8. (s - r) + p <= n
  <2>1. s - r = p * q
    BY <1>2, <1>5
  <2>2. q < m
    <3>1. SUFFICES ASSUME m <= q PROVE FALSE
      BY <1>4, <1>5
    <3>2. p * m <= p * q
      BY <1>1, <1>4, <1>5, <3>1
    <3> QED
      BY <1>1, <1>2, <1>4, <1>5, <3>2
  <2>3. p * q + p <= p * m
    <3>1. PICK e \in Nat : m = (q + 1) + e
      <4>1. m - (q + 1) \in Nat /\ m = (q + 1) + (m - (q + 1))
        BY <1>4, <1>5, <2>2
      <4> QED
        BY <4>1
    <3>2. p * m = p * q + p + p * e
      BY <1>1, <1>5, <3>1
    <3> QED
      BY <1>1, <1>5, <3>1, <3>2
  <2> QED
    BY <1>4, <2>1, <2>3
<1> QED
  BY <1>1, <1>2, <1>5, <1>7, <1>8

\* Addresses that are less than all the numbers apart are named differently.
LEMMA NamedApart ==
  ASSUME NEW a \in Nat, NEW b \in Nat, a < b, b - a < Numbers
  PROVE  Named(a) # Named(b)
<1> SUFFICES ASSUME Named(a) = Named(b)
             PROVE  FALSE
  OBVIOUS
<1>1. PICK n \in Nat \ {0} : n = Numbers
  BY BlockConstants
<1>2. PICK d \in Nat, s \in Nat : a = n * d + s /\ s = Named(a)
  <2>1. a \div n \in Nat /\ a = n * (a \div n) + (a % n)
    BY DivMod
  <2>2. a % n \in 0 .. n - 1
    BY DivMod
  <2>3. a % n \in Nat
    BY <2>2
  <2> QED
    BY <1>1, <2>1, <2>3 DEF Named
<1>3. PICK e \in Nat : b = n * e + s
  <2>1. b \div n \in Nat /\ b = n * (b \div n) + (b % n)
    BY DivMod
  <2> QED
    BY <1>1, <1>2, <2>1 DEF Named
<1>4. PICK x \in Nat, y \in Nat : x = n * d /\ y = n * e
  BY <1>1, <1>2, <1>3
<1>5. x < y /\ y - x < n
  BY <1>1, <1>2, <1>3, <1>4
<1>6. d < e
  <2>1. SUFFICES ASSUME e <= d PROVE FALSE
    BY <1>2, <1>3
  <2>2. n * e <= n * d
    BY <1>1, <1>2, <1>3, <2>1
  <2> QED
    BY <1>4, <1>5, <2>2
<1>7. PICK f \in Nat : e = (d + 1) + f
  <2>1. e - (d + 1) \in Nat /\ e = (d + 1) + (e - (d + 1))
    BY <1>2, <1>3, <1>6
  <2> QED
    BY <2>1
<1>8. n * e = n * d + n + n * f
  BY <1>1, <1>2, <1>7
<1>9. n * f \in Nat
  BY <1>1, <1>7
<1> QED
  BY <1>1, <1>4, <1>5, <1>8, <1>9

\* Where the bytes of a job go: to the device, and no two of them to one place.
LEMMA BytesApart ==
  ASSUME DeviceOK, JobOK,
         NEW i \in 1 .. Len(job.bytes), NEW j \in 1 .. Len(job.bytes)
  PROVE  ByteAt(j) \in Address /\ (i # j => ByteAt(i) # ByteAt(j))
<1>1. job.address \in Nat /\ job.bytes \in Seq(Byte)
  BY DEF DeviceOK, Job
<1>2. PICK l \in Nat, w \in Nat : l = Len(job.bytes) /\ w = job.address
  BY <1>1
<1>3. l <= Numbers /\ i \in 1 .. l /\ j \in 1 .. l
  BY <1>2 DEF JobOK
<1>4. w + i - 1 \in Nat /\ w + j - 1 \in Nat
  BY <1>2, <1>3
<1>5. ByteAt(i) = Named(w + i - 1) /\ ByteAt(j) = Named(w + j - 1)
  BY <1>2 DEF ByteAt
<1>6. Named(w + j - 1) \in Address
  <2>1. Named(w + j - 1) \in Nat /\ Named(w + j - 1) < Numbers
    BY <1>4, PageDivides
  <2> QED
    BY <2>1, BlockConstants DEF Address
<1>7. PICK n \in Nat : n = Numbers /\ l <= n
  BY <1>3, BlockConstants
<1>8. CASE i < j
  <2>1. w + i - 1 < w + j - 1 /\ (w + j - 1) - (w + i - 1) < n
    BY <1>2, <1>3, <1>8, <1>7
  <2> QED
    BY <1>4, <1>5, <1>6, <1>7, <2>1, NamedApart
<1>9. CASE j < i
  <2>1. w + j - 1 < w + i - 1 /\ (w + i - 1) - (w + j - 1) < n
    BY <1>2, <1>3, <1>9, <1>7
  <2> QED
    BY <1>4, <1>5, <1>6, <1>7, <2>1, NamedApart
<1>10. CASE i = j
  BY <1>5, <1>6, <1>10
<1> QED
  BY <1>3, <1>8, <1>9, <1>10

\* The device puts a page's bytes in their places, one after another: none wraps.
LEMMA PlacedInOrder ==
  ASSUME DeviceOK, JobOK, AtWork, NEW j \in 1 .. PageIndex
  PROVE  Placed(j) = ByteAt(job.done + j)
<1>1. PICK c \in Nat, p \in Nat \ {0}, n \in Nat \ {0} :
        c = Current /\ p = PageSize /\ n = Numbers
  BY AtWorkProperties, BlockConstants
<1>2. PICK s \in Nat, r \in 0 .. p - 1 :
        s = Named(c) /\ r = c % p /\ s % p = r /\ (s - r) + p <= n
  BY <1>1, DivMod, PageDivides
<1>3. PICK k \in Nat : k = j - 1 /\ r + k < p
  <2>1. PageIndex <= p - r /\ PageIndex \in Nat
    BY <1>1, <1>2, AtWorkProperties
  <2>2. j - 1 \in Nat /\ r + (j - 1) < p
    BY <1>1, <1>2, <2>1
  <2> QED
    BY <2>2
<1>4. (s + k) % p = r + k
  BY <1>1, <1>2, <1>3, ModAdd
<1>5. Placed(j) = s + k
  <2>1. Sent8 = s /\ s + j - 1 = s + k
    BY <1>1, <1>2, <1>3 DEF Sent8
  <2>2. Placed(j) = (s - r) + (r + k)
    BY <1>1, <1>2, <1>4, <2>1 DEF Placed
  <2> QED
    BY <1>1, <1>2, <1>3, <2>2
<1>6. (c + k) % n = s + k
  <2>1. c % n = s /\ s + k < n
    BY <1>1, <1>2, <1>3 DEF Named
  <2> QED
    BY <1>1, <1>3, <2>1, ModAdd
<1>7. job.address + (job.done + j) - 1 = c + k
  <2>1. job.address \in Nat /\ job.done \in Nat /\ c = job.address + job.done
    BY <1>1, AtWorkProperties
  <2> QED
    BY <1>3, <2>1
<1> QED
  BY <1>1, <1>5, <1>6, <1>7 DEF ByteAt, Named

\* The page at hand lies within the buffer of the job.
LEMMA PageInBuffer ==
  ASSUME DeviceOK, JobOK, AtWork
  PROVE  /\ job.address \in Nat /\ job.done \in Nat /\ Len(job.bytes) \in Nat
         /\ Current = job.address + job.done
         /\ PageIndex \in Nat /\ 1 <= PageIndex
         /\ job.done + PageIndex <= Len(job.bytes)
<1>1. /\ job.address \in Nat /\ job.done \in Nat /\ Len(job.bytes) \in Nat
      /\ Current = job.address + job.done
  BY AtWorkProperties
<1>2. PICK d \in Nat, l \in Nat : d = job.done /\ l = Len(job.bytes)
  BY <1>1
<1>3. PageIndex \in 1 .. Left /\ Left \in Nat /\ Left = l - d
  BY <1>2, AtWorkProperties
<1>4. PageIndex \in Nat /\ 1 <= PageIndex /\ d + PageIndex <= l
  BY <1>3
<1> QED
  BY <1>1, <1>2, <1>4

\* Whatever the addresses, what the device is given are bytes of the job.
LEMMA PageValues ==
  ASSUME NEW n \in Nat, NEW a \in DOMAIN Page(n)
  PROVE  \E j \in 1 .. n : Placed(j) = a /\ Page(n)[a] = job.bytes[job.done + j]
<1> DEFINE c == CHOOSE j \in 1 .. n : Placed(j) = a
<1>1. \E j \in 1 .. n : Placed(j) = a
  BY DEF Page
<1>2. c \in 1 .. n /\ Placed(c) = a
  BY <1>1
<1>3. Page(n)[a] = job.bytes[job.done + c]
  BY DEF Page
<1> QED
  BY <1>2, <1>3

LEMMA PageBytes ==
  ASSUME DeviceOK, JobOK, AtWork, NEW n \in 0 .. PageIndex, NEW a \in DOMAIN Page(n)
  PROVE  Page(n)[a] \in Byte
<1>1. PICK j \in 1 .. n : Page(n)[a] = job.bytes[job.done + j]
  BY PageInBuffer, PageValues
<1>2. job.done + j \in 1 .. Len(job.bytes)
  BY PageInBuffer
<1>3. job.bytes \in Seq(Byte)
  BY DEF DeviceOK, Job
<1> QED
  BY <1>1, <1>2, <1>3, ElementOfSeq

\* What a page changes, and into what: the next bytes of the job, at their places.
LEMMA PageOfJob ==
  ASSUME DeviceOK, JobOK, AtWork, NEW n \in 0 .. PageIndex
  PROVE  /\ DOMAIN Page(n) = {ByteAt(j) : j \in job.done + 1 .. job.done + n}
         /\ \A j \in job.done + 1 .. job.done + n : Page(n)[ByteAt(j)] = job.bytes[j]
<1>1. PICK d \in Nat, m \in Nat, l \in Nat :
        /\ d = job.done /\ m = n /\ l = Len(job.bytes)
        /\ PageIndex \in Nat /\ m <= PageIndex /\ d + PageIndex <= l
  BY PageInBuffer
<1>2. \A j \in 1 .. m : Placed(j) = ByteAt(d + j)
  <2>1. \A j \in 1 .. m : j \in 1 .. PageIndex
    BY <1>1
  <2> QED
    BY <1>1, <2>1, PlacedInOrder
<1>3. \A j \in d + 1 .. d + m : j - d \in 1 .. m /\ d + (j - d) = j
  BY <1>1
<1>4. \A j \in 1 .. m : d + j \in d + 1 .. d + m
  BY <1>1
<1>5. DOMAIN Page(m) = {Placed(j) : j \in 1 .. m}
  BY DEF Page
<1>6. {Placed(j) : j \in 1 .. m} = {ByteAt(j) : j \in d + 1 .. d + m}
  <2>1. ASSUME NEW j \in d + 1 .. d + m
        PROVE  \E i \in 1 .. m : Placed(i) = ByteAt(j)
    BY <1>2, <1>3
  <2>2. ASSUME NEW i \in 1 .. m
        PROVE  \E j \in d + 1 .. d + m : ByteAt(j) = Placed(i)
    BY <1>2, <1>4
  <2> QED
    BY <2>1, <2>2
<1>7. ASSUME NEW j \in d + 1 .. d + m
      PROVE  Page(m)[ByteAt(j)] = job.bytes[j]
  <2>1. ByteAt(j) \in DOMAIN Page(m)
    BY <1>5, <1>6
  <2>2. PICK i \in 1 .. m : Placed(i) = ByteAt(j) /\ Page(m)[ByteAt(j)] = job.bytes[d + i]
    BY <1>1, <2>1, PageValues
  <2>3. d + i \in 1 .. l /\ j \in 1 .. l
    BY <1>1
  <2>4. ByteAt(d + i) = ByteAt(j)
    BY <1>2, <2>2
  <2>5. d + i = j
    BY <1>1, <2>3, <2>4, BytesApart
  <2> QED
    BY <2>2, <2>5
<1> QED
  BY <1>1, <1>5, <1>6, <1>7

-----------------------------------------------------------------------------
(* The driver and the device                                               *)

Write == {w \in [address : Nat, bytes : Seq(Byte)] : Len(w.bytes) <= Numbers}

\* What may happen to them if buffers of W are written.
EepromStep(W) ==
  \/ \E w \in W : Begin(w.address, w.bytes) /\ UNCHANGED <<cells, cycle>>
  \/ Working
  \/ EndOfCycle
  \/ Torn
  \/ Ended /\ UNCHANGED <<cells, cycle, allowed>>
  \/ UNCHANGED eepromVars

LEMMA NothingIsNothing == DOMAIN Nothing = {}
  BY DEF Nothing

LEMMA NoJobIsJob ==
  /\ NoJob \in Job
  /\ NoJob.at = "none" /\ NoJob.address = 0 /\ NoJob.bytes = <<>> /\ NoJob.done = 0
  /\ NoJob.tries = 0 /\ NoJob.polls = 0 /\ NoJob.ok = FALSE
  /\ Len(NoJob.bytes) = 0
  BY DEF NoJob, Job, Place

\* A job that has begun.
Begun(w) ==
  /\ job'.address = w.address /\ job'.bytes = w.bytes
  /\ job'.done = 0 /\ job'.tries = 0 /\ job'.polls = 0
  /\ \/ /\ job'.at = "ended"
        /\ (job'.ok => w.bytes = <<>>)
     \/ /\ job'.at = "sending" /\ job'.ok = FALSE
        /\ w.bytes # <<>> /\ w.address + Len(w.bytes) <= EepromSize

LEMMA BeginProperties ==
  ASSUME NEW w \in Write, Begin(w.address, w.bytes)
  PROVE  At("none") /\ Begun(w) /\ job' \in Job
<1> DEFINE new == [NoJob EXCEPT !.address = w.address, !.bytes = w.bytes]
<1>1. w.address \in Nat /\ w.bytes \in Seq(Byte)
  BY DEF Write
<1>2. /\ new \in Job
      /\ new.address = w.address /\ new.bytes = w.bytes
      /\ new.done = 0 /\ new.tries = 0 /\ new.polls = 0 /\ new.ok = FALSE
  BY <1>1 DEF NoJob, Job, Place
<1>3. /\ At("none")
      /\ IF w.address + Len(w.bytes) > EepromSize
           THEN job' = [new EXCEPT !.at = "ended"]
         ELSE IF w.bytes = <<>>
           THEN \E status \in BOOLEAN : job' = [new EXCEPT !.at = "ended", !.ok = status]
         ELSE job' = [new EXCEPT !.at = "sending"]
  BY DEF Begin
<1> HIDE DEF new
<1>4. CASE w.address + Len(w.bytes) > EepromSize
  BY <1>2, <1>3, <1>4 DEF Begun, Job, Place
<1>5. CASE ~(w.address + Len(w.bytes) > EepromSize) /\ w.bytes = <<>>
  <2>1. PICK status \in BOOLEAN : job' = [new EXCEPT !.at = "ended", !.ok = status]
    BY <1>3, <1>5
  <2> QED
    BY <1>2, <1>3, <1>5, <2>1 DEF Begun, Job, Place
<1>6. CASE ~(w.address + Len(w.bytes) > EepromSize) /\ w.bytes # <<>>
  <2>1. job' = [new EXCEPT !.at = "sending"]
    BY <1>3, <1>6
  <2>2. w.address + Len(w.bytes) <= EepromSize
    BY <1>1, <1>6, BlockConstants
  <2> QED
    BY <1>2, <1>3, <1>6, <2>1, <2>2 DEF Begun, Job, Place
<1> QED
  BY <1>4, <1>5, <1>6

LEMMA JobShape ==
  ASSUME DeviceOK
  PROVE  /\ job.at \in Place /\ job.address \in Nat /\ job.bytes \in Seq(Byte)
         /\ job.done \in Nat /\ job.tries \in Nat /\ job.polls \in Nat
         /\ job.ok \in BOOLEAN /\ Len(job.bytes) \in Nat
  BY DEF DeviceOK, Job

\* What is written or cut short leaves bytes in the cells.
LEMMA OverProperties ==
  ASSUME NEW f, NEW g \in [Address -> Byte], \A a \in DOMAIN f : f[a] \in Byte
  PROVE  /\ Over(f, g) \in [Address -> Byte]
         /\ \A a \in Address : Over(f, g)[a] = IF a \in DOMAIN f THEN f[a] ELSE g[a]
  BY DEF Over

\* The job keeps its shape, and its place in the buffer.
LEMMA DeviceStep ==
  ASSUME DeviceOK, JobOK, EepromStep(Write)
  PROVE  DeviceOK' /\ JobOK'
<1>1. ASSUME NEW w \in Write, Begin(w.address, w.bytes), UNCHANGED <<cells, cycle>>
      PROVE  DeviceOK' /\ JobOK'
  <2>1. Begun(w) /\ job' \in Job
    BY <1>1, BeginProperties
  <2>2. allowed' \subseteq Nat
    <3>1. allowed' = Region(w.address, w.bytes) \cup (IF Busy THEN allowed ELSE {})
      BY <1>1 DEF Begin
    <3>2. w.address \in Nat /\ w.bytes \in Seq(Byte)
      BY DEF Write
    <3>3. \A a \in w.address .. w.address + Len(w.bytes) - 1 : Named(a) \in Nat
      <4>1. Len(w.bytes) \in Nat
        BY <3>2
      <4>2. ASSUME NEW a \in w.address .. w.address + Len(w.bytes) - 1
            PROVE  Named(a) \in Nat
        BY <3>2, <4>1, PageDivides
      <4> QED
        BY <4>2
    <3>4. Region(w.address, w.bytes) \subseteq Nat
      BY <3>3 DEF Region
    <3>5. allowed \subseteq Nat
      BY DEF DeviceOK
    <3> QED
      BY <3>1, <3>4, <3>5
  <2>3. DeviceOK'
    BY <1>1, <2>1, <2>2 DEF DeviceOK
  <2>4. w.bytes \in Seq(Byte)
    BY DEF Write
  <2>5. Len(w.bytes) \in Nat /\ (w.bytes # <<>> => Len(w.bytes) > 0)
    BY <2>4, EmptySeq
  <2>6. Len(w.bytes) <= Numbers
    BY DEF Write
  <2>7. Len(job'.bytes) <= Numbers
    BY <2>1, <2>6 DEF Begun
  <2> HIDE DEF Begun
  <2>8. CASE job'.at = "ended"
    <3>1. ~AtWork' /\ job'.done <= Len(job'.bytes) /\ job'.tries = 0 /\ job'.polls = 0
      BY <2>1, <2>5, <2>8 DEF AtWork, At, Begun
    <3> QED
      BY <2>3, <2>7, <3>1, BlockConstants DEF JobOK
  <2>9. CASE job'.at = "sending"
    <3>1. /\ job'.done < Len(job'.bytes) /\ job'.tries = 0 /\ job'.polls = 0
          /\ job'.address + Len(job'.bytes) <= EepromSize /\ job'.ok = FALSE
      BY <2>1, <2>5, <2>9 DEF Begun
    <3>2. AtWork' /\ ~At("asking")'
      BY <2>9 DEF AtWork, At
    <3> QED
      BY <2>3, <2>7, <3>1, <3>2, BlockConstants DEF JobOK
  <2> QED
    BY <2>1, <2>8, <2>9 DEF Begun
<1>2. CASE Sent
  <2>1. /\ At("sending") /\ cycle' = Page(PageIndex) /\ cells' = cells /\ allowed' = allowed
        /\ job' = [job EXCEPT !.at = "asking", !.polls = 0]
    BY <1>2 DEF Sent
  <2>2. AtWork
    BY <2>1 DEF AtWork
  <2>3. \A a \in DOMAIN Page(PageIndex) : Page(PageIndex)[a] \in Byte
    BY <2>2, PageBytes, AtWorkProperties
  <2>4. job' \in Job
    BY <2>1 DEF DeviceOK, Job, Place
  <2>5. DeviceOK'
    BY <2>1, <2>3, <2>4 DEF DeviceOK
  <2>6. /\ job'.at = "asking" /\ job'.address = job.address /\ job'.bytes = job.bytes
        /\ job'.done = job.done /\ job'.tries = job.tries /\ job'.polls = 0
        /\ job'.ok = job.ok
    BY <2>1 DEF DeviceOK, Job
  <2>7. AtWork' /\ ~At("sending")' /\ job'.polls < MaxPolls
    BY <2>6, BlockConstants DEF AtWork, At
  <2>8. JobOK'
    BY <2>2, <2>6, <2>7, BlockConstants DEF JobOK
  <2> QED
    BY <2>5, <2>8
<1>3. CASE Refused
  <2> DEFINE at == IF job.tries + 1 = MaxTries THEN "ended" ELSE "sending"
  <2>1. /\ At("sending") /\ cells' = cells /\ allowed' = allowed
        /\ cycle' \in IF Busy THEN {cycle} ELSE {Page(n) : n \in 0 .. PageIndex - 1}
        /\ job' = [job EXCEPT !.tries = @ + 1, !.at = at]
    BY <1>3 DEF Refused, At
  <2>2. AtWork
    BY <2>1 DEF AtWork
  <2>3. \A a \in DOMAIN cycle' : cycle'[a] \in Byte
    <3>1. CASE Busy
      BY <2>1, <3>1 DEF DeviceOK
    <3>2. CASE ~Busy
      <4>1. PICK n \in 0 .. PageIndex - 1 : cycle' = Page(n)
        BY <2>1, <3>2
      <4>2. n \in 0 .. PageIndex
        BY <2>2, AtWorkProperties
      <4> QED
        BY <2>2, <4>1, <4>2, PageBytes
    <3> QED
      BY <3>1, <3>2
  <2>4. at \in {"ended", "sending"}
    OBVIOUS
  <2>5. /\ job' \in Job
        /\ job'.at = at /\ job'.address = job.address /\ job'.bytes = job.bytes
        /\ job'.done = job.done /\ job'.tries = job.tries + 1 /\ job'.polls = job.polls
        /\ job'.ok = job.ok
    <3> DEFINE n == job.tries + 1
    <3>1. n \in Nat /\ job' = [job EXCEPT !.tries = n, !.at = at]
      BY <2>1, JobShape
    <3> HIDE DEF at, n
    <3>2. /\ job' \in Job
          /\ job'.at = at /\ job'.address = job.address /\ job'.bytes = job.bytes
          /\ job'.done = job.done /\ job'.tries = n /\ job'.polls = job.polls
          /\ job'.ok = job.ok
      BY <2>4, <3>1 DEF DeviceOK, Job, Place
    <3> QED
      BY <3>2 DEF n
  <2>6. DeviceOK'
    BY <2>1, <2>3, <2>5 DEF DeviceOK
  <2>7. job'.tries <= MaxTries /\ (at = "sending" => job'.tries < MaxTries)
    <3>1. job.tries \in Nat /\ job.tries < MaxTries
      BY <2>1, <2>2, JobShape DEF JobOK
    <3>2. PICK m \in Nat, limit \in Nat : m = job.tries /\ limit = MaxTries
      BY <3>1, BlockConstants
    <3>3. job'.tries = m + 1 /\ (at = "sending" => m + 1 < limit)
      BY <2>1, <2>2, <2>5, <3>1, <3>2
    <3>. QED
      BY <3>1, <3>2, <3>3
  <2> HIDE DEF at
  <2>8. JobOK'
    <3>1. /\ job.done < Len(job.bytes) /\ job.address + Len(job.bytes) <= EepromSize
          /\ job.ok = FALSE /\ job.polls <= MaxPolls
      BY <2>2 DEF JobOK
    <3>2. CASE at = "ended"
      <4>1. ~AtWork' /\ job'.done <= Len(job'.bytes)
        BY <2>5, <3>1, <3>2, JobShape DEF AtWork, At
      <4> QED
        BY <2>5, <2>7, <3>1, <4>1 DEF JobOK
    <3>3. CASE at = "sending"
      <4>1. AtWork' /\ ~At("asking")'
        BY <2>5, <3>3 DEF AtWork, At
      <4> QED
        BY <2>5, <2>7, <3>1, <3>3, <4>1 DEF JobOK
    <3> QED
      BY <2>4, <3>2, <3>3
  <2> QED
    BY <2>6, <2>8
<1>4. CASE Answered
  <2> DEFINE done == job.done + PageIndex
             all == done = Len(job.bytes)
  <2>1. /\ At("asking") /\ UNCHANGED <<cells, cycle, allowed>>
        /\ job' = [job EXCEPT !.done = IF all THEN @ ELSE done, !.tries = 0,
                              !.at = IF all THEN "ended" ELSE "sending", !.ok = all]
    BY <1>4 DEF Answered
  <2>2. AtWork
    BY <2>1 DEF AtWork
  <2>3. done \in Nat /\ done <= Len(job.bytes) /\ all \in BOOLEAN
    BY <2>2, AtWorkProperties
  <2>4. CASE all
    <3>1. job' = [job EXCEPT !.tries = 0, !.at = "ended", !.ok = TRUE]
      <4>1. job' = [job EXCEPT !.done = job.done, !.tries = 0, !.at = "ended", !.ok = TRUE]
        BY <2>1, <2>4
      <4> QED
        BY <4>1 DEF DeviceOK, Job
    <3>2. /\ job' \in Job
          /\ job'.at = "ended" /\ job'.address = job.address /\ job'.bytes = job.bytes
          /\ job'.done = job.done /\ job'.tries = 0 /\ job'.polls = job.polls
      BY <3>1 DEF DeviceOK, Job, Place
    <3>3. DeviceOK'
      BY <2>1, <3>2 DEF DeviceOK
    <3>4. ~AtWork' /\ job'.done <= Len(job'.bytes)
      BY <2>2, <3>2, AtWorkProperties DEF AtWork, At
    <3>5. JobOK'
      BY <3>2, <3>4, BlockConstants DEF JobOK
    <3> QED
      BY <3>3, <3>5
  <2>5. CASE ~all
    <3>1. job' = [job EXCEPT !.done = done, !.tries = 0, !.at = "sending", !.ok = FALSE]
      BY <2>1, <2>5
    <3>2. /\ job' \in Job
          /\ job'.at = "sending" /\ job'.address = job.address /\ job'.bytes = job.bytes
          /\ job'.done = done /\ job'.tries = 0 /\ job'.polls = job.polls
          /\ job'.ok = FALSE
      <4> HIDE DEF done
      <4> QED
        BY <2>3, <3>1 DEF DeviceOK, Job, Place
    <3>3. DeviceOK'
      BY <2>1, <3>2 DEF DeviceOK
    <3>4. AtWork' /\ ~At("asking")'
      BY <3>2 DEF AtWork, At
    <3>5. job'.done < Len(job'.bytes)
      BY <2>2, <2>3, <2>5, <3>2, JobShape
    <3>6. JobOK'
      <4>1. job.address + Len(job.bytes) <= EepromSize /\ job.polls <= MaxPolls
        BY <2>2 DEF JobOK
      <4> HIDE DEF done
      <4> QED
        BY <3>2, <3>4, <3>5, <4>1, BlockConstants DEF JobOK
    <3> QED
      BY <3>3, <3>6
  <2> QED
    BY <2>4, <2>5
<1>5. CASE Unanswered
  <2> DEFINE at == IF job.polls + 1 = MaxPolls THEN "ended" ELSE "asking"
  <2>1. /\ At("asking") /\ UNCHANGED <<cells, cycle, allowed>>
        /\ job' = [job EXCEPT !.polls = @ + 1, !.at = at]
    BY <1>5 DEF Unanswered, Counted, At
  <2>2. AtWork
    BY <2>1 DEF AtWork
  <2>3. at \in {"ended", "asking"}
    OBVIOUS
  <2>4. /\ job' \in Job
        /\ job'.at = at /\ job'.address = job.address /\ job'.bytes = job.bytes
        /\ job'.done = job.done /\ job'.tries = job.tries /\ job'.polls = job.polls + 1
        /\ job'.ok = job.ok
    <3> DEFINE n == job.polls + 1
    <3>1. n \in Nat /\ job' = [job EXCEPT !.polls = n, !.at = at]
      BY <2>1, JobShape
    <3> HIDE DEF at, n
    <3>2. /\ job' \in Job
          /\ job'.at = at /\ job'.address = job.address /\ job'.bytes = job.bytes
          /\ job'.done = job.done /\ job'.polls = n /\ job'.tries = job.tries
          /\ job'.ok = job.ok
      BY <2>3, <3>1 DEF DeviceOK, Job, Place
    <3> QED
      BY <3>2 DEF n
  <2>5. DeviceOK'
    BY <2>1, <2>4 DEF DeviceOK
  <2>6. job'.polls <= MaxPolls /\ (at = "asking" => job'.polls < MaxPolls)
    <3>1. job.polls \in Nat /\ job.polls < MaxPolls
      BY <2>1, <2>2, JobShape DEF JobOK
    <3>2. PICK m \in Nat, limit \in Nat : m = job.polls /\ limit = MaxPolls
      BY <3>1, BlockConstants
    <3>3. job'.polls = m + 1 /\ (at = "asking" => m + 1 < limit)
      BY <2>1, <2>2, <2>4, <3>1, <3>2
    <3>. QED
      BY <3>1, <3>2, <3>3
  <2> HIDE DEF at
  <2>7. JobOK'
    <3>1. /\ job.done < Len(job.bytes) /\ job.address + Len(job.bytes) <= EepromSize
          /\ job.ok = FALSE /\ job.tries <= MaxTries
      BY <2>2 DEF JobOK
    <3>2. CASE at = "ended"
      <4>1. ~AtWork' /\ job'.done <= Len(job'.bytes)
        BY <2>4, <3>1, <3>2, JobShape DEF AtWork, At
      <4> QED
        BY <2>4, <2>6, <3>1, <4>1 DEF JobOK
    <3>3. CASE at = "asking"
      <4>1. AtWork' /\ ~At("sending")'
        BY <2>4, <3>3 DEF AtWork, At
      <4> QED
        BY <2>4, <2>6, <3>1, <3>3, <4>1 DEF JobOK
    <3> QED
      BY <2>3, <3>2, <3>3
  <2> QED
    BY <2>5, <2>7
<1>6. ASSUME job' = NoJob, cycle' = Nothing \/ cycle' = cycle, allowed' = allowed,
             cells' \in [Address -> Byte]
      PROVE  DeviceOK' /\ JobOK'
  <2>1. DeviceOK'
    BY <1>6, NoJobIsJob, NothingIsNothing DEF DeviceOK
  <2>2. ~AtWork'
    BY <1>6, NoJobIsJob DEF AtWork, At
  <2>3. job'.tries = 0 /\ job'.polls = 0 /\ job'.done = 0 /\ Len(job'.bytes) = 0
    BY <1>6, NoJobIsJob
  <2>4. JobOK'
    BY <2>2, <2>3, BlockConstants DEF JobOK
  <2> QED
    BY <2>1, <2>4
<1>7. CASE EndOfCycle
  <2>1. cells' = Over(cycle, cells) /\ cycle' = Nothing /\ job' = job /\ allowed' = allowed
    BY <1>7 DEF EndOfCycle
  <2>2. cells' \in [Address -> Byte]
    BY <2>1, OverProperties DEF DeviceOK
  <2>3. DeviceOK'
    BY <2>1, <2>2, NothingIsNothing DEF DeviceOK
  <2>4. JobOK'
    BY <2>1 DEF JobOK, AtWork, At
  <2> QED
    BY <2>3, <2>4
<1>8. CASE Torn
  <2>1. PICK S \in SUBSET DOMAIN cycle : cells' = Over(Part(cycle, S), cells)
    BY <1>8 DEF Torn
  <2>2. \A a \in DOMAIN Part(cycle, S) : Part(cycle, S)[a] \in Byte
    BY DEF Part, DeviceOK
  <2>3. cells' \in [Address -> Byte]
    BY <2>1, <2>2, OverProperties DEF DeviceOK
  <2> QED
    BY <1>6, <1>8, <2>3 DEF Torn
<1>9. CASE Ended /\ UNCHANGED <<cells, cycle, allowed>>
  BY <1>6, <1>9 DEF Ended, DeviceOK
<1>10. CASE UNCHANGED eepromVars
  BY <1>10 DEF eepromVars, DeviceOK, JobOK, AtWork, At
<1> QED
  BY <1>1, <1>2, <1>3, <1>4, <1>5, <1>7, <1>8, <1>9, <1>10 DEF EepromStep, Working

LEMMA CurrentNext ==
  ASSUME job'.address = job.address, job'.bytes = job.bytes, job'.done = job.done
  PROVE  Current' = Current /\ PageIndex' = PageIndex
  BY DEF Current, PageIndex, Left

\* What is done of a job is in the cells, and what the device is writing is the page
\* that is asked for, or nothing that is done.
LEMMA WrittenStep ==
  ASSUME DeviceOK, JobOK, WrittenOK, EepromStep(Write)
  PROVE  WrittenOK'
<1>1. ASSUME NEW w \in Write, Begin(w.address, w.bytes), UNCHANGED <<cells, cycle>>
      PROVE  WrittenOK'
  <2>1. Begun(w) /\ job' \in Job
    BY <1>1, BeginProperties
  <2>2. Stored(0)'
    BY DEF Stored, ByteAt
  <2>3. job'.done = 0 /\ ~At("asking")'
    BY <2>1 DEF Begun, At
  <2>4. 1 .. job'.done = {}
    BY <2>3
  <2>5. At("ended")' /\ job'.ok => job'.bytes = <<>>
    BY <2>1 DEF Begun, At
  <2>6. job'.bytes = <<>> => Stored(Len(job.bytes))'
    BY EmptySeq DEF Stored, ByteAt
  <2> QED
    BY <2>2, <2>3, <2>4, <2>5, <2>6 DEF WrittenOK
<1>2. CASE Sent
  <2>1. /\ At("sending") /\ cycle' = Page(PageIndex) /\ cells' = cells
        /\ job' = [job EXCEPT !.at = "asking", !.polls = 0]
    BY <1>2 DEF Sent
  <2>2. AtWork
    BY <2>1 DEF AtWork
  <2>3. /\ job'.at = "asking" /\ job'.address = job.address /\ job'.bytes = job.bytes
        /\ job'.done = job.done
    BY <2>1 DEF DeviceOK, Job
  <2>4. WrittenOK
    OBVIOUS
  <2>5. Stored(job.done)'
    BY <2>1, <2>2, <2>3, <2>4 DEF WrittenOK, Stored, ByteAt
  <2>6. cycle' = Page(PageIndex)'
    <3>1. Page(PageIndex)' = Page(PageIndex)
      BY <2>3 DEF Page, Placed, Sent8, Named, Current, PageIndex, Left
    <3> QED
      BY <2>1, <3>1
  <2>7. Busy'
    <3>1. 1 \in 1 .. PageIndex
      BY <2>2, AtWorkProperties
    <3>2. Placed(1) \in DOMAIN Page(PageIndex)
      BY <3>1 DEF Page
    <3> QED
      BY <2>1, <3>2, NothingIsNothing DEF Busy
  <2>8. ~At("sending")' /\ ~At("ended")'
    BY <2>3 DEF At
  <2> QED
    BY <2>5, <2>6, <2>7, <2>8 DEF WrittenOK
<1>3. CASE Refused
  <2>1. /\ At("sending") /\ cells' = cells
        /\ cycle' \in IF Busy THEN {cycle} ELSE {Page(n) : n \in 0 .. PageIndex - 1}
    BY <1>3 DEF Refused
  <2>2. AtWork
    BY <2>1 DEF AtWork
  <2>3. /\ job'.at \in {"sending", "ended"}
        /\ job'.address = job.address /\ job'.bytes = job.bytes
        /\ job'.done = job.done /\ job'.ok = job.ok
    BY <1>3 DEF Refused, At, DeviceOK, Job
  <2>4. WrittenOK
    OBVIOUS
  <2>5. Stored(job.done)'
    BY <2>1, <2>2, <2>3, <2>4 DEF WrittenOK, Stored, ByteAt
  <2>6. \A j \in 1 .. job.done : ByteAt(j) \notin DOMAIN cycle'
    <3>1. CASE Busy
      BY <2>1, <2>4, <3>1 DEF WrittenOK
    <3>2. CASE ~Busy
      <4>1. PICK n \in 0 .. PageIndex - 1 : cycle' = Page(n)
        BY <2>1, <3>2
      <4>2. n \in 0 .. PageIndex
        BY <2>2, AtWorkProperties
      <4>3. DOMAIN Page(n) = {ByteAt(i) : i \in job.done + 1 .. job.done + n}
        BY <2>2, <4>2, PageOfJob
      <4>4. ASSUME NEW j \in 1 .. job.done, NEW i \in job.done + 1 .. job.done + n
            PROVE  ByteAt(j) # ByteAt(i)
        <5>1. i \in 1 .. Len(job.bytes) /\ j \in 1 .. Len(job.bytes) /\ i # j
          BY <2>2, <4>2, PageInBuffer
        <5> QED
          BY <5>1, BytesApart
      <4> QED
        BY <4>1, <4>3, <4>4
    <3> QED
      BY <3>1, <3>2
  <2>7. \A j : ByteAt(j)' = ByteAt(j)
    BY <2>3 DEF ByteAt
  <2>8. job'.ok = FALSE /\ ~At("asking")'
    BY <2>2, <2>3 DEF JobOK, At
  <2> QED
    BY <2>3, <2>5, <2>6, <2>7, <2>8 DEF WrittenOK
<1>4. CASE Answered
  <2> DEFINE done == job.done + PageIndex
             all == done = Len(job.bytes)
  <2>1. /\ At("asking") /\ ~Busy /\ UNCHANGED <<cells, cycle>>
        /\ job' = [job EXCEPT !.done = IF all THEN @ ELSE done, !.tries = 0,
                              !.at = IF all THEN "ended" ELSE "sending", !.ok = all]
    BY <1>4 DEF Answered, Answers
  <2>2. job'.address = job.address /\ job'.bytes = job.bytes
    BY <2>1 DEF DeviceOK, Job
  <2>3. WrittenOK
    OBVIOUS
  <2>4. Stored(done)
    BY <2>1, <2>3 DEF WrittenOK
  <2>5. ~Busy' /\ DOMAIN cycle' = {}
    BY <2>1, NothingIsNothing DEF Busy
  <2>6. CASE all
    <3>1. job'.at = "ended"
      BY <2>1, <2>6 DEF DeviceOK, Job
    <3>2. Stored(Len(job.bytes))'
      BY <2>1, <2>2, <2>4, <2>6 DEF Stored, ByteAt
    <3>3. ~AtWork' /\ ~At("sending")' /\ ~At("asking")'
      BY <3>1 DEF AtWork, At
    <3> QED
      BY <2>5, <3>2, <3>3 DEF WrittenOK
  <2>7. CASE ~all
    <3>1. job'.at = "sending" /\ job'.done = done
      BY <2>1, <2>7 DEF DeviceOK, Job
    <3>2. Stored(job.done)'
      BY <2>1, <2>2, <2>4, <3>1 DEF Stored, ByteAt
    <3>3. ~At("asking")' /\ ~At("ended")'
      BY <3>1 DEF At
    <3> QED
      BY <2>5, <3>2, <3>3 DEF WrittenOK
  <2> QED
    BY <2>6, <2>7
<1>5. CASE Unanswered
  <2>1. /\ At("asking") /\ UNCHANGED <<cells, cycle>>
        /\ job'.at \in {"asking", "ended"}
        /\ job'.address = job.address /\ job'.bytes = job.bytes
        /\ job'.done = job.done /\ job'.ok = job.ok
    BY <1>5 DEF Unanswered, Counted, At, DeviceOK, Job
  <2>2. AtWork
    BY <2>1 DEF AtWork
  <2>3. WrittenOK
    OBVIOUS
  <2>4. Stored(job.done)'
    BY <2>1, <2>2, <2>3 DEF WrittenOK, Stored, ByteAt
  <2>5. (IF Busy THEN cycle = Page(PageIndex) ELSE Stored(job.done + PageIndex))'
    <3>1. Page(PageIndex)' = Page(PageIndex)
      BY <2>1 DEF Page, Placed, Sent8, Named, Current, PageIndex, Left
    <3>2. Stored(job.done + PageIndex)' <=> Stored(job.done + PageIndex)
      BY <2>1, CurrentNext DEF Stored, ByteAt
    <3> QED
      BY <2>1, <2>3, <3>1, <3>2 DEF WrittenOK, Busy
  <2>6. job'.ok = FALSE /\ ~At("sending")'
    BY <2>1, <2>2 DEF JobOK, At
  <2> QED
    BY <2>4, <2>5, <2>6 DEF WrittenOK
<1>6. CASE EndOfCycle
  <2>1. Busy /\ cells' = Over(cycle, cells) /\ cycle' = Nothing /\ job' = job
    BY <1>6 DEF EndOfCycle
  <2>2. WrittenOK
    OBVIOUS
  <2>3. ~Busy' /\ DOMAIN cycle' = {}
    BY <2>1, NothingIsNothing DEF Busy
  <2>4. \A a \in Address : cells'[a] = IF a \in DOMAIN cycle THEN cycle[a] ELSE cells[a]
    BY <2>1, OverProperties DEF DeviceOK
  <2>5. \A j \in 1 .. Len(job.bytes) : ByteAt(j) \in Address
    BY BytesApart
  <2>6. CASE At("sending")
    <3>1. AtWork
      BY <2>6 DEF AtWork
    <3>2. ASSUME NEW j \in 1 .. job.done
          PROVE  cells'[ByteAt(j)] = job.bytes[j]
      <4>1. j \in 1 .. Len(job.bytes)
        BY <3>1, PageInBuffer
      <4>2. cells[ByteAt(j)] = job.bytes[j]
        BY <2>2, <3>1 DEF WrittenOK, Stored
      <4>3. ByteAt(j) \notin DOMAIN cycle
        BY <2>2, <2>6 DEF WrittenOK
      <4> QED
        BY <2>4, <2>5, <4>1, <4>2, <4>3
    <3>3. Stored(job.done)'
      BY <2>1, <3>2 DEF Stored, ByteAt
    <3> QED
      BY <2>1, <2>3, <2>6, <3>3 DEF WrittenOK, At
  <2>7. CASE At("asking")
    <3>1. AtWork
      BY <2>7 DEF AtWork
    <3>2. cycle = Page(PageIndex)
      BY <2>1, <2>2, <2>7 DEF WrittenOK
    <3>3. /\ DOMAIN cycle = {ByteAt(j) : j \in job.done + 1 .. job.done + PageIndex}
          /\ \A j \in job.done + 1 .. job.done + PageIndex : cycle[ByteAt(j)] = job.bytes[j]
      <4>1. PageIndex \in 0 .. PageIndex
        BY <3>1, AtWorkProperties
      <4> QED
        BY <3>1, <3>2, <4>1, PageOfJob
    <3>4. ASSUME NEW j \in 1 .. job.done + PageIndex
          PROVE  cells'[ByteAt(j)] = job.bytes[j]
      <4>1. /\ j \in 1 .. Len(job.bytes) /\ j \in Nat
            /\ job.done \in Nat /\ PageIndex \in Nat
            /\ job.done + PageIndex <= Len(job.bytes) /\ Len(job.bytes) \in Nat
        BY <3>1, PageInBuffer
      <4>2. CASE j <= job.done
        <5>1. j \in 1 .. job.done
          BY <4>1, <4>2
        <5>2. cells[ByteAt(j)] = job.bytes[j]
          BY <2>2, <3>1, <5>1 DEF WrittenOK, Stored
        <5>3. ASSUME NEW i \in job.done + 1 .. job.done + PageIndex
              PROVE  ByteAt(j) # ByteAt(i)
          <6>1. i \in 1 .. Len(job.bytes) /\ i # j
            BY <4>1, <4>2
          <6> QED
            BY <4>1, <6>1, BytesApart
        <5>4. ByteAt(j) \notin DOMAIN cycle
          BY <3>3, <5>3
        <5> QED
          BY <2>4, <2>5, <4>1, <5>2, <5>4
      <4>3. CASE j > job.done
        <5>1. j \in job.done + 1 .. job.done + PageIndex
          BY <4>1, <4>3
        <5>2. ByteAt(j) \in DOMAIN cycle /\ cycle[ByteAt(j)] = job.bytes[j]
          BY <3>3, <5>1
        <5> QED
          BY <2>4, <2>5, <4>1, <5>2
      <4> QED
        BY <4>1, <4>2, <4>3
    <3>5. Stored(job.done + PageIndex)'
      BY <2>1, <3>4, CurrentNext DEF Stored, ByteAt
    <3>6. Stored(job.done)'
      <4>1. \A j \in 1 .. job.done : j \in 1 .. job.done + PageIndex
        BY <3>1, PageInBuffer
      <4> QED
        BY <2>1, <3>4, <4>1 DEF Stored, ByteAt
    <3>7. ~At("sending")' /\ ~At("ended")'
      BY <2>1, <2>7 DEF At
    <3> QED
      BY <2>3, <3>5, <3>6, <3>7 DEF WrittenOK
  <2>8. CASE ~At("sending") /\ ~At("asking")
    <3>1. At("ended") /\ job.ok => job.bytes = <<>>
      BY <2>1, <2>2 DEF WrittenOK
    <3>2. job'.bytes = <<>> => Stored(Len(job.bytes))'
      BY EmptySeq DEF Stored, ByteAt
    <3>3. ~AtWork' /\ ~At("sending")' /\ ~At("asking")'
      BY <2>1, <2>8 DEF AtWork, At
    <3> QED
      BY <2>1, <3>1, <3>2, <3>3 DEF WrittenOK, At
  <2> QED
    BY <2>6, <2>7, <2>8
<1>7. CASE job' = NoJob
  BY <1>7, NoJobIsJob DEF WrittenOK, AtWork, At
<1>8. CASE UNCHANGED eepromVars
  <2>1. UNCHANGED <<cells, cycle, job>>
    BY <1>8 DEF eepromVars
  <2>2. WrittenOK
    OBVIOUS
  <2>3. WrittenOK' <=> WrittenOK
    BY <2>1 DEF WrittenOK, AtWork, At, Stored, ByteAt, Named, Busy, Current, Page, Placed, Sent8, PageIndex, Left
  <2> QED
    BY <2>2, <2>3
<1> QED
  BY <1>1, <1>2, <1>3, <1>4, <1>5, <1>6, <1>7, <1>8
     DEF EepromStep, Working, Torn, Ended

\* The device writes nothing but where jobs were told to.
LEMMA KeptStep ==
  ASSUME DeviceOK, JobOK, KeptOK, EepromStep(Write)
  PROVE  KeptOK'
<1>1. ASSUME NEW w \in Write, Begin(w.address, w.bytes), UNCHANGED <<cells, cycle>>
      PROVE  KeptOK'
  <2>1. job'.address = w.address /\ job'.bytes = w.bytes
    BY <1>1, BeginProperties DEF Begun
  <2>2. allowed' = Region(w.address, w.bytes) \cup (IF Busy THEN allowed ELSE {})
    BY <1>1 DEF Begin
  <2>3. DOMAIN cycle' \subseteq allowed' \cap Address
    <3>1. CASE Busy
      BY <1>1, <2>2, <3>1 DEF KeptOK
    <3>2. CASE ~Busy
      BY <1>1, <3>2, NothingIsNothing DEF Busy
    <3> QED
      BY <3>1, <3>2
  <2>4. Region(job.address, job.bytes)' \subseteq allowed'
    BY <2>1, <2>2 DEF Region
  <2> QED
    BY <2>3, <2>4 DEF KeptOK
<1>2. ASSUME AtWork, NEW n \in 0 .. PageIndex
      PROVE  DOMAIN Page(n) \subseteq allowed \cap Address
  <2>1. Region(job.address, job.bytes) \subseteq allowed
    BY <1>2 DEF KeptOK
  <2>2. DOMAIN Page(n) = {ByteAt(j) : j \in job.done + 1 .. job.done + n}
    BY <1>2, PageOfJob
  <2>3. ASSUME NEW j \in job.done + 1 .. job.done + n
        PROVE  ByteAt(j) \in Region(job.address, job.bytes) /\ ByteAt(j) \in Address
    <3>1. j \in 1 .. Len(job.bytes) /\ job.address \in Nat /\ Len(job.bytes) \in Nat
      BY <1>2, PageInBuffer
    <3>2. job.address + j - 1 \in job.address .. job.address + Len(job.bytes) - 1
      BY <3>1
    <3>3. ByteAt(j) \in Region(job.address, job.bytes)
      BY <3>2 DEF ByteAt, Region
    <3> QED
      BY <3>1, <3>3, BytesApart
  <2> QED
    BY <2>1, <2>2, <2>3
<1>3. ASSUME job'.address = job.address, job'.bytes = job.bytes, allowed' = allowed,
             AtWork, DOMAIN cycle' \subseteq allowed \cap Address
      PROVE  KeptOK'
  BY <1>3 DEF KeptOK, Region
<1>4. CASE Sent
  <2>1. /\ AtWork /\ cycle' = Page(PageIndex) /\ allowed' = allowed
        /\ job'.address = job.address /\ job'.bytes = job.bytes
    BY <1>4 DEF Sent, AtWork, DeviceOK, Job
  <2>2. PageIndex \in 0 .. PageIndex
    BY <2>1, AtWorkProperties
  <2> QED
    BY <1>2, <1>3, <2>1, <2>2
<1>5. CASE Refused
  <2>1. /\ AtWork /\ allowed' = allowed
        /\ cycle' \in IF Busy THEN {cycle} ELSE {Page(n) : n \in 0 .. PageIndex - 1}
        /\ job'.address = job.address /\ job'.bytes = job.bytes
    BY <1>5 DEF Refused, AtWork, DeviceOK, Job
  <2>2. CASE Busy
    BY <1>3, <2>1, <2>2 DEF KeptOK
  <2>3. CASE ~Busy
    <3>1. PICK n \in 0 .. PageIndex - 1 : cycle' = Page(n)
      BY <2>1, <2>3
    <3>2. n \in 0 .. PageIndex
      BY <2>1, AtWorkProperties
    <3> QED
      BY <1>2, <1>3, <2>1, <3>1, <3>2
  <2> QED
    BY <2>2, <2>3
<1>6. CASE Answered \/ Unanswered
  <2>1. /\ AtWork /\ allowed' = allowed /\ cycle' = cycle
        /\ job'.address = job.address /\ job'.bytes = job.bytes
    BY <1>6 DEF Answered, Unanswered, Counted, AtWork, DeviceOK, Job
  <2> QED
    BY <1>3, <2>1 DEF KeptOK
<1>7. CASE EndOfCycle
  BY <1>7, NothingIsNothing DEF EndOfCycle, KeptOK, AtWork, At, Region
<1>8. ASSUME job' = NoJob, DOMAIN cycle' \subseteq allowed' \cap Address
      PROVE  KeptOK'
  BY <1>8, NoJobIsJob DEF KeptOK, AtWork, At
<1>9. CASE Torn
  BY <1>8, <1>9, NothingIsNothing DEF Torn
<1>10. CASE Ended /\ UNCHANGED <<cells, cycle, allowed>>
  BY <1>8, <1>10 DEF Ended, KeptOK
<1>11. CASE UNCHANGED eepromVars
  BY <1>11 DEF eepromVars, KeptOK, AtWork, At, Region
<1> QED
  BY <1>1, <1>4, <1>5, <1>6, <1>7, <1>9, <1>10, <1>11 DEF EepromStep, Working

-----------------------------------------------------------------------------
(* The start                                                               *)

LEMMA ContentProperties ==
  ASSUME DeviceOK
  PROVE  Loads \in Content /\ Upgraded \in Content
<1>1. {cells[2], cells[3]} \subseteq Byte /\ DefaultContent[2] \in Byte
  BY BlockConstants DEF DeviceOK, Content
<1>2. <<cells[2], cells[3]>> \in Content /\ <<cells[2], DefaultContent[2]>> \in Content
  BY <1>1 DEF Content
<1> QED
  BY <1>2, BlockConstants DEF Loads, Upgraded

\* What may happen to the driver and the device here.
LEMMA StepsOfDevice ==
  ASSUME DeviceOK, [BlockNext]_blockVars
  PROVE  EepromStep(Write)
<1>1. ASSUME NEW address \in Nat, NEW bytes \in Seq(Byte), Len(bytes) <= Numbers,
             Begin(address, bytes), UNCHANGED <<cells, cycle>>
      PROVE  EepromStep(Write)
  <2> DEFINE w == [address |-> address, bytes |-> bytes]
  <2>1. w \in Write /\ w.address = address /\ w.bytes = bytes
    BY <1>1 DEF Write
  <2> HIDE DEF w
  <2> QED
    BY <1>1, <2>1 DEF EepromStep
<1>2. ASSUME NEW content \in Content, Begin(0, Written(content)), UNCHANGED <<cells, cycle>>
      PROVE  EepromStep(Write)
  <2>1. Written(content) \in Seq(Byte) /\ Len(Written(content)) <= Numbers
    <3>1. Written(content) \in Seq(Byte) /\ Len(Written(content)) = 5
      BY WrittenProperties
    <3> QED
      BY <3>1, BlockConstants
  <2> QED
    BY <1>1, <1>2, <2>1
<1>3. CASE UNCHANGED eepromVars
  BY <1>3 DEF EepromStep
<1>4. CASE Working \/ EndOfCycle \/ Torn \/ (Ended /\ UNCHANGED <<cells, cycle, allowed>>)
  BY <1>4 DEF EepromStep
<1>5. CASE PowerOn \/ Unread \/ ReadNew \/ ReadBad
  BY <1>3, <1>5 DEF PowerOn, Unread, ReadNew, ReadBad
<1>6. CASE ReadOld
  BY <1>2, <1>6, ContentProperties DEF ReadOld
<1>7. CASE Default
  BY <1>2, <1>7, BlockConstants DEF Default
<1>8. CASE UpgradeEnds \/ DefaultEnds \/ ClientEnds
  BY <1>4, <1>8 DEF UpgradeEnds, DefaultEnds, ClientEnds
<1>9. CASE PowerFails
  BY <1>4, <1>9 DEF PowerFails
<1>10. ASSUME NEW write \in ClientWrites, ClientWrite(write)
       PROVE  EepromStep(Write)
  <2>1. /\ write.address \in Nat /\ write.bytes \in Seq(Byte)
        /\ Len(write.bytes) <= Numbers
    BY ConfigAssumption
  <2>2. Begin(write.address, write.bytes) /\ UNCHANGED <<cells, cycle>>
    BY <1>10 DEF ClientWrite
  <2> QED
    BY <1>1, <2>1, <2>2
<1>11. CASE UNCHANGED blockVars
  BY <1>3, <1>11 DEF blockVars
<1> QED
  BY <1>4, <1>5, <1>6, <1>7, <1>8, <1>9, <1>10, <1>11 DEF BlockNext, Start, Work

\* A block that was written with success is the one that the device holds.
LEMMA WrittenIsLoaded ==
  ASSUME DeviceOK, WrittenOK, ContentOK, WritesBlock(block),
         At("ended"), job.ok
  PROVE  Loads = block /\ ~Busy
<1>1. block \in Content
  BY DEF ContentOK, Content
<1>2. job.address = 0 /\ job.bytes = Written(block) /\ Len(job.bytes) = 5
  BY <1>1, WrittenProperties DEF WritesBlock
<1>3. WrittenOK
  OBVIOUS
<1>4. \A j \in 1 .. 5 : cells[j - 1] = Written(block)[j]
  <2>1. Stored(5)
    BY <1>2, <1>3 DEF WrittenOK
  <2>2. \A j \in 1 .. 5 : cells[ByteAt(j)] = Written(block)[j]
    BY <1>2, <2>1 DEF Stored
  <2>3. ASSUME NEW j \in 1 .. 5
        PROVE  ByteAt(j) = j - 1
    <3>1. j - 1 \in Nat /\ j - 1 < Numbers /\ 0 + j - 1 = j - 1
      BY BlockConstants
    <3> QED
      BY <1>2, <3>1, ModSmall, BlockConstants DEF ByteAt, Named
  <2> QED
    BY <2>2, <2>3
<1>5. Loads = block
  BY <1>1, <1>4, StoredIsLoaded DEF DeviceOK
<1>6. job.bytes # <<>>
  <2>1. Len(<<>>) = 0
    OBVIOUS
  <2>2. Len(job.bytes) # 0
    BY <1>2
  <2> QED
    BY <2>1, <2>2
<1> QED
  BY <1>3, <1>5, <1>6 DEF WrittenOK

LEMMA ContentStep ==
  ASSUME DeviceOK, ContentOK, [BlockNext]_blockVars
  PROVE  ContentOK'
<1>1. CASE PowerOn
  BY <1>1, ContentProperties DEF PowerOn, ContentOK, Content
<1>2. CASE Unread
  BY <1>2 DEF Unread, ContentOK
<1>3. CASE ReadNew
  <2>1. {cells[2], cells[3]} \subseteq Byte
    BY BlockConstants DEF DeviceOK
  <2>2. block' \in [1 .. 2 -> Byte]
    BY <1>3, <2>1 DEF ReadNew
  <2> QED
    BY <1>3, <2>2 DEF ReadNew, ContentOK
<1>4. CASE ReadOld
  BY <1>4, ContentProperties DEF ReadOld, ContentOK, Content
<1>5. CASE ReadBad
  BY <1>5 DEF ReadBad, ContentOK
<1>6. CASE UpgradeEnds
  BY <1>6, JobShape DEF UpgradeEnds, ContentOK
<1>7. CASE Default
  BY <1>7, BlockConstants DEF Default, DefaultBlock, ContentOK, Content
<1>8. CASE DefaultEnds
  BY <1>8, JobShape DEF DefaultEnds, ContentOK
<1>9. ASSUME NEW write \in ClientWrites, ClientWrite(write)
      PROVE  ContentOK'
  BY <1>9, ConfigAssumption DEF ClientWrite, ContentOK
<1>10. CASE PowerFails
  <2>1. block' \in [1 .. 2 -> Byte] /\ cbOk' \in BOOLEAN
    BY <1>10, BlockConstants DEF PowerFails, Content
  <2>2. PowerLimit \in Nat
    BY ConfigAssumption
  <2>3. failures' \in 0 .. PowerLimit
    BY <1>10, <2>2 DEF PowerFails, ContentOK
  <2> QED
    BY <1>10, <2>1, <2>3 DEF PowerFails, ContentOK
<1>11. CASE UNCHANGED configVars
  BY <1>11 DEF configVars, ContentOK
<1> QED
  BY <1>1, <1>2, <1>3, <1>4, <1>5, <1>6, <1>7, <1>8, <1>9, <1>10, <1>11
     DEF BlockNext, Start, Work, ClientEnds, blockVars

LEMMA StartStep ==
  ASSUME BlockInv, [BlockNext]_blockVars
  PROVE  StartOK'
<1> USE DEF BlockInv
<1>1. CASE PowerOn
  <2>1. Resting /\ cbOk = FALSE
    BY <1>1 DEF PowerOn, StartOK
  <2>2. Loads' = Loads /\ Resting' = Resting
    BY <1>1 DEF PowerOn, eepromVars, Loads, IsNew, IsOld, IsBlock, Verifies, Read,
                Resting, At, Busy
  <2> QED
    BY <1>1, <2>1, <2>2 DEF PowerOn, StartOK
<1>2. CASE Unread
  <2>1. At("none") /\ cbOk = FALSE
    BY <1>2 DEF Unread, StartOK, Resting
  <2> QED
    BY <1>2, <2>1 DEF Unread, StartOK, eepromVars, At
<1>3. CASE ReadNew
  <2>1. Resting /\ boot = Loads
    BY <1>3 DEF ReadNew, StartOK
  <2>2. Loads = <<cells[2], cells[3]>>
    <3>1. ~IsOld
      BY <1>3, BlockConstants DEF ReadNew, IsNew, IsOld
    <3> QED
      BY <1>3, <3>1 DEF ReadNew, Loads
  <2>3. Loads' = Loads /\ Resting' = Resting
    BY <1>3 DEF ReadNew, eepromVars, Loads, IsNew, IsOld, IsBlock, Verifies, Read,
                Resting, At, Busy
  <2>4. InUse' = Loads /\ boot' = boot
    BY <1>3, <2>2 DEF ReadNew, InUse
  <2> QED
    BY <1>3, <2>1, <2>3, <2>4 DEF ReadNew, StartOK
<1>4. CASE ReadOld
  <2>1. boot = Loads /\ excuse = FALSE
    BY <1>4 DEF ReadOld, StartOK
  <2>2. Loads = Upgraded
    <3>1. ~IsNew
      BY <1>4, BlockConstants DEF ReadOld, IsNew, IsOld
    <3> QED
      BY <1>4, <3>1 DEF ReadOld, Loads, Upgraded
  <2>3. WritesBlock(block)'
    <3>1. Upgraded \in Content
      BY ContentProperties
    <3>2. [address |-> 0, bytes |-> Written(Upgraded)] \in Write
      <4>1. Written(Upgraded) \in Seq(Byte) /\ Len(Written(Upgraded)) = 5
        BY <3>1, WrittenProperties
      <4> QED
        BY <4>1, BlockConstants DEF Write
    <3> DEFINE w == [address |-> 0, bytes |-> Written(Upgraded)]
    <3>3. w \in Write /\ w.address = 0 /\ w.bytes = Written(Upgraded)
      BY <3>2
    <3>4. Begin(w.address, w.bytes)
      BY <1>4, <3>3 DEF ReadOld
    <3> HIDE DEF w
    <3>5. Begun(w)
      BY <3>3, <3>4, BeginProperties
    <3>6. job'.address = 0 /\ job'.bytes = Written(Upgraded) /\ job'.at # "none"
      BY <3>3, <3>5 DEF Begun
    <3>7. Written(block') = Written(Upgraded)
      BY <1>4 DEF ReadOld
    <3> QED
      BY <3>6, <3>7 DEF WritesBlock, At, Written
  <2> QED
    BY <1>4, <2>1, <2>2, <2>3 DEF ReadOld, StartOK
<1>5. CASE ReadBad
  <2>1. Resting /\ cbOk = FALSE /\ boot = Loads
    BY <1>5 DEF ReadBad, StartOK
  <2>2. Loads = DefaultContent
    BY <1>5 DEF ReadBad, Loads
  <2> QED
    BY <1>5, <2>1, <2>2 DEF ReadBad, StartOK, eepromVars, Resting, At
<1>6. CASE UpgradeEnds
  <2>1. WritesBlock(block) /\ boot = block /\ At("ended") /\ job' = NoJob
    BY <1>6 DEF UpgradeEnds, StartOK, Ended
  <2>2. At("none")'
    BY <2>1, NoJobIsJob DEF At
  <2>3. CASE job.ok = TRUE
    <3>1. Loads = block /\ ~Busy
      BY <2>1, <2>3, WrittenIsLoaded
    <3>2. Loads' = Loads /\ Busy' = Busy
      BY <1>6 DEF UpgradeEnds, Loads, IsNew, IsOld, IsBlock, Verifies, Read, Busy
    <3>3. phase' = "running" /\ cbOk' = TRUE /\ block' = block /\ boot' = boot
      BY <1>6, <2>3 DEF UpgradeEnds
    <3>4. InUse' = block
      BY <3>3 DEF InUse
    <3> QED
      BY <2>1, <2>2, <3>1, <3>2, <3>3, <3>4 DEF StartOK, Resting
  <2>4. CASE job.ok = FALSE
    BY <1>6, <2>2, <2>4 DEF UpgradeEnds, StartOK
  <2> QED
    BY <2>3, <2>4, JobShape
<1>7. CASE Default
  <2>1. excuse \/ boot = DefaultContent
    BY <1>7 DEF Default, StartOK
  <2>2. WritesBlock(block)'
    <3> DEFINE w == [address |-> 0, bytes |-> Written(DefaultContent)]
    <3>1. w \in Write /\ w.address = 0 /\ w.bytes = Written(DefaultContent)
      BY WrittenProperties, BlockConstants DEF Write
    <3>2. Begin(w.address, w.bytes)
      BY <1>7, <3>1 DEF Default
    <3> HIDE DEF w
    <3>3. Begun(w)
      BY <3>1, <3>2, BeginProperties
    <3>4. job'.address = 0 /\ job'.bytes = Written(DefaultContent) /\ job'.at # "none"
      BY <3>1, <3>3 DEF Begun
    <3>5. Written(block') = Written(DefaultContent)
      BY <1>7 DEF Default, DefaultBlock
    <3> QED
      BY <3>4, <3>5 DEF WritesBlock, At, Written
  <2> QED
    BY <1>7, <2>1, <2>2 DEF Default, DefaultBlock, StartOK
<1>8. CASE DefaultEnds
  <2>1. /\ WritesBlock(block) /\ block = DefaultContent /\ At("ended") /\ job' = NoJob
        /\ excuse \/ boot = DefaultContent
    BY <1>8 DEF DefaultEnds, StartOK, Ended
  <2>2. At("none")'
    BY <2>1, NoJobIsJob DEF At
  <2>3. CASE job.ok = TRUE
    <3>1. Loads = block /\ ~Busy
      BY <2>1, <2>3, WrittenIsLoaded
    <3>2. Loads' = Loads /\ Busy' = Busy
      BY <1>8 DEF DefaultEnds, Loads, IsNew, IsOld, IsBlock, Verifies, Read, Busy
    <3>3. /\ phase' = "running" /\ cbOk' = TRUE /\ block' = block /\ boot' = boot
          /\ excuse' = excuse
      BY <1>8, <2>3 DEF DefaultEnds, ContentOK
    <3>4. InUse' = block
      BY <3>3 DEF InUse
    <3> QED
      BY <2>1, <2>2, <3>1, <3>2, <3>3, <3>4 DEF StartOK, Resting
  <2>4. CASE job.ok = FALSE
    BY <1>8, <2>4 DEF DefaultEnds, StartOK
  <2> QED
    BY <2>3, <2>4, JobShape
<1>9. ASSUME NEW write \in ClientWrites, ClientWrite(write)
      PROVE  StartOK'
  <2>1. /\ phase \in {"running", "failed"} /\ changed' = TRUE
        /\ UNCHANGED <<phase, block, cbOk, boot, excuse>>
    BY <1>9 DEF ClientWrite, Started
  <2>2. (phase = "failed" => excuse) /\ (phase = "running" => excuse \/ InUse = boot)
    BY <2>1 DEF StartOK
  <2>3. InUse' = InUse
    BY <2>1 DEF InUse
  <2> QED
    BY <2>1, <2>2, <2>3 DEF StartOK
<1>10. CASE PowerFails
  <2>1. phase' = "off" /\ cbOk' = FALSE /\ job' = NoJob /\ cycle' = Nothing
    BY <1>10 DEF PowerFails, Torn
  <2>2. Resting'
    BY <2>1, NoJobIsJob DEF Resting, At, Busy
  <2> QED
    BY <2>1, <2>2 DEF StartOK
<1>11. ASSUME UNCHANGED configVars, ~Resting,
              At("none") => At("none")', ~At("none") /\ ~Started =>
                ~At("none")' /\ job'.address = job.address /\ job'.bytes = job.bytes
       PROVE  StartOK'
  <2>1. UNCHANGED <<phase, block, cbOk, boot, excuse, changed>> /\ InUse' = InUse
    BY <1>11 DEF configVars, InUse
  <2>2. phase \notin {"off", "testing"} /\ (phase = "running" => changed)
    BY <1>11 DEF StartOK
  <2>3. phase \in {"upgrade", "defaulting"} /\ WritesBlock(block) => WritesBlock(block)'
    BY <1>11, <2>1 DEF WritesBlock, Written, Started
  <2> QED
    BY <1>11, <2>1, <2>2, <2>3 DEF StartOK
<1>12. CASE Work
  <2>1. /\ AtWork /\ ~At("none")' /\ job'.address = job.address /\ job'.bytes = job.bytes
    <3>1. CASE Sent
      BY <3>1 DEF Sent, AtWork, At, DeviceOK, Job
    <3>2. CASE Refused
      BY <3>2 DEF Refused, AtWork, At, DeviceOK, Job
    <3>3. CASE Answered
      BY <3>3 DEF Answered, AtWork, At, DeviceOK, Job
    <3>4. CASE Unanswered
      BY <3>4 DEF Unanswered, Counted, AtWork, At, DeviceOK, Job
    <3> QED
      BY <1>12, <3>1, <3>2, <3>3, <3>4 DEF Work, Working
  <2>2. ~At("none") /\ ~Resting
    BY <2>1 DEF AtWork, At, Resting
  <2> QED
    BY <1>11, <1>12, <2>1, <2>2 DEF Work
<1>13. CASE EndOfCycle /\ UNCHANGED configVars
  <2>1. ~Resting /\ job' = job
    BY <1>13 DEF EndOfCycle, Resting
  <2> QED
    BY <1>11, <1>13, <2>1 DEF At
<1>14. CASE ClientEnds
  <2>1. Started /\ At("ended") /\ UNCHANGED configVars
    BY <1>14 DEF ClientEnds, Ended
  <2>2. ~At("none") /\ ~Resting
    BY <2>1 DEF At, Resting
  <2> QED
    BY <1>11, <2>1, <2>2
<1>15. CASE UNCHANGED blockVars
  <2>1. UNCHANGED <<cells, cycle, job, phase, block, cbOk, boot, excuse, changed>>
    BY <1>15 DEF blockVars, eepromVars, configVars
  <2>2. StartOK' <=> StartOK
    BY <2>1 DEF StartOK, Resting, At, Busy, WritesBlock, Written, InUse, Loads, IsNew, IsOld,
                IsBlock, Verifies, Read
  <2> QED
    BY <2>2
<1> QED
  BY <1>1, <1>2, <1>3, <1>4, <1>5, <1>6, <1>7, <1>8, <1>9, <1>10, <1>12, <1>13, <1>14, <1>15
     DEF BlockNext, Start

-----------------------------------------------------------------------------
(* The theorems                                                            *)

LEMMA InitInv ==
  ASSUME BlockInit
  PROVE  BlockInv /\ KeptOK
<1>1. cells \in [Address -> Byte] /\ cycle = Nothing /\ job = NoJob /\ allowed = {}
  BY ConfigAssumption DEF BlockInit
<1>2. ~AtWork /\ At("none") /\ ~At("sending") /\ ~At("asking") /\ ~At("ended")
  BY <1>1, NoJobIsJob DEF AtWork, At
<1>3. DeviceOK
  BY <1>1, NoJobIsJob, NothingIsNothing DEF DeviceOK
<1>4. JobOK
  BY <1>1, <1>2, NoJobIsJob, BlockConstants DEF JobOK
<1>5. WrittenOK
  BY <1>2 DEF WrittenOK
<1>6. ContentOK
  <2>1. ClientLimit \in Nat /\ PowerLimit \in Nat
    BY ConfigAssumption
  <2>2. 0 \in 0 .. ClientLimit /\ 0 \in 0 .. PowerLimit
    BY <2>1
  <2>3. DefaultContent \in [1 .. 2 -> Byte]
    BY BlockConstants DEF Content
  <2> QED
    BY <2>2, <2>3 DEF BlockInit, ContentOK
<1>7. StartOK
  BY <1>1, <1>2 DEF BlockInit, StartOK, Resting, Busy
<1>8. KeptOK
  BY <1>1, <1>2, NothingIsNothing DEF KeptOK
<1> QED
  BY <1>3, <1>4, <1>5, <1>6, <1>7, <1>8 DEF BlockInv

LEMMA InvStep ==
  ASSUME BlockInv, [BlockNext]_blockVars
  PROVE  BlockInv'
<1>1. EepromStep(Write)
  BY StepsOfDevice DEF BlockInv
<1>2. DeviceOK' /\ JobOK'
  BY <1>1, DeviceStep DEF BlockInv
<1>3. WrittenOK'
  BY <1>1, WrittenStep DEF BlockInv
<1>4. ContentOK' /\ StartOK'
  BY ContentStep, StartStep DEF BlockInv
<1> QED
  BY <1>2, <1>3, <1>4 DEF BlockInv

LEMMA Invariance == BlockSpec => []BlockInv
<1>1. BlockInit => BlockInv
  BY InitInv
<1>2. BlockInv /\ [BlockNext]_blockVars => BlockInv'
  BY InvStep
<1> QED
  BY <1>1, <1>2, PTL DEF BlockSpec

LEMMA KeptInvariance == BlockSpec => []KeptOK
<1>1. BlockInit => KeptOK
  BY InitInv
<1>2. BlockInv /\ KeptOK /\ [BlockNext]_blockVars => KeptOK'
  BY StepsOfDevice, KeptStep DEF BlockInv
<1> QED
  BY <1>1, <1>2, Invariance, PTL DEF BlockSpec

\* Whatever clients write and wherever, beyond what one byte of an address names
\* included, however often power fails, and in whatever part a page is written then: a
\* start that meets no failure uses what it found, one that reports success has stored
\* what it uses, so the next one finds it, and a write that reports success has all its
\* bytes where its addresses name them.
THEOREM BlockTheorem == BlockSpec => []BlockIsSound
<1>1. ASSUME BlockInv, KeptOK
      PROVE  BlockIsSound
  <2>1. TypeOK
    <3>1. /\ DOMAIN cycle \subseteq Address /\ \A a \in DOMAIN cycle : cycle[a] \in Byte
          /\ cells \in [Address -> Byte] /\ allowed \subseteq Nat
      BY <1>1 DEF BlockInv, KeptOK, DeviceOK
    <3>2. /\ job.at \in {"none", "sending", "asking", "ended"} /\ job.bytes \in Seq(Byte)
          /\ job.done \in Nat /\ job.tries \in Nat /\ job.polls \in Nat
          /\ Len(job.bytes) \in Nat
      BY <1>1, JobShape DEF BlockInv, Place
    <3>3. job.done <= Len(job.bytes) /\ job.tries <= MaxTries /\ job.polls <= MaxPolls
      BY <1>1, <3>2 DEF BlockInv, JobOK
    <3>4. EepromTypeOK
      BY <3>1, <3>2, <3>3, BlockConstants DEF EepromTypeOK
    <3>5. phase \in {"off", "testing", "upgrade", "default", "defaulting", "running", "failed"}
      BY <1>1 DEF BlockInv, StartOK
    <3> QED
      BY <1>1, <3>4, <3>5 DEF TypeOK, BlockInv, ContentOK
  <2>2. WriteIsWhole
    <3>1. At("ended") /\ job.ok => Stored(Len(job.bytes))
      BY <1>1 DEF BlockInv, WrittenOK
    <3> QED
      BY <3>1 DEF WriteIsWhole, Stored, ByteAt
  <2>3. StartUsesSaved /\ StartIsStored
    BY <1>1 DEF BlockInv, StartOK, StartUsesSaved, StartIsStored, Started
  <2> QED
    BY <2>1, <2>2, <2>3 DEF BlockIsSound
<1> QED
  BY <1>1, Invariance, KeptInvariance, PTL

\* Nor does any byte change but those that the addresses of a write name, whatever
\* fails and wherever the write lies.
THEOREM KeptTheorem == BlockSpec => OutsideKept
<1>1. ASSUME BlockInv, KeptOK, [BlockNext]_blockVars
      PROVE  [\A a \in Address : cells'[a] # cells[a] => a \in allowed]_eepromVars
  <2>1. DOMAIN cycle \subseteq allowed /\ DeviceOK
    BY <1>1 DEF KeptOK, BlockInv
  <2>2. EepromStep(Write)
    BY <1>1, <2>1, StepsOfDevice
  <2>3. CASE EndOfCycle
    <3>1. \A a \in Address : cells'[a] = IF a \in DOMAIN cycle THEN cycle[a] ELSE cells[a]
      BY <2>1, <2>3, OverProperties DEF EndOfCycle, DeviceOK
    <3> QED
      BY <2>1, <3>1
  <2>4. CASE Torn
    <3>1. PICK S \in SUBSET DOMAIN cycle : cells' = Over(Part(cycle, S), cells)
      BY <2>4 DEF Torn
    <3>2. DOMAIN Part(cycle, S) = S /\ \A a \in S : Part(cycle, S)[a] \in Byte
      BY <2>1 DEF Part, DeviceOK
    <3>3. \A a \in Address : a \notin S => cells'[a] = cells[a]
      BY <2>1, <3>1, <3>2, OverProperties DEF DeviceOK
    <3> QED
      BY <2>1, <3>3
  <2>5. CASE cells' = cells
    BY <2>5
  <2> QED
    BY <2>2, <2>3, <2>4, <2>5
       DEF EepromStep, Working, Sent, Refused, Answered, Unanswered, eepromVars
<1>2. BlockInv /\ KeptOK /\ [BlockNext]_blockVars =>
        [\A a \in Address : cells'[a] # cells[a] => a \in allowed]_eepromVars
  BY <1>1
<1> QED
  BY <1>2, Invariance, KeptInvariance, PTL DEF BlockSpec, OutsideKept
=============================================================================
