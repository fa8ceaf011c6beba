------------------------------ MODULE KveProof ------------------------------
(* What holds of the key-value table, byte by byte, in any partition and for *)
(* any keys and values: it is a chain of items whatever fails but a write,   *)
(* and as long as nothing fails it is the store of KveStore.                 *)
EXTENDS KveMemory, SequenceTheorems, NaturalsInduction, WellFoundedInduction, TLAPS

Memory == [0 .. MemSize - 1 -> Byte]

\* The partition in numbers, without the intervals of its assumption.
LEMMA Sizes ==
  /\ MemSize \in Nat /\ 6 <= MemSize /\ MemSize <= 256 * 256 - 1
  /\ Accessible \in Nat /\ MemSize - 1 <= Accessible /\ Accessible <= MemSize
  /\ ChunkSize \in Nat /\ ChunkSize > 0
  /\ ClipSize \in Nat
  /\ Blank \in Nat /\ Blank <= 255
  /\ MishapLimit \in Nat
<1>. DEFINE top == 256 * 256 - 1
<1>1. MemSize \in 6 .. top /\ Accessible \in MemSize - 1 .. MemSize
  BY PartitionAssumption, Zenon
<1>2. ChunkSize \in Nat \ {0} /\ ClipSize \in Nat /\ Blank \in 0 .. 255 /\ MishapLimit \in Nat
  BY PartitionAssumption, Zenon
<1>3. top \in Nat
  OBVIOUS
<1>. HIDE DEF top
<1>4. MemSize \in Nat /\ 6 <= MemSize /\ MemSize <= top
  BY <1>1, <1>3
<1>5. Accessible \in Nat /\ MemSize - 1 <= Accessible /\ Accessible <= MemSize
  BY <1>1, <1>4
<1>6. ChunkSize \in Nat /\ ChunkSize > 0 /\ Blank \in Nat /\ Blank <= 255
  BY <1>2
<1>. QED
  BY <1>2, <1>4, <1>5, <1>6 DEF top

LEMMA Induction ==
  ASSUME NEW S \in SUBSET Nat, 0 \in S, \A n \in S : n + 1 \in S
  PROVE  S = Nat
<1>1. SUFFICES ASSUME Nat \ S # {}
               PROVE  FALSE
  OBVIOUS
<1>. DEFINE less == OpToRel(<, Nat)
<1>2. \A k, n \in Nat : k < n => <<k, n>> \in less
  BY DEF OpToRel
<1>3. PICK n \in Nat \ S : \A k \in Nat \ S : <<k, n>> \notin less
  <2>. HIDE DEF less
  <2>1. IsWellFoundedOn(less, Nat)
    BY NatLessThanWellFounded DEF less
  <2>. QED
    BY <1>1, <2>1, WFMin
<1>4. n # 0 /\ n \in Nat
  BY <1>3
<1>5. n - 1 \in Nat /\ n - 1 < n /\ n - 1 + 1 = n
  BY <1>4
<1>6. n - 1 \notin Nat \ S
  BY <1>2, <1>3, <1>5
<1>. QED
  BY <1>3, <1>5, <1>6

\* What holds from some number on, and for a number if it holds for all greater
\* ones, holds for all.
LEMMA Downward ==
  ASSUME NEW S \in SUBSET Nat, NEW N \in Nat,
         \A a \in Nat : a >= N => a \in S,
         \A a \in Nat : (\A b \in Nat : b > a => b \in S) => a \in S
  PROVE  S = Nat
<1>. DEFINE T == {n \in Nat : \A b \in Nat : b >= N - n => b \in S}
<1>1. 0 \in T
  OBVIOUS
<1>2. ASSUME NEW n \in T
      PROVE  n + 1 \in T
  <2>1. SUFFICES ASSUME NEW b \in Nat, b >= N - (n + 1)
                 PROVE  b \in S
    OBVIOUS
  <2>2. \A c \in Nat : c > b => c \in S
    BY <2>1
  <2>. QED
    BY <2>2
<1>3. T = Nat
  <2>. HIDE DEF T
  <2>1. T \in SUBSET Nat
    BY DEF T
  <2>. QED
    BY <1>1, <1>2, <2>1, Induction
<1>4. N \in T
  BY <1>3
<1>5. \A b \in Nat : b \in S
  BY <1>4
<1>. HIDE DEF T
<1>. QED
  BY <1>5

-----------------------------------------------------------------------------
(* Headers                                                                   *)

LEMMA Header ==
  ASSUME NEW m \in Memory, NEW a \in Nat, a <= MemSize - 2
  PROVE  /\ FullLength(m, a) \in Nat
         /\ FullLength(m, a) <= EndTag
         /\ a + FullLength(m, a) \in Nat
<1>1. m[a] \in 0 .. 255 /\ m[a + 1] \in 0 .. 255
  <2>1. MemSize \in Nat
    BY Sizes
  <2>2. a \in 0 .. MemSize - 1 /\ a + 1 \in 0 .. MemSize - 1
    BY <2>1
  <2>3. m[a] \in Byte /\ m[a + 1] \in Byte
    BY <2>2 DEF Memory
  <2>. QED
    BY <2>3 DEF Byte
<1>2. PICK x \in 0 .. 255, y \in 0 .. 255 : m[a] = x /\ m[a + 1] = y
  BY <1>1
<1>3. FullLength(m, a) = x + 256 * y
  BY <1>2 DEF FullLength
<1>4. FullLength(m, a) \in Nat /\ FullLength(m, a) <= 256 * 256 - 1
  BY <1>3
<1>. QED
  BY <1>4 DEF EndTag

LEMMA KeyHeader ==
  ASSUME NEW m \in Memory, NEW a \in Nat, a <= MemSize - 3
  PROVE  KeyLength(m, a) \in Nat /\ KeyLength(m, a) <= 255
<1>1. m[a + 2] \in 0 .. 255
  BY Sizes DEF Memory, Byte
<1>2. PICK x \in 0 .. 255 : m[a + 2] = x
  BY <1>1
<1>. QED
  BY <1>2 DEF KeyLength

-----------------------------------------------------------------------------
(* The searches                                                              *)

LEMMA VisitedExists ==
  ASSUME NEW m \in Memory, NEW limit \in Nat, limit <= MemSize - 2
  PROVE  \E f : f = [b \in Nat |->
                       IF b >= limit \/ IsEnd(m, b) THEN {}
                       ELSE {b} \cup (IF FullLength(m, b) = 0 THEN {}
                                      ELSE f[b + FullLength(m, b)])]
<1>. DEFINE row(f, b) == IF b >= limit \/ IsEnd(m, b) THEN {}
                         ELSE {b} \cup (IF FullLength(m, b) = 0 THEN {}
                                        ELSE f[b + FullLength(m, b)])
            from(f, n) == f = [b \in Nat |-> IF b >= limit - n THEN row(f, b) ELSE {}]
            S == {n \in Nat : \E f : from(f, n)}
<1>1. 0 \in S
  <2>. DEFINE f == [b \in Nat |-> {}]
  <2>1. \A b \in Nat : b >= limit => row(f, b) = {}
    OBVIOUS
  <2>2. from(f, 0)
    <3>1. limit - 0 = limit
      OBVIOUS
    <3>. HIDE DEF row
    <3>. QED
      BY <2>1, <3>1
  <2>. QED
    BY <2>2
<1>2. ASSUME NEW n \in S
      PROVE  n + 1 \in S
  <2>0. n \in Nat /\ \E f : from(f, n)
    <3>. HIDE DEF from
    <3>. QED
      OBVIOUS
  <2>1. PICK f : from(f, n)
    BY <2>0
  <2>. DEFINE g == [b \in Nat |-> IF b >= limit - (n + 1) THEN row(f, b) ELSE {}]
  <2>2. \A b \in Nat : b >= limit - n => g[b] = f[b]
    <3>1. SUFFICES ASSUME NEW b \in Nat, b >= limit - n
                   PROVE  g[b] = f[b]
      OBVIOUS
    <3>2. b >= limit - (n + 1)
      BY <2>0, <3>1
    <3>. HIDE DEF row, S
    <3>3. f[b] = row(f, b)
      BY <2>1, <3>1
    <3>. QED
      BY <3>2, <3>3
  <2>3. ASSUME NEW b \in Nat, b >= limit - (n + 1)
        PROVE  row(g, b) = row(f, b)
    <3>1. CASE b >= limit \/ IsEnd(m, b) \/ FullLength(m, b) = 0
      BY <3>1
    <3>2. CASE ~(b >= limit \/ IsEnd(m, b) \/ FullLength(m, b) = 0)
      <4>1. b + FullLength(m, b) \in Nat /\ b + FullLength(m, b) >= limit - n
        <5>1. b <= MemSize - 2
          BY <3>2, Sizes
        <5>2. FullLength(m, b) \in Nat /\ FullLength(m, b) # 0
          BY <3>2, <5>1, Header
        <5>. QED
          BY <2>0, <2>3, <5>2
      <4>2. g[b + FullLength(m, b)] = f[b + FullLength(m, b)]
        <5>. HIDE DEF g
        <5>. QED
          BY <2>2, <4>1
      <4>. HIDE DEF g
      <4>. QED
        BY <3>2, <4>2
    <3>. QED
      BY <3>1, <3>2
  <2>4. from(g, n + 1)
    <3>. HIDE DEF row
    <3>. QED
      BY <2>3
  <2>. HIDE DEF g, from
  <2>. QED
    BY <2>4
<1>3. S = Nat
  <2>. HIDE DEF S
  <2>1. S \in SUBSET Nat
    BY DEF S
  <2>. QED
    BY <1>1, <1>2, <2>1, Induction
<1>4. PICK f : from(f, limit)
  BY <1>3
<1>5. f = [b \in Nat |-> row(f, b)]
  <2>. HIDE DEF row
  <2>. QED
    BY <1>4
<1>. QED
  BY <1>5

\* A search, step by step.
LEMMA VisitedStep ==
  ASSUME NEW m \in Memory, NEW limit \in Nat, limit <= MemSize - 2, NEW a \in Nat
  PROVE  Visited(m, a, limit) =
           IF a >= limit \/ IsEnd(m, a) THEN {}
           ELSE {a} \cup (IF FullLength(m, a) = 0 THEN {}
                          ELSE Visited(m, a + FullLength(m, a), limit))
<1>. DEFINE row(f, b) == IF b >= limit \/ IsEnd(m, b) THEN {}
                         ELSE {b} \cup (IF FullLength(m, b) = 0 THEN {}
                                        ELSE f[b + FullLength(m, b)])
            v == CHOOSE f : f = [b \in Nat |-> row(f, b)]
<1>1. \E f : f = [b \in Nat |-> row(f, b)]
  BY VisitedExists
<1>2. v = [b \in Nat |-> row(v, b)]
  <2>. HIDE DEF row
  <2>. QED
    BY <1>1
<1>3. \A b : Visited(m, b, limit) = v[b]
  BY DEF Visited
<1>4. v[a] = row(v, a)
  <2>. HIDE DEF row, v
  <2>. QED
    BY <1>2
<1>. HIDE DEF v
<1>. QED
  BY <1>3, <1>4

LEMMA PastExists ==
  ASSUME NEW m \in Memory
  PROVE  \E f : f = [b \in Nat |-> IF IsPast(m, b) THEN b
                                   ELSE f[b + FullLength(m, b)]]
<1>. DEFINE row(f, b) == IF IsPast(m, b) THEN b ELSE f[b + FullLength(m, b)]
            from(f, n) == f = [b \in Nat |-> IF b >= MemSize - n THEN row(f, b) ELSE 0]
            S == {n \in Nat : \E f : from(f, n)}
<1>1. 0 \in S
  <2>. DEFINE f == [b \in Nat |-> IF b >= MemSize THEN b ELSE 0]
  <2>1. \A b \in Nat : b >= MemSize => row(f, b) = b
    BY Sizes DEF IsPast
  <2>2. from(f, 0)
    <3>1. MemSize - 0 = MemSize
      BY Sizes
    <3>. HIDE DEF row
    <3>. QED
      BY <2>1, <3>1
  <2>. QED
    BY <2>2
<1>2. ASSUME NEW n \in S
      PROVE  n + 1 \in S
  <2>0. n \in Nat /\ \E f : from(f, n)
    <3>. HIDE DEF from
    <3>. QED
      OBVIOUS
  <2>1. PICK f : from(f, n)
    BY <2>0
  <2>. DEFINE g == [b \in Nat |-> IF b >= MemSize - (n + 1) THEN row(f, b) ELSE 0]
  <2>2. \A b \in Nat : b >= MemSize - n => g[b] = f[b]
    <3>. HIDE DEF row, S
    <3>. QED
      BY <2>0, <2>1, Sizes
  <2>3. ASSUME NEW b \in Nat, b >= MemSize - (n + 1)
        PROVE  row(g, b) = row(f, b)
    <3>1. CASE IsPast(m, b)
      BY <3>1
    <3>2. CASE ~IsPast(m, b)
      <4>1. b + FullLength(m, b) \in Nat /\ b + FullLength(m, b) >= MemSize - n
        <5>1. b <= MemSize - 2
          BY <3>2, Sizes DEF IsPast
        <5>2. FullLength(m, b) \in Nat /\ FullLength(m, b) # 0
          BY <3>2, <5>1, Header DEF IsPast
        <5>. QED
          BY <2>0, <2>3, <5>2, Sizes
      <4>2. g[b + FullLength(m, b)] = f[b + FullLength(m, b)]
        <5>. HIDE DEF g
        <5>. QED
          BY <2>2, <4>1
      <4>. HIDE DEF g
      <4>. QED
        BY <3>2, <4>2
    <3>. QED
      BY <3>1, <3>2
  <2>4. from(g, n + 1)
    <3>. HIDE DEF row
    <3>. QED
      BY <2>3
  <2>. HIDE DEF g, from
  <2>. QED
    BY <2>4
<1>3. S = Nat
  <2>. HIDE DEF S
  <2>1. S \in SUBSET Nat
    BY DEF S
  <2>. QED
    BY <1>1, <1>2, <2>1, Induction
<1>4. PICK f : from(f, MemSize)
  <2>1. MemSize \in S
    <3>1. MemSize \in Nat
      BY Sizes
    <3>. HIDE DEF S
    <3>. QED
      BY <1>3, <3>1
  <2>. HIDE DEF from
  <2>. QED
    BY <2>1
<1>5. f = [b \in Nat |-> row(f, b)]
  <2>. HIDE DEF row
  <2>. QED
    BY <1>4, Sizes
<1>. QED
  BY <1>5

LEMMA PastStep ==
  ASSUME NEW m \in Memory, NEW a \in Nat
  PROVE  PastItems(m, a) = IF IsPast(m, a) THEN a
                           ELSE PastItems(m, a + FullLength(m, a))
<1>. DEFINE row(f, b) == IF IsPast(m, b) THEN b ELSE f[b + FullLength(m, b)]
            v == CHOOSE f : f = [b \in Nat |-> row(f, b)]
<1>1. \E f : f = [b \in Nat |-> row(f, b)]
  BY PastExists
<1>2. v = [b \in Nat |-> row(v, b)]
  <2>. HIDE DEF row
  <2>. QED
    BY <1>1
<1>3. \A b : PastItems(m, b) = v[b]
  BY DEF PastItems
<1>4. v[a] = row(v, a)
  <2>. HIDE DEF row, v
  <2>. QED
    BY <1>2
<1>. HIDE DEF v
<1>. QED
  BY <1>3, <1>4

-----------------------------------------------------------------------------
(* Chains of items                                                           *)

\* From a to b the memory holds items, at the addresses of A, one after another.
Entries(m, A, a, b) ==
  /\ A \in SUBSET Nat
  /\ a \in Nat /\ b \in Nat /\ a <= b
  /\ \A x \in A : a <= x /\ x < b
  /\ a \in A \cup {b}
  /\ \A x \in A : /\ FullLength(m, x) \in Nat /\ FullLength(m, x) >= 4
                 /\ x + FullLength(m, x) \in A \cup {b}
  /\ \A x \in A, y \in A \cup {b} : x < y => x + FullLength(m, x) <= y

\* The table: a chain of items that leads to an end tag.
Table(m, A, e) ==
  /\ Entries(m, A, FirstItem, e)
  /\ e <= MemSize - 3
  /\ IsEnd(m, e)

LEMMA ItemsAreNotEnds ==
  ASSUME NEW m \in Memory, NEW A, NEW a, NEW b, Entries(m, A, a, b), b <= MemSize - 3,
         NEW x \in A
  PROVE  /\ x \in Nat /\ x < MemSize - 2 /\ x < b
         /\ ~IsEnd(m, x) /\ FullLength(m, x) \in Nat /\ FullLength(m, x) >= 4
         /\ x + FullLength(m, x) \in A \cup {b} /\ x + FullLength(m, x) \in Nat
         /\ x + FullLength(m, x) <= b
<1>1. /\ x \in Nat /\ x < b /\ b \in Nat
      /\ FullLength(m, x) >= 4
      /\ x + FullLength(m, x) \in A \cup {b} /\ x + FullLength(m, x) <= b
  BY DEF Entries
<1>2. FullLength(m, x) \in Nat /\ x + FullLength(m, x) \in Nat
  BY <1>1, Header, Sizes
<1>. QED
  BY <1>1, <1>2, Sizes DEF IsEnd, EndTag

\* A search that starts at an item, or at the end, visits the items from there on.
LEMMA SearchFollowsTable ==
  ASSUME NEW m \in Memory, NEW A, NEW e, Table(m, A, e),
         NEW a \in A \cup {e}, NEW limit \in Nat, limit <= MemSize - 2
  PROVE  /\ PastItems(m, a) = e
         /\ Visited(m, a, limit) = {x \in A : a <= x /\ x < limit}
<1>. DEFINE good(b) == /\ PastItems(m, b) = e
                       /\ Visited(m, b, limit) = {x \in A : b <= x /\ x < limit}
            S == {b \in Nat : b \in A \cup {e} => good(b)}
<1>1. /\ Entries(m, A, FirstItem, e) /\ e \in Nat /\ e <= MemSize - 3 /\ IsEnd(m, e)
      /\ A \in SUBSET Nat /\ \A x \in A : x < e
  BY DEF Table, Entries
<1>2. good(e)
  <2>1. PastItems(m, e) = e
    BY <1>1, PastStep DEF IsPast
  <2>2. Visited(m, e, limit) = {}
    BY <1>1, VisitedStep
  <2>3. {x \in A : e <= x /\ x < limit} = {}
    <3>1. \A x \in A : ~(e <= x)
      BY <1>1
    <3>. QED
      BY <3>1
  <2>. QED
    BY <2>1, <2>2, <2>3
<1>3. ASSUME NEW b \in A, b + FullLength(m, b) \in S
      PROVE  good(b)
  <2>. DEFINE c == b + FullLength(m, b)
  <2>1. /\ b \in Nat /\ b < MemSize - 2 /\ ~IsEnd(m, b) /\ FullLength(m, b) \in Nat
        /\ FullLength(m, b) >= 4 /\ c \in A \cup {e} /\ c \in Nat
    BY <1>1, ItemsAreNotEnds
  <2>2. good(c)
    <3>. HIDE DEF good, c
    <3>. QED
      BY <1>3, <2>1 DEF c
  <2>3. PastItems(m, b) = PastItems(m, c)
    <3>1. ~IsPast(m, b)
      BY <2>1, Sizes DEF IsPast
    <3>. HIDE DEF good
    <3>. QED
      BY <2>1, <3>1, PastStep
  <2>4. Visited(m, b, limit) = IF b >= limit THEN {} ELSE {b} \cup Visited(m, c, limit)
    BY <2>1, VisitedStep
  <2>5. \A x \in A : b < x => c <= x
    BY <1>1 DEF Entries
  <2>6. c > b
    BY <2>1
  <2>7. IF b >= limit THEN {x \in A : b <= x /\ x < limit} = {}
        ELSE {x \in A : b <= x /\ x < limit} = {b} \cup {x \in A : c <= x /\ x < limit}
    <3>. HIDE DEF c
    <3>1. \A x \in A : b <= x <=> x = b \/ c <= x
      BY <1>1, <2>1, <2>5, <2>6
    <3>2. CASE b >= limit
      <4>1. \A x \in A : b <= x => ~(x < limit)
        BY <1>1, <2>1, <3>2
      <4>. QED
        BY <3>2, <4>1
    <3>3. CASE b < limit
      <4>1. {x \in A : b <= x /\ x < limit}
              = {x \in A : (x = b \/ c <= x) /\ x < limit}
        BY <3>1
      <4>2. b \in A /\ b < limit
        BY <3>3
      <4>. QED
        BY <2>1, <4>1, <4>2
    <3>. QED
      BY <2>1, <3>2, <3>3
  <2>. HIDE DEF c
  <2>. QED
    BY <2>2, <2>3, <2>4, <2>7
<1>4. S = Nat
  <2>1. \A b \in Nat : b > e => b \in S
    BY <1>1
  <2>2. ASSUME NEW b \in Nat, \A c \in Nat : c > b => c \in S
        PROVE  b \in S
    <3>1. CASE b \in A
      <4>1. b + FullLength(m, b) \in Nat /\ b + FullLength(m, b) > b
        BY <1>1, <3>1, ItemsAreNotEnds
      <4>2. good(b)
        <5>. HIDE DEF good, S
        <5>. QED
          BY <1>3, <2>2, <3>1, <4>1
      <4>. QED
        BY <4>2
    <3>2. CASE b \notin A
      <4>. HIDE DEF good
      <4>. QED
        BY <1>2, <3>2
    <3>. QED
      BY <3>1, <3>2
  <2>. HIDE DEF S
  <2>3. S \in SUBSET Nat
    BY DEF S
  <2>4. \A b \in Nat : b >= e + 1 => b \in S
    BY <1>1, <2>1
  <2>. QED
    <3>. DEFINE N == e + 1
    <3>1. N \in Nat /\ \A b \in Nat : b >= N => b \in S
      BY <1>1, <2>4
    <3>. HIDE DEF N
    <3>. QED
      BY <2>2, <2>3, <3>1, Downward
<1>5. a \in Nat
  BY <1>1
<1>6. good(a)
  <2>. HIDE DEF good
  <2>. QED
    BY <1>4, <1>5
<1>. QED
  BY <1>6

LEMMA NoEntries ==
  ASSUME NEW m, NEW a \in Nat
  PROVE  Entries(m, {}, a, a)
  BY DEF Entries

LEMMA OneEntry ==
  ASSUME NEW m, NEW a \in Nat, NEW b \in Nat,
         FullLength(m, a) \in Nat, FullLength(m, a) >= 4, a + FullLength(m, a) = b
  PROVE  Entries(m, {a}, a, b)
  BY DEF Entries

LEMMA JoinEntries ==
  ASSUME NEW m, NEW A, NEW B, NEW a, NEW b, NEW c,
         Entries(m, A, a, b), Entries(m, B, b, c)
  PROVE  Entries(m, A \cup B, a, c)
<1>1. /\ a \in Nat /\ b \in Nat /\ c \in Nat /\ a <= b /\ b <= c
      /\ A \in SUBSET Nat /\ B \in SUBSET Nat
      /\ \A x \in A : a <= x /\ x < b
      /\ \A x \in B : b <= x /\ x < c
      /\ a \in A \cup {b} /\ b \in B \cup {c}
  BY DEF Entries
<1>2. \A x \in A \cup B : a <= x /\ x < c
  BY <1>1
<1>3. a \in A \cup B \cup {c}
  BY <1>1
<1>4. \A x \in A \cup B : /\ FullLength(m, x) \in Nat /\ FullLength(m, x) >= 4
                          /\ x + FullLength(m, x) \in (A \cup B) \cup {c}
  BY <1>1 DEF Entries
<1>5. ASSUME NEW x \in A \cup B, NEW y \in (A \cup B) \cup {c}, x < y
      PROVE  x + FullLength(m, x) <= y
  <2>1. CASE x \in A
    <3>1. CASE y \in A
      BY <1>5, <2>1, <3>1 DEF Entries
    <3>2. CASE y \in B \cup {c}
      <4>1. b <= y /\ y \in Nat
        BY <1>1, <3>2
      <4>2. x < b /\ x + FullLength(m, x) <= b
        BY <1>1, <2>1 DEF Entries
      <4>3. x + FullLength(m, x) \in Nat
        BY <1>1, <2>1 DEF Entries
      <4>. QED
        BY <1>1, <4>1, <4>2, <4>3
    <3>. QED
      BY <3>1, <3>2
  <2>2. CASE x \in B /\ x \notin A
    <3>1. y \in B \cup {c}
      BY <1>1, <1>5, <2>2
    <3>. QED
      BY <1>5, <2>2, <3>1 DEF Entries
  <2>. QED
    BY <2>1, <2>2
<1>6. A \cup B \in SUBSET Nat
  BY <1>1
<1>. HIDE DEF Entries
<1>7. a <= c
  BY <1>1
<1>. QED
  BY <1>1, <1>2, <1>3, <1>4, <1>5, <1>6, <1>7 DEF Entries

Below(A, b) == {x \in A : x < b}
From(A, b)  == {x \in A : b <= x}

LEMMA SplitEntries ==
  ASSUME NEW m, NEW A, NEW a, NEW b, NEW c,
         Entries(m, A, a, c), b \in A \cup {c}
  PROVE  /\ Entries(m, Below(A, b), a, b)
         /\ Entries(m, From(A, b), b, c)
<1>1. /\ a \in Nat /\ b \in Nat /\ c \in Nat /\ a <= b /\ b <= c
      /\ A \in SUBSET Nat
      /\ \A x \in A : a <= x /\ x < c
      /\ a \in A \cup {c}
  BY DEF Entries
<1>2. ASSUME NEW x \in A
      PROVE  /\ FullLength(m, x) \in Nat /\ FullLength(m, x) >= 4
             /\ x + FullLength(m, x) \in A \cup {c}
             /\ \A y \in A \cup {c} : x < y => x + FullLength(m, x) <= y
  BY DEF Entries
<1>3. Entries(m, Below(A, b), a, b)
  <2>1. ASSUME NEW x \in A, x < b
        PROVE  x + FullLength(m, x) \in Below(A, b) \cup {b}
    <3>1. PICK y \in A \cup {c} : y = x + FullLength(m, x)
      BY <1>2
    <3>2. b \in A \cup {c} /\ y <= b
      BY <1>2, <2>1, <3>1
    <3>3. y = b \/ y < b
      BY <1>1, <3>1, <3>2
    <3>. QED
      BY <1>1, <3>1, <3>3 DEF Below
  <2>2. a \in Below(A, b) \cup {b}
    BY <1>1 DEF Below
  <2>3. Below(A, b) \in SUBSET Nat /\ \A x \in Below(A, b) : a <= x /\ x < b
    BY <1>1 DEF Below
  <2>4. \A x \in Below(A, b), y \in Below(A, b) \cup {b} : x < y => x + FullLength(m, x) <= y
    BY <1>2 DEF Below
  <2>5. \A x \in Below(A, b) : x \in A /\ x < b
    BY DEF Below
  <2>. QED
    BY <1>1, <1>2, <2>1, <2>2, <2>3, <2>4, <2>5 DEF Entries
<1>4. Entries(m, From(A, b), b, c)
  <2>1. ASSUME NEW x \in A, b <= x
        PROVE  x + FullLength(m, x) \in From(A, b) \cup {c}
    <3>1. x < x + FullLength(m, x)
      BY <1>1, <1>2
    <3>. QED
      BY <1>1, <1>2, <2>1, <3>1 DEF From
  <2>2. b \in From(A, b) \cup {c}
    BY <1>1 DEF From
  <2>3. From(A, b) \in SUBSET Nat /\ \A x \in From(A, b) : b <= x /\ x < c
    BY <1>1 DEF From
  <2>4. \A x \in From(A, b), y \in From(A, b) \cup {c} : x < y => x + FullLength(m, x) <= y
    BY <1>2 DEF From
  <2>5. \A x \in From(A, b) : x \in A /\ b <= x
    BY DEF From
  <2>. QED
    BY <1>1, <1>2, <2>1, <2>2, <2>3, <2>4, <2>5 DEF Entries
<1>. QED
  BY <1>3, <1>4

\* Entries depend on their headers only.
LEMMA SameEntries ==
  ASSUME NEW m, NEW n, NEW A, NEW a, NEW b, Entries(m, A, a, b),
         \A x \in A : FullLength(n, x) = FullLength(m, x)
  PROVE  Entries(n, A, a, b)
  BY DEF Entries

\* What a search finds that comes to an end tag is a chain of items.
LEMMA SearchFindsTable ==
  ASSUME NEW m \in Memory, NEW a \in Nat,
         \A i \in Visited(m, a, MemSize - 2) : FullLength(m, i) >= 4,
         PastItems(m, a) < MemSize - 2
  PROVE  Entries(m, Visited(m, a, MemSize - 2), a, PastItems(m, a))
<1>. DEFINE V(b) == Visited(m, b, MemSize - 2)
            long(b) == \A i \in V(b) : FullLength(m, i) >= 4
            good(b) == long(b) /\ PastItems(m, b) < MemSize - 2
                         => Entries(m, V(b), b, PastItems(m, b))
            S == {b \in Nat : good(b)}
<1>0. MemSize \in Nat /\ MemSize - 2 \in Nat /\ MemSize - 2 <= MemSize - 2
  BY Sizes
<1>1. ASSUME NEW b \in Nat, b >= MemSize
      PROVE  good(b)
  <2>1. PastItems(m, b) = b
    BY <1>0, <1>1, PastStep DEF IsPast
  <2>. QED
    BY <1>0, <1>1, <2>1
<1>2. ASSUME NEW b \in Nat, \A c \in Nat : c > b => good(c)
      PROVE  good(b)
  <2>1. CASE b >= MemSize - 2
    <3>1. PastItems(m, b) = b
      BY <2>1, PastStep DEF IsPast
    <3>. QED
      BY <1>0, <2>1, <3>1
  <2>2. CASE b < MemSize - 2 /\ IsEnd(m, b)
    <3>1. PastItems(m, b) = b
      BY <2>2, PastStep DEF IsPast
    <3>2. V(b) = {}
      BY <1>0, <2>2, VisitedStep
    <3>. QED
      BY <3>1, <3>2, NoEntries
  <2>3. CASE b < MemSize - 2 /\ ~IsEnd(m, b) /\ FullLength(m, b) = 0
    <3>1. b \in V(b)
      BY <1>0, <2>3, VisitedStep
    <3>. QED
      BY <2>3, <3>1
  <2>4. CASE b < MemSize - 2 /\ ~IsEnd(m, b) /\ FullLength(m, b) # 0
    <3>. DEFINE c == b + FullLength(m, b)
    <3>1. FullLength(m, b) \in Nat /\ c \in Nat /\ c > b
      BY <1>0, <2>4, Header
    <3>2. V(b) = {b} \cup V(c)
      BY <1>0, <2>4, VisitedStep
    <3>3. PastItems(m, b) = PastItems(m, c)
      <4>1. ~IsPast(m, b)
        BY <1>0, <2>4 DEF IsPast
      <4>. QED
        BY <4>1, PastStep
    <3>4. SUFFICES ASSUME long(b), PastItems(m, b) < MemSize - 2
                   PROVE  Entries(m, V(b), b, PastItems(m, b))
      OBVIOUS
    <3>5. Entries(m, V(c), c, PastItems(m, c))
      <4>1. good(c)
        <5>. HIDE DEF good, c
        <5>. QED
          BY <1>2, <3>1
      <4>. HIDE DEF c
      <4>. QED
        BY <3>2, <3>3, <3>4, <4>1
    <3>6. Entries(m, {b}, b, c)
      <4>1. FullLength(m, b) >= 4
        BY <3>2, <3>4
      <4>. QED
        BY <3>1, <4>1, OneEntry
    <3>. HIDE DEF c, V
    <3>. QED
      BY <3>2, <3>3, <3>5, <3>6, JoinEntries
  <2>. QED
    BY <1>0, <2>1, <2>2, <2>3, <2>4
<1>3. S = Nat
  <2>. HIDE DEF good
  <2>. DEFINE N == MemSize
  <2>1. N \in Nat /\ \A b \in Nat : b >= N => b \in S
    BY <1>0, <1>1
  <2>2. \A b \in Nat : (\A c \in Nat : c > b => c \in S) => b \in S
    BY <1>2
  <2>3. S \in SUBSET Nat
    OBVIOUS
  <2>. HIDE DEF N, S
  <2>. QED
    BY <2>1, <2>2, <2>3, Downward
<1>4. good(a)
  <2>. HIDE DEF good
  <2>. QED
    BY <1>3
<1>. QED
  BY <1>4

-----------------------------------------------------------------------------
(* Writes                                                                    *)

WriteRecord == [at : Int, bytes : Seq(Byte)]

Call == [mem : Memory, log : Seq(WriteRecord)]

\* Outside a .. b - 1 the memory n is m.
SameOutside(m, n, a, b) ==
  \A x \in 0 .. MemSize - 1 : x < a \/ b <= x => n[x] = m[x]

LEMMA OverlayDoes ==
  ASSUME NEW m \in Memory, NEW a \in Int, NEW bytes \in Seq(Byte)
  PROVE  /\ Overlay(m, a, bytes) \in Memory
         /\ SameOutside(m, Overlay(m, a, bytes), a, a + Len(bytes))
         /\ \A i \in 1 .. Len(bytes) :
              a + i - 1 \in 0 .. MemSize - 1 => Overlay(m, a, bytes)[a + i - 1] = bytes[i]
<1>. DEFINE l == Len(bytes)
            n == Overlay(m, a, bytes)
<1>1. l \in Nat /\ \A i \in 1 .. l : bytes[i] \in Byte
  BY LenProperties, ElementOfSeq
<1>2. DOMAIN m = 0 .. MemSize - 1 /\ \A x \in 0 .. MemSize - 1 : m[x] \in Byte
  BY DEF Memory
<1>3. n = [x \in 0 .. MemSize - 1 |-> IF x \in a .. a + l - 1 THEN bytes[x - a + 1] ELSE m[x]]
  BY <1>2 DEF Overlay
<1>. HIDE DEF n, l
<1>4. \A x \in 0 .. MemSize - 1 :
        n[x] = IF x \in a .. a + l - 1 THEN bytes[x - a + 1] ELSE m[x]
  BY <1>3
<1>5. ASSUME NEW x \in 0 .. MemSize - 1
      PROVE  n[x] \in Byte
  <2>1. CASE x \in a .. a + l - 1
    <3>1. x - a + 1 \in 1 .. l
      BY <1>1, <2>1
    <3>. QED
      BY <1>1, <1>4, <2>1, <3>1
  <2>2. CASE x \notin a .. a + l - 1
    BY <1>2, <1>4, <2>2
  <2>. QED
    BY <2>1, <2>2
<1>6. n \in Memory
  BY <1>3, <1>5 DEF Memory
<1>7. SameOutside(m, n, a, a + l)
  BY <1>1, <1>4 DEF SameOutside
<1>8. ASSUME NEW i \in 1 .. l, a + i - 1 \in 0 .. MemSize - 1
      PROVE  n[a + i - 1] = bytes[i]
  <2>1. a + i - 1 \in a .. a + l - 1 /\ a + i - 1 - a + 1 = i
    BY <1>1
  <2>. QED
    BY <1>4, <1>8, <2>1
<1>. QED
  BY <1>6, <1>7, <1>8 DEF n, l

LEMMA WriteDoes ==
  ASSUME NEW s \in Call, NEW a \in Int, NEW bytes \in Seq(Byte)
  PROVE  /\ Write(s, a, bytes) \in Call
         /\ Write(s, a, bytes).mem = Overlay(s.mem, a, bytes)
         /\ Write(s, a, bytes).mem \in Memory
         /\ SameOutside(s.mem, Write(s, a, bytes).mem, a, a + Len(bytes))
         /\ \A i \in 1 .. Len(bytes) :
              a + i - 1 \in 0 .. MemSize - 1 => Write(s, a, bytes).mem[a + i - 1] = bytes[i]
<1>1. s.mem \in Memory /\ s.log \in Seq(WriteRecord)
  BY DEF Call
<1>2. Write(s, a, bytes).mem = Overlay(s.mem, a, bytes)
  BY DEF Write
<1>3. Append(s.log, [at |-> a, bytes |-> bytes]) \in Seq(WriteRecord)
  <2>1. [at |-> a, bytes |-> bytes] \in WriteRecord
    BY DEF WriteRecord
  <2>. QED
    BY <1>1, <2>1, AppendProperties
<1>4. Overlay(s.mem, a, bytes) \in Memory
  BY <1>1, OverlayDoes
<1>5. Write(s, a, bytes) \in Call
  BY <1>3, <1>4 DEF Write, Call
<1>. QED
  BY <1>1, <1>2, <1>4, <1>5, OverlayDoes

LEMMA SameOutsideTwice ==
  ASSUME NEW m, NEW n, NEW o, NEW a \in Int, NEW b \in Int, NEW c \in Int, NEW d \in Int,
         NEW x \in Int, NEW y \in Int,
         SameOutside(m, n, a, b), SameOutside(n, o, c, d), x <= a, b <= y, x <= c, d <= y
  PROVE  SameOutside(m, o, x, y)
  BY Sizes DEF SameOutside

LEMMA WriteHeaderDoes ==
  ASSUME NEW s \in Call, NEW a \in Nat, NEW full \in Nat, full <= EndTag, NEW keyLength \in Byte
  PROVE  LET n == WriteHeader(s, a, full, keyLength)
         IN  /\ n \in Call
             /\ SameOutside(s.mem, n.mem, a, a + 3)
             /\ a <= MemSize - 2 => FullLength(n.mem, a) = full
             /\ a <= MemSize - 3 => KeyLength(n.mem, a) = keyLength
<1>. DEFINE h == <<full % 256, full \div 256, keyLength>>
            n == WriteHeader(s, a, full, keyLength)
<1>1. full % 256 \in Byte /\ full \div 256 \in Byte /\ (full % 256) + 256 * (full \div 256) = full
  BY DEF Byte, EndTag
<1>2. h \in Seq(Byte) /\ Len(h) = 3 /\ h[1] = full % 256 /\ h[2] = full \div 256 /\ h[3] = keyLength
  BY <1>1
<1>3. n = Write(s, a, h)
  BY DEF WriteHeader
<1>. HIDE DEF h, n
<1>9. /\ n \in Call /\ SameOutside(s.mem, n.mem, a, a + Len(h))
      /\ \A i \in 1 .. Len(h) :
           a + i - 1 \in 0 .. MemSize - 1 => n.mem[a + i - 1] = h[i]
  <2>1. a \in Int /\ h \in Seq(Byte)
    BY <1>2
  <2>. QED
    BY <1>3, <2>1, WriteDoes
<1>4. n \in Call /\ SameOutside(s.mem, n.mem, a, a + 3)
  BY <1>2, <1>9
<1>5. \A i \in 1 .. 3 : a + i - 1 \in 0 .. MemSize - 1 => n.mem[a + i - 1] = h[i]
  BY <1>2, <1>9
<1>6. ASSUME a <= MemSize - 2
      PROVE  FullLength(n.mem, a) = full
  <2>1. n.mem[a + 1 - 1] = h[1] /\ n.mem[a + 2 - 1] = h[2]
    <3>1. a + 1 - 1 \in 0 .. MemSize - 1 /\ a + 2 - 1 \in 0 .. MemSize - 1
      BY <1>6, Sizes
    <3>. QED
      BY <1>5, <3>1
  <2>2. n.mem[a] = full % 256 /\ n.mem[a + 1] = full \div 256
    BY <1>2, <2>1
  <2>. QED
    BY <1>1, <2>2 DEF FullLength
<1>7. ASSUME a <= MemSize - 3
      PROVE  KeyLength(n.mem, a) = keyLength
  <2>1. a + 3 - 1 \in 0 .. MemSize - 1 /\ a + 3 - 1 = a + 2
    BY <1>7, Sizes
  <2>. QED
    BY <1>2, <1>5, <2>1 DEF KeyLength
<1>. QED
  BY <1>4, <1>6, <1>7 DEF n

LEMMA WriteHoleDoes ==
  ASSUME NEW s \in Call, NEW a \in Nat, NEW full \in Nat, full <= EndTag
  PROVE  LET n == WriteHole(s, a, full)
         IN  /\ n \in Call
             /\ SameOutside(s.mem, n.mem, a, a + 3)
             /\ a <= MemSize - 2 => FullLength(n.mem, a) = full
             /\ a <= MemSize - 3 => KeyLength(n.mem, a) = 0
<1>1. 0 \in Byte
  BY DEF Byte
<1>. QED
  BY <1>1, WriteHeaderDoes DEF WriteHole

LEMMA WriteEndDoes ==
  ASSUME NEW s \in Call, NEW a \in Nat
  PROVE  LET n == WriteEnd(s, a)
         IN  /\ n \in Call
             /\ SameOutside(s.mem, n.mem, a, a + 2)
             /\ a <= MemSize - 2 => IsEnd(n.mem, a)
<1>. DEFINE h == <<255, 255>>
            n == WriteEnd(s, a)
<1>1. h \in Seq(Byte) /\ Len(h) = 2 /\ h[1] = 255 /\ h[2] = 255
  BY DEF Byte
<1>2. n = Write(s, a, h)
  BY DEF WriteEnd
<1>. HIDE DEF h, n
<1>9. /\ n \in Call /\ SameOutside(s.mem, n.mem, a, a + Len(h))
      /\ \A i \in 1 .. Len(h) :
           a + i - 1 \in 0 .. MemSize - 1 => n.mem[a + i - 1] = h[i]
  <2>1. a \in Int /\ h \in Seq(Byte)
    BY <1>1
  <2>. QED
    BY <1>2, <2>1, WriteDoes
<1>3. n \in Call /\ SameOutside(s.mem, n.mem, a, a + 2)
  BY <1>1, <1>9
<1>4. \A i \in 1 .. 2 : a + i - 1 \in 0 .. MemSize - 1 => n.mem[a + i - 1] = h[i]
  BY <1>1, <1>9
<1>5. ASSUME a <= MemSize - 2
      PROVE  IsEnd(n.mem, a)
  <2>1. a + 1 - 1 \in 0 .. MemSize - 1 /\ a + 2 - 1 \in 0 .. MemSize - 1
    BY <1>5, Sizes
  <2>2. n.mem[a + 1 - 1] = 255 /\ n.mem[a + 2 - 1] = 255
    BY <1>1, <1>4, <2>1
  <2>3. n.mem[a] = 255 /\ n.mem[a + 1] = 255
    BY <2>2
  <2>. QED
    BY <2>3 DEF IsEnd, FullLength, EndTag
<1>. QED
  BY <1>3, <1>5 DEF n

LEMMA ItemSizeIsSmall ==
  ASSUME NEW k \in Key, NEW v \in Value
  PROVE  /\ k \in Seq(Byte) /\ Len(k) \in 1 .. 255 /\ Len(k) \in Byte
         /\ v \in Seq(Byte) /\ Len(v) \in Nat /\ Len(v) > 0
         /\ ItemSize(k, v) \in Nat /\ ItemSize(k, v) >= 4 /\ ItemSize(k, v) < EndTag
         /\ ItemSize(k, v) = 3 + Len(k) + Len(v)
<1>1. k \in Seq(1 .. 255) /\ Len(k) \in 1 .. 255 /\ v \in Seq(0 .. 255) /\ v # <<>>
      /\ 3 + Len(k) + Len(v) < 256 * 256 - 1
  BY KeyAssumption
<1>2. k \in Seq(Byte)
  <2>1. 1 .. 255 \subseteq Byte
    BY DEF Byte
  <2>. QED
    <3>1. Seq(1 .. 255) \subseteq Seq(Byte)
      BY <2>1, SeqMonotonic
    <3>. QED
      BY <1>1, <3>1
<1>3. Len(v) \in Nat /\ Len(v) > 0
  BY <1>1, EmptySeq, LenProperties
<1>. QED
  BY <1>1, <1>2, <1>3 DEF ItemSize, Byte, EndTag

LEMMA WriteItemDoes ==
  ASSUME NEW s \in Call, NEW a \in Nat, NEW k \in Key, NEW v \in Value
  PROVE  LET n == WriteItem(s, a, k, v)
         IN  /\ n \in Call
             /\ SameOutside(s.mem, n.mem, a, a + ItemSize(k, v))
             /\ a <= MemSize - 2 => FullLength(n.mem, a) = ItemSize(k, v)
             /\ a <= MemSize - 3 => KeyLength(n.mem, a) = Len(k)
<1>. DEFINE x == WriteHeader(s, a, ItemSize(k, v), Len(k))
            y == Write(x, a + 3, k)
            n == Write(y, a + 3 + Len(k), v)
            l == Len(k)
            z == Len(v)
            size == ItemSize(k, v)
<1>1. /\ k \in Seq(Byte) /\ l \in 1 .. 255 /\ l \in Byte
      /\ v \in Seq(Byte) /\ z \in Nat /\ z > 0
      /\ size \in Nat /\ size <= EndTag /\ size = 3 + l + z
  BY ItemSizeIsSmall DEF EndTag
<1>2. n = WriteItem(s, a, k, v)
  BY DEF WriteItem
<1>. HIDE DEF size
<1>3. /\ x \in Call /\ SameOutside(s.mem, x.mem, a, a + 3)
      /\ a <= MemSize - 2 => FullLength(x.mem, a) = size
      /\ a <= MemSize - 3 => KeyLength(x.mem, a) = l
  <2>. HIDE DEF l
  <2>. QED
    BY <1>1, WriteHeaderDoes DEF size, l
<1>. HIDE DEF x
<1>4. y \in Call /\ SameOutside(x.mem, y.mem, a + 3, a + 3 + l)
  <2>. DEFINE b == a + 3
  <2>1. b \in Int
    OBVIOUS
  <2>. HIDE DEF b
  <2>2. LET w == Write(x, b, k)
        IN  w \in Call /\ SameOutside(x.mem, w.mem, b, b + Len(k))
    BY <1>1, <1>3, <2>1, WriteDoes
  <2>. QED
    BY <2>2 DEF b
<1>. HIDE DEF y
<1>5. n \in Call /\ SameOutside(y.mem, n.mem, a + 3 + l, a + 3 + l + z)
  <2>. DEFINE b == a + 3 + Len(k)
  <2>1. b \in Int
    BY <1>1
  <2>. HIDE DEF b
  <2>2. LET w == Write(y, b, v)
        IN  w \in Call /\ SameOutside(y.mem, w.mem, b, b + Len(v))
    BY <1>1, <1>4, <2>1, WriteDoes
  <2>. QED
    BY <2>2 DEF b
<1>. HIDE DEF n, l, z
<1>6. SameOutside(x.mem, n.mem, a + 3, a + size)
  <2>1. a + 3 <= a + 3 + l /\ a + 3 + l <= a + size /\ a + 3 + l + z <= a + size
    BY <1>1
  <2>. DEFINE b == a + 3
              c == a + 3 + l
              d == a + size
  <2>2. b \in Int /\ c \in Int /\ d \in Int /\ b <= c /\ c <= d /\ a + 3 + l + z = d
    BY <1>1
  <2>. HIDE DEF b, c, d
  <2>3. SameOutside(x.mem, y.mem, b, c) /\ SameOutside(y.mem, n.mem, c, d)
    BY <1>4, <1>5, <2>2 DEF b, c
  <2>4. SameOutside(x.mem, n.mem, b, d)
    BY <2>2, <2>3, SameOutsideTwice
  <2>. QED
    BY <2>4 DEF b, d
<1>7. SameOutside(s.mem, n.mem, a, a + size)
  <2>. DEFINE b == a + 3
              d == a + size
  <2>1. b \in Int /\ d \in Int /\ a <= b /\ b <= d
    BY <1>1
  <2>2. SameOutside(s.mem, x.mem, a, b) /\ SameOutside(x.mem, n.mem, b, d)
    BY <1>3, <1>6
  <2>. HIDE DEF b, d
  <2>3. SameOutside(s.mem, n.mem, a, d)
    BY <2>1, <2>2, SameOutsideTwice
  <2>. QED
    BY <2>3 DEF d
<1>8. ASSUME a <= MemSize - 2
      PROVE  FullLength(n.mem, a) = size
  <2>1. a \in 0 .. MemSize - 1 /\ a + 1 \in 0 .. MemSize - 1 /\ a < a + 3 /\ a + 1 < a + 3
    BY <1>8, Sizes
  <2>2. n.mem[a] = x.mem[a] /\ n.mem[a + 1] = x.mem[a + 1]
    BY <1>6, <2>1 DEF SameOutside
  <2>. QED
    BY <1>3, <1>8, <2>2 DEF FullLength
<1>9. ASSUME a <= MemSize - 3
      PROVE  KeyLength(n.mem, a) = l
  <2>1. a + 2 \in 0 .. MemSize - 1 /\ a + 2 < a + 3
    BY <1>9, Sizes
  <2>2. n.mem[a + 2] = x.mem[a + 2]
    BY <1>6, <2>1 DEF SameOutside
  <2>. QED
    BY <1>3, <1>9, <2>2 DEF KeyLength
<1>. QED
  BY <1>2, <1>5, <1>7, <1>8, <1>9 DEF size, l

-----------------------------------------------------------------------------
(* Moving                                                                    *)

\* The memory r is m with the n bytes at from moved to lower addresses.
Moved(m, r, from, to, n) ==
  \A x \in 0 .. MemSize - 1 :
    r[x] = IF to <= x /\ x < to + n THEN m[x + (from - to)] ELSE m[x]

LEMMA BytesDoes ==
  ASSUME NEW m \in Memory, NEW a \in Nat, NEW n \in Nat, a + n <= Accessible
  PROVE  /\ Bytes(m, a, n) \in Seq(Byte)
         /\ Len(Bytes(m, a, n)) = n
         /\ \A i \in 1 .. n : Bytes(m, a, n)[i] = m[a + i - 1]
<1>1. \A i \in 1 .. n : a + i - 1 < Accessible /\ a + i - 1 \in 0 .. MemSize - 1
  BY Sizes
<1>2. \A i \in 1 .. n : Bytes(m, a, n)[i] = m[a + i - 1]
  BY <1>1 DEF Bytes
<1>3. \A x \in 0 .. MemSize - 1 : m[x] \in Byte
  BY DEF Memory
<1>4. Bytes(m, a, n) \in [1 .. n -> Byte]
  BY <1>1, <1>3 DEF Bytes
<1>5. Bytes(m, a, n) \in Seq(Byte)
  BY <1>4, SeqDef
<1>6. Len(Bytes(m, a, n)) = n
  BY <1>4, <1>5, LenProperties
<1>. QED
  BY <1>2, <1>5, <1>6

LEMMA MinOfTwo ==
  ASSUME NEW a \in Nat, NEW b \in Nat
  PROVE  Min({a, b}) = IF a <= b THEN a ELSE b
<1>1. CASE a <= b
  <2>1. a \in {a, b} /\ \A y \in {a, b} : a <= y
    BY <1>1
  <2>2. \A x \in {a, b} : (\A y \in {a, b} : x <= y) => x = a
    BY <1>1
  <2>. QED
    BY <1>1, <2>1, <2>2 DEF Min
<1>2. CASE ~(a <= b)
  <2>1. b \in {a, b} /\ \A y \in {a, b} : b <= y
    BY <1>2
  <2>2. \A x \in {a, b} : (\A y \in {a, b} : x <= y) => x = b
    BY <1>2
  <2>. QED
    BY <1>2, <2>1, <2>2 DEF Min
<1>. QED
  BY <1>1, <1>2

LEMMA ChunkDoes ==
  ASSUME NEW m, NEW x, NEW from \in Nat, NEW to \in Nat, NEW n \in Nat,
         to < from, from + n <= Accessible,
         x.call \in Call, x.moved \in Nat, x.moved < n,
         Moved(m, x.call.mem, from, to, x.moved)
  PROVE  LET y == MoveChunk(x, from, to, n)
         IN  /\ y.call \in Call
             /\ y.moved \in Nat /\ x.moved < y.moved /\ y.moved <= n
             /\ Moved(m, y.call.mem, from, to, y.moved)
<1>. DEFINE y == MoveChunk(x, from, to, n)
            old == x.call.mem
            d == x.moved
            moving == Min({n - d, ChunkSize})
            bytes == Bytes(old, from + d, moving)
            at == to + d
<1>1. d \in Nat /\ d < n /\ n - d \in Nat /\ ChunkSize \in Nat /\ ChunkSize > 0
  BY Sizes
<1>2. old \in Memory
  BY DEF Call
<1>3. moving \in Nat /\ moving > 0 /\ moving <= n - d
  <2>. DEFINE left == n - d
  <2>1. left \in Nat /\ left > 0
    BY <1>1
  <2>. HIDE DEF left
  <2>2. Min({left, ChunkSize}) = IF left <= ChunkSize THEN left ELSE ChunkSize
    BY <1>1, <2>1, MinOfTwo
  <2>3. Min({left, ChunkSize}) \in Nat /\ Min({left, ChunkSize}) > 0 /\ Min({left, ChunkSize}) <= left
    BY <1>1, <2>1, <2>2
  <2>. QED
    BY <2>3 DEF left
<1>4. y.call = Write(x.call, at, bytes) /\ y.moved = d + moving
  BY DEF MoveChunk
<1>. HIDE DEF moving
<1>5. /\ bytes \in Seq(Byte) /\ Len(bytes) = moving
      /\ \A i \in 1 .. moving : bytes[i] = old[from + d + i - 1]
  <2>. DEFINE a == from + d
  <2>1. a \in Nat /\ a + moving <= Accessible
    BY <1>1, <1>3, Sizes
  <2>. HIDE DEF a, old
  <2>2. LET b == Bytes(old, a, moving)
        IN  b \in Seq(Byte) /\ Len(b) = moving /\ \A i \in 1 .. moving : b[i] = old[a + i - 1]
    BY <1>2, <1>3, <2>1, BytesDoes
  <2>. QED
    BY <2>2 DEF a
<1>. HIDE DEF bytes, y
<1>6. /\ y.call \in Call
      /\ SameOutside(old, y.call.mem, at, at + moving)
      /\ \A i \in 1 .. moving :
           at + i - 1 \in 0 .. MemSize - 1 => y.call.mem[at + i - 1] = bytes[i]
  <2>1. at \in Int
    BY <1>1
  <2>. HIDE DEF at
  <2>2. LET w == Write(x.call, at, bytes)
        IN  /\ w \in Call /\ SameOutside(x.call.mem, w.mem, at, at + Len(bytes))
            /\ \A i \in 1 .. Len(bytes) :
                 at + i - 1 \in 0 .. MemSize - 1 => w.mem[at + i - 1] = bytes[i]
    BY <1>5, <2>1, WriteDoes
  <2>. QED
    BY <1>4, <1>5, <2>2
<1>7. y.moved \in Nat /\ d < y.moved /\ y.moved <= n
  BY <1>1, <1>3, <1>4
<1>8. ASSUME NEW z \in 0 .. MemSize - 1
      PROVE  y.call.mem[z] = IF to <= z /\ z < to + y.moved THEN m[z + (from - to)] ELSE m[z]
  <2>. DEFINE new == y.call.mem
  <2>0. /\ \A u \in 0 .. MemSize - 1 :
             old[u] = IF to <= u /\ u < to + d THEN m[u + (from - to)] ELSE m[u]
        /\ y.moved = d + moving
        /\ \A u \in 0 .. MemSize - 1 : u < at \/ at + moving <= u => new[u] = old[u]
        /\ \A i \in 1 .. moving : at + i - 1 \in 0 .. MemSize - 1 => new[at + i - 1] = bytes[i]
    BY <1>4, <1>6 DEF Moved, SameOutside
  <2>. HIDE DEF new, old, d
  <2>1. CASE z < at
    <3>1. z < to + y.moved
      BY <1>1, <1>3, <2>0, <2>1
    <3>2. new[z] = old[z]
      BY <2>0, <2>1
    <3>3. z < to + d
      BY <2>1
    <3>. QED
      BY <2>0, <3>1, <3>2, <3>3 DEF new
  <2>2. CASE at + moving <= z
    <3>1. ~(z < to + y.moved) /\ ~(z < to + d)
      BY <1>1, <1>3, <2>0, <2>2
    <3>2. new[z] = old[z]
      BY <2>0, <2>2
    <3>. QED
      BY <2>0, <3>1, <3>2 DEF new
  <2>3. CASE at <= z /\ z < at + moving
    <3>. DEFINE i == z - at + 1
    <3>1. i \in 1 .. moving /\ at + i - 1 = z
      BY <1>1, <1>3, <2>3
    <3>2. new[z] = bytes[i]
      <4>. HIDE DEF i
      <4>. QED
        BY <2>0, <3>1
    <3>3. bytes[i] = old[from + d + i - 1]
      <4>. HIDE DEF i
      <4>. QED
        BY <1>5, <3>1
    <3>4. /\ from + d + i - 1 = z + (from - to)
          /\ z + (from - to) \in 0 .. MemSize - 1
          /\ ~(z + (from - to) < to + d)
      BY <1>1, <1>3, <2>3, Sizes
    <3>. DEFINE u == z + (from - to)
    <3>5. old[u] = m[u]
      <4>. HIDE DEF u
      <4>. QED
        BY <2>0, <3>4 DEF u
    <3>6. to <= z /\ z < to + y.moved
      BY <1>1, <1>3, <2>0, <2>3
    <3>7. new[z] = m[z + (from - to)]
      <4>1. new[z] = old[from + d + i - 1]
        BY <3>2, <3>3
      <4>2. old[from + d + i - 1] = old[z + (from - to)]
        <5>. HIDE DEF i
        <5>. QED
          BY <3>4
      <4>. QED
        BY <3>5, <4>1, <4>2
    <3>. QED
      BY <3>6, <3>7 DEF new
  <2>. QED
    BY <1>1, <1>3, <2>1, <2>2, <2>3
<1>. QED
  BY <1>6, <1>7, <1>8 DEF y, Moved

\* The table of the chunks in MoveMemory, as far as the one numbered last.
AreChunks(f, s, from, to, n, last) ==
  f = [i \in 0 .. last |->
         IF i = 0 THEN [call |-> s, moved |-> 0]
         ELSE LET x == f[i - 1]
              IN  IF x.moved = n THEN x ELSE MoveChunk(x, from, to, n)]

LEMMA ChunksExist ==
  ASSUME NEW s, NEW from, NEW to, NEW n
  PROVE  \A last \in Nat : \E f : AreChunks(f, s, from, to, n, last)
<1>. DEFINE row(f, i) == IF i = 0 THEN [call |-> s, moved |-> 0]
                         ELSE LET x == f[i - 1]
                              IN  IF x.moved = n THEN x ELSE MoveChunk(x, from, to, n)
            S == {last \in Nat : \E f : f = [i \in 0 .. last |-> row(f, i)]}
<1>1. 0 \in S
  <2>. DEFINE f == [i \in 0 .. 0 |-> [call |-> s, moved |-> 0]]
  <2>1. f = [i \in 0 .. 0 |-> row(f, i)]
    OBVIOUS
  <2>. QED
    BY <2>1
<1>2. ASSUME NEW last \in S
      PROVE  last + 1 \in S
  <2>1. PICK f : f = [i \in 0 .. last |-> row(f, i)]
    OBVIOUS
  <2>. DEFINE g == [i \in 0 .. last + 1 |-> row(f, i)]
  <2>2. ASSUME NEW i \in 0 .. last + 1
        PROVE  row(g, i) = row(f, i)
    <3>1. CASE i = 0
      BY <3>1
    <3>2. CASE i # 0
      <4>1. i - 1 \in 0 .. last
        BY <3>2
      <4>. HIDE DEF row
      <4>2. g[i - 1] = f[i - 1]
        BY <2>1, <4>1
      <4>. HIDE DEF g
      <4>. QED
        BY <4>2 DEF row
    <3>. QED
      BY <3>1, <3>2
  <2>3. g = [i \in 0 .. last + 1 |-> row(g, i)]
    <3>. HIDE DEF row
    <3>. QED
      BY <2>2
  <2>. HIDE DEF g, row
  <2>. QED
    BY <2>3
<1>3. S = Nat
  <2>. HIDE DEF S
  <2>1. S \in SUBSET Nat
    BY DEF S
  <2>. QED
    BY <1>1, <1>2, <2>1, Induction
<1>4. \A last \in Nat : \E f : f = [i \in 0 .. last |-> row(f, i)]
  <2>. HIDE DEF row
  <2>. QED
    BY <1>3
<1>. QED
  BY <1>4 DEF AreChunks

LEMMA MoveIsChunks ==
  ASSUME NEW s, NEW from, NEW to, NEW n \in Nat
  PROVE  \E c : /\ c[0] = [call |-> s, moved |-> 0]
                /\ \A i \in 1 .. n : c[i] = IF c[i - 1].moved = n THEN c[i - 1]
                                            ELSE MoveChunk(c[i - 1], from, to, n)
                /\ MoveMemory(s, from, to, n) = c[n].call
<1>. DEFINE row(f, i) == IF i = 0 THEN [call |-> s, moved |-> 0]
                         ELSE LET x == f[i - 1]
                              IN  IF x.moved = n THEN x ELSE MoveChunk(x, from, to, n)
            c == CHOOSE f : AreChunks(f, s, from, to, n, n)
<1>1. \E f : AreChunks(f, s, from, to, n, n)
  BY ChunksExist
<1>2. c = [i \in 0 .. n |-> row(c, i)]
  <2>1. AreChunks(c, s, from, to, n, n)
    BY <1>1
  <2>. HIDE DEF c
  <2>. QED
    BY <2>1 DEF AreChunks
<1>3. MoveMemory(s, from, to, n) = c[n].call
  BY DEF MoveMemory, AreChunks
<1>4. \A i \in 0 .. n : c[i] = row(c, i)
  <2>. HIDE DEF row, c
  <2>. QED
    BY <1>2
<1>5. 0 \in 0 .. n /\ \A i \in 1 .. n : i \in 0 .. n /\ i # 0
  OBVIOUS
<1>. HIDE DEF c
<1>6. c[0] = [call |-> s, moved |-> 0]
  BY <1>4, <1>5
<1>7. \A i \in 1 .. n : c[i] = IF c[i - 1].moved = n THEN c[i - 1]
                               ELSE MoveChunk(c[i - 1], from, to, n)
  BY <1>4, <1>5
<1>. QED
  BY <1>3, <1>6, <1>7

\* kveStorageMoveMemory, although source and destination overlap.
LEMMA MoveDoes ==
  ASSUME NEW s \in Call, NEW from \in Nat, NEW to \in Nat, NEW n \in Nat,
         to < from, from + n <= Accessible
  PROVE  /\ MoveMemory(s, from, to, n) \in Call
         /\ Moved(s.mem, MoveMemory(s, from, to, n).mem, from, to, n)
<1>1. PICK c : /\ c[0] = [call |-> s, moved |-> 0]
               /\ \A i \in 1 .. n : c[i] = IF c[i - 1].moved = n THEN c[i - 1]
                                           ELSE MoveChunk(c[i - 1], from, to, n)
               /\ MoveMemory(s, from, to, n) = c[n].call
  BY MoveIsChunks
<1>. DEFINE good(i) == /\ c[i].call \in Call
                       /\ c[i].moved \in Nat /\ c[i].moved <= n
                       /\ c[i].moved = n \/ c[i].moved >= i
                       /\ Moved(s.mem, c[i].call.mem, from, to, c[i].moved)
            S == {i \in Nat : i <= n => good(i)}
<1>2. good(0)
  <2>1. c[0].call = s /\ c[0].moved = 0
    BY <1>1
  <2>2. Moved(s.mem, s.mem, from, to, 0)
    BY Sizes DEF Moved
  <2>. QED
    BY <2>1, <2>2
<1>3. ASSUME NEW i \in Nat, i + 1 <= n, good(i)
      PROVE  good(i + 1)
  <2>. DEFINE x == c[i]
              y == c[i + 1]
  <2>1. y = IF x.moved = n THEN x ELSE MoveChunk(x, from, to, n)
    <3>1. i + 1 \in 1 .. n /\ (i + 1) - 1 = i
      BY <1>3
    <3>. QED
      BY <1>1, <3>1
  <2>2. CASE x.moved = n
    BY <1>3, <2>1, <2>2
  <2>3. CASE x.moved # n
    <3>1. /\ x.call \in Call /\ x.moved \in Nat /\ x.moved < n /\ x.moved >= i
          /\ Moved(s.mem, x.call.mem, from, to, x.moved)
      BY <1>3, <2>3
    <3>. HIDE DEF x
    <3>2. LET z == MoveChunk(x, from, to, n)
          IN  /\ z.call \in Call
              /\ z.moved \in Nat /\ x.moved < z.moved /\ z.moved <= n
              /\ Moved(s.mem, z.call.mem, from, to, z.moved)
      BY <3>1, ChunkDoes
    <3>. QED
      BY <2>1, <2>3, <3>1, <3>2
  <2>. QED
    BY <2>2, <2>3
<1>4. n \in S
  <2>1. 0 \in S
    BY <1>2
  <2>2. \A i \in S : i + 1 \in S
    <3>1. SUFFICES ASSUME NEW i \in S, i + 1 <= n
                   PROVE  good(i + 1)
      OBVIOUS
    <3>2. i \in Nat /\ good(i)
      <4>. HIDE DEF good
      <4>. QED
        BY <3>1
    <3>. HIDE DEF good
    <3>. QED
      BY <1>3, <3>1, <3>2
  <2>. HIDE DEF S
  <2>3. S \in SUBSET Nat
    BY DEF S
  <2>. QED
    BY <2>1, <2>2, <2>3, Induction
<1>5. good(n)
  <2>. HIDE DEF good
  <2>. QED
    BY <1>4
<1>6. c[n].moved = n
  BY <1>5
<1>. QED
  BY <1>1, <1>5, <1>6

-----------------------------------------------------------------------------
(* What the searches find                                                    *)

LEMMA MinIsLeast ==
  ASSUME NEW S \in SUBSET Nat, S # {}
  PROVE  Min(S) \in S /\ Min(S) \in Nat /\ \A y \in S : Min(S) <= y
<1>. DEFINE less == OpToRel(<, Nat)
<1>1. \A k, n \in Nat : k < n => <<k, n>> \in less
  BY DEF OpToRel
<1>2. PICK n \in S : \A k \in S : <<k, n>> \notin less
  <2>. HIDE DEF less
  <2>1. IsWellFoundedOn(less, Nat)
    BY NatLessThanWellFounded DEF less
  <2>. QED
    BY <2>1, WFMin
<1>. HIDE DEF less
<1>3. ASSUME NEW y \in S
      PROVE  n <= y
  <2>1. y \in Nat /\ n \in Nat
    OBVIOUS
  <2>2. <<y, n>> \notin less
    BY <1>2
  <2>3. ~(y < n)
    BY <1>1, <2>1, <2>2
  <2>. QED
    BY <2>1, <2>3
<1>4. Min(S) \in S /\ \A y \in S : Min(S) <= y
  BY <1>2, <1>3 DEF Min
<1>. QED
  BY <1>4

LEMMA FirstIsLeast ==
  ASSUME NEW S \in SUBSET Nat
  PROVE  /\ First(S) = Invalid => S = {}
         /\ S = {} => First(S) = Invalid
         /\ S # {} => /\ First(S) \in S /\ First(S) \in Nat
                      /\ \A y \in S : First(S) <= y
<1>1. CASE S = {}
  BY <1>1 DEF First
<1>2. CASE S # {}
  <2>1. First(S) = Min(S)
    BY <1>2 DEF First
  <2>2. First(S) \in S /\ First(S) \in Nat /\ \A y \in S : First(S) <= y
    BY <1>2, <2>1, MinIsLeast
  <2>3. First(S) # Invalid
    BY <2>2 DEF Invalid
  <2>. QED
    BY <1>2, <2>2, <2>3
<1>. QED
  BY <1>1, <1>2

\* A table whose end tag can be read, with the header after it.
Good(m, A, e) == Table(m, A, e) /\ e + 3 <= Accessible

LEMMA GoodFacts ==
  ASSUME NEW m \in Memory, NEW A, NEW e, Table(m, A, e)
  PROVE  /\ A \in SUBSET Nat /\ e \in Nat /\ e <= MemSize - 3 /\ IsEnd(m, e)
         /\ FirstItem \in A \cup {e} /\ FirstItem <= e /\ e \notin A
         /\ MemSize - 2 \in Nat /\ MemSize - 3 \in Nat /\ MemSize - 3 < MemSize - 2
         /\ Entries(m, A, FirstItem, e)
         /\ \A x \in A : /\ x \in Nat /\ FirstItem <= x /\ x < e /\ x < MemSize - 3 /\ ~IsEnd(m, x)
                         /\ FullLength(m, x) \in Nat /\ FullLength(m, x) >= 4
                         /\ FullLength(m, x) < EndTag
                         /\ x + FullLength(m, x) \in A \cup {e}
                         /\ x + FullLength(m, x) <= e
<1>1. Entries(m, A, FirstItem, e) /\ e <= MemSize - 3 /\ IsEnd(m, e)
  BY DEF Table
<1>2. A \in SUBSET Nat /\ e \in Nat /\ FirstItem \in A \cup {e} /\ FirstItem <= e
      /\ \A x \in A : FirstItem <= x /\ x < e
  BY <1>1 DEF Entries
<1>3. ASSUME NEW x \in A
      PROVE  /\ x < MemSize - 3 /\ ~IsEnd(m, x)
             /\ FullLength(m, x) \in Nat /\ FullLength(m, x) >= 4
             /\ FullLength(m, x) < EndTag
             /\ x + FullLength(m, x) \in A \cup {e}
             /\ x + FullLength(m, x) <= e
  <2>1. /\ x \in Nat /\ x < e /\ ~IsEnd(m, x) /\ FullLength(m, x) \in Nat
        /\ FullLength(m, x) >= 4
        /\ x + FullLength(m, x) \in A \cup {e} /\ x + FullLength(m, x) <= e
    BY <1>1, ItemsAreNotEnds
  <2>2. x < MemSize - 3 /\ FullLength(m, x) < EndTag
    BY <1>1, <1>2, <2>1, Sizes DEF EndTag
  <2>. QED
    BY <2>1, <2>2
<1>4. e \notin A
  BY <1>2
<1>5. MemSize - 2 \in Nat /\ MemSize - 3 \in Nat /\ MemSize - 3 < MemSize - 2
  BY Sizes
<1>. QED
  BY <1>1, <1>2, <1>3, <1>4, <1>5

LEMMA FindEndDoes ==
  ASSUME NEW m \in Memory, NEW A, NEW e, Good(m, A, e), NEW a \in A \cup {e}
  PROVE  FindEnd(m, a) = e
<1>1. Table(m, A, e) /\ e + 3 <= Accessible
  BY DEF Good
<1>2. PastItems(m, a) = e /\ Visited(m, a, MemSize - 2) = {x \in A : a <= x /\ x < MemSize - 2}
  BY <1>1, GoodFacts, SearchFollowsTable
<1>3. IsTag(m, e)
  BY <1>1, GoodFacts, Sizes DEF IsTag
<1>4. \A i \in Visited(m, a, MemSize - 2) : FullLength(m, i) >= 4
  BY <1>1, <1>2, GoodFacts
<1>. QED
  BY <1>2, <1>3, <1>4 DEF FindEnd

LEMMA FindEndFinds ==
  ASSUME NEW m \in Memory, FindEnd(m, FirstItem) # Invalid
  PROVE  Good(m, Visited(m, FirstItem, MemSize - 2), PastItems(m, FirstItem))
<1>. DEFINE e == PastItems(m, FirstItem)
<1>1. /\ IsTag(m, e)
      /\ \A i \in Visited(m, FirstItem, MemSize - 2) : FullLength(m, i) >= 4
  BY DEF FindEnd
<1>2. e < MemSize - 2 /\ e + 3 <= Accessible /\ IsEnd(m, e)
  BY <1>1 DEF IsTag
<1>3. FirstItem \in Nat
  BY DEF FirstItem
<1>4. Entries(m, Visited(m, FirstItem, MemSize - 2), FirstItem, e)
  BY <1>1, <1>2, <1>3, SearchFindsTable
<1>5. e \in Nat
  BY <1>4 DEF Entries
<1>6. e <= MemSize - 3
  BY <1>2, <1>5, Sizes
<1>. QED
  BY <1>2, <1>4, <1>6 DEF Good, Table

LEMMA FindHoleDoes ==
  ASSUME NEW m \in Memory, NEW A, NEW e, Good(m, A, e), NEW a \in A \cup {e}
  PROVE  LET h == FindHole(m, a)
         IN  /\ h # Invalid => /\ h \in A \cup {e} /\ h \in Nat /\ a <= h
                               /\ KeyLength(m, h) = 0
                               /\ \A x \in A : a <= x /\ x < h => KeyLength(m, x) # 0
             /\ h = Invalid => \A x \in A : a <= x => KeyLength(m, x) # 0
<1>. DEFINE S == {i \in Visited(m, a, MemSize - 2) \cup {e} : KeyLength(m, i) = 0}
            h == FindHole(m, a)
<1>1. Table(m, A, e) /\ e + 3 <= Accessible
  BY DEF Good
<1>2. PastItems(m, a) = e /\ Visited(m, a, MemSize - 2) = {x \in A : a <= x /\ x < MemSize - 2}
  BY <1>1, GoodFacts, SearchFollowsTable
<1>3. IsTag(m, e)
  BY <1>1, GoodFacts, Sizes DEF IsTag
<1>4. h = First(S)
  BY <1>2, <1>3 DEF FindHole
<1>5. Visited(m, a, MemSize - 2) = {x \in A : a <= x}
  <2>1. \A x \in A : x < MemSize - 2
    BY <1>1, GoodFacts
  <2>. QED
    BY <1>2, <2>1
<1>6. \A x : x \in S <=> /\ (x \in A /\ a <= x) \/ x = e
                         /\ KeyLength(m, x) = 0
  BY <1>5
<1>7. A \in SUBSET Nat /\ e \in Nat /\ a \in Nat /\ a <= e /\ \A x \in A : x < e
  BY <1>1, GoodFacts
<1>8. S \in SUBSET Nat
  BY <1>6, <1>7
<1>. HIDE DEF S, h
<1>9. CASE h = Invalid
  <2>1. S = {}
    BY <1>4, <1>8, <1>9, FirstIsLeast
  <2>. QED
    BY <1>6, <1>9, <2>1 DEF h
<1>10. CASE h # Invalid
  <2>1. h \in S /\ h \in Nat /\ \A y \in S : h <= y
    BY <1>4, <1>8, <1>10, FirstIsLeast
  <2>2. h \in A \cup {e} /\ a <= h /\ KeyLength(m, h) = 0
    BY <1>6, <1>7, <2>1
  <2>3. ASSUME NEW x \in A, a <= x, x < h
        PROVE  KeyLength(m, x) # 0
    <3>1. x \notin S
      BY <1>7, <2>1, <2>3
    <3>. QED
      BY <1>6, <2>3, <3>1
  <2>. QED
    BY <1>10, <2>1, <2>2, <2>3 DEF h
<1>. QED
  BY <1>9, <1>10

LEMMA FindNextItemDoes ==
  ASSUME NEW m \in Memory, NEW A, NEW e, Table(m, A, e), NEW a \in A \cup {e}
  PROVE  LET i == FindNextItem(m, a)
         IN  /\ i # Invalid => /\ a \in A /\ i \in A /\ i \in Nat
                               /\ a + FullLength(m, a) <= i
                               /\ KeyLength(m, i) # 0
                               /\ \A x \in A : a < x /\ x < i => KeyLength(m, x) = 0
             /\ i = Invalid => \A x \in A : a < x => KeyLength(m, x) = 0
<1>. DEFINE c == a + FullLength(m, a)
            S == {i \in Visited(m, c, MemSize - 3) : KeyLength(m, i) # 0}
            h == FindNextItem(m, a)
<1>1. CASE a = e
  <2>1. h = Invalid
    BY <1>1, GoodFacts DEF FindNextItem
  <2>2. \A x \in A : ~(a < x)
    BY <1>1, GoodFacts
  <2>. QED
    BY <2>1, <2>2
<1>2. CASE a \in A
  <2>1. /\ ~IsEnd(m, a) /\ c \in A \cup {e} /\ FullLength(m, a) \in Nat /\ FullLength(m, a) >= 4
        /\ A \in SUBSET Nat /\ a \in Nat /\ e \in Nat /\ c \in Nat
    BY <1>2, GoodFacts
  <2>2. h = First(S)
    BY <2>1 DEF FindNextItem
  <2>3. Visited(m, c, MemSize - 3) = {x \in A : c <= x /\ x < MemSize - 3}
    <3>. HIDE DEF c
    <3>. QED
      BY <2>1, GoodFacts, SearchFollowsTable
  <2>4. \A x : x \in S <=> x \in A /\ c <= x /\ KeyLength(m, x) # 0
    BY <2>3, GoodFacts
  <2>5. \A x \in A : a < x => c <= x
    BY <1>2, <2>1 DEF Table, Entries
  <2>6. S \in SUBSET Nat
    BY <2>1, <2>4
  <2>. HIDE DEF S, h
  <2>7. CASE h = Invalid
    <3>1. S = {}
      BY <2>2, <2>6, <2>7, FirstIsLeast
    <3>. QED
      BY <2>4, <2>5, <2>7, <3>1 DEF h
  <2>8. CASE h # Invalid
    <3>1. h \in S /\ h \in Nat /\ \A y \in S : h <= y
      BY <2>2, <2>6, <2>8, FirstIsLeast
    <3>2. h \in A /\ c <= h /\ KeyLength(m, h) # 0
      BY <2>4, <3>1
    <3>3. ASSUME NEW x \in A, a < x, x < h
          PROVE  KeyLength(m, x) = 0
      <4>1. x \notin S
        BY <2>1, <3>1, <3>3
      <4>. QED
        BY <2>4, <2>5, <3>3, <4>1
    <3>. QED
      BY <1>2, <2>8, <3>1, <3>2, <3>3 DEF h
  <2>. QED
    BY <2>7, <2>8
<1>. QED
  BY <1>1, <1>2

-----------------------------------------------------------------------------
(* Defragmentation                                                           *)

\* From a to b the two memories are the same.
SameInside(m, n, a, b) ==
  \A x \in 0 .. MemSize - 1 : a <= x /\ x < b => n[x] = m[x]

LEMMA OutsideInside ==
  ASSUME NEW m, NEW n, NEW a \in Int, NEW b \in Int, SameOutside(m, n, a, b),
         NEW c \in Int, NEW d \in Int, d <= a \/ b <= c
  PROVE  SameInside(m, n, c, d)
  BY Sizes DEF SameOutside, SameInside

LEMMA SameLength ==
  ASSUME NEW m \in Memory, NEW n, NEW a \in Nat, NEW b \in Nat, NEW x \in Nat,
         SameInside(m, n, a, b), a <= x, x + 2 <= b, x <= MemSize - 2
  PROVE  FullLength(n, x) = FullLength(m, x)
<1>1. x \in 0 .. MemSize - 1 /\ x + 1 \in 0 .. MemSize - 1 /\ x < b /\ x + 1 < b /\ a <= x + 1
  BY Sizes
<1>2. n[x] = m[x] /\ n[x + 1] = m[x + 1]
  BY <1>1 DEF SameInside
<1>. QED
  BY <1>2 DEF FullLength

LEMMA SameKeyLength ==
  ASSUME NEW m \in Memory, NEW n, NEW a \in Nat, NEW b \in Nat, NEW x \in Nat,
         SameInside(m, n, a, b), a <= x, x + 3 <= b, x <= MemSize - 3
  PROVE  KeyLength(n, x) = KeyLength(m, x)
<1>1. x + 2 \in 0 .. MemSize - 1 /\ x + 2 < b /\ a <= x + 2
  BY Sizes
<1>2. n[x + 2] = m[x + 2]
  BY <1>1 DEF SameInside
<1>. QED
  BY <1>2 DEF KeyLength

LEMMA EntriesFacts ==
  ASSUME NEW m, NEW A, NEW a, NEW b, Entries(m, A, a, b)
  PROVE  /\ A \in SUBSET Nat /\ a \in Nat /\ b \in Nat /\ a <= b /\ a \in A \cup {b}
         /\ \A x \in A : /\ x \in Nat /\ a <= x /\ x < b
                         /\ FullLength(m, x) \in Nat /\ FullLength(m, x) >= 4
                         /\ x + FullLength(m, x) \in A \cup {b}
                         /\ x + FullLength(m, x) <= b
                         /\ x + 4 <= b
<1>1. /\ A \in SUBSET Nat /\ a \in Nat /\ b \in Nat /\ a <= b /\ a \in A \cup {b}
      /\ \A x \in A : /\ a <= x /\ x < b
                      /\ FullLength(m, x) \in Nat /\ FullLength(m, x) >= 4
                      /\ x + FullLength(m, x) \in A \cup {b}
                      /\ x + FullLength(m, x) <= b
  BY DEF Entries
<1>2. \A x \in A : x \in Nat /\ x + 4 <= b
  BY <1>1
<1>. QED
  BY <1>1, <1>2

LEMMA KeepEntries ==
  ASSUME NEW m \in Memory, NEW n, NEW A, NEW a, NEW b, Entries(m, A, a, b),
         b <= MemSize - 1, SameInside(m, n, a, b)
  PROVE  Entries(n, A, a, b)
<1>1. ASSUME NEW x \in A
      PROVE  FullLength(n, x) = FullLength(m, x)
  <2>1. /\ x \in Nat /\ a \in Nat /\ b \in Nat /\ a <= x /\ x + 4 <= b
    BY EntriesFacts
  <2>2. x + 2 <= b /\ x <= MemSize - 2
    BY <2>1, Sizes
  <2>. QED
    BY <2>1, <2>2, SameLength
<1>. QED
  BY <1>1, SameEntries

\* Addresses d bytes lower.
Lower(A, d) == {x - d : x \in A}

\* From a - d to b - d the memory n has what m has from a to b.
Shifted(m, n, a, b, d) ==
  \A x \in 0 .. MemSize - 1 : a - d <= x /\ x < b - d => n[x] = m[x + d]

LEMMA ShiftedLength ==
  ASSUME NEW m \in Memory, NEW n, NEW a \in Nat, NEW b \in Nat, NEW d \in Nat, NEW x \in Nat,
         Shifted(m, n, a, b, d), d <= a, a <= x, x + 4 <= b, b <= MemSize
  PROVE  /\ FullLength(n, x - d) = FullLength(m, x)
         /\ KeyLength(n, x - d) = KeyLength(m, x)
<1>1. /\ x - d \in 0 .. MemSize - 1 /\ x - d + 1 \in 0 .. MemSize - 1 /\ x - d + 2 \in 0 .. MemSize - 1
      /\ a - d <= x - d /\ a - d <= x - d + 1 /\ a - d <= x - d + 2
      /\ x - d < b - d /\ x - d + 1 < b - d /\ x - d + 2 < b - d
      /\ x - d + d = x /\ x - d + 1 + d = x + 1 /\ x - d + 2 + d = x + 2
  BY Sizes
<1>2. /\ n[x - d] = m[x - d + d] /\ n[x - d + 1] = m[x - d + 1 + d]
      /\ n[x - d + 2] = m[x - d + 2 + d]
  <2>. DEFINE x0 == x - d
              x1 == x - d + 1
              x2 == x - d + 2
  <2>1. \A y \in {x0, x1, x2} : y \in 0 .. MemSize - 1 /\ a - d <= y /\ y < b - d
    BY <1>1
  <2>. HIDE DEF x0, x1, x2
  <2>2. \A y \in {x0, x1, x2} : n[y] = m[y + d]
    BY <2>1 DEF Shifted
  <2>. QED
    BY <2>2 DEF x0, x1, x2
<1>3. n[x - d] = m[x] /\ n[x - d + 1] = m[x + 1] /\ n[x - d + 2] = m[x + 2]
  BY <1>1, <1>2
<1>. QED
  BY <1>3 DEF FullLength, KeyLength

LEMMA ShiftEntries ==
  ASSUME NEW m \in Memory, NEW n, NEW A, NEW a, NEW b, NEW d \in Nat, Entries(m, A, a, b),
         d <= a, b <= MemSize, Shifted(m, n, a, b, d)
  PROVE  Entries(n, Lower(A, d), a - d, b - d)
<1>1. /\ A \in SUBSET Nat /\ a \in Nat /\ b \in Nat /\ a <= b /\ a \in A \cup {b}
  BY EntriesFacts
<1>2. ASSUME NEW x \in A
      PROVE  /\ x \in Nat /\ a <= x /\ x < b
             /\ FullLength(m, x) \in Nat /\ FullLength(m, x) >= 4
             /\ x + FullLength(m, x) \in A \cup {b}
             /\ FullLength(n, x - d) = FullLength(m, x)
             /\ \A y \in A \cup {b} : x < y => x + FullLength(m, x) <= y
  <2>1. /\ x \in Nat /\ a <= x /\ x < b /\ x + 4 <= b
        /\ FullLength(m, x) \in Nat /\ FullLength(m, x) >= 4
        /\ x + FullLength(m, x) \in A \cup {b}
    BY EntriesFacts
  <2>2. FullLength(n, x - d) = FullLength(m, x)
    BY <1>1, <2>1, ShiftedLength
  <2>3. \A y \in A \cup {b} : x < y => x + FullLength(m, x) <= y
    BY DEF Entries
  <2>. QED
    BY <2>1, <2>2, <2>3
<1>3. \A u \in Lower(A, d) : \E x \in A : u = x - d
  BY DEF Lower
<1>4. \A x \in A : x - d \in Lower(A, d)
  BY DEF Lower
<1>5. /\ Lower(A, d) \in SUBSET Nat
      /\ a - d \in Nat /\ b - d \in Nat /\ a - d <= b - d
      /\ a - d \in Lower(A, d) \cup {b - d}
  <2>1. \A x \in A : x - d \in Nat
    BY <1>1, <1>2
  <2>2. \A u \in Lower(A, d) : u \in Nat
    BY <1>3, <2>1
  <2>3. a - d \in Nat /\ b - d \in Nat /\ a - d <= b - d
    BY <1>1
  <2>4. a - d \in Lower(A, d) \cup {b - d}
    BY <1>1, <1>4
  <2>. QED
    BY <2>2, <2>3, <2>4
<1>6. ASSUME NEW u \in Lower(A, d)
      PROVE  /\ a - d <= u /\ u < b - d
             /\ FullLength(n, u) \in Nat /\ FullLength(n, u) >= 4
             /\ u + FullLength(n, u) \in Lower(A, d) \cup {b - d}
             /\ \A w \in Lower(A, d) \cup {b - d} : u < w => u + FullLength(n, u) <= w
  <2>1. PICK x \in A : u = x - d
    BY <1>3
  <2>2. PICK l \in Nat : l = FullLength(m, x)
    BY <1>2
  <2>3. FullLength(n, u) = l
    BY <1>2, <2>1, <2>2
  <2>4. x \in Nat /\ a <= x /\ x < b /\ l >= 4 /\ x + l \in A \cup {b}
        /\ \A y \in A \cup {b} : x < y => x + l <= y
    BY <1>2, <2>2
  <2>5. u + l = x + l - d /\ u + l \in Lower(A, d) \cup {b - d}
    <3>1. u + l = x + l - d
      BY <2>1, <2>4
    <3>. QED
      BY <1>4, <2>4, <3>1
  <2>6. ASSUME NEW w \in Lower(A, d) \cup {b - d}, u < w
        PROVE  u + l <= w
    <3>1. PICK y \in A \cup {b} : w = y - d
      BY <1>3
    <3>2. y \in Nat
      BY <1>1
    <3>3. x < y
      BY <2>1, <2>4, <2>6, <3>1, <3>2
    <3>4. x + l <= y
      BY <2>4, <3>3
    <3>. QED
      BY <2>1, <2>4, <3>1, <3>2, <3>4
  <2>7. a - d <= u /\ u < b - d
    BY <1>1, <2>1, <2>4
  <2>. QED
    BY <2>3, <2>4, <2>5, <2>6, <2>7
<1>. QED
  BY <1>5, <1>6 DEF Entries

\* The items after the gap from h to item has been moved behind those up to end.
Packed(A, h, item, end) ==
  ((Below(A, h) \cup Lower(Below(From(A, item), end), item - h))
     \cup {end - (item - h)})
    \cup From(A, end)

LEMMA CloseGap ==
  ASSUME NEW m \in Memory, NEW r, NEW A, NEW a, NEW e, Entries(m, A, a, e), e <= MemSize - 3,
         NEW h \in A, NEW item \in A, NEW end \in A \cup {e}, h < item, item < end,
         SameInside(m, r, a, h), SameInside(m, r, end, e),
         Shifted(m, r, item, end, item - h),
         FullLength(r, end - (item - h)) = item - h
  PROVE  Entries(r, Packed(A, h, item, end), a, e)
<1>. DEFINE d == item - h
            low == Below(A, h)
            mid == Below(From(A, item), end)
            high == From(A, end)
            hole == end - d
<1>1. /\ A \in SUBSET Nat /\ a \in Nat /\ e \in Nat
      /\ h \in Nat /\ item \in Nat /\ end \in Nat
      /\ a <= h /\ h + 4 <= item /\ end <= e
  <2>1. /\ A \in SUBSET Nat /\ a \in Nat /\ e \in Nat
        /\ h \in Nat /\ item \in Nat /\ a <= h /\ item < e
        /\ FullLength(m, h) \in Nat /\ FullLength(m, h) >= 4
        /\ end \in Nat /\ end <= e
    <3>1. /\ A \in SUBSET Nat /\ a \in Nat /\ e \in Nat
          /\ \A x \in A : /\ x \in Nat /\ a <= x /\ x < e
                          /\ FullLength(m, x) \in Nat /\ FullLength(m, x) >= 4
      BY EntriesFacts
    <3>2. end \in Nat /\ end <= e
      BY <3>1
    <3>. QED
      BY <3>1, <3>2
  <2>2. h + FullLength(m, h) <= item
    BY DEF Entries
  <2>3. h + 4 <= item
    BY <2>1, <2>2
  <2>. QED
    BY <2>1, <2>3
<1>2. d \in Nat /\ d >= 4 /\ d <= item /\ hole \in Nat /\ hole + d = end /\ item - d = h
      /\ hole = end - d /\ h < hole
  BY <1>1
<1>3. Entries(m, low, a, h) /\ Entries(m, From(A, h), h, e)
  BY SplitEntries
<1>4. Entries(m, From(A, item), item, e)
  BY SplitEntries
<1>5. Entries(m, mid, item, end)
  <2>1. end \in From(A, item) \cup {e}
    BY <1>1 DEF From
  <2>. QED
    BY <1>4, <2>1, SplitEntries
<1>6. Entries(m, high, end, e)
  BY SplitEntries
<1>. HIDE DEF low, mid, high
<1>7. Entries(r, low, a, h)
  <2>1. h <= MemSize - 1
    BY <1>1, Sizes
  <2>. QED
    BY <1>3, <2>1, KeepEntries
<1>8. Entries(r, high, end, e)
  <2>1. e <= MemSize - 1
    BY <1>1, Sizes
  <2>. QED
    BY <1>6, <2>1, KeepEntries
<1>9. Entries(r, Lower(mid, d), h, hole)
  <2>1. end <= MemSize
    BY <1>1, Sizes
  <2>2. Shifted(m, r, item, end, d)
    OBVIOUS
  <2>. HIDE DEF d
  <2>3. Entries(r, Lower(mid, d), item - d, end - d)
    BY <1>1, <1>2, <1>5, <2>1, <2>2, ShiftEntries
  <2>. QED
    BY <1>2, <2>3
<1>10. Entries(r, {hole}, hole, end)
  <2>1. FullLength(r, hole) = d
    OBVIOUS
  <2>. HIDE DEF d, hole
  <2>. QED
    BY <1>1, <1>2, <2>1, OneEntry
<1>11. Packed(A, h, item, end) = ((low \cup Lower(mid, d)) \cup {hole}) \cup high
  BY DEF Packed, low, mid, high
<1>. HIDE DEF d, hole
<1>12. Entries(r, low \cup Lower(mid, d), a, hole)
  BY <1>7, <1>9, JoinEntries
<1>13. Entries(r, (low \cup Lower(mid, d)) \cup {hole}, a, end)
  BY <1>10, <1>12, JoinEntries
<1>14. Entries(r, ((low \cup Lower(mid, d)) \cup {hole}) \cup high, a, e)
  BY <1>8, <1>13, JoinEntries
<1>. QED
  BY <1>11, <1>14

\* The end of the group of items that a round moves.
GroupEnd(m, item) ==
  IF FindHole(m, item) = Invalid THEN FindEnd(m, item) ELSE FindHole(m, item)

\* The items from item to end have been moved to the hole at h, and the hole is
\* behind them.
RoundMoved(m, y, A, e, h, item, end) ==
  /\ y.call \in Call
  /\ y.hole = end - (item - h) /\ y.hole \in Packed(A, h, item, end)
  /\ KeyLength(y.call.mem, y.hole) = 0
  /\ FullLength(y.call.mem, y.hole) = item - h
  /\ Good(y.call.mem, Packed(A, h, item, end), e)
  /\ h \in A /\ item \in A /\ end \in A \cup {e}
  /\ h < item /\ item < end
  /\ \A x \in A : h < x /\ x < item => KeyLength(m, x) = 0
  /\ \A x \in A : item <= x /\ x < end => KeyLength(m, x) # 0
  /\ SameInside(m, y.call.mem, 0, h)
  /\ SameInside(m, y.call.mem, end, MemSize)
  /\ Shifted(m, y.call.mem, item, end, item - h)

\* A round for a hole with an item behind it.
LEMMA RoundMoves ==
  ASSUME NEW s \in Call, NEW A, NEW e, Good(s.mem, A, e),
         NEW h \in A \cup {e}, NEW item, item = FindNextItem(s.mem, h), item # Invalid,
         NEW end, end = GroupEnd(s.mem, item)
  PROVE  RoundMoved(s.mem, DefragHole(s, h), A, e, h, item, end)
<1>. DEFINE m == s.mem
            d == item - h
            n == end - item
            z == MoveMemory(s, item, h, n)
            w == WriteHole(z, h + n, d)
            y == DefragHole(s, h)
            r == w.mem
<1>1. m \in Memory /\ Table(m, A, e) /\ e + 3 <= Accessible
  BY DEF Call, Good
<1>2. /\ h \in A /\ item \in A /\ item \in Nat
      /\ h + FullLength(m, h) <= item /\ KeyLength(m, item) # 0
      /\ \A x \in A : h < x /\ x < item => KeyLength(m, x) = 0
  BY <1>1, FindNextItemDoes
<1>3. /\ end \in A \cup {e} /\ item <= end
      /\ \A x \in A : item <= x /\ x < end => KeyLength(m, x) # 0
  <2>. DEFINE g == FindHole(m, item)
  <2>1. Good(m, A, e) /\ item \in A \cup {e}
    BY <1>2
  <2>2. CASE g = Invalid
    <3>1. end = e
      BY <2>1, <2>2, <1>1, FindEndDoes DEF GroupEnd
    <3>2. \A x \in A : item <= x => KeyLength(m, x) # 0
      BY <2>1, <2>2, <1>1, FindHoleDoes
    <3>3. item <= e
      <4>1. e \in Nat /\ \A x \in A : x < e
        BY <1>1, GoodFacts
      <4>2. item < e
        BY <1>2, <4>1
      <4>. QED
        BY <1>2, <4>1, <4>2
    <3>. QED
      BY <3>1, <3>2, <3>3
  <2>3. CASE g # Invalid
    <3>1. end = g
      BY <2>3 DEF GroupEnd
    <3>. HIDE DEF g
    <3>2. /\ g \in A \cup {e} /\ item <= g
          /\ \A x \in A : item <= x /\ x < g => KeyLength(m, x) # 0
      BY <2>1, <2>3, <1>1, FindHoleDoes DEF g
    <3>. QED
      BY <3>1, <3>2
  <2>. QED
    BY <2>2, <2>3
<1>4. end # item
  <2>1. CASE FindHole(m, item) = Invalid
    <3>1. end = e
      BY <1>1, <1>2, <2>1, FindEndDoes DEF GroupEnd
    <3>. QED
      BY <1>1, <1>2, <3>1, GoodFacts
  <2>2. CASE FindHole(m, item) # Invalid
    <3>1. end = FindHole(m, item)
      BY <2>2 DEF GroupEnd
    <3>2. KeyLength(m, end) = 0
      BY <1>1, <1>2, <2>2, <3>1, FindHoleDoes
    <3>. QED
      BY <1>2, <3>2
  <2>. QED
    BY <2>1, <2>2
<1>5. /\ h \in Nat /\ end \in Nat /\ e \in Nat /\ e <= MemSize - 3
      /\ h + 4 <= item /\ item < end /\ end <= e
  <2>1. /\ h \in Nat /\ e \in Nat /\ e <= MemSize - 3 /\ A \in SUBSET Nat
        /\ FullLength(m, h) \in Nat /\ FullLength(m, h) >= 4
        /\ \A x \in A : x \in Nat /\ x < e
    BY <1>1, <1>2, GoodFacts
  <2>. QED
    BY <1>2, <1>3, <1>4, <2>1
<1>6. /\ d \in Nat /\ d >= 4 /\ d <= EndTag /\ n \in Nat /\ n > 0
      /\ h + n = end - d /\ h + n \in Nat /\ item + n = end /\ item - h = d
  BY <1>2, <1>5, Sizes DEF EndTag
<1>7. y = [call |-> w, hole |-> h + n]
  BY <1>2 DEF DefragHole, GroupEnd
<1>. HIDE DEF d, n, y
<1>8. z \in Call /\ Moved(m, z.mem, item, h, n)
  <2>1. h < item /\ item + n <= Accessible
    BY <1>1, <1>2, <1>5, <1>6, Sizes
  <2>. HIDE DEF m
  <2>2. Moved(s.mem, MoveMemory(s, item, h, n).mem, item, h, n)
    BY <1>2, <1>5, <1>6, <2>1, MoveDoes
  <2>3. MoveMemory(s, item, h, n) \in Call
    BY <1>2, <1>5, <1>6, <2>1, MoveDoes
  <2>. QED
    BY <2>2, <2>3 DEF m
<1>. HIDE DEF z
<1>9. /\ w \in Call /\ SameOutside(z.mem, r, h + n, h + n + 3)
      /\ FullLength(r, h + n) = d /\ KeyLength(r, h + n) = 0
  <2>. DEFINE at == h + n
  <2>1. at \in Nat /\ at <= MemSize - 2 /\ at <= MemSize - 3
    BY <1>5, <1>6, Sizes
  <2>. HIDE DEF at
  <2>2. LET v == WriteHole(z, at, d)
        IN  /\ v \in Call
            /\ SameOutside(z.mem, v.mem, at, at + 3)
            /\ at <= MemSize - 2 => FullLength(v.mem, at) = d
            /\ at <= MemSize - 3 => KeyLength(v.mem, at) = 0
    BY <1>6, <1>8, <2>1, WriteHoleDoes
  <2>. QED
    BY <2>1, <2>2 DEF at
<1>. HIDE DEF w, m
<1>10. ASSUME NEW x \in 0 .. MemSize - 1
       PROVE  /\ x < h => r[x] = m[x]
              /\ end <= x => r[x] = m[x]
              /\ h <= x /\ x < end - d => r[x] = m[x + d]
  <2>1. z.mem[x] = IF h <= x /\ x < h + n THEN m[x + d] ELSE m[x]
    BY <1>6, <1>8 DEF Moved
  <2>2. x < h + n \/ h + n + 3 <= x => r[x] = z.mem[x]
    BY <1>9 DEF SameOutside
  <2>3. h < h + n /\ h + n + 3 <= end /\ h + n = end - d
    BY <1>5, <1>6
  <2>. HIDE DEF r
  <2>4. ASSUME x < h
        PROVE  r[x] = m[x]
    <3>1. x < h + n /\ ~(h <= x)
      BY <1>5, <1>6, <2>4
    <3>. QED
      BY <2>1, <2>2, <3>1
  <2>5. ASSUME end <= x
        PROVE  r[x] = m[x]
    <3>1. h + n + 3 <= x /\ ~(x < h + n)
      BY <1>5, <1>6, <2>5
    <3>. QED
      BY <2>1, <2>2, <3>1
  <2>6. ASSUME h <= x, x < end - d
        PROVE  r[x] = m[x + d]
    <3>1. x < h + n
      BY <1>6, <2>6
    <3>. QED
      BY <2>1, <2>2, <2>6, <3>1
  <2>. QED
    BY <2>4, <2>5, <2>6
<1>11. /\ SameInside(m, r, 0, h) /\ SameInside(m, r, end, MemSize)
       /\ Shifted(m, r, item, end, d)
  <2>1. item - d = h
    BY <1>2, <1>5, <1>6
  <2>. HIDE DEF r
  <2>2. SameInside(m, r, 0, h)
    BY <1>10 DEF SameInside
  <2>3. SameInside(m, r, end, MemSize)
    BY <1>10 DEF SameInside
  <2>4. Shifted(m, r, item, end, d)
    BY <1>10, <2>1 DEF Shifted
  <2>. QED
    BY <2>2, <2>3, <2>4
<1>. HIDE DEF r
<1>12. Entries(r, Packed(A, h, item, end), FirstItem, e)
  <2>1. Entries(m, A, FirstItem, e)
    BY <1>1, GoodFacts
  <2>2. SameInside(m, r, FirstItem, h) /\ SameInside(m, r, end, e)
    <3>1. \A x \in 0 .. MemSize - 1 : x < e => x < MemSize
      BY Sizes
    <3>. QED
      BY <1>11, <3>1 DEF SameInside, FirstItem
  <2>3. FullLength(r, end - (item - h)) = item - h /\ Shifted(m, r, item, end, item - h)
    BY <1>6, <1>9, <1>11
  <2>4. h < item
    BY <1>2, <1>5
  <2>. QED
    BY <1>1, <1>2, <1>3, <1>5, <2>1, <2>2, <2>3, <2>4, CloseGap
<1>13. IsEnd(r, e)
  <2>1. SameInside(m, r, end, MemSize) /\ IsEnd(m, e) /\ end <= e /\ e + 2 <= MemSize
    BY <1>1, <1>5, <1>11, GoodFacts, Sizes
  <2>2. FullLength(r, e) = FullLength(m, e)
    BY <1>1, <1>5, <2>1, SameLength, Sizes
  <2>. QED
    BY <2>1, <2>2 DEF IsEnd
<1>14. Good(r, Packed(A, h, item, end), e)
  BY <1>1, <1>5, <1>12, <1>13 DEF Good, Table
<1>15. /\ y.call = w /\ y.hole = h + n
       /\ y.hole = end - (item - h) /\ y.hole \in Packed(A, h, item, end)
  BY <1>6, <1>7 DEF Packed
<1>16. h < item
  BY <1>2, <1>5
<1>. QED
  BY <1>2, <1>3, <1>5, <1>6, <1>9, <1>11, <1>14, <1>15, <1>16 DEF y, m, r, RoundMoved

\* A round for a hole with no item behind it.
LEMMA RoundCrops ==
  ASSUME NEW s \in Call, NEW A, NEW e, Good(s.mem, A, e),
         NEW h \in A \cup {e}, FindNextItem(s.mem, h) = Invalid
  PROVE  LET y == DefragHole(s, h)
         IN  /\ y.call \in Call /\ y.hole = Invalid
             /\ Good(y.call.mem, Below(A, h), h)
             /\ \A x \in A : h < x => KeyLength(s.mem, x) = 0
             /\ SameInside(s.mem, y.call.mem, 0, h)
<1>. DEFINE m == s.mem
            y == DefragHole(s, h)
            w == WriteEnd(s, h)
            r == w.mem
<1>1. m \in Memory /\ Table(m, A, e) /\ e + 3 <= Accessible
  BY DEF Call, Good
<1>2. y = [call |-> w, hole |-> Invalid]
  BY DEF DefragHole
<1>3. /\ h \in Nat /\ h <= e /\ e \in Nat /\ e <= MemSize - 3
  BY <1>1, GoodFacts
<1>4. \A x \in A : h < x => KeyLength(m, x) = 0
  BY <1>1, FindNextItemDoes
<1>5. w \in Call /\ SameOutside(m, r, h, h + 2) /\ IsEnd(r, h)
  <2>1. h <= MemSize - 2
    BY <1>3, Sizes
  <2>. HIDE DEF m
  <2>. QED
    BY <1>3, <2>1, WriteEndDoes DEF m
<1>. HIDE DEF m, w, y
<1>6. SameInside(m, r, 0, h)
  BY <1>3, <1>5, OutsideInside
<1>7. Entries(r, Below(A, h), FirstItem, h)
  <2>1. Entries(m, Below(A, h), FirstItem, h)
    BY <1>1, GoodFacts, SplitEntries
  <2>2. SameInside(m, r, FirstItem, h)
    BY <1>6 DEF SameInside, FirstItem
  <2>3. h <= MemSize - 1
    BY <1>3, Sizes
  <2>. QED
    BY <1>1, <2>1, <2>2, <2>3, KeepEntries
<1>8. Good(r, Below(A, h), h)
  BY <1>1, <1>3, <1>5, <1>7, Sizes DEF Good, Table
<1>. QED
  BY <1>2, <1>4, <1>5, <1>6, <1>8 DEF y, m

-----------------------------------------------------------------------------
(* Totals                                                                    *)

TotalTable(f, m, ofHoles) ==
  f = [b \in Nat |->
         IF IsPast(m, b) THEN 0
         ELSE (IF ofHoles = (KeyLength(m, b) = 0) THEN FullLength(m, b) ELSE 0)
                + f[b + FullLength(m, b)]]

LEMMA TotalExists ==
  ASSUME NEW m \in Memory, NEW ofHoles
  PROVE  \E f : TotalTable(f, m, ofHoles)
<1>. DEFINE own(b) == IF ofHoles = (KeyLength(m, b) = 0) THEN FullLength(m, b) ELSE 0
            row(f, b) == IF IsPast(m, b) THEN 0 ELSE own(b) + f[b + FullLength(m, b)]
            from(f, n) == f = [b \in Nat |-> IF b >= MemSize - n THEN row(f, b) ELSE 0]
            S == {n \in Nat : \E f : from(f, n)}
<1>. HIDE DEF own
<1>1. 0 \in S
  <2>. DEFINE f == [b \in Nat |-> 0]
  <2>1. \A b \in Nat : b >= MemSize => row(f, b) = 0
    BY Sizes DEF IsPast
  <2>2. from(f, 0)
    <3>1. MemSize - 0 = MemSize
      BY Sizes
    <3>. HIDE DEF row
    <3>. QED
      BY <2>1, <3>1
  <2>. QED
    BY <2>2
<1>2. ASSUME NEW n \in S
      PROVE  n + 1 \in S
  <2>0. n \in Nat /\ \E f : from(f, n)
    <3>. HIDE DEF from
    <3>. QED
      OBVIOUS
  <2>1. PICK f : from(f, n)
    BY <2>0
  <2>. DEFINE g == [b \in Nat |-> IF b >= MemSize - (n + 1) THEN row(f, b) ELSE 0]
  <2>2. \A b \in Nat : b >= MemSize - n => g[b] = f[b]
    <3>. HIDE DEF row, S
    <3>. QED
      BY <2>0, <2>1, Sizes
  <2>3. ASSUME NEW b \in Nat, b >= MemSize - (n + 1)
        PROVE  row(g, b) = row(f, b)
    <3>1. CASE IsPast(m, b)
      BY <3>1
    <3>2. CASE ~IsPast(m, b)
      <4>1. b + FullLength(m, b) \in Nat /\ b + FullLength(m, b) >= MemSize - n
        <5>1. b <= MemSize - 2
          BY <3>2, Sizes DEF IsPast
        <5>2. FullLength(m, b) \in Nat /\ FullLength(m, b) # 0
          BY <3>2, <5>1, Header DEF IsPast
        <5>. QED
          BY <2>0, <2>3, <5>2, Sizes
      <4>2. g[b + FullLength(m, b)] = f[b + FullLength(m, b)]
        <5>. HIDE DEF g
        <5>. QED
          BY <2>2, <4>1
      <4>. HIDE DEF g
      <4>. QED
        BY <3>2, <4>2
    <3>. QED
      BY <3>1, <3>2
  <2>4. from(g, n + 1)
    <3>. HIDE DEF row
    <3>. QED
      BY <2>3
  <2>. HIDE DEF g, from
  <2>. QED
    BY <2>4
<1>3. S = Nat
  <2>. HIDE DEF S
  <2>1. S \in SUBSET Nat
    BY DEF S
  <2>. QED
    BY <1>1, <1>2, <2>1, Induction
<1>4. PICK f : from(f, MemSize)
  <2>1. MemSize \in S
    <3>1. MemSize \in Nat
      BY Sizes
    <3>. HIDE DEF S
    <3>. QED
      BY <1>3, <3>1
  <2>. HIDE DEF from
  <2>. QED
    BY <2>1
<1>5. f = [b \in Nat |-> row(f, b)]
  <2>. HIDE DEF row
  <2>. QED
    BY <1>4, Sizes
<1>. QED
  BY <1>5 DEF TotalTable, own

LEMMA TotalStep ==
  ASSUME NEW m \in Memory, NEW ofHoles, NEW a \in Nat
  PROVE  Total(m, a, ofHoles) =
           IF IsPast(m, a) THEN 0
           ELSE (IF ofHoles = (KeyLength(m, a) = 0) THEN FullLength(m, a) ELSE 0)
                  + Total(m, a + FullLength(m, a), ofHoles)
<1>. DEFINE own(b) == IF ofHoles = (KeyLength(m, b) = 0) THEN FullLength(m, b) ELSE 0
            row(f, b) == IF IsPast(m, b) THEN 0 ELSE own(b) + f[b + FullLength(m, b)]
            v == CHOOSE f : TotalTable(f, m, ofHoles)
<1>1. \E f : TotalTable(f, m, ofHoles)
  BY TotalExists
<1>2. v = [b \in Nat |-> row(v, b)]
  <2>1. TotalTable(v, m, ofHoles)
    BY <1>1
  <2>. HIDE DEF v
  <2>. QED
    BY <2>1 DEF TotalTable
<1>3. \A b : Total(m, b, ofHoles) = v[b]
  BY DEF Total, TotalTable
<1>4. v[a] = row(v, a)
  <2>. HIDE DEF row, v
  <2>. QED
    BY <1>2
<1>. HIDE DEF v
<1>. QED
  BY <1>3, <1>4

\* The memory r has the n bytes that m has at x, at y.
Copied(m, x, r, y) ==
  \A i \in 0 .. FullLength(m, x) - 1 : r[y + i] = m[x + i]

LEMMA CopiedHeader ==
  ASSUME NEW m, NEW r, NEW x \in Nat, NEW y \in Nat,
         FullLength(m, x) \in Nat, FullLength(m, x) >= 4, Copied(m, x, r, y)
  PROVE  FullLength(r, y) = FullLength(m, x) /\ KeyLength(r, y) = KeyLength(m, x)
<1>1. \A i \in {0, 1, 2} : r[y + i] = m[x + i]
  BY DEF Copied
<1>2. r[y + 0] = m[x + 0] /\ r[y + 1] = m[x + 1] /\ r[y + 2] = m[x + 2]
  BY <1>1
<1>3. r[y] = m[x] /\ r[y + 1] = m[x + 1] /\ r[y + 2] = m[x + 2]
  BY <1>2
<1>. QED
  BY <1>3 DEF FullLength, KeyLength

\* All items of A lie in r as they do in m, d bytes lower.
CopiedBy(m, A, r, d) == \A x \in A : Copied(m, x, r, x - d)

\* In a chain that is copied, totals differ as they do behind it.
LEMMA TotalOfCopy ==
  ASSUME NEW m \in Memory, NEW r \in Memory, NEW A, NEW a \in Nat, NEW b \in Nat,
         NEW d \in Nat, Entries(m, A, a, b), b <= MemSize - 3, d <= a,
         CopiedBy(m, A, r, d),
         NEW ofHoles, Total(r, b - d, ofHoles) = Total(m, b, ofHoles)
  PROVE  Total(r, a - d, ofHoles) = Total(m, a, ofHoles)
<1>. DEFINE good(x) == Total(r, x - d, ofHoles) = Total(m, x, ofHoles)
            S == {x \in Nat : x \in A \cup {b} => good(x)}
<1>1. /\ A \in SUBSET Nat /\ a \in Nat /\ b \in Nat /\ a \in A \cup {b}
      /\ \A x \in A : /\ x \in Nat /\ a <= x /\ x < b
                      /\ FullLength(m, x) \in Nat /\ FullLength(m, x) >= 4
                      /\ x + FullLength(m, x) \in A \cup {b}
  BY EntriesFacts
<1>2. ASSUME NEW x \in A, x + FullLength(m, x) \in S
      PROVE  good(x)
  <2>. DEFINE c == x + FullLength(m, x)
              y == x - d
  <2>1. /\ x \in Nat /\ x < b /\ FullLength(m, x) \in Nat /\ FullLength(m, x) >= 4
        /\ c \in A \cup {b} /\ c \in Nat /\ y \in Nat /\ y <= x
    BY <1>1
  <2>2. good(c)
    <3>. HIDE DEF good, c
    <3>. QED
      BY <1>2, <2>1 DEF c
  <2>3. FullLength(r, y) = FullLength(m, x) /\ KeyLength(r, y) = KeyLength(m, x)
    <3>1. Copied(m, x, r, y)
      BY DEF CopiedBy
    <3>. HIDE DEF y
    <3>. QED
      BY <2>1, <3>1, CopiedHeader
  <2>4. ~IsPast(m, x)
    BY <2>1, <1>1, ItemsAreNotEnds, Sizes DEF IsPast
  <2>5. ~IsPast(r, y)
    <3>1. y < MemSize - 2 /\ FullLength(r, y) # 0
      BY <1>1, <2>1, <2>3, Sizes
    <3>2. ~IsEnd(r, y)
      BY <2>3, <2>4 DEF IsEnd, IsPast
    <3>. QED
      BY <2>1, <3>1, <3>2, Sizes DEF IsPast
  <2>6. y + FullLength(r, y) = c - d
    BY <2>1, <2>3
  <2>. DEFINE own == IF ofHoles = (KeyLength(m, x) = 0) THEN FullLength(m, x) ELSE 0
  <2>7. Total(m, x, ofHoles) = own + Total(m, c, ofHoles)
    BY <2>1, <2>4, TotalStep
  <2>8. Total(r, y, ofHoles) = own + Total(r, c - d, ofHoles)
    <3>1. Total(r, y, ofHoles) =
            (IF ofHoles = (KeyLength(r, y) = 0) THEN FullLength(r, y) ELSE 0)
              + Total(r, y + FullLength(r, y), ofHoles)
      <4>. HIDE DEF y
      <4>. QED
        BY <2>1, <2>5, TotalStep
    <3>. HIDE DEF y, c
    <3>. QED
      BY <2>3, <2>6, <3>1
  <2>. HIDE DEF own
  <2>. QED
    BY <2>2, <2>7, <2>8
<1>3. S = Nat
  <2>. DEFINE N == b
  <2>1. N \in Nat /\ \A x \in Nat : x >= N => x \in S
    <3>1. N \in Nat
      BY <1>1
    <3>2. ASSUME NEW x \in Nat, x >= N
          PROVE  x \in S
      <4>1. x \notin A
        BY <1>1, <3>2
      <4>. QED
        BY <1>1, <3>2, <4>1
    <3>. HIDE DEF N, S
    <3>. QED
      BY <3>1, <3>2
  <2>2. ASSUME NEW x \in Nat, \A y \in Nat : y > x => y \in S
        PROVE  x \in S
    <3>1. CASE x \in A
      <4>1. x + FullLength(m, x) \in Nat /\ x + FullLength(m, x) > x
        BY <1>1, <3>1
      <4>2. good(x)
        <5>. HIDE DEF good, S
        <5>. QED
          BY <1>2, <2>2, <3>1, <4>1
      <4>. QED
        BY <4>2
    <3>2. CASE x \notin A
      BY <3>2
    <3>. QED
      BY <3>1, <3>2
  <2>. HIDE DEF S, N
  <2>3. S \in SUBSET Nat
    BY DEF S
  <2>. QED
    BY <2>1, <2>2, <2>3, Downward
<1>4. good(a)
  <2>. HIDE DEF good
  <2>. QED
    BY <1>1, <1>3
<1>. QED
  BY <1>4

\* Holes do not count for the items.
LEMMA TotalOverHoles ==
  ASSUME NEW m \in Memory, NEW A, NEW a, NEW b, Entries(m, A, a, b), b <= MemSize - 3,
         \A x \in A : KeyLength(m, x) = 0,
         Total(m, b, FALSE) \in Nat
  PROVE  Total(m, a, FALSE) = Total(m, b, FALSE)
<1>. DEFINE good(x) == Total(m, x, FALSE) = Total(m, b, FALSE)
            S == {x \in Nat : x \in A \cup {b} => good(x)}
<1>1. /\ A \in SUBSET Nat /\ a \in Nat /\ b \in Nat /\ a \in A \cup {b}
      /\ \A x \in A : /\ x \in Nat /\ a <= x /\ x < b
                      /\ FullLength(m, x) \in Nat /\ FullLength(m, x) >= 4
                      /\ x + FullLength(m, x) \in A \cup {b}
  BY EntriesFacts
<1>2. ASSUME NEW x \in A, x + FullLength(m, x) \in S
      PROVE  good(x)
  <2>. DEFINE c == x + FullLength(m, x)
  <2>1. /\ x \in Nat /\ x < b /\ FullLength(m, x) \in Nat /\ FullLength(m, x) >= 4
        /\ c \in A \cup {b} /\ c \in Nat
    BY <1>1
  <2>2. good(c)
    <3>. HIDE DEF good, c
    <3>. QED
      BY <1>2, <2>1 DEF c
  <2>3. ~IsPast(m, x)
    BY <2>1, <1>1, ItemsAreNotEnds, Sizes DEF IsPast
  <2>4. Total(m, x, FALSE) = 0 + Total(m, c, FALSE)
    BY <2>1, <2>3, TotalStep
  <2>5. PICK t \in Nat : t = Total(m, b, FALSE)
    OBVIOUS
  <2>6. Total(m, c, FALSE) = t
    BY <2>2, <2>5
  <2>. HIDE DEF c
  <2>7. Total(m, x, FALSE) = 0 + t
    BY <2>4, <2>6
  <2>8. 0 + t = t
    OBVIOUS
  <2>. QED
    BY <2>5, <2>7, <2>8
<1>3. S = Nat
  <2>. DEFINE N == b
  <2>1. N \in Nat /\ \A x \in Nat : x >= N => x \in S
    <3>1. N \in Nat
      BY <1>1
    <3>2. ASSUME NEW x \in Nat, x >= N
          PROVE  x \in S
      <4>1. x \notin A
        BY <1>1, <3>2
      <4>. QED
        BY <1>1, <3>2, <4>1
    <3>. HIDE DEF N, S
    <3>. QED
      BY <3>1, <3>2
  <2>2. ASSUME NEW x \in Nat, \A y \in Nat : y > x => y \in S
        PROVE  x \in S
    <3>1. CASE x \in A
      <4>1. x + FullLength(m, x) \in Nat /\ x + FullLength(m, x) > x
        BY <1>1, <3>1
      <4>2. good(x)
        <5>. HIDE DEF good, S
        <5>. QED
          BY <1>2, <2>2, <3>1, <4>1
      <4>. QED
        BY <4>2
    <3>2. CASE x \notin A
      BY <3>2
    <3>. QED
      BY <3>1, <3>2
  <2>. HIDE DEF S, N
  <2>3. S \in SUBSET Nat
    BY DEF S
  <2>. QED
    BY <2>1, <2>2, <2>3, Downward
<1>4. good(a)
  <2>. HIDE DEF good
  <2>. QED
    BY <1>1, <1>3
<1>. QED
  BY <1>4

\* In a table, items and holes fill the place up to the end tag.
LEMMA TotalsFill ==
  ASSUME NEW m \in Memory, NEW A, NEW e, Table(m, A, e), NEW a \in A \cup {e}
  PROVE  /\ Total(m, a, FALSE) \in Nat /\ Total(m, a, TRUE) \in Nat
         /\ Total(m, a, FALSE) + Total(m, a, TRUE) = e - a
<1>. DEFINE good(x) == /\ Total(m, x, FALSE) \in Nat /\ Total(m, x, TRUE) \in Nat
                       /\ Total(m, x, FALSE) + Total(m, x, TRUE) = e - x
            S == {x \in Nat : x \in A \cup {e} => good(x)}
<1>1. /\ A \in SUBSET Nat /\ e \in Nat /\ e <= MemSize - 3 /\ IsEnd(m, e)
      /\ \A x \in A : /\ x \in Nat /\ x < e /\ ~IsEnd(m, x) /\ x < MemSize - 3
                      /\ FullLength(m, x) \in Nat /\ FullLength(m, x) >= 4
                      /\ x + FullLength(m, x) \in A \cup {e}
  BY GoodFacts
<1>2. good(e)
  <2>1. IsPast(m, e)
    BY <1>1 DEF IsPast
  <2>2. Total(m, e, FALSE) = 0 /\ Total(m, e, TRUE) = 0
    BY <1>1, <2>1, TotalStep
  <2>3. 0 \in Nat /\ 0 + 0 = e - e
    BY <1>1
  <2>. QED
    BY <2>2, <2>3
<1>3. ASSUME NEW x \in A, x + FullLength(m, x) \in S
      PROVE  good(x)
  <2>. DEFINE c == x + FullLength(m, x)
              l == FullLength(m, x)
  <2>1. /\ x \in Nat /\ x < e /\ l \in Nat /\ l >= 4
        /\ c \in A \cup {e} /\ c \in Nat
    BY <1>1
  <2>2. good(c)
    <3>. HIDE DEF good, c
    <3>. QED
      BY <1>3, <2>1 DEF c
  <2>3. ~IsPast(m, x)
    BY <1>1, <2>1, Sizes DEF IsPast
  <2>4. /\ Total(m, x, FALSE) = (IF KeyLength(m, x) # 0 THEN l ELSE 0) + Total(m, c, FALSE)
        /\ Total(m, x, TRUE) = (IF KeyLength(m, x) = 0 THEN l ELSE 0) + Total(m, c, TRUE)
    <3>1. \A t : Total(m, x, t) = (IF t = (KeyLength(m, x) = 0) THEN l ELSE 0)
                                    + Total(m, c, t)
      BY <2>1, <2>3, TotalStep
    <3>. HIDE DEF c, l
    <3>2. /\ Total(m, x, FALSE) = (IF FALSE = (KeyLength(m, x) = 0) THEN l ELSE 0)
                                    + Total(m, c, FALSE)
          /\ Total(m, x, TRUE) = (IF TRUE = (KeyLength(m, x) = 0) THEN l ELSE 0)
                                    + Total(m, c, TRUE)
      BY <3>1
    <3>. QED
      BY <3>2
  <2>5. c = x + l
    OBVIOUS
  <2>. HIDE DEF c, l
  <2>6. PICK i \in Nat, j \in Nat : /\ Total(m, c, FALSE) = i /\ Total(m, c, TRUE) = j
                                    /\ i + j = e - c
    BY <2>2
  <2>9. l \in Nat /\ x \in Nat /\ e \in Nat /\ c = x + l /\ i + j = e - c
    BY <1>1, <2>1, <2>5, <2>6
  <2>7. CASE KeyLength(m, x) = 0
    <3>1. Total(m, x, FALSE) = 0 + i /\ Total(m, x, TRUE) = l + j
      BY <2>4, <2>6, <2>7
    <3>2. 0 + i \in Nat /\ l + j \in Nat /\ (0 + i) + (l + j) = e - x
      BY <2>9
    <3>. QED
      BY <3>1, <3>2
  <2>8. CASE KeyLength(m, x) # 0
    <3>1. Total(m, x, FALSE) = l + i /\ Total(m, x, TRUE) = 0 + j
      BY <2>4, <2>6, <2>8
    <3>2. l + i \in Nat /\ 0 + j \in Nat /\ (l + i) + (0 + j) = e - x
      BY <2>9
    <3>. QED
      BY <3>1, <3>2
  <2>. QED
    BY <2>7, <2>8
<1>4. S = Nat
  <2>. DEFINE N == e + 1
  <2>1. N \in Nat /\ \A x \in Nat : x >= N => x \in S
    <3>1. N \in Nat
      BY <1>1
    <3>2. ASSUME NEW x \in Nat, x >= N
          PROVE  x \in S
      <4>1. x \notin A \cup {e}
        BY <1>1, <3>2
      <4>. QED
        BY <1>1, <3>2, <4>1
    <3>. HIDE DEF N, S
    <3>. QED
      BY <3>1, <3>2
  <2>2. ASSUME NEW x \in Nat, \A y \in Nat : y > x => y \in S
        PROVE  x \in S
    <3>1. CASE x \in A
      <4>1. x + FullLength(m, x) \in Nat /\ x + FullLength(m, x) > x
        BY <1>1, <3>1
      <4>2. good(x)
        <5>. HIDE DEF good, S
        <5>. QED
          BY <1>3, <2>2, <3>1, <4>1
      <4>. QED
        BY <4>2
    <3>2. CASE x \notin A
      <4>. HIDE DEF good
      <4>. QED
        BY <1>2, <3>2
    <3>. QED
      BY <3>1, <3>2
  <2>. HIDE DEF S, N
  <2>3. S \in SUBSET Nat
    BY DEF S
  <2>. QED
    BY <2>1, <2>2, <2>3, Downward
<1>5. good(a)
  <2>. HIDE DEF good
  <2>. QED
    BY <1>1, <1>4
<1>. QED
  BY <1>5

-----------------------------------------------------------------------------
(* What the entries say                                                      *)

\* At x the memory has an entry of the key k with the value v.
Entry(m, x, k, v) ==
  /\ FullLength(m, x) = ItemSize(k, v)
  /\ KeyLength(m, x) = Len(k)
  /\ \A i \in 1 .. Len(k) : m[x + 2 + i] = k[i]
  /\ \A i \in 1 .. Len(v) : m[x + 2 + Len(k) + i] = v[i]

KeyAt(m, x, k) ==
  /\ KeyLength(m, x) = Len(k)
  /\ \A i \in 1 .. Len(k) : m[x + 2 + i] = k[i]

\* The items at A bind the keys as st does, each key at most once.
Holds(m, A, st) ==
  /\ st \in [Key -> Value \cup {<<>>}]
  /\ \A x \in A : KeyLength(m, x) # 0 => \E k \in Key : st[k] # <<>> /\ Entry(m, x, k, st[k])
  /\ \A k \in Key : st[k] # <<>> => \E x \in A : Entry(m, x, k, st[k])
  /\ \A x \in A, y \in A, k \in Key : KeyAt(m, x, k) /\ KeyAt(m, y, k) => x = y

LEMMA KeyIsBytes ==
  ASSUME NEW k \in Key
  PROVE  k \in Seq(Byte)
<1>1. PICK S : S = 1 .. 255
  OBVIOUS
<1>2. S \subseteq Byte
  BY <1>1 DEF Byte
<1>3. k \in Seq(S)
  BY <1>1, KeyAssumption
<1>. QED
  BY <1>2, <1>3, SeqMonotonic

\* A key is not empty.
LEMMA KeyIsNotEmpty ==
  ASSUME NEW k \in Key
  PROVE  Len(k) \in Nat /\ Len(k) >= 1
<1>1. Len(k) \in 1 .. 255
  BY KeyAssumption
<1>2. PICK n \in 1 .. 255 : n = Len(k)
  BY <1>1
<1>. QED
  BY <1>2

LEMMA ValueInStore ==
  ASSUME NEW m, NEW A, NEW st, Holds(m, A, st), NEW k \in Key, st[k] # <<>>
  PROVE  st[k] \in Value
BY DEF Holds

LEMMA CopiedEntry ==
  ASSUME NEW m, NEW r, NEW x \in Nat, NEW y \in Nat, Copied(m, x, r, y),
         NEW k \in Key, NEW v \in Value, Entry(m, x, k, v)
  PROVE  /\ Entry(r, y, k, v)
         /\ \A o \in Key : KeyAt(r, y, o) => KeyAt(m, x, o)
<1>. DEFINE l == FullLength(m, x)
<1>1. /\ Len(k) \in Nat /\ Len(v) \in Nat /\ Len(v) > 0 /\ Len(k) >= 1
      /\ l = 3 + Len(k) + Len(v) /\ l \in Nat /\ l >= 4
      /\ KeyLength(m, x) = Len(k)
  BY ItemSizeIsSmall, KeyIsNotEmpty DEF Entry
<1>2. FullLength(r, y) = l /\ KeyLength(r, y) = KeyLength(m, x)
  BY <1>1, CopiedHeader
<1>3. \A i \in 0 .. l - 1 : r[y + i] = m[x + i]
  BY DEF Copied
<1>. HIDE DEF l
<1>4. ASSUME NEW i \in 1 .. Len(k)
      PROVE  r[y + 2 + i] = m[x + 2 + i]
  <2>1. 2 + i \in 0 .. l - 1 /\ y + 2 + i = y + (2 + i) /\ x + 2 + i = x + (2 + i)
    BY <1>1
  <2>. QED
    BY <1>3, <2>1
<1>5. ASSUME NEW i \in 1 .. Len(v)
      PROVE  r[y + 2 + Len(k) + i] = m[x + 2 + Len(k) + i]
  <2>1. 2 + Len(k) + i \in 0 .. l - 1 /\ y + 2 + Len(k) + i = y + (2 + Len(k) + i)
        /\ x + 2 + Len(k) + i = x + (2 + Len(k) + i)
    BY <1>1
  <2>. QED
    BY <1>3, <2>1
<1>6. Entry(r, y, k, v)
  BY <1>2, <1>4, <1>5 DEF Entry, l
<1>7. ASSUME NEW o \in Key, KeyAt(r, y, o)
      PROVE  KeyAt(m, x, o)
  <2>1. Len(o) = Len(k)
    BY <1>1, <1>2, <1>7 DEF KeyAt
  <2>. QED
    BY <1>2, <1>4, <1>7, <2>1 DEF KeyAt
<1>. QED
  BY <1>6, <1>7

\* Copying the items elsewhere keeps what they say.
LEMMA CopyHolds ==
  ASSUME NEW m, NEW r, NEW A \in SUBSET Nat, NEW B \in SUBSET Nat, NEW g,
         \A x \in A : KeyLength(m, x) # 0 => /\ g[x] \in B
                                             /\ Copied(m, x, r, g[x]),
         \A y \in B : KeyLength(r, y) # 0 => \E x \in A : KeyLength(m, x) # 0 /\ y = g[x],
         NEW st, Holds(m, A, st)
  PROVE  Holds(r, B, st)
<1>1. ASSUME NEW x \in A, KeyLength(m, x) # 0
      PROVE  \E k \in Key : /\ st[k] # <<>> /\ st[k] \in Value
                            /\ Entry(m, x, k, st[k]) /\ Entry(r, g[x], k, st[k])
                            /\ \A o \in Key : KeyAt(r, g[x], o) => KeyAt(m, x, o)
  <2>1. PICK k \in Key : st[k] # <<>> /\ Entry(m, x, k, st[k])
    BY <1>1 DEF Holds
  <2>2. st[k] \in Value /\ x \in Nat /\ g[x] \in Nat /\ Copied(m, x, r, g[x])
    BY <1>1, <2>1, ValueInStore
  <2>3. Entry(r, g[x], k, st[k]) /\ \A o \in Key : KeyAt(r, g[x], o) => KeyAt(m, x, o)
    BY <2>1, <2>2, CopiedEntry
  <2>. QED
    BY <2>1, <2>2, <2>3
<1>2. ASSUME NEW y \in B, KeyLength(r, y) # 0
      PROVE  \E k \in Key : st[k] # <<>> /\ Entry(r, y, k, st[k])
  BY <1>1, <1>2
<1>3. ASSUME NEW k \in Key, st[k] # <<>>
      PROVE  \E y \in B : Entry(r, y, k, st[k])
  <2>1. PICK x \in A : Entry(m, x, k, st[k])
    BY <1>3 DEF Holds
  <2>2. KeyLength(m, x) # 0
    BY <2>1, KeyIsNotEmpty DEF Entry
  <2>3. /\ x \in Nat /\ g[x] \in B /\ g[x] \in Nat /\ Copied(m, x, r, g[x])
        /\ st[k] \in Value
    BY <1>3, <2>2, ValueInStore
  <2>4. Entry(r, g[x], k, st[k])
    BY <2>1, <2>3, CopiedEntry
  <2>. QED
    BY <2>3, <2>4
<1>4. ASSUME NEW y \in B, NEW z \in B, NEW k \in Key, KeyAt(r, y, k), KeyAt(r, z, k)
      PROVE  y = z
  <2>1. KeyLength(r, y) # 0 /\ KeyLength(r, z) # 0
    BY <1>4, KeyIsNotEmpty DEF KeyAt
  <2>2. PICK x \in A, w \in A : /\ KeyLength(m, x) # 0 /\ y = g[x]
                                /\ KeyLength(m, w) # 0 /\ z = g[w]
    BY <2>1
  <2>3. KeyAt(m, x, k) /\ KeyAt(m, w, k)
    BY <1>1, <1>4, <2>2
  <2>4. x = w
    BY <2>3 DEF Holds
  <2>. QED
    BY <2>2, <2>4
<1>. QED
  BY <1>2, <1>3, <1>4 DEF Holds

\* Bytes that stay are a copy.
LEMMA CopiedInside ==
  ASSUME NEW m, NEW r, NEW a \in Nat, NEW b \in Nat, NEW x \in Nat, b <= MemSize,
         SameInside(m, r, a, b), FullLength(m, x) \in Nat, a <= x, x + FullLength(m, x) <= b
  PROVE  Copied(m, x, r, x)
<1>1. PICK l \in Nat : l = FullLength(m, x)
  OBVIOUS
<1>2. ASSUME NEW i \in 0 .. l - 1
      PROVE  r[x + i] = m[x + i]
  <2>1. x + i \in 0 .. MemSize - 1 /\ a <= x + i /\ x + i < b
    BY <1>1, Sizes
  <2>. QED
    BY <2>1 DEF SameInside
<1>. QED
  BY <1>1, <1>2 DEF Copied

LEMMA CopiedShifted ==
  ASSUME NEW m, NEW r, NEW a \in Nat, NEW b \in Nat, NEW x \in Nat, NEW d \in Nat,
         b <= MemSize, d <= a,
         Shifted(m, r, a, b, d), FullLength(m, x) \in Nat, a <= x, x + FullLength(m, x) <= b
  PROVE  Copied(m, x, r, x - d)
<1>1. PICK l \in Nat : l = FullLength(m, x)
  OBVIOUS
<1>2. ASSUME NEW i \in 0 .. l - 1
      PROVE  r[x - d + i] = m[x + i]
  <2>. DEFINE y == x - d + i
  <2>1. y \in 0 .. MemSize - 1 /\ a - d <= y /\ y < b - d /\ y + d = x + i
    BY <1>1, Sizes
  <2>. HIDE DEF y
  <2>2. r[y] = m[y + d]
    BY <2>1 DEF Shifted
  <2>. QED
    BY <2>1, <2>2 DEF y
<1>. QED
  BY <1>1, <1>2 DEF Copied

-----------------------------------------------------------------------------
(* A round of the defragmentation keeps what the entries say                 *)

NoHoles(m, A, b) == \A x \in A : x < b => KeyLength(m, x) # 0

\* The bytes of the items from a on.
LiveBytes(m, a) == Total(m, a, FALSE)

SameSaid(m, A, r, B) ==
  /\ \A st : Holds(m, A, st) => Holds(r, B, st)
  /\ LiveBytes(r, FirstItem) = LiveBytes(m, FirstItem)
  /\ r[0] = m[0]

\* The first byte, which has the version, lies before the table.
LEMMA KeepsFirst ==
  ASSUME NEW m \in Memory, NEW r, NEW A, NEW e, Table(m, A, e), NEW h \in A \cup {e},
         SameInside(m, r, 0, h)
  PROVE  r[0] = m[0]
<1>1. h \in Nat /\ 0 < h
  BY GoodFacts DEF FirstItem
<1>2. 0 \in 0 .. MemSize - 1
  BY Sizes
<1>. QED
  BY <1>1, <1>2 DEF SameInside

LEMMA EndTotal ==
  ASSUME NEW m \in Memory, NEW e \in Nat, IsEnd(m, e), NEW ofHoles
  PROVE  Total(m, e, ofHoles) = 0
<1>1. IsPast(m, e)
  BY DEF IsPast
<1>. QED
  BY <1>1, TotalStep

\* What a round moves is what lies at these addresses.
LEMMA PackedCases ==
  ASSUME NEW A, NEW h, NEW item, NEW end, NEW y \in Packed(A, h, item, end)
  PROVE  \/ y \in A /\ y < h
         \/ \E x \in A : item <= x /\ x < end /\ y = x - (item - h)
         \/ y = end - (item - h)
         \/ y \in A /\ end <= y
BY DEF Packed, Below, From, Lower

LEMMA InPacked ==
  ASSUME NEW A, NEW h, NEW item, NEW end, NEW x \in A
  PROVE  /\ x < h => x \in Packed(A, h, item, end)
         /\ item <= x /\ x < end => x - (item - h) \in Packed(A, h, item, end)
         /\ end <= x => x \in Packed(A, h, item, end)
BY DEF Packed, Below, From, Lower

LEMMA MovesKeep ==
  ASSUME NEW m \in Memory, NEW r \in Memory, NEW A, NEW e, Good(m, A, e),
         NEW h \in A, NEW item \in A, NEW end \in A \cup {e}, h < item, item < end,
         Good(r, Packed(A, h, item, end), e),
         KeyLength(m, h) = 0, NoHoles(m, A, h),
         \A x \in A : h < x /\ x < item => KeyLength(m, x) = 0,
         \A x \in A : item <= x /\ x < end => KeyLength(m, x) # 0,
         KeyLength(r, end - (item - h)) = 0,
         SameInside(m, r, 0, h), SameInside(m, r, end, MemSize),
         Shifted(m, r, item, end, item - h)
  PROVE  /\ \A st : Holds(m, A, st) => Holds(r, Packed(A, h, item, end), st)
         /\ NoHoles(r, Packed(A, h, item, end), end - (item - h))
         /\ end - (item - h) \in Nat /\ h < end - (item - h)
<1>. DEFINE d == item - h
            B == Packed(A, h, item, end)
            g == [x \in A |-> IF item <= x /\ x < end THEN x - d ELSE x]
            l(x) == FullLength(m, x)
<1>1. /\ Table(m, A, e) /\ Table(r, B, e) /\ e + 3 <= Accessible
  BY DEF Good
<1>2. /\ A \in SUBSET Nat /\ e \in Nat /\ e <= MemSize - 3 /\ Entries(m, A, FirstItem, e)
      /\ \A x \in A : x \in Nat /\ x < e /\ l(x) \in Nat /\ l(x) >= 4 /\ x + l(x) <= e
  BY <1>1, GoodFacts
<1>3. h \in Nat /\ item \in Nat /\ end \in Nat /\ end <= e /\ d \in Nat /\ d <= item
      /\ item - d = h /\ MemSize \in Nat /\ end <= MemSize /\ h <= MemSize
      /\ end - d \in Nat /\ h < end - d
  BY <1>2, Sizes
<1>4. \A x \in A, y \in A \cup {e} : x < y => x + l(x) <= y
  BY <1>2 DEF Entries
<1>5. B \in SUBSET Nat
  BY <1>1, GoodFacts
<1>. HIDE DEF B, d
<1>6. ASSUME NEW x \in A, x < h
      PROVE  Copied(m, x, r, x)
  <2>1. x + l(x) <= h /\ 0 <= x
    BY <1>2, <1>3, <1>4, <1>6
  <2>. QED
    BY <1>2, <1>3, <2>1, CopiedInside
<1>7. ASSUME NEW x \in A, end <= x
      PROVE  Copied(m, x, r, x)
  <2>1. x + l(x) <= MemSize
    BY <1>2, <1>3, <1>7, Sizes
  <2>2. MemSize <= MemSize
    BY <1>3
  <2>. QED
    BY <1>2, <1>3, <1>7, <2>1, <2>2, CopiedInside
<1>8. ASSUME NEW x \in A, item <= x, x < end
      PROVE  Copied(m, x, r, x - d)
  <2>1. x + l(x) <= end
    BY <1>3, <1>4, <1>8
  <2>2. Shifted(m, r, item, end, d)
    BY DEF d
  <2>. QED
    BY <1>2, <1>3, <1>8, <2>1, <2>2, CopiedShifted
<1>9. ASSUME NEW x \in A, KeyLength(m, x) # 0
      PROVE  x < h \/ (item <= x /\ x < end) \/ end <= x
  BY <1>2, <1>3, <1>9
<1>10. ASSUME NEW x \in A
       PROVE  /\ x < h => g[x] = x /\ x \in B
              /\ end <= x => g[x] = x /\ x \in B
              /\ item <= x /\ x < end => g[x] = x - d /\ x - d \in B
  <2>1. /\ x < h => x \in B
        /\ item <= x /\ x < end => x - d \in B
        /\ end <= x => x \in B
    BY InPacked DEF B, d
  <2>2. x < h => ~(item <= x /\ x < end)
    BY <1>2, <1>3
  <2>3. end <= x => ~(item <= x /\ x < end)
    BY <1>2, <1>3
  <2>. QED
    BY <2>1, <2>2, <2>3
<1>. HIDE DEF g
<1>11. \A x \in A : KeyLength(m, x) # 0 => g[x] \in B /\ Copied(m, x, r, g[x])
  BY <1>6, <1>7, <1>8, <1>9, <1>10
<1>12. ASSUME NEW y \in B
       PROVE  \/ y \in A /\ y < h
              \/ \E x \in A : item <= x /\ x < end /\ y = x - d
              \/ y = end - d
              \/ y \in A /\ end <= y
  BY PackedCases DEF B, d
<1>13. ASSUME NEW y \in B, KeyLength(r, y) # 0
       PROVE  \E x \in A : KeyLength(m, x) # 0 /\ y = g[x]
  <2>1. y # end - d
    BY <1>13 DEF d
  <2>2. CASE y \in A /\ y < h
    BY <1>10, <2>2 DEF NoHoles
  <2>3. CASE \E x \in A : item <= x /\ x < end /\ y = x - d
    BY <1>10, <2>3
  <2>4. CASE y \in A /\ end <= y
    <3>1. KeyLength(r, y) = KeyLength(m, y)
      BY <1>2, <1>7, <2>4, CopiedHeader
    <3>. QED
      BY <1>10, <1>13, <2>4, <3>1
  <2>. QED
    BY <1>12, <2>1, <2>2, <2>3, <2>4
<1>14. ASSUME NEW st, Holds(m, A, st)
       PROVE  Holds(r, B, st)
  BY <1>2, <1>5, <1>11, <1>13, <1>14, CopyHolds
<1>15. NoHoles(r, B, end - d)
  <2>1. SUFFICES ASSUME NEW y \in B, y < end - d
                 PROVE  KeyLength(r, y) # 0
    BY DEF NoHoles
  <2>2. CASE y \in A /\ y < h
    <3>1. KeyLength(r, y) = KeyLength(m, y)
      BY <1>2, <1>6, <2>2, CopiedHeader
    <3>. QED
      BY <2>2, <3>1 DEF NoHoles
  <2>3. CASE \E x \in A : item <= x /\ x < end /\ y = x - d
    <3>1. PICK x \in A : item <= x /\ x < end /\ y = x - d
      BY <2>3
    <3>2. x - d \in Nat
      BY <1>2, <1>3, <3>1
    <3>3. KeyLength(r, y) = KeyLength(m, x)
      BY <1>2, <1>8, <3>1, <3>2, CopiedHeader
    <3>. QED
      BY <3>1, <3>3
  <2>4. ~(y \in A /\ end <= y) /\ y # end - d
    BY <1>3, <1>5, <2>1
  <2>. QED
    BY <1>12, <2>2, <2>3, <2>4
<1>. QED
  BY <1>3, <1>14, <1>15 DEF B, d

\* In a chain that is copied to c, totals differ as they do behind it.
LEMMA TotalOfMove ==
  ASSUME NEW m \in Memory, NEW r \in Memory, NEW A, NEW a \in Nat, NEW b \in Nat,
         NEW d \in Nat, Entries(m, A, a, b), b <= MemSize - 3, d <= a,
         CopiedBy(m, A, r, d),
         NEW c \in Nat, NEW f \in Nat, c = a - d, f = b - d,
         LiveBytes(r, f) = LiveBytes(m, b)
  PROVE  LiveBytes(r, c) = LiveBytes(m, a)
<1>. DEFINE ofHoles == FALSE
<1>1. Total(r, b - d, ofHoles) = Total(m, b, ofHoles)
  BY DEF LiveBytes
<1>. HIDE DEF ofHoles
<1>2. Total(r, a - d, ofHoles) = Total(m, a, ofHoles)
  BY <1>1, TotalOfCopy
<1>. QED
  BY <1>2 DEF ofHoles, LiveBytes

LEMMA TotalOfStay ==
  ASSUME NEW m \in Memory, NEW r \in Memory, NEW A, NEW a, NEW b,
         Entries(m, A, a, b), b <= MemSize - 3,
         \A x \in A : Copied(m, x, r, x),
         LiveBytes(r, b) = LiveBytes(m, b)
  PROVE  LiveBytes(r, a) = LiveBytes(m, a)
<1>. DEFINE d == 0
<1>1. a \in Nat /\ b \in Nat /\ \A x \in A : x \in Nat
  BY EntriesFacts
<1>2. d \in Nat /\ d <= a /\ a = a - d /\ b = b - d
  BY <1>1
<1>3. \A x \in A : x = x - d
  BY <1>1
<1>. HIDE DEF d
<1>4. CopiedBy(m, A, r, d)
  BY <1>3 DEF CopiedBy
<1>. QED
  BY <1>1, <1>2, <1>4, TotalOfMove

LEMMA MovesKeepTotal ==
  ASSUME NEW m \in Memory, NEW r \in Memory, NEW A, NEW e, Good(m, A, e),
         NEW h \in A, NEW item \in A, NEW end \in A \cup {e}, h < item, item < end,
         Good(r, Packed(A, h, item, end), e),
         KeyLength(m, h) = 0,
         \A x \in A : h < x /\ x < item => KeyLength(m, x) = 0,
         KeyLength(r, end - (item - h)) = 0,
         FullLength(r, end - (item - h)) = item - h,
         SameInside(m, r, 0, h), SameInside(m, r, end, MemSize),
         Shifted(m, r, item, end, item - h)
  PROVE  LiveBytes(r, FirstItem) = LiveBytes(m, FirstItem)
<1>. DEFINE d == item - h
            hole == end - d
            l(x) == FullLength(m, x)
<1>1. Table(m, A, e) /\ Table(r, Packed(A, h, item, end), e)
  BY DEF Good
<1>2. /\ A \in SUBSET Nat /\ e \in Nat /\ e <= MemSize - 3 /\ Entries(m, A, FirstItem, e)
      /\ \A x \in A : x \in Nat /\ x < e /\ l(x) \in Nat /\ l(x) >= 4 /\ x + l(x) <= e
                      /\ x < MemSize - 3
      /\ IsEnd(m, e) /\ IsEnd(r, e) /\ FirstItem <= h
  BY <1>1, GoodFacts
<1>3. h \in Nat /\ item \in Nat /\ end \in Nat /\ end <= e /\ d \in Nat /\ d <= item
      /\ item - d = h /\ MemSize \in Nat /\ end <= MemSize /\ h <= MemSize
      /\ hole \in Nat /\ h < hole /\ hole + d = end /\ d >= 4
  <2>1. h + l(h) <= item
    BY <1>2 DEF Entries
  <2>2. h + 4 <= item
    BY <1>2, <2>1
  <2>. QED
    BY <1>2, <2>2, Sizes
<1>4. \A x \in A, y \in A \cup {e} : x < y => x + l(x) <= y
  BY <1>2 DEF Entries
<1>5. Entries(m, Below(A, h), FirstItem, h) /\ Entries(m, From(A, h), h, e)
  BY <1>2, SplitEntries
<1>6. Entries(m, From(A, item), item, e)
  BY <1>2, SplitEntries
<1>7. Entries(m, Below(From(A, item), end), item, end)
  <2>1. end \in From(A, item) \cup {e}
    BY <1>3 DEF From
  <2>. QED
    BY <1>6, <2>1, SplitEntries
<1>8. Entries(m, Below(From(A, h), item), h, item)
  <2>1. item \in From(A, h) \cup {e}
    BY <1>3 DEF From
  <2>. QED
    BY <1>5, <2>1, SplitEntries
<1>9. Entries(m, From(A, end), end, e)
  BY <1>2, SplitEntries
<1>. HIDE DEF d, hole
<1>10. LiveBytes(r, end) = LiveBytes(m, end)
  <2>1. \A x \in From(A, end) : Copied(m, x, r, x)
    <3>1. SUFFICES ASSUME NEW x \in A, end <= x
                   PROVE  Copied(m, x, r, x)
      BY DEF From
    <3>2. x + l(x) <= MemSize /\ MemSize <= MemSize
      BY <1>2, <1>3, <3>1, Sizes
    <3>. QED
      BY <1>2, <1>3, <3>1, <3>2, CopiedInside
  <2>2. LiveBytes(r, e) = LiveBytes(m, e)
    BY <1>2, EndTotal DEF LiveBytes
  <2>. QED
    BY <1>2, <1>9, <2>1, <2>2, TotalOfStay
<1>11. LiveBytes(r, end) \in Nat /\ LiveBytes(m, item) \in Nat
  <2>1. end \in Packed(A, h, item, end) \cup {e}
    <3>1. CASE end \in A
      <4>1. end <= end
        BY <1>3
      <4>. QED
        BY <3>1, <4>1, InPacked
    <3>2. CASE end = e
      BY <3>2
    <3>. QED
      BY <3>1, <3>2
  <2>2. LiveBytes(r, end) \in Nat
    BY <1>1, <2>1, TotalsFill DEF LiveBytes
  <2>3. LiveBytes(m, item) \in Nat
    BY <1>1, TotalsFill DEF LiveBytes
  <2>. QED
    BY <2>2, <2>3
<1>12. LiveBytes(r, hole) = LiveBytes(r, end)
  <2>1. FullLength(r, hole) = d /\ KeyLength(r, hole) = 0
    BY DEF hole, d
  <2>2. hole \in Packed(A, h, item, end)
    BY DEF Packed, hole, d
  <2>3. ~IsEnd(r, hole) /\ hole < MemSize - 3
    BY <1>1, <2>2, GoodFacts
  <2>4. ~IsPast(r, hole)
    BY <1>3, <2>1, <2>3, Sizes DEF IsPast
  <2>5. LiveBytes(r, hole) = (IF FALSE = (KeyLength(r, hole) = 0) THEN FullLength(r, hole) ELSE 0)
                                  + LiveBytes(r, hole + FullLength(r, hole))
    <3>1. r \in Memory /\ hole \in Nat
      BY <1>1, <1>3
    <3>. QED
      BY <2>4, <3>1, TotalStep DEF LiveBytes
  <2>6. LiveBytes(r, hole) = 0 + LiveBytes(r, end)
    BY <1>3, <2>1, <2>5
  <2>7. PICK t \in Nat : t = LiveBytes(r, end)
    BY <1>11
  <2>8. 0 + t = t
    OBVIOUS
  <2>. QED
    BY <2>6, <2>7, <2>8
<1>13. LiveBytes(r, h) = LiveBytes(m, item)
  <2>1. CopiedBy(m, Below(From(A, item), end), r, d)
    <3>1. SUFFICES ASSUME NEW x \in A, item <= x, x < end
                   PROVE  Copied(m, x, r, x - d)
      BY DEF From, Below, CopiedBy
    <3>2. x + l(x) <= end
      BY <1>3, <1>4, <3>1
    <3>3. Shifted(m, r, item, end, d)
      BY DEF d
    <3>4. x \in Nat /\ item \in Nat /\ end \in Nat /\ d \in Nat /\ FullLength(m, x) \in Nat
      BY <1>2, <1>3, <3>1
    <3>5. end <= MemSize /\ d <= item
      BY <1>2, <1>3, <3>4, Sizes
    <3>6. x + FullLength(m, x) <= end
      BY <3>2
    <3>. QED
      BY <3>1, <3>3, <3>4, <3>5, <3>6, CopiedShifted
  <2>2. end - d = hole /\ item - d = h /\ end <= MemSize - 3
    BY <1>2, <1>3, Sizes DEF hole
  <2>3. LiveBytes(r, hole) = LiveBytes(m, end)
    BY <1>10, <1>12
  <2>. QED
    <3>1. h = item - d /\ hole = end - d /\ d \in Nat /\ d <= item
      BY <1>3, <2>2
    <3>. DEFINE mid == Below(From(A, item), end)
    <3>2. Entries(m, mid, item, end) /\ CopiedBy(m, mid, r, d)
      BY <1>7, <2>1
    <3>. HIDE DEF mid
    <3>. QED
      BY <1>3, <2>2, <2>3, <3>1, <3>2, TotalOfMove
<1>14. LiveBytes(m, h) = LiveBytes(m, item)
  <2>1. \A x \in Below(From(A, h), item) : KeyLength(m, x) = 0
    <3>1. SUFFICES ASSUME NEW x \in A, h <= x, x < item
                   PROVE  KeyLength(m, x) = 0
      BY DEF From, Below
    <3>2. x = h \/ h < x
      BY <1>2, <1>3, <3>1
    <3>. QED
      BY <3>1, <3>2
  <2>2. item <= MemSize - 3
    BY <1>2, <1>3, Sizes
  <2>. QED
    BY <1>8, <1>11, <2>1, <2>2, TotalOverHoles DEF LiveBytes
<1>15. LiveBytes(r, FirstItem) = LiveBytes(m, FirstItem)
  <2>1. \A x \in Below(A, h) : Copied(m, x, r, x)
    <3>1. SUFFICES ASSUME NEW x \in A, x < h
                   PROVE  Copied(m, x, r, x)
      BY DEF Below
    <3>2. x + l(x) <= h /\ 0 <= x
      BY <1>2, <1>3, <1>4, <3>1
    <3>. QED
      BY <1>2, <1>3, <3>1, <3>2, CopiedInside
  <2>2. h <= MemSize - 3
    BY <1>2, <1>3, Sizes
  <2>3. LiveBytes(r, h) = LiveBytes(m, h)
    BY <1>13, <1>14
  <2>. QED
    BY <1>5, <2>1, <2>2, <2>3, TotalOfStay
<1>. QED
  BY <1>15

\* The end tag goes where the last holes began.
LEMMA CropKeeps ==
  ASSUME NEW m \in Memory, NEW r \in Memory, NEW A, NEW e, Good(m, A, e),
         NEW h \in A \cup {e}, Good(r, Below(A, h), h),
         KeyLength(m, h) = 0, NoHoles(m, A, h),
         \A x \in A : h < x => KeyLength(m, x) = 0,
         SameInside(m, r, 0, h)
  PROVE  /\ \A st : Holds(m, A, st) => Holds(r, Below(A, h), st)
         /\ NoHoles(r, Below(A, h), h)
         /\ LiveBytes(r, FirstItem) = LiveBytes(m, FirstItem)
<1>. DEFINE l(x) == FullLength(m, x)
            B == Below(A, h)
            g == [x \in A |-> x]
<1>1. Table(m, A, e) /\ Table(r, B, h)
  BY DEF Good
<1>2. /\ A \in SUBSET Nat /\ e \in Nat /\ e <= MemSize - 3 /\ Entries(m, A, FirstItem, e)
      /\ \A x \in A : x \in Nat /\ x < e /\ l(x) \in Nat /\ l(x) >= 4 /\ x + l(x) <= e
                      /\ x < MemSize - 3
      /\ IsEnd(m, e)
  BY <1>1, GoodFacts
<1>3. /\ h \in Nat /\ B \in SUBSET Nat /\ IsEnd(r, h) /\ h <= MemSize - 3
      /\ MemSize \in Nat /\ h <= MemSize
  BY <1>1, GoodFacts, Sizes
<1>4. \A x \in A, y \in A \cup {e} : x < y => x + l(x) <= y
  BY <1>2 DEF Entries
<1>5. \A x : x \in B <=> x \in A /\ x < h
  BY DEF Below
<1>6. Entries(m, B, FirstItem, h) /\ Entries(m, From(A, h), h, e)
  BY <1>2, SplitEntries
<1>. HIDE DEF B
<1>7. ASSUME NEW x \in A, x < h
      PROVE  Copied(m, x, r, x)
  <2>1. x + l(x) <= h /\ 0 <= x
    BY <1>2, <1>3, <1>4, <1>7
  <2>. QED
    BY <1>2, <1>3, <2>1, CopiedInside
<1>8. \A x \in A : KeyLength(m, x) # 0 => x < h
  BY <1>2, <1>3
<1>9. \A x \in A : KeyLength(m, x) # 0 => g[x] \in B /\ Copied(m, x, r, g[x])
  BY <1>5, <1>7, <1>8
<1>10. ASSUME NEW y \in B, KeyLength(r, y) # 0
       PROVE  \E x \in A : KeyLength(m, x) # 0 /\ y = g[x]
  BY <1>5 DEF NoHoles
<1>. HIDE DEF g
<1>11. ASSUME NEW st, Holds(m, A, st)
       PROVE  Holds(r, B, st)
  BY <1>2, <1>3, <1>9, <1>10, <1>11, CopyHolds
<1>12. NoHoles(r, B, h)
  <2>1. SUFFICES ASSUME NEW y \in B
                 PROVE  KeyLength(r, y) # 0
    BY DEF NoHoles
  <2>2. KeyLength(r, y) = KeyLength(m, y)
    <3>1. y \in Nat /\ FullLength(m, y) \in Nat /\ FullLength(m, y) >= 4 /\ Copied(m, y, r, y)
      BY <1>2, <1>5, <1>7, <2>1
    <3>. QED
      BY <3>1, CopiedHeader
  <2>. QED
    BY <1>5, <2>2 DEF NoHoles
<1>13. LiveBytes(m, h) = 0
  <2>1. LiveBytes(m, e) = 0
    BY <1>2, EndTotal DEF LiveBytes
  <2>2. \A x \in From(A, h) : KeyLength(m, x) = 0
    <3>1. SUFFICES ASSUME NEW x \in A, h <= x
                   PROVE  KeyLength(m, x) = 0
      BY DEF From
    <3>2. x = h \/ h < x
      BY <1>2, <1>3, <3>1
    <3>. QED
      BY <3>1, <3>2
  <2>3. LiveBytes(m, e) \in Nat
    <3>1. 0 \in Nat
      OBVIOUS
    <3>. QED
      BY <2>1, <3>1
  <2>. QED
    BY <1>2, <1>6, <2>1, <2>2, <2>3, TotalOverHoles DEF LiveBytes
<1>14. LiveBytes(r, h) = 0
  BY <1>3, EndTotal DEF LiveBytes
<1>15. LiveBytes(r, FirstItem) = LiveBytes(m, FirstItem)
  <2>1. \A x \in B : Copied(m, x, r, x)
    BY <1>5, <1>7
  <2>2. LiveBytes(r, h) = LiveBytes(m, h)
    BY <1>13, <1>14
  <2>. QED
    BY <1>3, <1>6, <2>1, <2>2, TotalOfStay
<1>. QED
  BY <1>11, <1>12, <1>15 DEF B

-----------------------------------------------------------------------------
(* The defragmentation                                                       *)

\* What the call x, as far as it has come, has made of the table A of m: the
\* same entries, without holes before the one it is at.
Rounded(m, A, x, B, f) ==
  /\ x.call \in Call
  /\ Good(x.call.mem, B, f)
  /\ SameSaid(m, A, x.call.mem, B)
  /\ x.hole = Invalid => NoHoles(x.call.mem, B, f)
  /\ x.hole # Invalid => /\ x.hole \in B \cup {f} /\ x.hole \in Nat
                         /\ KeyLength(x.call.mem, x.hole) = 0
                         /\ NoHoles(x.call.mem, B, x.hole)

LEMMA RoundDoes ==
  ASSUME NEW m, NEW A, NEW x, NEW B, NEW f, Rounded(m, A, x, B, f), x.hole # Invalid
  PROVE  LET y == DefragHole(x.call, x.hole)
         IN  /\ y.hole # Invalid => x.hole < y.hole
             /\ \E C, e : Rounded(m, A, y, C, e)
<1>. DEFINE s == x.call
            h == x.hole
            y == DefragHole(s, h)
            item == FindNextItem(s.mem, h)
            end == GroupEnd(s.mem, item)
            C == Packed(B, h, item, end)
            r == y.call.mem
<1>1. /\ s \in Call /\ s.mem \in Memory /\ Good(s.mem, B, f) /\ SameSaid(m, A, s.mem, B)
      /\ h \in B \cup {f} /\ h \in Nat /\ KeyLength(s.mem, h) = 0 /\ NoHoles(s.mem, B, h)
  BY DEF Rounded, Call
<1>. HIDE DEF s, h, y
<1>2. CASE item = Invalid
  <2>1. /\ y.call \in Call /\ y.hole = Invalid
        /\ Good(r, Below(B, h), h)
        /\ \A z \in B : h < z => KeyLength(s.mem, z) = 0
        /\ SameInside(s.mem, r, 0, h)
    BY <1>1, <1>2, RoundCrops DEF y
  <2>2. r \in Memory
    BY <2>1 DEF Call
  <2>3. /\ \A st : Holds(s.mem, B, st) => Holds(r, Below(B, h), st)
        /\ NoHoles(r, Below(B, h), h)
        /\ LiveBytes(r, FirstItem) = LiveBytes(s.mem, FirstItem)
    BY <1>1, <2>1, <2>2, CropKeeps
  <2>4. SameSaid(m, A, r, Below(B, h))
    <3>1. r[0] = s.mem[0]
      <4>1. Table(s.mem, B, f)
        BY <1>1 DEF Good
      <4>. QED
        BY <1>1, <2>1, <4>1, KeepsFirst
    <3>. QED
      BY <1>1, <2>3, <3>1 DEF SameSaid
  <2>5. Rounded(m, A, y, Below(B, h), h)
    BY <2>1, <2>3, <2>4 DEF Rounded
  <2>. QED
    BY <2>1, <2>5 DEF y, s, h
<1>3. CASE item # Invalid
  <2>. HIDE DEF item, end
  <2>1. /\ y.call \in Call
        /\ y.hole = end - (item - h) /\ y.hole \in C
        /\ KeyLength(r, y.hole) = 0
        /\ Good(r, C, f)
        /\ h \in B /\ item \in B /\ end \in B \cup {f}
        /\ h < item /\ item < end
        /\ \A z \in B : h < z /\ z < item => KeyLength(s.mem, z) = 0
        /\ \A z \in B : item <= z /\ z < end => KeyLength(s.mem, z) # 0
        /\ SameInside(s.mem, r, 0, h)
        /\ SameInside(s.mem, r, end, MemSize)
        /\ Shifted(s.mem, r, item, end, item - h)
        /\ FullLength(r, y.hole) = item - h
    <3>1. item = FindNextItem(s.mem, h) /\ end = GroupEnd(s.mem, item)
      BY DEF item, end
    <3>2. RoundMoved(s.mem, DefragHole(s, h), B, f, h, item, end)
      BY <1>1, <1>3, <3>1, RoundMoves
    <3>. QED
      BY <3>2 DEF RoundMoved, y
  <2>2. r \in Memory
    BY <2>1 DEF Call
  <2>3. /\ \A st : Holds(s.mem, B, st) => Holds(r, C, st)
        /\ NoHoles(r, C, end - (item - h))
        /\ end - (item - h) \in Nat /\ h < end - (item - h)
    BY <1>1, <2>1, <2>2, MovesKeep
  <2>4. LiveBytes(r, FirstItem) = LiveBytes(s.mem, FirstItem)
    <3>1. KeyLength(r, end - (item - h)) = 0 /\ FullLength(r, end - (item - h)) = item - h
      BY <2>1
    <3>2. Good(r, Packed(B, h, item, end), f)
      BY <2>1
    <3>. HIDE DEF r, C
    <3>3. /\ h \in B /\ item \in B /\ end \in B \cup {f} /\ h < item /\ item < end
          /\ \A z \in B : h < z /\ z < item => KeyLength(s.mem, z) = 0
          /\ SameInside(s.mem, r, 0, h) /\ SameInside(s.mem, r, end, MemSize)
          /\ Shifted(s.mem, r, item, end, item - h)
      BY <2>1
    <3>4. s.mem \in Memory /\ Good(s.mem, B, f) /\ KeyLength(s.mem, h) = 0
      BY <1>1
    <3>. QED
      BY <2>2, <3>1, <3>2, <3>3, <3>4, MovesKeepTotal
  <2>5. SameSaid(m, A, r, C)
    <3>1. r[0] = s.mem[0]
      <4>1. Table(s.mem, B, f)
        BY <1>1 DEF Good
      <4>. QED
        BY <1>1, <2>1, <4>1, KeepsFirst
    <3>. QED
      BY <1>1, <2>3, <2>4, <3>1 DEF SameSaid
  <2>6. Rounded(m, A, y, C, f)
    <3>1. NoHoles(r, C, y.hole) /\ y.hole \in Nat
      BY <2>1, <2>3
    <3>2. y.hole # Invalid
      BY <3>1 DEF Invalid
    <3>. HIDE DEF C, r
    <3>. QED
      BY <2>1, <2>5, <3>1, <3>2 DEF Rounded, r
  <2>7. h < y.hole
    BY <2>1, <2>3
  <2>. QED
    BY <2>6, <2>7 DEF y, s, h
<1>. QED
  BY <1>2, <1>3

\* The table of the rounds in Defrag, as far as the one numbered last.
AreRounds(f, s, last) ==
  f = [i \in 0 .. last |->
         IF i = 0 THEN [call |-> s, hole |-> FindHole(s.mem, FirstItem)]
         ELSE LET x == f[i - 1]
              IN  IF x.hole = Invalid THEN x ELSE DefragHole(x.call, x.hole)]

LEMMA RoundsExist ==
  ASSUME NEW s
  PROVE  \A last \in Nat : \E f : AreRounds(f, s, last)
<1>. DEFINE row(f, i) == IF i = 0 THEN [call |-> s, hole |-> FindHole(s.mem, FirstItem)]
                         ELSE LET x == f[i - 1]
                              IN  IF x.hole = Invalid THEN x ELSE DefragHole(x.call, x.hole)
            S == {last \in Nat : \E f : f = [i \in 0 .. last |-> row(f, i)]}
<1>1. 0 \in S
  <2>. DEFINE f == [i \in 0 .. 0 |-> [call |-> s, hole |-> FindHole(s.mem, FirstItem)]]
  <2>1. f = [i \in 0 .. 0 |-> row(f, i)]
    OBVIOUS
  <2>. QED
    BY <2>1
<1>2. ASSUME NEW last \in S
      PROVE  last + 1 \in S
  <2>1. PICK f : f = [i \in 0 .. last |-> row(f, i)]
    OBVIOUS
  <2>. DEFINE g == [i \in 0 .. last + 1 |-> row(f, i)]
  <2>2. ASSUME NEW i \in 0 .. last + 1
        PROVE  row(g, i) = row(f, i)
    <3>1. CASE i = 0
      BY <3>1
    <3>2. CASE i # 0
      <4>1. i - 1 \in 0 .. last
        BY <3>2
      <4>. HIDE DEF row
      <4>2. g[i - 1] = f[i - 1]
        BY <2>1, <4>1
      <4>. HIDE DEF g
      <4>. QED
        BY <4>2 DEF row
    <3>. QED
      BY <3>1, <3>2
  <2>3. g = [i \in 0 .. last + 1 |-> row(g, i)]
    <3>. HIDE DEF row
    <3>. QED
      BY <2>2
  <2>. HIDE DEF g, row
  <2>. QED
    BY <2>3
<1>3. S = Nat
  <2>. HIDE DEF S
  <2>1. S \in SUBSET Nat
    BY DEF S
  <2>. QED
    BY <1>1, <1>2, <2>1, Induction
<1>4. \A last \in Nat : \E f : f = [i \in 0 .. last |-> row(f, i)]
  <2>. HIDE DEF row
  <2>. QED
    BY <1>3
<1>. QED
  BY <1>4 DEF AreRounds

LEMMA DefragIsRounds ==
  ASSUME NEW s
  PROVE  \E c : /\ c[0] = [call |-> s, hole |-> FindHole(s.mem, FirstItem)]
                /\ \A i \in 1 .. MemSize : c[i] = IF c[i - 1].hole = Invalid THEN c[i - 1]
                                                  ELSE DefragHole(c[i - 1].call, c[i - 1].hole)
                /\ Defrag(s) = c[MemSize].call
<1>. DEFINE row(f, i) == IF i = 0 THEN [call |-> s, hole |-> FindHole(s.mem, FirstItem)]
                         ELSE LET x == f[i - 1]
                              IN  IF x.hole = Invalid THEN x ELSE DefragHole(x.call, x.hole)
            c == CHOOSE f : AreRounds(f, s, MemSize)
<1>1. \E f : AreRounds(f, s, MemSize)
  <2>1. MemSize \in Nat
    BY Sizes
  <2>. QED
    BY <2>1, RoundsExist
<1>2. c = [i \in 0 .. MemSize |-> row(c, i)]
  <2>1. AreRounds(c, s, MemSize)
    BY <1>1
  <2>. HIDE DEF c
  <2>. QED
    BY <2>1 DEF AreRounds
<1>3. Defrag(s) = c[MemSize].call
  BY DEF Defrag, AreRounds
<1>4. \A i \in 0 .. MemSize : c[i] = row(c, i)
  <2>. HIDE DEF row, c
  <2>. QED
    BY <1>2
<1>5. 0 \in 0 .. MemSize /\ \A i \in 1 .. MemSize : i \in 0 .. MemSize /\ i # 0
  BY Sizes
<1>. HIDE DEF c
<1>6. c[0] = [call |-> s, hole |-> FindHole(s.mem, FirstItem)]
  BY <1>4, <1>5
<1>7. \A i \in 1 .. MemSize : c[i] = IF c[i - 1].hole = Invalid THEN c[i - 1]
                                     ELSE DefragHole(c[i - 1].call, c[i - 1].hole)
  BY <1>4, <1>5
<1>. QED
  BY <1>3, <1>6, <1>7

\* A defragmentation leaves no hole, and the same entries.
LEMMA DefragDoes ==
  ASSUME NEW s \in Call, NEW A, NEW e, Good(s.mem, A, e)
  PROVE  /\ Defrag(s) \in Call
         /\ \E B, f : /\ Good(Defrag(s).mem, B, f)
                      /\ SameSaid(s.mem, A, Defrag(s).mem, B)
                      /\ NoHoles(Defrag(s).mem, B, f)
<1>. DEFINE m == s.mem
<1>1. PICK c : /\ c[0] = [call |-> s, hole |-> FindHole(m, FirstItem)]
               /\ \A i \in 1 .. MemSize : c[i] = IF c[i - 1].hole = Invalid THEN c[i - 1]
                                                 ELSE DefragHole(c[i - 1].call, c[i - 1].hole)
               /\ Defrag(s) = c[MemSize].call
  BY DefragIsRounds
<1>. DEFINE good(i) == /\ \E B, f : Rounded(m, A, c[i], B, f)
                       /\ c[i].hole # Invalid => c[i].hole >= i
            S == {i \in Nat : i <= MemSize => good(i)}
<1>2. m \in Memory /\ Table(m, A, e) /\ MemSize \in Nat
  BY Sizes DEF Call, Good
<1>. HIDE DEF m
<1>3. good(0)
  <2>. DEFINE x == c[0]
              h == FindHole(m, FirstItem)
  <2>1. x.call = s /\ x.hole = h
    BY <1>1
  <2>2. /\ h # Invalid => /\ h \in A \cup {e} /\ h \in Nat /\ FirstItem <= h
                          /\ KeyLength(m, h) = 0
                          /\ \A y \in A : FirstItem <= y /\ y < h => KeyLength(m, y) # 0
        /\ h = Invalid => \A y \in A : FirstItem <= y => KeyLength(m, y) # 0
    <3>1. Good(m, A, e) /\ FirstItem \in A \cup {e}
      BY <1>2, GoodFacts DEF m
    <3>. QED
      BY <1>2, <3>1, FindHoleDoes
  <2>. HIDE DEF h
  <2>3. \A y \in A : FirstItem <= y
    BY <1>2, GoodFacts
  <2>4. SameSaid(m, A, m, A)
    BY DEF SameSaid
  <2>5. Rounded(m, A, x, A, e)
    <3>1. h = Invalid => NoHoles(m, A, e)
      BY <2>2, <2>3 DEF NoHoles
    <3>2. h # Invalid => NoHoles(m, A, h)
      BY <2>2, <2>3 DEF NoHoles
    <3>. HIDE DEF x
    <3>. QED
      BY <2>1, <2>2, <2>4, <3>1, <3>2 DEF Rounded, m
  <2>6. x.hole # Invalid => x.hole >= 0
    BY <2>1, <2>2
  <2>. QED
    BY <2>5, <2>6
<1>4. ASSUME NEW i \in Nat, i + 1 <= MemSize, good(i)
      PROVE  good(i + 1)
  <2>. DEFINE x == c[i]
              y == c[i + 1]
  <2>1. y = IF x.hole = Invalid THEN x ELSE DefragHole(x.call, x.hole)
    <3>1. i + 1 \in 1 .. MemSize /\ (i + 1) - 1 = i
      BY <1>2, <1>4
    <3>. QED
      BY <1>1, <3>1
  <2>2. PICK B, f : Rounded(m, A, x, B, f)
    BY <1>4
  <2>3. CASE x.hole = Invalid
    BY <2>1, <2>2, <2>3
  <2>4. CASE x.hole # Invalid
    <3>1. x.hole \in Nat /\ x.hole >= i
      BY <1>4, <2>2, <2>4 DEF Rounded
    <3>. HIDE DEF x, y
    <3>2. y = DefragHole(x.call, x.hole)
      BY <2>1, <2>4
    <3>3. /\ y.hole # Invalid => x.hole < y.hole
          /\ \E C, g : Rounded(m, A, y, C, g)
      BY <2>2, <2>4, <3>2, RoundDoes
    <3>4. ASSUME y.hole # Invalid
          PROVE  y.hole >= i + 1
      <4>1. y.hole \in Nat
        BY <3>3, <3>4 DEF Rounded
      <4>. QED
        BY <3>1, <3>3, <3>4, <4>1
    <3>. QED
      BY <3>3, <3>4 DEF y
  <2>. QED
    BY <2>3, <2>4
<1>5. MemSize \in S
  <2>1. 0 \in S
    BY <1>3
  <2>2. \A i \in S : i + 1 \in S
    <3>1. SUFFICES ASSUME NEW i \in S, i + 1 <= MemSize
                   PROVE  good(i + 1)
      OBVIOUS
    <3>2. i \in Nat /\ good(i)
      <4>. HIDE DEF good
      <4>. QED
        BY <1>2, <3>1
    <3>. HIDE DEF good
    <3>. QED
      BY <1>4, <3>1, <3>2
  <2>. HIDE DEF S
  <2>3. S \in SUBSET Nat
    BY DEF S
  <2>. QED
    BY <1>2, <2>1, <2>2, <2>3, Induction
<1>6. good(MemSize)
  <2>. HIDE DEF good
  <2>. QED
    BY <1>2, <1>5
<1>7. PICK B, f : Rounded(m, A, c[MemSize], B, f)
  BY <1>6
<1>8. c[MemSize].hole = Invalid
  <2>1. SUFFICES ASSUME c[MemSize].hole # Invalid
                 PROVE  FALSE
    OBVIOUS
  <2>2. PICK h \in Nat : h = c[MemSize].hole
    BY <1>7, <2>1 DEF Rounded
  <2>3. h >= MemSize /\ h \in B \cup {f}
    BY <1>6, <1>7, <2>1, <2>2 DEF Rounded
  <2>4. c[MemSize].call.mem \in Memory /\ Table(c[MemSize].call.mem, B, f)
    BY <1>7 DEF Rounded, Good, Call
  <2>5. h < MemSize
    <3>1. f <= MemSize - 3 /\ f \in Nat /\ \A z \in B : z < f /\ z \in Nat
      BY <2>4, GoodFacts
    <3>. QED
      BY <1>2, <2>3, <3>1
  <2>. QED
    BY <1>2, <2>2, <2>3, <2>5
<1>. QED
  BY <1>1, <1>7, <1>8 DEF Rounded, m

-----------------------------------------------------------------------------
(* One entry changes                                                         *)

\* A write within the item at a leaves the other items and the end tag.
LEMMA OthersStay ==
  ASSUME NEW m \in Memory, NEW r \in Memory, NEW A, NEW e, Table(m, A, e), NEW a \in A,
         NEW b \in Nat, b <= a + FullLength(m, a), SameOutside(m, r, a, b)
  PROVE  /\ \A x \in A : x # a => Copied(m, x, r, x)
         /\ IsEnd(r, e)
<1>1. /\ A \in SUBSET Nat /\ e \in Nat /\ e <= MemSize - 3 /\ IsEnd(m, e)
      /\ \A x \in A : /\ x \in Nat /\ FullLength(m, x) \in Nat /\ x < e
                      /\ x + FullLength(m, x) <= e
      /\ Entries(m, A, FirstItem, e)
  BY GoodFacts
<1>2. \A x \in A, y \in A \cup {e} : x < y => x + FullLength(m, x) <= y
  BY <1>1 DEF Entries
<1>3. PICK l \in Nat : l = FullLength(m, a)
  BY <1>1
<1>4. MemSize \in Nat /\ a \in Nat /\ a + l <= e
  BY <1>1, <1>3, Sizes
<1>5. SameInside(m, r, 0, a) /\ SameInside(m, r, b, MemSize)
  BY <1>4, OutsideInside
<1>6. ASSUME NEW x \in A, x # a
      PROVE  Copied(m, x, r, x)
  <2>1. PICK n \in Nat : n = FullLength(m, x)
    BY <1>1
  <2>2. CASE x < a
    <3>1. x + n <= a /\ x \in Nat /\ 0 <= x /\ a <= MemSize
      BY <1>1, <1>2, <1>4, <2>1, <2>2
    <3>. QED
      BY <1>4, <1>5, <2>1, <3>1, CopiedInside
  <2>3. CASE ~(x < a)
    <3>1. a < x /\ x \in Nat
      BY <1>1, <1>4, <1>6, <2>3
    <3>2. a + l <= x
      BY <1>2, <1>3, <3>1
    <3>3. b <= x /\ x + n <= MemSize /\ MemSize <= MemSize
      BY <1>1, <1>3, <1>4, <2>1, <3>1, <3>2, Sizes
    <3>. QED
      BY <1>4, <1>5, <2>1, <3>1, <3>3, CopiedInside
  <2>. QED
    BY <2>2, <2>3
<1>7. IsEnd(r, e)
  <2>1. b <= e /\ e + 2 <= MemSize /\ e <= MemSize - 2
    BY <1>1, <1>3, <1>4, Sizes
  <2>2. FullLength(r, e) = FullLength(m, e)
    BY <1>1, <1>4, <1>5, <2>1, SameLength
  <2>. QED
    BY <1>1, <2>2 DEF IsEnd
<1>. QED
  BY <1>6, <1>7

LEMMA ChangeKeepsTable ==
  ASSUME NEW m \in Memory, NEW r \in Memory, NEW A, NEW e, Table(m, A, e), NEW a \in A,
         NEW b \in Nat, b <= a + FullLength(m, a), SameOutside(m, r, a, b),
         FullLength(r, a) = FullLength(m, a)
  PROVE  Table(r, A, e)
<1>1. /\ \A x \in A : x # a => Copied(m, x, r, x)
      /\ IsEnd(r, e)
  BY OthersStay
<1>2. /\ e <= MemSize - 3 /\ Entries(m, A, FirstItem, e)
      /\ \A x \in A : x \in Nat /\ FullLength(m, x) \in Nat /\ FullLength(m, x) >= 4
  BY GoodFacts
<1>3. \A x \in A : FullLength(r, x) = FullLength(m, x)
  BY <1>1, <1>2, CopiedHeader
<1>4. Entries(r, A, FirstItem, e)
  BY <1>2, <1>3, SameEntries
<1>. QED
  BY <1>1, <1>2, <1>4 DEF Table

\* A difference between the totals stays in front of it.
LEMMA TotalsDiffer ==
  ASSUME NEW m \in Memory, NEW r \in Memory, NEW A, NEW a, NEW b,
         Entries(m, A, a, b), b <= MemSize - 3,
         \A x \in A : Copied(m, x, r, x),
         NEW t \in Int, LiveBytes(m, b) \in Nat, LiveBytes(r, b) = LiveBytes(m, b) + t
  PROVE  LiveBytes(m, a) \in Nat /\ LiveBytes(r, a) = LiveBytes(m, a) + t
<1>. DEFINE good(x) == LiveBytes(m, x) \in Nat /\ LiveBytes(r, x) = LiveBytes(m, x) + t
            S == {x \in Nat : x \in A \cup {b} => good(x)}
<1>1. /\ A \in SUBSET Nat /\ a \in Nat /\ b \in Nat /\ a \in A \cup {b}
      /\ \A x \in A : /\ x \in Nat /\ a <= x /\ x < b
                      /\ FullLength(m, x) \in Nat /\ FullLength(m, x) >= 4
                      /\ x + FullLength(m, x) \in A \cup {b}
  BY EntriesFacts
<1>2. ASSUME NEW x \in A, x + FullLength(m, x) \in S
      PROVE  good(x)
  <2>. DEFINE c == x + FullLength(m, x)
              own == IF FALSE = (KeyLength(m, x) = 0) THEN FullLength(m, x) ELSE 0
  <2>1. /\ x \in Nat /\ x < b /\ FullLength(m, x) \in Nat /\ FullLength(m, x) >= 4
        /\ c \in A \cup {b} /\ c \in Nat
    BY <1>1
  <2>2. good(c)
    <3>. HIDE DEF good, c
    <3>. QED
      BY <1>2, <2>1 DEF c
  <2>3. FullLength(r, x) = FullLength(m, x) /\ KeyLength(r, x) = KeyLength(m, x)
    BY <2>1, CopiedHeader
  <2>4. ~IsPast(m, x)
    BY <2>1, <1>1, ItemsAreNotEnds, Sizes DEF IsPast
  <2>5. ~IsPast(r, x)
    BY <2>3, <2>4 DEF IsEnd, IsPast
  <2>6. LiveBytes(m, x) = own + LiveBytes(m, c)
    BY <2>1, <2>4, TotalStep DEF LiveBytes
  <2>7. LiveBytes(r, x) = own + LiveBytes(r, c)
    <3>1. LiveBytes(r, x) = (IF FALSE = (KeyLength(r, x) = 0) THEN FullLength(r, x) ELSE 0)
                              + LiveBytes(r, x + FullLength(r, x))
      BY <2>1, <2>5, TotalStep DEF LiveBytes
    <3>. QED
      BY <2>3, <3>1
  <2>8. own \in Nat
    BY <2>1
  <2>. HIDE DEF own, c
  <2>9. PICK i \in Nat : LiveBytes(m, c) = i /\ LiveBytes(r, c) = i + t
    BY <2>2
  <2>10. LiveBytes(m, x) = own + i /\ LiveBytes(r, x) = own + (i + t)
    BY <2>6, <2>7, <2>9
  <2>11. own + i \in Nat /\ own + (i + t) = own + i + t
    BY <2>8
  <2>. QED
    BY <2>10, <2>11
<1>3. S = Nat
  <2>. DEFINE N == b
  <2>1. N \in Nat /\ \A x \in Nat : x >= N => x \in S
    <3>1. N \in Nat
      BY <1>1
    <3>2. ASSUME NEW x \in Nat, x >= N
          PROVE  x \in S
      <4>1. x \notin A
        BY <1>1, <3>2
      <4>. QED
        BY <1>1, <3>2, <4>1
    <3>. HIDE DEF N, S
    <3>. QED
      BY <3>1, <3>2
  <2>2. ASSUME NEW x \in Nat, \A y \in Nat : y > x => y \in S
        PROVE  x \in S
    <3>1. CASE x \in A
      <4>1. x + FullLength(m, x) \in Nat /\ x + FullLength(m, x) > x
        BY <1>1, <3>1
      <4>2. good(x)
        <5>. HIDE DEF good, S
        <5>. QED
          BY <1>2, <2>2, <3>1, <4>1
      <4>. QED
        BY <4>2
    <3>2. CASE x \notin A
      BY <3>2
    <3>. QED
      BY <3>1, <3>2
  <2>. HIDE DEF S, N
  <2>3. S \in SUBSET Nat
    BY DEF S
  <2>. QED
    BY <2>1, <2>2, <2>3, Downward
<1>4. good(a)
  <2>. HIDE DEF good
  <2>. QED
    BY <1>1, <1>3
<1>. QED
  BY <1>4

\* What the item at a counts for.
Weight(m, a) == IF KeyLength(m, a) # 0 THEN FullLength(m, a) ELSE 0

\* The total follows the weight of the one item that changes.
LEMMA ChangedTotal ==
  ASSUME NEW m \in Memory, NEW r \in Memory, NEW A, NEW e, Table(m, A, e), NEW a \in A,
         NEW b \in Nat, b <= a + FullLength(m, a), SameOutside(m, r, a, b),
         FullLength(r, a) = FullLength(m, a)
  PROVE  /\ LiveBytes(m, FirstItem) \in Nat
         /\ LiveBytes(r, FirstItem) = LiveBytes(m, FirstItem) + (Weight(r, a) - Weight(m, a))
<1>. DEFINE c == a + FullLength(m, a)
            t == Weight(r, a) - Weight(m, a)
<1>1. /\ \A x \in A : x # a => Copied(m, x, r, x)
      /\ IsEnd(r, e)
  BY OthersStay
<1>2. Table(r, A, e)
  BY ChangeKeepsTable
<1>3. /\ A \in SUBSET Nat /\ e \in Nat /\ e <= MemSize - 3 /\ Entries(m, A, FirstItem, e)
      /\ \A x \in A : x \in Nat
      /\ a < MemSize - 3 /\ FullLength(m, a) \in Nat /\ FullLength(m, a) >= 4
      /\ c \in A \cup {e} /\ ~IsEnd(m, a) /\ IsEnd(m, e)
  BY GoodFacts
<1>4. c \in Nat /\ a < c /\ a \in Nat /\ a <= MemSize - 3
  BY <1>3, Sizes
<1>. HIDE DEF c
<1>5. Entries(m, From(A, c), c, e) /\ Entries(m, Below(A, a), FirstItem, a)
  BY <1>3, SplitEntries
<1>6. LiveBytes(r, c) = LiveBytes(m, c)
  <2>1. \A x \in From(A, c) : Copied(m, x, r, x)
    BY <1>1, <1>3, <1>4 DEF From
  <2>2. LiveBytes(r, e) = LiveBytes(m, e)
    BY <1>1, <1>3, EndTotal DEF LiveBytes
  <2>. QED
    BY <1>3, <1>5, <2>1, <2>2, TotalOfStay
<1>7. ~IsPast(m, a) /\ ~IsPast(r, a)
  BY <1>3, <1>4, Sizes DEF IsPast, IsEnd
<1>8. /\ LiveBytes(m, a) = Weight(m, a) + LiveBytes(m, c)
      /\ LiveBytes(r, a) = Weight(r, a) + LiveBytes(r, c)
  <2>1. /\ LiveBytes(m, a) = (IF FALSE = (KeyLength(m, a) = 0) THEN FullLength(m, a) ELSE 0)
                              + LiveBytes(m, a + FullLength(m, a))
        /\ LiveBytes(r, a) = (IF FALSE = (KeyLength(r, a) = 0) THEN FullLength(r, a) ELSE 0)
                              + LiveBytes(r, a + FullLength(r, a))
    BY <1>4, <1>7, TotalStep DEF LiveBytes
  <2>. QED
    BY <2>1 DEF Weight, c
<1>9. LiveBytes(m, c) \in Nat
  BY <1>3, TotalsFill DEF LiveBytes, c
<1>10. Weight(m, a) \in Nat /\ Weight(r, a) \in Nat
  BY <1>3 DEF Weight
<1>11. t \in Int /\ LiveBytes(m, a) \in Nat /\ LiveBytes(r, a) = LiveBytes(m, a) + t
  <2>1. PICK i \in Nat, j \in Nat, n \in Nat :
          Weight(m, a) = i /\ Weight(r, a) = j /\ LiveBytes(m, c) = n
    BY <1>9, <1>10
  <2>2. LiveBytes(m, a) = i + n /\ LiveBytes(r, a) = j + n /\ t = j - i
    BY <1>6, <1>8, <2>1
  <2>. QED
    BY <2>2
<1>. HIDE DEF t
<1>12. LiveBytes(m, FirstItem) \in Nat /\ LiveBytes(r, FirstItem) = LiveBytes(m, FirstItem) + t
  <2>1. \A x \in Below(A, a) : Copied(m, x, r, x)
    BY <1>1, <1>3, <1>4 DEF Below
  <2>. QED
    BY <1>4, <1>5, <1>11, <2>1, TotalsDiffer
<1>. QED
  BY <1>12 DEF t

\* The item of a key becomes a hole.
LEMMA HoleHolds ==
  ASSUME NEW m \in Memory, NEW r \in Memory, NEW A, NEW e, Table(m, A, e), NEW a \in A,
         NEW b \in Nat, b <= a + FullLength(m, a), SameOutside(m, r, a, b),
         FullLength(r, a) = FullLength(m, a), KeyLength(r, a) = 0,
         NEW st, Holds(m, A, st), NEW k \in Key, KeyAt(m, a, k)
  PROVE  Holds(r, A, [st EXCEPT ![k] = <<>>])
<1>. DEFINE u == [st EXCEPT ![k] = <<>>]
<1>1. \A x \in A : x # a => Copied(m, x, r, x)
  BY OthersStay
<1>2. \A x \in A : /\ x \in Nat /\ FullLength(m, x) \in Nat /\ FullLength(m, x) >= 4
  BY GoodFacts
<1>3. st \in [Key -> Value \cup {<<>>}]
  BY DEF Holds
<1>4. u \in [Key -> Value \cup {<<>>}] /\ u[k] = <<>> /\ \A o \in Key : o # k => u[o] = st[o]
  BY <1>3
<1>. HIDE DEF u
<1>5. ASSUME NEW x \in A, x # a, NEW o \in Key, st[o] # <<>>, Entry(m, x, o, st[o])
      PROVE  Entry(r, x, o, st[o]) /\ \A p \in Key : KeyAt(r, x, p) => KeyAt(m, x, p)
  <2>1. Copied(m, x, r, x) /\ x \in Nat /\ st[o] \in Value
    BY <1>1, <1>2, <1>5, ValueInStore
  <2>. QED
    BY <1>5, <2>1, CopiedEntry
<1>6. ASSUME NEW x \in A, KeyLength(r, x) # 0
      PROVE  \E o \in Key : u[o] # <<>> /\ Entry(r, x, o, u[o])
  <2>1. x # a
    BY <1>6
  <2>2. KeyLength(m, x) # 0
    BY <1>1, <1>2, <1>6, <2>1, CopiedHeader
  <2>3. PICK o \in Key : st[o] # <<>> /\ Entry(m, x, o, st[o])
    BY <2>2 DEF Holds
  <2>4. o # k
    <3>1. SUFFICES ASSUME o = k
                   PROVE  FALSE
      OBVIOUS
    <3>2. KeyAt(m, x, k)
      BY <2>3, <3>1 DEF Entry, KeyAt
    <3>. QED
      BY <2>1, <3>2 DEF Holds
  <2>. QED
    BY <1>4, <1>5, <2>1, <2>3, <2>4
<1>7. ASSUME NEW o \in Key, u[o] # <<>>
      PROVE  \E x \in A : Entry(r, x, o, u[o])
  <2>1. o # k /\ u[o] = st[o]
    BY <1>4, <1>7
  <2>2. PICK x \in A : Entry(m, x, o, st[o])
    BY <1>7, <2>1 DEF Holds
  <2>3. x # a
    <3>1. SUFFICES ASSUME x = a
                   PROVE  FALSE
      OBVIOUS
    <3>3. Len(o) = Len(k) /\ \A i \in 1 .. Len(k) : o[i] = k[i]
      BY <2>2, <3>1 DEF Entry, KeyAt
    <3>4. o = k
      <4>1. o \in Seq(Byte) /\ k \in Seq(Byte)
        BY KeyIsBytes
      <4>. QED
        BY <3>3, <4>1, SeqEqual
    <3>. QED
      BY <2>1, <3>4
  <2>. QED
    BY <1>5, <1>7, <2>1, <2>2, <2>3
<1>8. ASSUME NEW x \in A, NEW y \in A, NEW o \in Key, KeyAt(r, x, o), KeyAt(r, y, o)
      PROVE  x = y
  <2>1. \A z \in A : KeyAt(r, z, o) => KeyAt(m, z, o)
    <3>1. SUFFICES ASSUME NEW z \in A, KeyAt(r, z, o)
                   PROVE  KeyAt(m, z, o)
      OBVIOUS
    <3>2. KeyLength(r, z) # 0
      BY <3>1, KeyIsNotEmpty DEF KeyAt
    <3>3. z # a
      BY <3>2
    <3>4. KeyLength(m, z) # 0
      BY <1>1, <1>2, <3>2, <3>3, CopiedHeader
    <3>5. PICK p \in Key : st[p] # <<>> /\ Entry(m, z, p, st[p])
      BY <3>4 DEF Holds
    <3>. QED
      BY <1>5, <3>1, <3>3, <3>5
  <2>. QED
    BY <1>8, <2>1 DEF Holds
<1>. QED
  BY <1>4, <1>6, <1>7, <1>8 DEF Holds, u

\* What writeItem writes can be read.
LEMMA WriteItemSays ==
  ASSUME NEW s \in Call, NEW a \in Nat, NEW k \in Key, NEW v \in Value,
         a + ItemSize(k, v) <= MemSize
  PROVE  Entry(WriteItem(s, a, k, v).mem, a, k, v)
<1>. DEFINE x == WriteHeader(s, a, ItemSize(k, v), Len(k))
            y == Write(x, a + 3, k)
            n == Write(y, a + 3 + Len(k), v)
            l == Len(k)
            z == Len(v)
<1>1. /\ k \in Seq(Byte) /\ l \in 1 .. 255 /\ l \in Byte
      /\ v \in Seq(Byte) /\ z \in Nat /\ z > 0
      /\ ItemSize(k, v) \in Nat /\ ItemSize(k, v) <= EndTag /\ ItemSize(k, v) = 3 + l + z
  BY ItemSizeIsSmall DEF EndTag
<1>2. n = WriteItem(s, a, k, v)
  BY DEF WriteItem
<1>3. x \in Call
  <2>. HIDE DEF l
  <2>. QED
    BY <1>1, WriteHeaderDoes DEF l
<1>4. MemSize \in Nat /\ a <= MemSize - 3
  BY <1>1, Sizes
<1>5. FullLength(n.mem, a) = ItemSize(k, v) /\ KeyLength(n.mem, a) = l
  <2>1. a <= MemSize - 2
    BY <1>4
  <2>. HIDE DEF n
  <2>2. LET w == WriteItem(s, a, k, v)
        IN  /\ a <= MemSize - 2 => FullLength(w.mem, a) = ItemSize(k, v)
            /\ a <= MemSize - 3 => KeyLength(w.mem, a) = Len(k)
    BY WriteItemDoes
  <2>. QED
    BY <1>2, <1>4, <2>1, <2>2
<1>. HIDE DEF x
<1>6. y \in Call /\ \A i \in 1 .. l : y.mem[a + 2 + i] = k[i]
  <2>. DEFINE b == a + 3
  <2>1. b \in Int
    OBVIOUS
  <2>. HIDE DEF b
  <2>2. LET w == Write(x, b, k)
        IN  /\ w \in Call
            /\ \A i \in 1 .. Len(k) :
                 b + i - 1 \in 0 .. MemSize - 1 => w.mem[b + i - 1] = k[i]
    BY <1>1, <1>3, <2>1, WriteDoes
  <2>3. \A i \in 1 .. l : b + i - 1 = a + 2 + i /\ b + i - 1 \in 0 .. MemSize - 1
    BY <1>1, <1>4 DEF b
  <2>4. y = Write(x, b, k)
    BY DEF b
  <2>. HIDE DEF y
  <2>. QED
    BY <2>2, <2>3, <2>4
<1>. HIDE DEF y
<1>7. /\ SameOutside(y.mem, n.mem, a + 3 + l, a + 3 + l + z)
      /\ \A i \in 1 .. z : n.mem[a + 2 + l + i] = v[i]
  <2>. DEFINE b == a + 3 + Len(k)
  <2>1. b \in Int
    BY <1>1
  <2>. HIDE DEF b
  <2>2. LET w == Write(y, b, v)
        IN  /\ SameOutside(y.mem, w.mem, b, b + Len(v))
            /\ \A i \in 1 .. Len(v) :
                 b + i - 1 \in 0 .. MemSize - 1 => w.mem[b + i - 1] = v[i]
    BY <1>1, <1>6, <2>1, WriteDoes
  <2>3. \A i \in 1 .. z : b + i - 1 = a + 2 + l + i /\ b + i - 1 \in 0 .. MemSize - 1
    BY <1>1, <1>4 DEF b
  <2>4. n = Write(y, b, v)
    BY DEF b
  <2>5. SameOutside(y.mem, n.mem, a + 3 + l, a + 3 + l + z)
    BY <2>2 DEF b
  <2>. HIDE DEF n
  <2>. QED
    BY <2>2, <2>3, <2>4, <2>5
<1>. HIDE DEF n, l, z
<1>8. ASSUME NEW i \in 1 .. l
      PROVE  n.mem[a + 2 + i] = k[i]
  <2>1. a + 2 + i \in 0 .. MemSize - 1 /\ a + 2 + i < a + 3 + l
    BY <1>1, <1>4
  <2>2. n.mem[a + 2 + i] = y.mem[a + 2 + i]
    BY <1>7, <2>1 DEF SameOutside
  <2>. QED
    BY <1>6, <2>2
<1>. QED
  BY <1>2, <1>5, <1>7, <1>8 DEF Entry, l, z

\* An entry of k goes to the end, where there is no other one of k.
LEMMA PutDoes ==
  ASSUME NEW s \in Call, NEW A, NEW e, Good(s.mem, A, e), NEW k \in Key, NEW v \in Value,
         Fits(e, k, v)
  PROVE  LET n == PutAtEnd(s, k, v)
         IN  /\ n \in Call
             /\ Table(n.mem, A \cup {e}, e + ItemSize(k, v))
             /\ Entry(n.mem, e, k, v)
             /\ SameInside(s.mem, n.mem, 0, e)
             /\ LiveBytes(s.mem, FirstItem) \in Nat
             /\ LiveBytes(n.mem, FirstItem) = LiveBytes(s.mem, FirstItem) + ItemSize(k, v)
<1>. DEFINE m == s.mem
            size == ItemSize(k, v)
            w == WriteItem(s, e, k, v)
            n == WriteEnd(w, e + size)
            r == n.mem
<1>1. m \in Memory /\ Table(m, A, e) /\ Good(m, A, e)
  BY DEF Call, Good
<1>2. /\ A \in SUBSET Nat /\ e \in Nat /\ e <= MemSize - 3 /\ IsEnd(m, e)
      /\ Entries(m, A, FirstItem, e) /\ FirstItem <= e /\ FirstItem \in A \cup {e}
      /\ \A x \in A : /\ x \in Nat /\ FullLength(m, x) \in Nat
                      /\ x + FullLength(m, x) <= e
  BY <1>1, GoodFacts
<1>3. /\ size \in Nat /\ size >= 4 /\ size < EndTag /\ size = 3 + Len(k) + Len(v)
      /\ Len(k) \in Nat /\ Len(k) >= 1 /\ Len(v) \in Nat
  BY ItemSizeIsSmall, KeyIsNotEmpty
<1>4. MemSize \in Nat /\ e + size + 2 < MemSize
  BY Sizes DEF Fits
<1>5. PutAtEnd(s, k, v) = n
  <2>1. FirstItem \in A \cup {e}
    BY <1>2
  <2>2. FindEnd(s.mem, FirstItem) = e
    BY <1>1, <2>1, FindEndDoes
  <2>. QED
    BY <2>2 DEF PutAtEnd
<1>. HIDE DEF m, size
<1>6. w \in Call /\ SameOutside(m, w.mem, e, e + size)
  BY <1>2, WriteItemDoes DEF m, size
<1>7. Entry(w.mem, e, k, v)
  <2>1. e + size <= MemSize
    BY <1>2, <1>3, <1>4
  <2>. QED
    BY <1>2, <2>1, WriteItemSays DEF size
<1>. HIDE DEF w
<1>8. /\ n \in Call /\ SameOutside(w.mem, r, e + size, e + size + 2)
      /\ IsEnd(r, e + size)
  <2>. DEFINE b == e + size
  <2>1. b \in Nat /\ b <= MemSize - 2
    BY <1>2, <1>3, <1>4
  <2>. HIDE DEF b
  <2>2. LET x == WriteEnd(w, b)
        IN  /\ x \in Call
            /\ SameOutside(w.mem, x.mem, b, b + 2)
            /\ b <= MemSize - 2 => IsEnd(x.mem, b)
    BY <1>6, <2>1, WriteEndDoes
  <2>. QED
    BY <2>1, <2>2 DEF b
<1>. HIDE DEF n
<1>9. r \in Memory
  BY <1>8 DEF Call
<1>10. SameInside(m, r, 0, e)
  <2>1. ASSUME NEW x \in 0 .. MemSize - 1, x < e
        PROVE  r[x] = m[x]
    <3>1. w.mem[x] = m[x]
      BY <1>6, <2>1 DEF SameOutside
    <3>2. x < e + size
      BY <1>2, <1>3, <1>4, <2>1
    <3>3. r[x] = w.mem[x]
      BY <1>8, <3>2 DEF SameOutside
    <3>. QED
      BY <3>1, <3>3
  <2>. QED
    BY <2>1 DEF SameInside
<1>11. \A x \in A : Copied(m, x, r, x)
  <2>1. SUFFICES ASSUME NEW x \in A
                 PROVE  Copied(m, x, r, x)
    OBVIOUS
  <2>2. x \in Nat /\ 0 <= x /\ FullLength(m, x) \in Nat /\ x + FullLength(m, x) <= e /\ e <= MemSize
    BY <1>2, <1>4
  <2>. QED
    BY <1>2, <1>10, <2>2, CopiedInside
<1>12. Entry(r, e, k, v)
  <2>1. w.mem \in Memory
    BY <1>6 DEF Call
  <2>2. FullLength(w.mem, e) = size
    BY <1>7 DEF Entry, size
  <2>3. SameInside(w.mem, r, 0, e + size)
    BY <1>2, <1>3, <1>8, OutsideInside
  <2>4. e + size <= MemSize /\ 0 <= e /\ e + size \in Nat
    BY <1>2, <1>3, <1>4
  <2>5. Copied(w.mem, e, r, e)
    <3>. DEFINE b == e + size
    <3>1. b \in Nat /\ b <= MemSize /\ SameInside(w.mem, r, 0, b) /\ e + FullLength(w.mem, e) <= b
      BY <1>2, <1>3, <2>2, <2>3, <2>4
    <3>2. FullLength(w.mem, e) \in Nat
      BY <1>3, <2>2
    <3>. HIDE DEF b
    <3>. QED
      BY <1>2, <2>4, <3>1, <3>2, CopiedInside
  <2>. QED
    BY <1>2, <1>7, <2>5, CopiedEntry
<1>13. Table(r, A \cup {e}, e + size)
  <2>1. Entries(r, A, FirstItem, e)
    <3>1. SameInside(m, r, FirstItem, e)
      BY <1>10 DEF SameInside, FirstItem
    <3>2. e <= MemSize - 1
      BY <1>2, <1>4
    <3>. QED
      BY <1>1, <1>2, <3>1, <3>2, KeepEntries
  <2>2. Entries(r, {e}, e, e + size)
    <3>. DEFINE b == e + size
    <3>1. FullLength(r, e) = size /\ b \in Nat /\ e + FullLength(r, e) = b
      BY <1>2, <1>3, <1>12 DEF Entry, size
    <3>. HIDE DEF b
    <3>2. Entries(r, {e}, e, b)
      BY <1>2, <1>3, <3>1, OneEntry
    <3>. QED
      BY <3>2 DEF b
  <2>3. Entries(r, A \cup {e}, FirstItem, e + size)
    <3>. DEFINE b == e + size
    <3>. HIDE DEF b
    <3>1. Entries(r, {e}, e, b)
      BY <2>2 DEF b
    <3>2. Entries(r, A \cup {e}, FirstItem, b)
      BY <2>1, <3>1, JoinEntries
    <3>. QED
      BY <3>2 DEF b
  <2>4. e + size <= MemSize - 3
    BY <1>2, <1>3, <1>4
  <2>. QED
    BY <1>8, <2>3, <2>4 DEF Table
<1>14. /\ LiveBytes(m, FirstItem) \in Nat
       /\ LiveBytes(r, FirstItem) = LiveBytes(m, FirstItem) + size
  <2>1. LiveBytes(m, e) = 0
    BY <1>1, <1>2, EndTotal DEF LiveBytes
  <2>2. LiveBytes(r, e + size) = 0
    <3>. DEFINE b == e + size
    <3>1. b \in Nat /\ IsEnd(r, b)
      BY <1>2, <1>3, <1>8
    <3>. HIDE DEF b
    <3>2. LiveBytes(r, b) = 0
      BY <1>9, <3>1, EndTotal DEF LiveBytes
    <3>. QED
      BY <3>2 DEF b
  <2>3. LiveBytes(r, e) = size + 0
    <3>1. FullLength(r, e) = size /\ KeyLength(r, e) # 0
      BY <1>3, <1>12 DEF Entry, size
    <3>2. ~IsPast(r, e)
      BY <1>2, <1>3, <1>4, <3>1 DEF IsPast, IsEnd
    <3>3. LiveBytes(r, e) = (IF FALSE = (KeyLength(r, e) = 0) THEN FullLength(r, e) ELSE 0)
                              + LiveBytes(r, e + FullLength(r, e))
      BY <1>2, <1>9, <3>2, TotalStep DEF LiveBytes
    <3>. QED
      BY <2>2, <3>1, <3>3
  <2>4. LiveBytes(m, e) \in Nat /\ LiveBytes(r, e) = LiveBytes(m, e) + size /\ size \in Int
    BY <1>3, <2>1, <2>3
  <2>. QED
    <3>1. Entries(m, A, FirstItem, e) /\ e <= MemSize - 3
      BY <1>2
    <3>. QED
      BY <1>1, <1>9, <1>11, <2>4, <3>1, TotalsDiffer
<1>. QED
  BY <1>5, <1>8, <1>10, <1>12, <1>13, <1>14 DEF m, size

\* The entries in front stay, and k is bound to v.
LEMMA PutHolds ==
  ASSUME NEW m \in Memory, NEW r \in Memory, NEW A, NEW e, Table(m, A, e),
         NEW k \in Key, NEW v \in Value, NEW f, Table(r, A \cup {e}, f),
         Entry(r, e, k, v), SameInside(m, r, 0, e),
         NEW st, Holds(m, A, st), st[k] = <<>>
  PROVE  Holds(r, A \cup {e}, [st EXCEPT ![k] = v])
<1>. DEFINE u == [st EXCEPT ![k] = v]
            B == A \cup {e}
<1>1. /\ A \in SUBSET Nat /\ e \in Nat /\ e <= MemSize - 3
      /\ \A x \in A : /\ x \in Nat /\ FullLength(m, x) \in Nat /\ FullLength(m, x) >= 4
                      /\ x + FullLength(m, x) <= e
  BY GoodFacts
<1>2. \A x \in A : Copied(m, x, r, x)
  <2>1. SUFFICES ASSUME NEW x \in A
                 PROVE  Copied(m, x, r, x)
    OBVIOUS
  <2>2. x \in Nat /\ 0 <= x /\ FullLength(m, x) \in Nat /\ x + FullLength(m, x) <= e /\ e <= MemSize
    BY <1>1, Sizes
  <2>. QED
    BY <1>1, <2>2, CopiedInside
<1>3. st \in [Key -> Value \cup {<<>>}] /\ v # <<>>
  BY KeyAssumption DEF Holds
<1>4. u \in [Key -> Value \cup {<<>>}] /\ u[k] = v /\ \A o \in Key : o # k => u[o] = st[o]
  BY <1>3
<1>. HIDE DEF u
<1>5. ASSUME NEW x \in A, NEW o \in Key, st[o] # <<>>, Entry(m, x, o, st[o])
      PROVE  Entry(r, x, o, st[o]) /\ \A p \in Key : KeyAt(r, x, p) => KeyAt(m, x, p)
  <2>1. Copied(m, x, r, x) /\ x \in Nat /\ st[o] \in Value
    BY <1>1, <1>2, <1>5, ValueInStore
  <2>. QED
    BY <1>5, <2>1, CopiedEntry
<1>6. ASSUME NEW x \in A, KeyLength(r, x) # 0
      PROVE  \E o \in Key : /\ o # k /\ st[o] # <<>> /\ Entry(m, x, o, st[o])
                            /\ Entry(r, x, o, st[o])
  <2>1. KeyLength(m, x) # 0
    BY <1>1, <1>2, <1>6, CopiedHeader
  <2>2. PICK o \in Key : st[o] # <<>> /\ Entry(m, x, o, st[o])
    BY <2>1 DEF Holds
  <2>. QED
    BY <1>5, <2>2
<1>7. ASSUME NEW x \in B, KeyLength(r, x) # 0
      PROVE  \E o \in Key : u[o] # <<>> /\ Entry(r, x, o, u[o])
  <2>1. CASE x \in A
    BY <1>4, <1>6, <1>7, <2>1
  <2>2. CASE x = e
    BY <1>3, <1>4, <2>2
  <2>. QED
    BY <2>1, <2>2
<1>8. ASSUME NEW o \in Key, u[o] # <<>>
      PROVE  \E x \in B : Entry(r, x, o, u[o])
  <2>1. CASE o = k
    BY <1>4, <2>1
  <2>2. CASE o # k
    <3>1. u[o] = st[o]
      BY <1>4, <2>2
    <3>2. PICK x \in A : Entry(m, x, o, st[o])
      BY <1>8, <3>1 DEF Holds
    <3>. QED
      BY <1>5, <1>8, <3>1, <3>2
  <2>. QED
    BY <2>1, <2>2
<1>9. ASSUME NEW x \in A, NEW o \in Key, KeyAt(r, x, o)
      PROVE  KeyAt(m, x, o) /\ ~KeyAt(r, e, o)
  <2>1. KeyLength(r, x) # 0
    BY <1>9, KeyIsNotEmpty DEF KeyAt
  <2>2. PICK p \in Key : p # k /\ st[p] # <<>> /\ Entry(m, x, p, st[p]) /\ Entry(r, x, p, st[p])
    BY <1>6, <2>1
  <2>3. KeyAt(m, x, o)
    BY <1>5, <1>9, <2>2
  <2>4. ~KeyAt(r, e, o)
    <3>1. SUFFICES ASSUME KeyAt(r, e, o)
                   PROVE  p = k
      BY <2>2
    <3>2. Len(o) = Len(k) /\ \A i \in 1 .. Len(k) : o[i] = k[i]
      BY <3>1 DEF Entry, KeyAt
    <3>3. Len(o) = Len(p) /\ \A i \in 1 .. Len(p) : o[i] = p[i]
      BY <1>9, <2>2 DEF Entry, KeyAt
    <3>4. p \in Seq(Byte) /\ k \in Seq(Byte)
      BY KeyIsBytes
    <3>5. Len(p) = Len(k) /\ \A i \in 1 .. Len(k) : p[i] = k[i]
      BY <3>2, <3>3
    <3>. QED
      BY <3>4, <3>5, SeqEqual
  <2>. QED
    BY <2>3, <2>4
<1>10. ASSUME NEW x \in B, NEW y \in B, NEW o \in Key, KeyAt(r, x, o), KeyAt(r, y, o)
       PROVE  x = y
  <2>1. CASE x \in A /\ y \in A
    <3>1. KeyAt(m, x, o) /\ KeyAt(m, y, o)
      BY <1>9, <1>10, <2>1
    <3>. QED
      BY <2>1, <3>1 DEF Holds
  <2>2. CASE x \notin A \/ y \notin A
    BY <1>9, <1>10, <2>2
  <2>. QED
    BY <2>1, <2>2
<1>. QED
  BY <1>4, <1>7, <1>8, <1>10 DEF Holds, u

-----------------------------------------------------------------------------
(* The calls                                                                 *)

LEMMA VisitedBounds ==
  ASSUME NEW m \in Memory, NEW limit \in Nat, limit <= MemSize - 2, NEW a \in Nat
  PROVE  \A x \in Visited(m, a, limit) : x \in Nat /\ a <= x /\ x < limit
<1>. DEFINE good(b) == \A x \in Visited(m, b, limit) : x \in Nat /\ b <= x /\ x < limit
            S == {b \in Nat : good(b)}
<1>1. \A b \in Nat : b >= limit => b \in S
  BY VisitedStep
<1>2. ASSUME NEW b \in Nat, \A c \in Nat : c > b => c \in S
      PROVE  b \in S
  <2>1. CASE b >= limit \/ IsEnd(m, b)
    BY <2>1, VisitedStep
  <2>2. CASE ~(b >= limit \/ IsEnd(m, b))
    <3>. DEFINE c == b + FullLength(m, b)
    <3>1. FullLength(m, b) \in Nat
      BY <2>2, Header, Sizes
    <3>2. Visited(m, b, limit) = {b} \cup (IF FullLength(m, b) = 0 THEN {} ELSE Visited(m, c, limit))
      BY <2>2, VisitedStep
    <3>3. CASE FullLength(m, b) = 0
      BY <2>2, <3>2, <3>3
    <3>4. CASE FullLength(m, b) # 0
      <4>1. c \in Nat /\ c > b
        BY <3>1, <3>4
      <4>. HIDE DEF c
      <4>2. good(c)
        <5>. HIDE DEF good
        <5>. QED
          BY <1>2, <4>1
      <4>3. \A x \in Visited(m, c, limit) : x \in Nat /\ b <= x /\ x < limit
        BY <4>1, <4>2
      <4>. QED
        BY <2>2, <3>2, <3>4, <4>3
    <3>. QED
      BY <3>3, <3>4
  <2>. QED
    BY <2>1, <2>2
<1>3. S = Nat
  <2>. HIDE DEF S
  <2>1. S \in SUBSET Nat
    BY DEF S
  <2>. QED
    BY <1>1, <1>2, <2>1, Downward
<1>. HIDE DEF good
<1>4. good(a)
  BY <1>3
<1>. QED
  BY <1>4 DEF good

LEMMA FoundKey ==
  ASSUME NEW m \in Memory, NEW k \in Key, FindItemByKey(m, k) # Invalid
  PROVE  LET a == FindItemByKey(m, k)
         IN  /\ a \in Visited(m, FirstItem, MemSize - 3)
             /\ a \in Nat /\ a < MemSize - 3
             /\ HasKey(m, a, k)
             /\ FullLength(m, a) \in Nat /\ FullLength(m, a) <= EndTag
<1>. DEFINE S == {a \in Visited(m, FirstItem, MemSize - 3) : HasKey(m, a, k)}
            a == FindItemByKey(m, k)
<1>1. MemSize - 3 \in Nat /\ MemSize - 3 <= MemSize - 2 /\ FirstItem \in Nat
  BY Sizes DEF FirstItem
<1>2. \A x \in Visited(m, FirstItem, MemSize - 3) : x \in Nat /\ x < MemSize - 3
  <2>. DEFINE limit == MemSize - 3
  <2>. HIDE DEF limit
  <2>1. limit \in Nat /\ limit <= MemSize - 2
    BY <1>1 DEF limit
  <2>2. \A x \in Visited(m, FirstItem, limit) : x \in Nat /\ x < limit
    BY <1>1, <2>1, VisitedBounds
  <2>. QED
    BY <2>2 DEF limit
<1>3. S \in SUBSET Nat
  BY <1>2
<1>4. a = First(S)
  BY DEF FindItemByKey
<1>. HIDE DEF S, a
<1>5. a \in S
  <2>1. First(S) # Invalid
    BY <1>4 DEF a
  <2>. QED
    BY <1>3, <1>4, <2>1, FirstIsLeast
<1>6. a \in Visited(m, FirstItem, MemSize - 3) /\ HasKey(m, a, k)
  BY <1>5 DEF S
<1>7. a \in Nat /\ a < MemSize - 3
  BY <1>2, <1>6
<1>8. FullLength(m, a) \in Nat /\ FullLength(m, a) <= EndTag
  BY <1>1, <1>7, Header, Sizes
<1>. QED
  BY <1>6, <1>7, <1>8 DEF a

LEMMA KeyBytes ==
  ASSUME NEW m \in Memory, NEW a \in Nat, NEW k \in Key
  PROVE  /\ HasKey(m, a, k) => KeyAt(m, a, k)
         /\ KeyAt(m, a, k) /\ a + 3 + Len(k) <= Accessible => HasKey(m, a, k)
<1>1. k \in Seq(1 .. 255)
  BY KeyAssumption
<1>2. PICK l \in Nat : l = Len(k)
  BY KeyIsNotEmpty
<1>3. \A i \in 1 .. l : k[i] \in 1 .. 255
  BY <1>1, <1>2, ElementOfSeq
<1>4. MemSize \in Nat /\ Accessible \in Nat /\ Accessible <= MemSize
  BY Sizes
<1>5. ASSUME HasKey(m, a, k)
      PROVE  KeyAt(m, a, k)
  <2>1. KeyLength(m, a) = l /\ Bytes(m, a + 3, l) = k
    BY <1>2, <1>5 DEF HasKey
  <2>2. ASSUME NEW i \in 1 .. l
        PROVE  m[a + 2 + i] = k[i]
    <3>1. k[i] = IF a + 3 + i - 1 < Accessible THEN m[a + 3 + i - 1] ELSE Beyond
      BY <2>1, <2>2 DEF Bytes
    <3>2. k[i] # Beyond
      BY <1>3 DEF Beyond
    <3>3. a + 3 + i - 1 = a + 2 + i
      BY <1>2
    <3>. QED
      BY <3>1, <3>2, <3>3
  <2>. QED
    BY <1>2, <2>1, <2>2 DEF KeyAt
<1>6. ASSUME KeyAt(m, a, k), a + 3 + Len(k) <= Accessible
      PROVE  HasKey(m, a, k)
  <2>. DEFINE b == a + 3
              bytes == Bytes(m, b, l)
  <2>1. b \in Nat /\ b + l <= Accessible
    BY <1>2, <1>4, <1>6
  <2>2. \A i \in 1 .. l : b + i - 1 = a + 2 + i
    BY <1>2
  <2>. HIDE DEF b
  <2>3. bytes \in Seq(Byte) /\ Len(bytes) = l /\ \A i \in 1 .. l : bytes[i] = m[b + i - 1]
    BY <1>2, <2>1, BytesDoes
  <2>4. \A i \in 1 .. l : bytes[i] = k[i]
    BY <1>2, <1>6, <2>2, <2>3 DEF KeyAt
  <2>5. k \in Seq(Byte)
    <3>1. 1 .. 255 \subseteq Byte
      BY DEF Byte
    <3>. QED
      BY <1>1, <3>1, SeqMonotonic
  <2>. HIDE DEF bytes
  <2>6. bytes = k
    BY <1>2, <2>3, <2>4, <2>5, SeqEqual
  <2>. QED
    BY <1>2, <1>6, <2>6 DEF HasKey, KeyAt, bytes, b
<1>. QED
  BY <1>5, <1>6

\* Where an entry of k lies, the search for k finds it.
LEMMA FindKeyDoes ==
  ASSUME NEW m \in Memory, NEW A, NEW e, Table(m, A, e), NEW k \in Key
  PROVE  /\ FindItemByKey(m, k) # Invalid => /\ FindItemByKey(m, k) \in A
                                             /\ KeyAt(m, FindItemByKey(m, k), k)
         /\ \A st : Holds(m, A, st) =>
              /\ st[k] # <<>> => Entry(m, FindItemByKey(m, k), k, st[k])
              /\ st[k] = <<>> <=> FindItemByKey(m, k) = Invalid
<1>. DEFINE a == FindItemByKey(m, k)
            S == {x \in Visited(m, FirstItem, MemSize - 3) : HasKey(m, x, k)}
<1>1. /\ A \in SUBSET Nat /\ e \in Nat /\ e <= MemSize - 3 /\ FirstItem \in A \cup {e}
      /\ MemSize - 3 \in Nat /\ MemSize - 3 < MemSize - 2
      /\ \A x \in A : /\ x \in Nat /\ FirstItem <= x /\ x < MemSize - 3
                      /\ FullLength(m, x) \in Nat /\ x + FullLength(m, x) <= e
  BY GoodFacts
<1>2. Visited(m, FirstItem, MemSize - 3) = {x \in A : FirstItem <= x /\ x < MemSize - 3}
  <2>. DEFINE limit == MemSize - 3
  <2>1. limit \in Nat /\ limit <= MemSize - 2
    BY <1>1, Sizes
  <2>. HIDE DEF limit
  <2>2. Visited(m, FirstItem, limit) = {x \in A : FirstItem <= x /\ x < limit}
    BY <1>1, <2>1, SearchFollowsTable
  <2>. QED
    BY <2>2 DEF limit
<1>3. \A x : x \in S <=> x \in A /\ HasKey(m, x, k)
  BY <1>1, <1>2
<1>4. a = First(S)
  BY DEF FindItemByKey
<1>5. S \in SUBSET Nat
  BY <1>1, <1>3
<1>. HIDE DEF S, a
<1>6. a # Invalid => a \in S
  BY <1>4, <1>5, FirstIsLeast
<1>7. a = Invalid => S = {}
  BY <1>4, <1>5, FirstIsLeast
<1>8. a # Invalid => a \in A /\ KeyAt(m, a, k)
  BY <1>1, <1>3, <1>6, KeyBytes
<1>9. ASSUME NEW st, Holds(m, A, st), st[k] # <<>>
      PROVE  a # Invalid /\ Entry(m, a, k, st[k])
  <2>1. PICK x \in A : Entry(m, x, k, st[k])
    BY <1>9 DEF Holds
  <2>2. st[k] \in Value /\ KeyAt(m, x, k)
    BY <1>9, <2>1, ValueInStore DEF Entry, KeyAt
  <2>3. x + 3 + Len(k) <= Accessible
    <3>1. /\ Len(k) \in Nat /\ Len(st[k]) \in Nat
          /\ FullLength(m, x) = 3 + Len(k) + Len(st[k])
      BY <2>1, <2>2, ItemSizeIsSmall, KeyIsNotEmpty DEF Entry
    <3>2. x \in Nat /\ x + FullLength(m, x) <= e /\ e \in Nat /\ e <= MemSize - 3
      BY <1>1
    <3>3. PICK l \in Nat, z \in Nat : l = Len(k) /\ z = Len(st[k])
      BY <3>1
    <3>4. x + (3 + l + z) <= e
      BY <3>1, <3>2, <3>3
    <3>5. x + 3 + l <= Accessible
      BY <3>2, <3>4, Sizes
    <3>. QED
      BY <3>3, <3>5
  <2>4. x \in S
    BY <1>1, <1>3, <2>2, <2>3, KeyBytes
  <2>5. a # Invalid
    BY <1>7, <2>4
  <2>6. a = x
    BY <1>8, <1>9, <2>2, <2>5 DEF Holds
  <2>. QED
    BY <2>1, <2>5, <2>6
<1>10. ASSUME NEW st, Holds(m, A, st), st[k] = <<>>
       PROVE  a = Invalid
  <2>1. SUFFICES ASSUME a # Invalid
                 PROVE  FALSE
    OBVIOUS
  <2>2. a \in A /\ KeyAt(m, a, k)
    BY <1>8, <2>1
  <2>3. KeyLength(m, a) # 0
    BY <2>2, KeyIsNotEmpty DEF KeyAt
  <2>4. PICK o \in Key : st[o] # <<>> /\ Entry(m, a, o, st[o])
    BY <1>10, <2>2, <2>3 DEF Holds
  <2>5. Len(o) = Len(k) /\ \A i \in 1 .. Len(k) : o[i] = k[i]
    BY <2>2, <2>4 DEF Entry, KeyAt
  <2>6. o \in Seq(Byte) /\ k \in Seq(Byte)
    BY KeyIsBytes
  <2>7. o = k
    BY <2>5, <2>6, SeqEqual
  <2>. QED
    BY <1>10, <2>4, <2>7
<1>. QED
  BY <1>8, <1>9, <1>10 DEF a

\* Without holes the items fill the table.
LEMMA NoHolesTotal ==
  ASSUME NEW m \in Memory, NEW A, NEW e, Table(m, A, e), NoHoles(m, A, e)
  PROVE  e \in Nat /\ LiveBytes(m, FirstItem) = e - FirstItem
<1>. DEFINE good(x) == LiveBytes(m, x) = e - x
            S == {x \in Nat : x \in A \cup {e} => good(x)}
<1>1. /\ A \in SUBSET Nat /\ e \in Nat /\ e <= MemSize - 3 /\ IsEnd(m, e)
      /\ FirstItem \in A \cup {e} /\ FirstItem \in Nat
      /\ \A x \in A : /\ x \in Nat /\ x < e /\ ~IsEnd(m, x) /\ x < MemSize - 3
                      /\ FullLength(m, x) \in Nat /\ FullLength(m, x) >= 4
                      /\ x + FullLength(m, x) \in A \cup {e}
  BY GoodFacts DEF FirstItem
<1>2. good(e)
  <2>1. LiveBytes(m, e) = 0
    BY <1>1, EndTotal DEF LiveBytes
  <2>2. e - e = 0
    BY <1>1
  <2>. QED
    BY <2>1, <2>2
<1>3. ASSUME NEW x \in A, x + FullLength(m, x) \in S
      PROVE  good(x)
  <2>. DEFINE c == x + FullLength(m, x)
              l == FullLength(m, x)
  <2>1. /\ x \in Nat /\ x < e /\ l \in Nat /\ l >= 4
        /\ c \in A \cup {e} /\ c \in Nat
    BY <1>1
  <2>2. good(c)
    <3>. HIDE DEF good, c
    <3>. QED
      BY <1>3, <2>1 DEF c
  <2>3. ~IsPast(m, x)
    BY <1>1, <2>1, Sizes DEF IsPast
  <2>4. KeyLength(m, x) # 0
    BY <2>1 DEF NoHoles
  <2>5. LiveBytes(m, x) = (IF FALSE = (KeyLength(m, x) = 0) THEN l ELSE 0) + LiveBytes(m, c)
    BY <2>1, <2>3, TotalStep DEF LiveBytes
  <2>6. LiveBytes(m, x) = l + (e - c)
    BY <2>2, <2>4, <2>5
  <2>7. c = x + l
    OBVIOUS
  <2>. HIDE DEF c, l
  <2>8. l + (e - c) = e - x
    BY <1>1, <2>1, <2>7
  <2>. QED
    BY <2>6, <2>8
<1>4. S = Nat
  <2>. DEFINE N == e + 1
  <2>1. N \in Nat /\ \A x \in Nat : x >= N => x \in S
    <3>1. N \in Nat
      BY <1>1
    <3>2. ASSUME NEW x \in Nat, x >= N
          PROVE  x \in S
      <4>1. x \notin A \cup {e}
        BY <1>1, <3>2
      <4>. QED
        BY <1>1, <3>2, <4>1
    <3>. HIDE DEF N, S
    <3>. QED
      BY <3>1, <3>2
  <2>2. ASSUME NEW x \in Nat, \A y \in Nat : y > x => y \in S
        PROVE  x \in S
    <3>1. CASE x \in A
      <4>1. x + FullLength(m, x) \in Nat /\ x + FullLength(m, x) > x
        BY <1>1, <3>1
      <4>2. good(x)
        <5>. HIDE DEF good, S
        <5>. QED
          BY <1>3, <2>2, <3>1, <4>1
      <4>. QED
        BY <4>2
    <3>2. CASE x \notin A
      <4>. HIDE DEF good
      <4>. QED
        BY <1>2, <3>2
    <3>. QED
      BY <3>1, <3>2
  <2>. HIDE DEF S, N
  <2>3. S \in SUBSET Nat
    BY DEF S
  <2>. QED
    BY <2>1, <2>2, <2>3, Downward
<1>5. good(FirstItem)
  <2>. HIDE DEF good
  <2>. QED
    BY <1>1, <1>4
<1>. QED
  BY <1>1, <1>5

\* A record of what a call did.
CallRecord == [call : Call, ok : BOOLEAN, blind : BOOLEAN]

\* What appendItemToEnd makes of a table that ends at e, with l bytes of items,
\* and says st, in which k has no value.
Appended(r, B, f, e, l, st, k, v) ==
  LET n == ItemSize(k, v)
      o == r.call.mem
  IN  \/ /\ ~(e + 3 <= Accessible)
         /\ ~r.ok /\ Holds(o, B, st) /\ LiveBytes(o, FirstItem) = l
         /\ f = e
      \/ /\ e + 3 <= Accessible /\ e + n + 2 < MemSize
         /\ r.ok /\ Holds(o, B, [st EXCEPT ![k] = v]) /\ LiveBytes(o, FirstItem) = l + n
         /\ f = e + n
      \/ /\ e + 3 <= Accessible /\ ~(e + n + 2 < MemSize) /\ FirstItem + l + n + 2 < MemSize
         /\ r.ok /\ Holds(o, B, [st EXCEPT ![k] = v]) /\ LiveBytes(o, FirstItem) = l + n
         /\ f = FirstItem + l + n
      \/ /\ e + 3 <= Accessible /\ ~(e + n + 2 < MemSize) /\ ~(FirstItem + l + n + 2 < MemSize)
         /\ ~r.ok /\ Holds(o, B, st) /\ LiveBytes(o, FirstItem) = l
         /\ f = FirstItem + l

SameVersion(m, r) == r[0] = m[0]

LEMMA AppendDoes ==
  ASSUME NEW s \in Call, NEW A, NEW e, Table(s.mem, A, e), NEW k \in Key, NEW v \in Value
  PROVE  LET r == AppendItemToEnd(s, k, v)
         IN  /\ r \in CallRecord
             /\ SameVersion(s.mem, r.call.mem)
             /\ \E B, f : /\ Table(r.call.mem, B, f)
                          /\ \A st : Holds(s.mem, A, st) /\ st[k] = <<>> =>
                               Appended(r, B, f, e, LiveBytes(s.mem, FirstItem), st, k, v)
<1>. DEFINE m == s.mem
            l == LiveBytes(m, FirstItem)
            n == ItemSize(k, v)
            r == AppendItemToEnd(s, k, v)
            d == Defrag(s)
<1>1. m \in Memory
  BY DEF Call
<1>2. e \in Nat /\ e <= MemSize - 3 /\ n \in Nat /\ MemSize \in Nat /\ Accessible \in Nat
  <2>1. Table(m, A, e)
    OBVIOUS
  <2>2. e \in Nat /\ e <= MemSize - 3
    BY <1>1, <2>1, GoodFacts
  <2>3. n \in Nat
    BY ItemSizeIsSmall
  <2>. QED
    BY <2>2, <2>3, Sizes
<1>3. ASSUME FindEnd(m, FirstItem) # Invalid
      PROVE  Good(m, A, e)
  <2>1. Good(m, Visited(m, FirstItem, MemSize - 2), PastItems(m, FirstItem))
    BY <1>1, <1>3, FindEndFinds
  <2>2. PastItems(m, FirstItem) = e
    <3>. DEFINE limit == MemSize - 2
    <3>1. limit \in Nat /\ limit <= MemSize - 2 /\ FirstItem \in A \cup {e}
      BY <1>1, GoodFacts
    <3>. HIDE DEF limit, m
    <3>2. Table(m, A, e)
      BY DEF m
    <3>. QED
      BY <1>1, <3>1, <3>2, SearchFollowsTable
  <2>. QED
    BY <2>1, <2>2 DEF Good
<1>. HIDE DEF m, l, n, r, d
<1>4. CASE FindEnd(m, FirstItem) = Invalid
  <2>1. r = Called(s, FALSE, TRUE)
    BY <1>4 DEF AppendItemToEnd, r, m
  <2>2. r.call = s /\ r.ok = FALSE /\ r \in CallRecord /\ r.call.mem[0] = m[0]
    BY <2>1 DEF Called, CallRecord, m
  <2>3. ~(e + 3 <= Accessible)
    <3>1. SUFFICES ASSUME e + 3 <= Accessible
                   PROVE  FALSE
      OBVIOUS
    <3>2. Good(m, A, e)
      BY <3>1 DEF Good, m
    <3>3. FirstItem \in A \cup {e} /\ e # Invalid
      BY <1>1, <1>2, <3>2, GoodFacts DEF Good, Invalid
    <3>. QED
      BY <1>1, <1>4, <3>2, <3>3, FindEndDoes
  <2>4. ASSUME NEW st, Holds(m, A, st)
        PROVE  Appended(r, A, e, e, l, st, k, v)
    BY <2>2, <2>3, <2>4 DEF Appended, l, m
  <2>. QED
    BY <2>2, <2>4 DEF r, m, l, SameVersion
<1>5. CASE FindEnd(m, FirstItem) # Invalid
  <2>1. Good(m, A, e) /\ e + 3 <= Accessible
    BY <1>3, <1>5 DEF Good
  <2>2. FindEnd(m, FirstItem) = e /\ e # Invalid
    <3>1. FirstItem \in A \cup {e} /\ e # Invalid
      BY <1>1, <1>2, <2>1, GoodFacts DEF Good, Invalid
    <3>. QED
      BY <1>1, <2>1, <3>1, FindEndDoes
  <2>3. CASE Fits(e, k, v)
    <3>. DEFINE p == PutAtEnd(s, k, v)
                B == A \cup {e}
    <3>1. r = Called(p, TRUE, TRUE)
      BY <2>2, <2>3 DEF AppendItemToEnd, r, m
    <3>2. /\ p \in Call
          /\ Table(p.mem, B, e + n)
          /\ Entry(p.mem, e, k, v)
          /\ SameInside(m, p.mem, 0, e)
          /\ l \in Nat
          /\ LiveBytes(p.mem, FirstItem) = l + n
      BY <2>1, <2>3, PutDoes DEF m, n, l
    <3>. HIDE DEF p
    <3>3. r \in CallRecord /\ r.call = p /\ r.ok = TRUE
      BY <3>1, <3>2 DEF CallRecord, Called
    <3>4. e + n + 2 < MemSize
      BY <2>3 DEF Fits, n
    <3>5. ASSUME NEW st, Holds(m, A, st), st[k] = <<>>
          PROVE  Appended(r, B, e + n, e, l, st, k, v)
      <4>1. p.mem \in Memory /\ Table(m, A, e)
        BY <2>1, <3>2 DEF Call, Good
      <4>2. Holds(p.mem, B, [st EXCEPT ![k] = v])
        BY <1>1, <3>2, <3>5, <4>1, PutHolds
      <4>. QED
        BY <2>1, <3>2, <3>3, <3>4, <4>2 DEF Appended, n
    <3>6. r.call.mem[0] = m[0]
      <4>1. Table(m, A, e)
        BY <2>1 DEF Good
      <4>. QED
        BY <1>1, <3>2, <3>3, <4>1, KeepsFirst
    <3>. QED
      BY <3>2, <3>3, <3>5, <3>6 DEF r, m, l, SameVersion
  <2>4. CASE ~Fits(e, k, v)
    <3>1. ~(e + n + 2 < MemSize)
      BY <2>4 DEF Fits, n
    <3>2. d \in Call /\ d.mem \in Memory
      BY <2>1, DefragDoes DEF d, Call, m
    <3>3. PICK B, f : Good(d.mem, B, f) /\ SameSaid(m, A, d.mem, B) /\ NoHoles(d.mem, B, f)
      BY <2>1, DefragDoes DEF d, m
    <3>4. /\ f \in Nat /\ l = f - FirstItem /\ LiveBytes(d.mem, FirstItem) = l
          /\ FindEnd(d.mem, FirstItem) = f
      <4>1. Table(d.mem, B, f) /\ FirstItem \in B \cup {f}
        BY <3>2, <3>3, GoodFacts DEF Good
      <4>2. f \in Nat /\ LiveBytes(d.mem, FirstItem) = f - FirstItem
        BY <3>2, <3>3, <4>1, NoHolesTotal
      <4>3. FindEnd(d.mem, FirstItem) = f
        BY <3>2, <3>3, <4>1, FindEndDoes
      <4>. QED
        BY <3>3, <4>2, <4>3 DEF SameSaid, LiveBytes, l
    <3>5. f = FirstItem + l
      BY <3>4 DEF FirstItem
    <3>6. CASE Fits(f, k, v)
      <4>. DEFINE p == PutAtEnd(d, k, v)
                  C == B \cup {f}
      <4>1. r = Called(p, TRUE, FALSE)
        BY <2>2, <2>4, <3>4, <3>6, SMTT(20) DEF AppendItemToEnd, r, d, m
      <4>2. /\ p \in Call
            /\ Table(p.mem, C, f + n)
            /\ Entry(p.mem, f, k, v)
            /\ SameInside(d.mem, p.mem, 0, f)
            /\ LiveBytes(p.mem, FirstItem) = l + n
        BY ZenonT(60), <3>2, <3>3, <3>4, <3>6, PutDoes DEF n
      <4>. HIDE DEF p
      <4>3. r \in CallRecord /\ r.call = p /\ r.ok = TRUE
        BY <4>1, <4>2 DEF CallRecord, Called
      <4>4. FirstItem + l + n + 2 < MemSize
        BY <3>5, <3>6 DEF Fits, n
      <4>5. ASSUME NEW st, Holds(m, A, st), st[k] = <<>>
            PROVE  Appended(r, C, f + n, e, l, st, k, v)
        <5>1. p.mem \in Memory /\ Table(d.mem, B, f) /\ Holds(d.mem, B, st)
          BY <3>3, <4>2, <4>5 DEF Call, Good, SameSaid
        <5>2. Holds(p.mem, C, [st EXCEPT ![k] = v])
          BY <3>2, <4>2, <4>5, <5>1, PutHolds
        <5>. QED
          BY <2>1, <3>1, <3>5, <4>2, <4>3, <4>4, <5>2 DEF Appended, n
      <4>6. r.call.mem[0] = m[0]
        <5>1. Table(d.mem, B, f)
          BY <3>3 DEF Good
        <5>2. p.mem[0] = d.mem[0]
          BY <3>2, <4>2, <5>1, KeepsFirst
        <5>. QED
          BY <3>3, <4>3, <5>2 DEF SameSaid
      <4>. QED
        BY <4>2, <4>3, <4>5, <4>6 DEF r, m, l, SameVersion
    <3>7. CASE ~Fits(f, k, v)
      <4>1. r = Called(d, FALSE, FALSE)
        BY <2>2, <2>4, <3>4, <3>7 DEF AppendItemToEnd, r, d, m
      <4>2. r \in CallRecord /\ r.call = d /\ r.ok = FALSE
        BY <3>2, <4>1 DEF CallRecord, Called
      <4>3. ~(FirstItem + l + n + 2 < MemSize)
        BY <3>5, <3>7 DEF Fits, n
      <4>4. ASSUME NEW st, Holds(m, A, st), st[k] = <<>>
            PROVE  Appended(r, B, f, e, l, st, k, v)
        <5>1. Holds(d.mem, B, st)
          BY <3>3, <4>4 DEF SameSaid
        <5>. QED
          BY <2>1, <3>1, <3>4, <3>5, <4>2, <4>3, <5>1 DEF Appended, n
      <4>5. Table(d.mem, B, f)
        BY <3>3 DEF Good
      <4>6. r.call.mem[0] = m[0]
        BY <3>3, <4>2 DEF SameSaid
      <4>. QED
        BY <4>2, <4>4, <4>5, <4>6 DEF r, m, l, SameVersion
    <3>. QED
      BY <3>6, <3>7
  <2>. QED
    BY <2>3, <2>4
<1>. QED
  BY <1>4, <1>5

LEMMA SameKey ==
  ASSUME NEW o \in Key, NEW k \in Key, Len(o) = Len(k), \A i \in 1 .. Len(k) : o[i] = k[i]
  PROVE  o = k
<1>1. 1 .. 255 \subseteq Byte
  BY DEF Byte
<1>2. o \in Seq(1 .. 255) /\ k \in Seq(1 .. 255)
  BY KeyAssumption
<1>3. o \in Seq(Byte) /\ k \in Seq(Byte)
  BY <1>1, <1>2, SeqMonotonic
<1>. QED
  BY <1>3, SeqEqual

LEMMA EntryIsOfKey ==
  ASSUME NEW m, NEW x, NEW o \in Key, NEW k \in Key, NEW v, Entry(m, x, k, v), KeyAt(m, x, o)
  PROVE  o = k
<1>1. Len(o) = Len(k) /\ \A i \in 1 .. Len(k) : o[i] = k[i]
  BY DEF Entry, KeyAt
<1>. QED
  BY <1>1, SameKey

\* The item of a key is written over.
LEMMA OverwriteHolds ==
  ASSUME NEW m \in Memory, NEW r \in Memory, NEW A, NEW e, Table(m, A, e), NEW a \in A,
         NEW b \in Nat, b <= a + FullLength(m, a), SameOutside(m, r, a, b),
         NEW k \in Key, NEW v \in Value, Entry(r, a, k, v), KeyAt(m, a, k),
         NEW st, Holds(m, A, st)
  PROVE  Holds(r, A, [st EXCEPT ![k] = v])
<1>. DEFINE u == [st EXCEPT ![k] = v]
<1>1. \A x \in A : x # a => Copied(m, x, r, x)
  BY OthersStay
<1>2. \A x \in A : /\ x \in Nat /\ FullLength(m, x) \in Nat /\ FullLength(m, x) >= 4
  BY GoodFacts
<1>3. st \in [Key -> Value \cup {<<>>}] /\ v # <<>>
  BY KeyAssumption DEF Holds
<1>4. u \in [Key -> Value \cup {<<>>}] /\ u[k] = v /\ \A o \in Key : o # k => u[o] = st[o]
  BY <1>3
<1>. HIDE DEF u
<1>5. ASSUME NEW x \in A, x # a, NEW o \in Key, st[o] # <<>>, Entry(m, x, o, st[o])
      PROVE  Entry(r, x, o, st[o]) /\ \A p \in Key : KeyAt(r, x, p) => KeyAt(m, x, p)
  <2>1. Copied(m, x, r, x) /\ x \in Nat /\ st[o] \in Value
    BY <1>1, <1>2, <1>5, ValueInStore
  <2>. QED
    BY <1>5, <2>1, CopiedEntry
<1>6. ASSUME NEW x \in A, KeyLength(r, x) # 0
      PROVE  \E o \in Key : u[o] # <<>> /\ Entry(r, x, o, u[o])
  <2>0. CASE x = a
    BY <1>3, <1>4, <2>0
  <2>1. CASE x # a
    <3>2. KeyLength(m, x) # 0
      BY <1>1, <1>2, <1>6, <2>1, CopiedHeader
    <3>3. PICK o \in Key : st[o] # <<>> /\ Entry(m, x, o, st[o])
      BY <3>2 DEF Holds
    <3>4. o # k
      <4>1. SUFFICES ASSUME o = k
                     PROVE  FALSE
        OBVIOUS
      <4>2. KeyAt(m, x, k)
        BY <3>3, <4>1 DEF Entry, KeyAt
      <4>. QED
        BY <2>1, <4>2 DEF Holds
    <3>. QED
      BY <1>4, <1>5, <2>1, <3>3, <3>4
  <2>. QED
    BY <2>0, <2>1
<1>7. ASSUME NEW o \in Key, u[o] # <<>>
      PROVE  \E x \in A : Entry(r, x, o, u[o])
  <2>0. CASE o = k
    BY <1>4, <2>0
  <2>1. CASE o # k
    <3>1. u[o] = st[o]
      BY <1>4, <2>1
    <3>2. PICK x \in A : Entry(m, x, o, st[o])
      BY <1>7, <3>1 DEF Holds
    <3>3. x # a
      BY <2>1, <3>2, EntryIsOfKey
    <3>. QED
      BY <1>5, <1>7, <3>1, <3>2, <3>3
  <2>. QED
    BY <2>0, <2>1
<1>8. ASSUME NEW x \in A, NEW y \in A, NEW o \in Key, KeyAt(r, x, o), KeyAt(r, y, o)
      PROVE  x = y
  <2>1. \A z \in A : KeyAt(r, z, o) => KeyAt(m, z, o)
    <3>1. SUFFICES ASSUME NEW z \in A, KeyAt(r, z, o)
                   PROVE  KeyAt(m, z, o)
      OBVIOUS
    <3>0. CASE z = a
      <4>1. o = k
        BY <3>0, <3>1, EntryIsOfKey
      <4>. QED
        BY <3>0, <4>1
    <3>3. CASE z # a
      <4>2. KeyLength(r, z) # 0
        BY <3>1, KeyIsNotEmpty DEF KeyAt
      <4>4. KeyLength(m, z) # 0
        BY <1>1, <1>2, <3>3, <4>2, CopiedHeader
      <4>5. PICK p \in Key : st[p] # <<>> /\ Entry(m, z, p, st[p])
        BY <4>4 DEF Holds
      <4>. QED
        BY <1>5, <3>1, <3>3, <4>5
    <3>. QED
      BY <3>0, <3>3
  <2>. QED
    BY <1>8, <2>1 DEF Holds
<1>. QED
  BY <1>4, <1>6, <1>7, <1>8 DEF Holds, u

\* A call that appends leaves a memory of the partition, whatever was there.
LEMMA AppendTyped ==
  ASSUME NEW s \in Call, NEW k \in Key, NEW v \in Value
  PROVE  AppendItemToEnd(s, k, v) \in CallRecord
<1>1. CASE FindEnd(s.mem, FirstItem) = Invalid
  BY <1>1 DEF AppendItemToEnd, Called, CallRecord
<1>2. CASE FindEnd(s.mem, FirstItem) # Invalid
  <2>1. s.mem \in Memory
    BY DEF Call
  <2>2. \E A, e : Table(s.mem, A, e)
    BY <1>2, <2>1, FindEndFinds DEF Good
  <2>. QED
    BY <2>2, AppendDoes
<1>. QED
  BY <1>1, <1>2

LEMMA BeginDoes ==
  ASSUME NEW m \in Memory
  PROVE  Begin(m) \in Call /\ Begin(m).mem = m /\ Begin(m).log = <<>>
BY DEF Begin, Call

LEMMA ItemFound ==
  ASSUME NEW m \in Memory, NEW A, NEW e, Table(m, A, e), NEW k \in Key,
         NEW a, a = FindItemByKey(m, k), a # Invalid
  PROVE  /\ a \in A /\ a \in Nat /\ a <= MemSize - 3 /\ KeyAt(m, a, k) /\ KeyLength(m, a) # 0
         /\ FullLength(m, a) \in Nat /\ FullLength(m, a) <= EndTag /\ FullLength(m, a) >= 4
         /\ Weight(m, a) = FullLength(m, a)
         /\ \A st : Holds(m, A, st) =>
              st[k] # <<>> /\ st[k] \in Value /\ FullLength(m, a) = ItemSize(k, st[k])
<1>1. a \in A /\ KeyAt(m, a, k)
  BY FindKeyDoes
<1>2. /\ a \in Nat /\ a < MemSize - 3
      /\ FullLength(m, a) \in Nat /\ FullLength(m, a) <= EndTag
  BY FoundKey
<1>3. FullLength(m, a) >= 4
  BY <1>1, GoodFacts
<1>4. KeyLength(m, a) # 0
  BY <1>1, KeyIsNotEmpty DEF KeyAt
<1>5. ASSUME NEW st, Holds(m, A, st)
      PROVE  st[k] # <<>> /\ st[k] \in Value /\ FullLength(m, a) = ItemSize(k, st[k])
  <2>1. st[k] # <<>>
    BY <1>5, FindKeyDoes
  <2>2. Entry(m, a, k, st[k])
    BY <1>5, <2>1, FindKeyDoes
  <2>. QED
    BY <1>5, <2>1, <2>2, ValueInStore DEF Entry
<1>6. a <= MemSize - 3 /\ Weight(m, a) = FullLength(m, a)
  <2>1. MemSize \in Nat
    BY Sizes
  <2>2. a <= MemSize - 3
    BY <1>2, <2>1
  <2>3. Weight(m, a) = FullLength(m, a)
    BY <1>4 DEF Weight
  <2>. QED
    BY <2>2, <2>3
<1>. QED
  BY <1>1, <1>2, <1>3, <1>4, <1>5, <1>6

LEMMA SameBefore ==
  ASSUME NEW m \in Memory, NEW r, NEW A, NEW e, Table(m, A, e), NEW a \in A, NEW b,
         SameOutside(m, r, a, b)
  PROVE  r[0] = m[0]
<1>1. a \in Nat /\ 0 < a
  BY GoodFacts DEF FirstItem
<1>2. 0 \in 0 .. MemSize - 1
  BY Sizes
<1>. QED
  BY <1>1, <1>2 DEF SameOutside

\* The item that a search for k finds becomes a hole.
LEMMA HoleDoes ==
  ASSUME NEW m \in Memory, NEW A, NEW e, Table(m, A, e), NEW k \in Key,
         NEW a, a = FindItemByKey(m, k), a # Invalid
  PROVE  LET s == WriteHole(Begin(m), a, FullLength(m, a))
         IN  /\ s \in Call
             /\ Table(s.mem, A, e)
             /\ s.mem[0] = m[0]
             /\ \A st : Holds(m, A, st) =>
                  /\ Holds(s.mem, A, [st EXCEPT ![k] = <<>>])
                  /\ LiveBytes(m, FirstItem) \in Nat
                  /\ LiveBytes(s.mem, FirstItem) = LiveBytes(m, FirstItem) - ItemSize(k, st[k])
<1>. DEFINE s == WriteHole(Begin(m), a, FullLength(m, a))
<1>1. /\ a \in A /\ a \in Nat /\ a <= MemSize - 3 /\ KeyAt(m, a, k) /\ KeyLength(m, a) # 0
      /\ FullLength(m, a) \in Nat /\ FullLength(m, a) <= EndTag /\ FullLength(m, a) >= 4
      /\ Weight(m, a) = FullLength(m, a)
      /\ \A st : Holds(m, A, st) =>
           st[k] # <<>> /\ st[k] \in Value /\ FullLength(m, a) = ItemSize(k, st[k])
  BY ItemFound
<1>2. LET n == WriteHole(Begin(m), a, FullLength(m, a))
      IN  /\ n \in Call
          /\ SameOutside(Begin(m).mem, n.mem, a, a + 3)
          /\ a <= MemSize - 2 => FullLength(n.mem, a) = FullLength(m, a)
          /\ a <= MemSize - 3 => KeyLength(n.mem, a) = 0
  <2>1. Begin(m) \in Call
    BY BeginDoes
  <2>. QED
    BY <1>1, <2>1, WriteHoleDoes
<1>3. /\ s \in Call /\ s.mem \in Memory
      /\ SameOutside(m, s.mem, a, a + 3)
      /\ FullLength(s.mem, a) = FullLength(m, a)
      /\ KeyLength(s.mem, a) = 0
  <2>1. a <= MemSize - 2
    BY <1>1, Sizes
  <2>. HIDE DEF s
  <2>2. /\ s \in Call
        /\ SameOutside(Begin(m).mem, s.mem, a, a + 3)
        /\ FullLength(s.mem, a) = FullLength(m, a)
        /\ KeyLength(s.mem, a) = 0
    BY <1>1, <1>2, <2>1 DEF s
  <2>3. Begin(m).mem = m
    BY BeginDoes
  <2>4. s.mem \in Memory
    BY <2>2 DEF Call
  <2>. QED
    BY <2>2, <2>3, <2>4
<1>. HIDE DEF s
<1>. DEFINE b == a + 3
<1>4. b \in Nat /\ b <= a + FullLength(m, a) /\ SameOutside(m, s.mem, a, b)
  BY <1>1, <1>3
<1>. HIDE DEF b
<1>5. Table(s.mem, A, e)
  BY <1>1, <1>3, <1>4, ChangeKeepsTable
<1>6. /\ LiveBytes(m, FirstItem) \in Nat
      /\ LiveBytes(s.mem, FirstItem) = LiveBytes(m, FirstItem) + (Weight(s.mem, a) - Weight(m, a))
  BY <1>1, <1>3, <1>4, ChangedTotal
<1>7. Weight(s.mem, a) = 0
  BY <1>3 DEF Weight
<1>8. LiveBytes(s.mem, FirstItem) = LiveBytes(m, FirstItem) - FullLength(m, a)
  BY <1>1, <1>6, <1>7
<1>9. ASSUME NEW st, Holds(m, A, st)
      PROVE  Holds(s.mem, A, [st EXCEPT ![k] = <<>>])
  BY <1>1, <1>3, <1>4, <1>9, HoleHolds
<1>10. s.mem[0] = m[0]
  BY <1>1, <1>3, SameBefore
<1>. QED
  BY <1>1, <1>3, <1>5, <1>6, <1>8, <1>9, <1>10 DEF s

\* An entry is written over one of the same size.
LEMMA OverwriteDoes ==
  ASSUME NEW m \in Memory, NEW A, NEW e, Table(m, A, e), NEW k \in Key, NEW v \in Value,
         NEW a, a = FindItemByKey(m, k), a # Invalid, FullLength(m, a) = ItemSize(k, v)
  PROVE  LET s == WriteItem(Begin(m), a, k, v)
         IN  /\ s \in Call
             /\ Table(s.mem, A, e)
             /\ s.mem[0] = m[0]
             /\ LiveBytes(s.mem, FirstItem) = LiveBytes(m, FirstItem)
             /\ \A st : Holds(m, A, st) => Holds(s.mem, A, [st EXCEPT ![k] = v])
<1>. DEFINE s == WriteItem(Begin(m), a, k, v)
<1>1. /\ a \in A /\ a \in Nat /\ a <= MemSize - 3 /\ KeyAt(m, a, k)
      /\ FullLength(m, a) \in Nat
      /\ Weight(m, a) = FullLength(m, a)
  BY ItemFound
<1>2. LET n == WriteItem(Begin(m), a, k, v)
      IN  /\ n \in Call
          /\ SameOutside(Begin(m).mem, n.mem, a, a + ItemSize(k, v))
          /\ a <= MemSize - 2 => FullLength(n.mem, a) = ItemSize(k, v)
          /\ a <= MemSize - 3 => KeyLength(n.mem, a) = Len(k)
  <2>1. Begin(m) \in Call
    BY BeginDoes
  <2>. QED
    BY <1>1, <2>1, WriteItemDoes
<1>3. /\ s \in Call /\ s.mem \in Memory
      /\ SameOutside(m, s.mem, a, a + ItemSize(k, v))
      /\ FullLength(s.mem, a) = FullLength(m, a)
      /\ KeyLength(s.mem, a) = Len(k)
  <2>1. Begin(m).mem = m /\ a <= MemSize - 2 /\ a <= MemSize - 3
    BY <1>1, BeginDoes, Sizes
  <2>2. /\ s \in Call
        /\ SameOutside(Begin(m).mem, s.mem, a, a + ItemSize(k, v))
        /\ FullLength(s.mem, a) = ItemSize(k, v)
        /\ KeyLength(s.mem, a) = Len(k)
    BY <1>2, <2>1
  <2>3. s.mem \in Memory
    BY <2>2 DEF Call
  <2>. HIDE DEF s
  <2>. QED
    BY <2>1, <2>2, <2>3
<1>4. Entry(s.mem, a, k, v)
  <2>1. a + ItemSize(k, v) <= MemSize
    <3>1. e \in Nat /\ e <= MemSize - 3 /\ a + FullLength(m, a) <= e
      BY <1>1, GoodFacts
    <3>. QED
      BY <1>1, <3>1, ItemSizeIsSmall, Sizes
  <2>2. Begin(m) \in Call
    BY BeginDoes
  <2>. QED
    BY <1>1, <2>1, <2>2, WriteItemSays
<1>. HIDE DEF s
<1>. DEFINE b == a + ItemSize(k, v)
<1>5. b \in Nat /\ b <= a + FullLength(m, a) /\ SameOutside(m, s.mem, a, b)
  BY <1>1, <1>3, ItemSizeIsSmall
<1>. HIDE DEF b
<1>6. Table(s.mem, A, e)
  BY <1>1, <1>3, <1>5, ChangeKeepsTable
<1>7. /\ LiveBytes(m, FirstItem) \in Nat
      /\ LiveBytes(s.mem, FirstItem) = LiveBytes(m, FirstItem) + (Weight(s.mem, a) - Weight(m, a))
  BY <1>1, <1>3, <1>5, ChangedTotal
<1>8. Weight(s.mem, a) = FullLength(m, a)
  BY <1>3, KeyIsNotEmpty DEF Weight
<1>9. LiveBytes(s.mem, FirstItem) = LiveBytes(m, FirstItem)
  BY <1>1, <1>7, <1>8
<1>10. ASSUME NEW st, Holds(m, A, st)
       PROVE  Holds(s.mem, A, [st EXCEPT ![k] = v])
  BY <1>1, <1>3, <1>4, <1>5, <1>10, OverwriteHolds
<1>11. s.mem[0] = m[0]
  BY <1>1, <1>3, SameBefore
<1>. QED
  BY <1>3, <1>6, <1>9, <1>10, <1>11 DEF s

\* Whatever is in the memory, a call leaves a memory of the partition.
LEMMA StoreTyped ==
  ASSUME NEW m \in Memory, NEW k \in Key, NEW v \in Value
  PROVE  StoreCall(m, k, v) \in CallRecord
<1>. DEFINE a == FindItemByKey(m, k)
            s == WriteHole(Begin(m), a, FullLength(m, a))
            o == WriteItem(Begin(m), a, k, v)
<1>1. Begin(m) \in Call
  BY BeginDoes
<1>2. CASE a = Invalid
  BY <1>1, <1>2, AppendTyped DEF StoreCall
<1>3. CASE a # Invalid
  <2>1. a \in Nat /\ FullLength(m, a) \in Nat /\ FullLength(m, a) <= EndTag
    BY <1>3, FoundKey
  <2>. HIDE DEF a
  <2>2. s \in Call /\ o \in Call
    BY <1>1, <2>1, WriteHoleDoes, WriteItemDoes
  <2>3. AppendItemToEnd(s, k, v) \in CallRecord
    BY <2>2, AppendTyped
  <2>4. Called(o, TRUE, TRUE) \in CallRecord
    BY <2>2 DEF Called, CallRecord
  <2>. QED
    BY <1>3, <2>3, <2>4 DEF StoreCall, a
<1>. QED
  BY <1>2, <1>3

LEMMA DeleteTyped ==
  ASSUME NEW m \in Memory, NEW k \in Key
  PROVE  DeleteCall(m, k) \in CallRecord
<1>. DEFINE a == FindItemByKey(m, k)
            s == WriteHole(Begin(m), a, FullLength(m, a))
<1>1. Begin(m) \in Call
  BY BeginDoes
<1>2. CASE a = Invalid
  BY <1>1, <1>2 DEF DeleteCall, Called, CallRecord
<1>3. CASE a # Invalid
  <2>1. a \in Nat /\ FullLength(m, a) \in Nat /\ FullLength(m, a) <= EndTag
    BY <1>3, FoundKey
  <2>. HIDE DEF a
  <2>2. s \in Call
    BY <1>1, <2>1, WriteHoleDoes
  <2>4. Called(s, TRUE, TRUE) \in CallRecord
    BY <2>2 DEF Called, CallRecord
  <2>. QED
    BY <1>3, <2>4 DEF DeleteCall, a
<1>. QED
  BY <1>2, <1>3

\* The bytes of k's entry in st.
TakenIn(st, k) == IF st[k] # <<>> THEN ItemSize(k, st[k]) ELSE 0

Without(st, k) == [st EXCEPT ![k] = <<>>]

\* What storing v under k makes of a table that ends at e, with l bytes of items,
\* and says st.
Stored(r, B, f, e, l, st, k, v) ==
  \/ /\ st[k] # <<>> /\ ItemSize(k, v) = TakenIn(st, k)
     /\ r.ok /\ Holds(r.call.mem, B, [st EXCEPT ![k] = v])
     /\ LiveBytes(r.call.mem, FirstItem) = l
     /\ f = e
  \/ /\ st[k] # <<>> => ItemSize(k, v) # TakenIn(st, k)
     /\ Appended(r, B, f, e, l - TakenIn(st, k), Without(st, k), k, v)

LEMMA LiveIsNat ==
  ASSUME NEW m \in Memory, NEW A, NEW e, Table(m, A, e)
  PROVE  LiveBytes(m, FirstItem) \in Nat
<1>1. FirstItem \in A \cup {e}
  BY GoodFacts
<1>. QED
  BY <1>1, TotalsFill DEF LiveBytes

LEMMA WithoutNothing ==
  ASSUME NEW m, NEW A, NEW st, Holds(m, A, st), NEW k \in Key
  PROVE  /\ Without(st, k)[k] = <<>>
         /\ st[k] = <<>> => Without(st, k) = st
BY DEF Holds, Without

LEMMA StoreDoes ==
  ASSUME NEW m \in Memory, NEW A, NEW e, Table(m, A, e), NEW k \in Key, NEW v \in Value
  PROVE  LET r == StoreCall(m, k, v)
         IN  /\ r.call.mem[0] = m[0]
             /\ \E B, f : /\ Table(r.call.mem, B, f)
                          /\ \A st : Holds(m, A, st) =>
                               Stored(r, B, f, e, LiveBytes(m, FirstItem), st, k, v)
<1>. DEFINE r == StoreCall(m, k, v)
            l == LiveBytes(m, FirstItem)
            a == FindItemByKey(m, k)
<1>. HIDE DEF r, l, a
<1>1. Begin(m) \in Call /\ Begin(m).mem = m
  BY BeginDoes
<1>2. CASE a = Invalid
  <2>. DEFINE s == Begin(m)
              q == AppendItemToEnd(s, k, v)
  <2>. HIDE DEF s
  <2>0. s \in Call /\ s.mem = m /\ Table(s.mem, A, e)
    BY <1>1 DEF s
  <2>1. q \in CallRecord /\ SameVersion(s.mem, q.call.mem)
        /\ \E B, f : /\ Table(q.call.mem, B, f)
                     /\ \A st : Holds(s.mem, A, st) /\ st[k] = <<>> =>
                          Appended(q, B, f, e, LiveBytes(s.mem, FirstItem), st, k, v)
    BY <2>0, AppendDoes
  <2>. HIDE DEF q
  <2>2. PICK B, f : /\ Table(q.call.mem, B, f)
                    /\ \A st : Holds(m, A, st) /\ st[k] = <<>> =>
                         Appended(q, B, f, e, l, st, k, v)
    BY <2>0, <2>1 DEF l
  <2>3. r = q
    BY <1>2 DEF r, q, a, s, StoreCall
  <2>4. ASSUME NEW st, Holds(m, A, st)
        PROVE  Stored(r, B, f, e, l, st, k, v)
    <3>1. st[k] = <<>>
      BY <1>2, <2>4, FindKeyDoes DEF a
    <3>2. Without(st, k) = st /\ TakenIn(st, k) = 0
      BY <2>4, <3>1, WithoutNothing DEF TakenIn
    <3>3. Appended(r, B, f, e, l, st, k, v)
      BY <2>2, <2>3, <2>4, <3>1
    <3>4. l \in Int
      <4>1. LiveBytes(m, FirstItem) \in Nat
        BY LiveIsNat
      <4>. QED
        BY <4>1 DEF l
    <3>5. l - TakenIn(st, k) = l
      BY <3>2, <3>4
    <3>. QED
      BY <3>1, <3>2, <3>3, <3>5 DEF Stored
  <2>. QED
    BY <2>0, <2>1, <2>2, <2>3, <2>4 DEF r, l, SameVersion
<1>3. CASE a # Invalid /\ FullLength(m, a) # ItemSize(k, v)
  <2>. DEFINE s == WriteHole(Begin(m), a, FullLength(m, a))
              q == AppendItemToEnd(s, k, v)
  <2>0. /\ s \in Call /\ Table(s.mem, A, e) /\ s.mem[0] = m[0]
        /\ \A st : Holds(m, A, st) =>
             /\ Holds(s.mem, A, [st EXCEPT ![k] = <<>>])
             /\ LiveBytes(m, FirstItem) \in Nat
             /\ LiveBytes(s.mem, FirstItem) = LiveBytes(m, FirstItem) - ItemSize(k, st[k])
    BY <1>3, HoleDoes DEF a
  <2>3. r = q
    BY <1>3 DEF r, a, StoreCall
  <2>. HIDE DEF s
  <2>1. q \in CallRecord /\ SameVersion(s.mem, q.call.mem)
        /\ \E B, f : /\ Table(q.call.mem, B, f)
                     /\ \A st : Holds(s.mem, A, st) /\ st[k] = <<>> =>
                          Appended(q, B, f, e, LiveBytes(s.mem, FirstItem), st, k, v)
    BY <2>0, AppendDoes
  <2>. HIDE DEF q
  <2>2. PICK B, f : /\ Table(q.call.mem, B, f)
                    /\ \A st : Holds(s.mem, A, st) /\ st[k] = <<>> =>
                         Appended(q, B, f, e, LiveBytes(s.mem, FirstItem), st, k, v)
    BY <2>1
  <2>4. ASSUME NEW st, Holds(m, A, st)
        PROVE  Stored(r, B, f, e, l, st, k, v)
    <3>1. st[k] # <<>> /\ FullLength(m, a) = ItemSize(k, st[k])
      BY <1>3, <2>4, ItemFound DEF a
    <3>2. Holds(s.mem, A, Without(st, k)) /\ Without(st, k)[k] = <<>>
      BY <2>0, <2>4, WithoutNothing DEF Without
    <3>3. Appended(q, B, f, e, LiveBytes(s.mem, FirstItem), Without(st, k), k, v)
      BY <2>2, <3>2
    <3>4. LiveBytes(s.mem, FirstItem) = l - TakenIn(st, k)
      BY <2>0, <2>4, <3>1 DEF l, TakenIn
    <3>5. ItemSize(k, v) # TakenIn(st, k)
      BY <1>3, <3>1 DEF TakenIn
    <3>. QED
      BY <2>3, <3>3, <3>4, <3>5 DEF Stored
  <2>. QED
    BY <2>0, <2>1, <2>2, <2>3, <2>4 DEF r, l, SameVersion
<1>4. CASE a # Invalid /\ FullLength(m, a) = ItemSize(k, v)
  <2>. DEFINE s == WriteItem(Begin(m), a, k, v)
  <2>0. /\ s \in Call /\ Table(s.mem, A, e) /\ s.mem[0] = m[0]
        /\ LiveBytes(s.mem, FirstItem) = LiveBytes(m, FirstItem)
        /\ \A st : Holds(m, A, st) => Holds(s.mem, A, [st EXCEPT ![k] = v])
    BY <1>4, OverwriteDoes DEF a
  <2>1. r = Called(s, TRUE, TRUE)
    BY <1>4 DEF r, a, StoreCall
  <2>. HIDE DEF s
  <2>2. r.call = s /\ r.ok = TRUE
    BY <2>1 DEF Called
  <2>4. ASSUME NEW st, Holds(m, A, st)
        PROVE  Stored(r, A, e, e, l, st, k, v)
    <3>1. st[k] # <<>> /\ FullLength(m, a) = ItemSize(k, st[k])
      BY <1>4, <2>4, ItemFound DEF a
    <3>2. ItemSize(k, v) = TakenIn(st, k)
      BY <1>4, <3>1 DEF TakenIn
    <3>. QED
      BY <2>0, <2>2, <2>4, <3>1, <3>2 DEF Stored, l
  <2>. QED
    BY <2>0, <2>2, <2>4 DEF r, l
<1>. QED
  BY <1>2, <1>3, <1>4

LEMMA DeleteDoes ==
  ASSUME NEW m \in Memory, NEW A, NEW e, Table(m, A, e), NEW k \in Key
  PROVE  LET r == DeleteCall(m, k)
         IN  /\ Table(r.call.mem, A, e)
             /\ r.call.mem[0] = m[0]
             /\ \A st : Holds(m, A, st) =>
                  /\ r.ok = (st[k] # <<>>)
                  /\ Holds(r.call.mem, A, Without(st, k))
                  /\ LiveBytes(m, FirstItem) \in Nat
                  /\ LiveBytes(r.call.mem, FirstItem) = LiveBytes(m, FirstItem) - TakenIn(st, k)
<1>. DEFINE r == DeleteCall(m, k)
            a == FindItemByKey(m, k)
<1>. HIDE DEF r, a
<1>1. Begin(m) \in Call /\ Begin(m).mem = m
  BY BeginDoes
<1>2. LiveBytes(m, FirstItem) \in Nat
  BY LiveIsNat
<1>3. CASE a = Invalid
  <2>1. r = Called(Begin(m), FALSE, TRUE)
    BY <1>3 DEF r, a, DeleteCall
  <2>2. r.call.mem = m /\ r.ok = FALSE
    BY <1>1, <2>1 DEF Called
  <2>3. ASSUME NEW st, Holds(m, A, st)
        PROVE  st[k] = <<>> /\ Without(st, k) = st /\ TakenIn(st, k) = 0
    <3>1. st[k] = <<>>
      BY <1>3, <2>3, FindKeyDoes DEF a
    <3>. QED
      BY <2>3, <3>1, WithoutNothing DEF TakenIn
  <2>. QED
    <3>1. ASSUME NEW st, Holds(m, A, st)
          PROVE  /\ r.ok = (st[k] # <<>>)
                 /\ Holds(r.call.mem, A, Without(st, k))
                 /\ LiveBytes(r.call.mem, FirstItem) = LiveBytes(m, FirstItem) - TakenIn(st, k)
      <4>1. LiveBytes(m, FirstItem) - 0 = LiveBytes(m, FirstItem)
        BY <1>2
      <4>2. (st[k] # <<>>) = FALSE
        BY <2>3, <3>1
      <4>. QED
        BY <2>2, <2>3, <3>1, <4>1, <4>2
    <3>. QED
      BY <1>2, <2>2, <3>1 DEF r
<1>4. CASE a # Invalid
  <2>. DEFINE s == WriteHole(Begin(m), a, FullLength(m, a))
  <2>0. /\ s \in Call /\ Table(s.mem, A, e) /\ s.mem[0] = m[0]
        /\ \A st : Holds(m, A, st) =>
             /\ Holds(s.mem, A, [st EXCEPT ![k] = <<>>])
             /\ LiveBytes(m, FirstItem) \in Nat
             /\ LiveBytes(s.mem, FirstItem) = LiveBytes(m, FirstItem) - ItemSize(k, st[k])
    BY <1>4, HoleDoes DEF a
  <2>1. r = Called(s, TRUE, TRUE)
    BY <1>4 DEF r, a, DeleteCall
  <2>. HIDE DEF s
  <2>2. r.call = s /\ r.ok = TRUE
    BY <2>1 DEF Called
  <2>3. ASSUME NEW st, Holds(m, A, st)
        PROVE  st[k] # <<>> /\ TakenIn(st, k) = ItemSize(k, st[k])
    BY <1>4, <2>3, ItemFound DEF a, TakenIn
  <2>. QED
    BY <1>2, <2>0, <2>2, <2>3 DEF r, Without
<1>. QED
  BY <1>3, <1>4

-----------------------------------------------------------------------------
(* Calls that do not come to their end                                       *)

AreApplied(f, m, log, last) ==
  f = [i \in 0 .. last |->
         IF i = 0 THEN m ELSE Overlay(f[i - 1], log[i].at, log[i].bytes)]

LEMMA AppliedExist ==
  ASSUME NEW m, NEW log
  PROVE  \A last \in Nat : \E f : AreApplied(f, m, log, last)
<1>. DEFINE row(f, i) == IF i = 0 THEN m ELSE Overlay(f[i - 1], log[i].at, log[i].bytes)
            S == {last \in Nat : \E f : f = [i \in 0 .. last |-> row(f, i)]}
<1>1. 0 \in S
  <2>. DEFINE f == [i \in 0 .. 0 |-> m]
  <2>1. f = [i \in 0 .. 0 |-> row(f, i)]
    OBVIOUS
  <2>. QED
    BY <2>1
<1>2. ASSUME NEW last \in S
      PROVE  last + 1 \in S
  <2>1. PICK f : f = [i \in 0 .. last |-> row(f, i)]
    OBVIOUS
  <2>. DEFINE g == [i \in 0 .. last + 1 |-> row(f, i)]
  <2>2. ASSUME NEW i \in 0 .. last + 1
        PROVE  row(g, i) = row(f, i)
    <3>1. CASE i = 0
      BY <3>1
    <3>2. CASE i # 0
      <4>1. i - 1 \in 0 .. last
        BY <3>2
      <4>. HIDE DEF row
      <4>2. g[i - 1] = f[i - 1]
        BY <2>1, <4>1
      <4>. HIDE DEF g
      <4>. QED
        BY <4>2 DEF row
    <3>. QED
      BY <3>1, <3>2
  <2>3. g = [i \in 0 .. last + 1 |-> row(g, i)]
    <3>. HIDE DEF row
    <3>. QED
      BY <2>2
  <2>. HIDE DEF g, row
  <2>. QED
    BY <2>3
<1>3. S = Nat
  <2>. HIDE DEF S
  <2>1. S \in SUBSET Nat
    BY DEF S
  <2>. QED
    BY <1>1, <1>2, <2>1, Induction
<1>4. \A last \in Nat : \E f : f = [i \in 0 .. last |-> row(f, i)]
  <2>. HIDE DEF row
  <2>. QED
    BY <1>3
<1>. QED
  BY <1>4 DEF AreApplied

LEMMA ApplyIsApplied ==
  ASSUME NEW m, NEW log, NEW n \in Nat, n = Len(log)
  PROVE  \E c : /\ c[0] = m
                /\ \A i \in 1 .. n : c[i] = Overlay(c[i - 1], log[i].at, log[i].bytes)
                /\ Apply(m, log) = c[n]
<1>. DEFINE row(f, i) == IF i = 0 THEN m ELSE Overlay(f[i - 1], log[i].at, log[i].bytes)
            c == CHOOSE f : AreApplied(f, m, log, n)
<1>1. \E f : AreApplied(f, m, log, n)
  BY AppliedExist
<1>2. c = [i \in 0 .. n |-> row(c, i)]
  <2>1. AreApplied(c, m, log, n)
    BY <1>1
  <2>. HIDE DEF c
  <2>. QED
    BY <2>1 DEF AreApplied
<1>3. Apply(m, log) = c[n]
  BY DEF Apply, AreApplied
<1>4. \A i \in 0 .. n : c[i] = row(c, i)
  <2>. HIDE DEF row, c
  <2>. QED
    BY <1>2
<1>5. 0 \in 0 .. n /\ \A i \in 1 .. n : i \in 0 .. n /\ i # 0
  OBVIOUS
<1>. HIDE DEF c
<1>6. c[0] = m
  BY <1>4, <1>5
<1>7. \A i \in 1 .. n : c[i] = Overlay(c[i - 1], log[i].at, log[i].bytes)
  BY <1>4, <1>5
<1>. QED
  BY <1>3, <1>6, <1>7

LEMMA ApplyTyped ==
  ASSUME NEW m \in Memory, NEW log \in Seq(WriteRecord)
  PROVE  Apply(m, log) \in Memory
<1>1. PICK n \in Nat : n = Len(log)
  OBVIOUS
<1>2. PICK c : /\ c[0] = m
               /\ \A i \in 1 .. n : c[i] = Overlay(c[i - 1], log[i].at, log[i].bytes)
               /\ Apply(m, log) = c[n]
  BY <1>1, ApplyIsApplied
<1>. DEFINE S == {i \in Nat : i <= n => c[i] \in Memory}
<1>3. 0 \in S
  BY <1>2
<1>4. ASSUME NEW i \in S
      PROVE  i + 1 \in S
  <2>1. SUFFICES ASSUME i + 1 <= n
                 PROVE  c[i + 1] \in Memory
    OBVIOUS
  <2>. DEFINE j == i + 1
  <2>2. i \in Nat /\ j \in 1 .. n /\ j - 1 = i /\ c[i] \in Memory
    BY <2>1
  <2>. HIDE DEF j, S
  <2>3. c[j] = Overlay(c[i], log[j].at, log[j].bytes)
    BY <1>2, <2>2
  <2>4. log[j] \in WriteRecord
    BY <1>1, <2>2
  <2>5. log[j].at \in Int /\ log[j].bytes \in Seq(Byte)
    BY <2>4 DEF WriteRecord
  <2>6. c[j] \in Memory
    BY <2>2, <2>3, <2>5, OverlayDoes
  <2>. QED
    BY <2>6 DEF j
<1>5. S = Nat
  <2>. HIDE DEF S
  <2>1. S \in SUBSET Nat
    BY DEF S
  <2>. QED
    BY <1>3, <1>4, <2>1, Induction
<1>. QED
  BY <1>2, <1>5

LEMMA TornIsWrite ==
  ASSUME NEW w \in WriteRecord, NEW t \in Torn(w)
  PROVE  t \in WriteRecord
<1>1. w.at \in Int /\ w.bytes \in Seq(Byte)
  BY DEF WriteRecord
<1>2. PICK n \in 0 .. Len(w.bytes) - 1 : t = [w EXCEPT !.bytes = SubSeq(@, 1, n)]
  BY DEF Torn
<1>3. SubSeq(w.bytes, 1, n) \in Seq(Byte)
  BY <1>1, SubSeqProperties
<1>. QED
  BY <1>2, <1>3 DEF WriteRecord

LEMMA CutShortTyped ==
  ASSUME NEW m \in Memory, NEW log \in Seq(WriteRecord), NEW r \in CutShort(m, log)
  PROVE  r \in Memory
<1>1. PICK i \in DOMAIN log : \E w \in Torn(log[i]) :
                                r = Apply(Apply(m, SubSeq(log, 1, i - 1)), <<w>>)
  BY DEF CutShort
<1>2. PICK w \in Torn(log[i]) : r = Apply(Apply(m, SubSeq(log, 1, i - 1)), <<w>>)
  BY <1>1
<1>3. i \in 1 .. Len(log) /\ log[i] \in WriteRecord
  OBVIOUS
<1>4. w \in WriteRecord
  BY <1>3, TornIsWrite
<1>5. <<w>> \in Seq(WriteRecord) /\ SubSeq(log, 1, i - 1) \in Seq(WriteRecord)
  BY <1>3, <1>4, SubSeqProperties
<1>. QED
  BY <1>2, <1>5, ApplyTyped

LEMMA WithFaultTyped ==
  ASSUME NEW m \in Memory, NEW log \in Seq(WriteRecord), NEW r \in WithFault(m, log)
  PROVE  r \in Memory
<1>1. PICK i \in DOMAIN log : \E w \in Torn(log[i]) : r = Apply(m, [log EXCEPT ![i] = w])
  BY DEF WithFault
<1>2. PICK w \in Torn(log[i]) : r = Apply(m, [log EXCEPT ![i] = w])
  BY <1>1
<1>3. i \in 1 .. Len(log) /\ log[i] \in WriteRecord
  OBVIOUS
<1>4. w \in WriteRecord
  BY <1>3, TornIsWrite
<1>5. [log EXCEPT ![i] = w] \in Seq(WriteRecord)
  BY <1>3, <1>4
<1>. QED
  BY <1>2, <1>5, ApplyTyped

LEMMA FormatDoes ==
  ASSUME NEW m \in Memory
  PROVE  LET r == FormatCall(m)
         IN  /\ r \in CallRecord /\ r.ok = TRUE
             /\ r.call.mem[0] = Version
             /\ Table(r.call.mem, {}, FirstItem)
             /\ Holds(r.call.mem, {}, [k \in Key |-> <<>>])
             /\ LiveBytes(r.call.mem, FirstItem) = 0
<1>. DEFINE s == Write(Begin(m), 0, <<Version>>)
            t == WriteEnd(s, FirstItem)
<1>1. MemSize \in Nat /\ MemSize >= 6
  BY Sizes
<1>2. /\ s \in Call /\ s.mem \in Memory
      /\ \A i \in 1 .. 1 : 0 + i - 1 \in 0 .. MemSize - 1 => s.mem[0 + i - 1] = <<Version>>[i]
  <2>. DEFINE c == Begin(m)
              bytes == <<Version>>
              z == 0
  <2>1. c \in Call /\ bytes \in Seq(Byte) /\ Len(bytes) = 1 /\ z \in Int
    BY BeginDoes DEF Version, Byte
  <2>. HIDE DEF c, bytes, z
  <2>2. /\ Write(c, z, bytes) \in Call
        /\ Write(c, z, bytes).mem \in Memory
        /\ \A i \in 1 .. Len(bytes) :
             z + i - 1 \in 0 .. MemSize - 1 => Write(c, z, bytes).mem[z + i - 1] = bytes[i]
    BY <2>1, WriteDoes
  <2>3. Write(c, z, bytes) = s
    BY DEF c, bytes, z
  <2>. HIDE DEF s
  <2>. QED
    BY <2>1, <2>2, <2>3 DEF bytes, z
<1>3. s.mem[0] = Version
  <2>. HIDE DEF s
  <2>. QED
    BY <1>1, <1>2
<1>. HIDE DEF s
<1>4. /\ t \in Call /\ SameOutside(s.mem, t.mem, FirstItem, FirstItem + 2)
      /\ FirstItem <= MemSize - 2 => IsEnd(t.mem, FirstItem)
  <2>1. FirstItem \in Nat
    BY DEF FirstItem
  <2>. QED
    BY <1>2, <2>1, WriteEndDoes
<1>5. t.mem \in Memory /\ IsEnd(t.mem, FirstItem)
  BY <1>1, <1>4 DEF Call, FirstItem
<1>. HIDE DEF t
<1>6. t.mem[0] = Version
  BY <1>1, <1>3, <1>4 DEF SameOutside, FirstItem
<1>7. Table(t.mem, {}, FirstItem)
  BY <1>1, <1>5, NoEntries DEF Table, FirstItem
<1>8. LiveBytes(t.mem, FirstItem) = 0
  BY <1>5, EndTotal DEF LiveBytes, FirstItem
<1>9. Holds(t.mem, {}, [k \in Key |-> <<>>])
  BY DEF Holds
<1>10. FormatCall(m) = Called(t, TRUE, FALSE)
  BY DEF FormatCall, t, s
<1>11. /\ FormatCall(m) \in CallRecord /\ FormatCall(m).call = t /\ FormatCall(m).ok = TRUE
  BY <1>4, <1>10 DEF Called, CallRecord
<1>. QED
  BY <1>6, <1>7, <1>8, <1>9, <1>11

LEMMA CheckFindsTable ==
  ASSUME NEW m \in Memory, Check(m)
  PROVE  \E A, e : Good(m, A, e)
BY FindEndFinds DEF Check

\* The test at a start leaves a sound table, whatever was there.
LEMMA BootDoes ==
  ASSUME NEW m \in Memory
  PROVE  /\ Boot(m) \in Memory
         /\ \E A, e : Table(Boot(m), A, e)
<1>1. CASE Check(m)
  BY <1>1, CheckFindsTable DEF Boot, Good
<1>2. CASE ~Check(m)
  <2>. DEFINE r == FormatCall(m)
  <2>1. r \in CallRecord /\ Table(r.call.mem, {}, FirstItem)
    BY FormatDoes
  <2>2. Boot(m) = r.call.mem
    BY <1>2 DEF Boot
  <2>. HIDE DEF r
  <2>. QED
    BY <2>1, <2>2 DEF CallRecord, Call
<1>. QED
  BY <1>1, <1>2

-----------------------------------------------------------------------------
(* The table is sound                                                        *)

IsTable(m) == \E A, e : Table(m, A, e)

\* What keeps the table sound: a chain of items leads to an end tag.
TableInv == TypeOK /\ (faults = 0 => IsTable(mem))

LEMMA TableIsChain ==
  ASSUME mem \in Memory, IsTable(mem)
  PROVE  Sound
<1>1. PICK A, e : Table(mem, A, e)
  BY DEF IsTable
<1>. DEFINE limit == MemSize - 2
<1>2. /\ A \in SUBSET Nat /\ e <= MemSize - 3 /\ IsEnd(mem, e) /\ FirstItem \in A \cup {e}
      /\ \A x \in A : FullLength(mem, x) >= 4
  BY <1>1, GoodFacts
<1>3. limit \in Nat /\ limit <= MemSize - 2
  BY Sizes
<1>. HIDE DEF limit
<1>4. /\ PastItems(mem, FirstItem) = e
      /\ Visited(mem, FirstItem, limit) = {x \in A : FirstItem <= x /\ x < limit}
  BY <1>1, <1>2, <1>3, SearchFollowsTable
<1>. QED
  BY <1>2, <1>4 DEF Sound, Items, limit

\* A call that is complete, cut short, or has a write that fails.
LEMMA RunKeepsTable ==
  ASSUME TableInv, NEW r \in CallRecord, IsTable(mem) => IsTable(r.call.mem), Run(r)
  PROVE  TableInv'
<1>1. /\ mem \in Memory /\ stuck \in BOOLEAN /\ crashes \in Nat /\ faults \in Nat
      /\ crashes + faults <= MishapLimit
      /\ faults = 0 => IsTable(mem)
  BY DEF TableInv, TypeOK, Memory
<1>2. /\ r.call \in Call /\ r.call.mem \in Memory /\ r.call.log \in Seq(WriteRecord)
      /\ r.ok \in BOOLEAN
  BY DEF CallRecord, Call
<1>. DEFINE Typed == /\ mem' \in Memory /\ result' \in BOOLEAN /\ stuck' \in BOOLEAN
                     /\ crashes' \in Nat /\ faults' \in Nat
                     /\ crashes' + faults' <= MishapLimit
<1>3. CASE Complete(r)
  <2>1. Typed
    BY <1>1, <1>2, <1>3 DEF Complete
  <2>2. faults' = 0 => IsTable(mem')
    BY <1>1, <1>3 DEF Complete
  <2>. QED
    BY <2>1, <2>2 DEF TableInv, TypeOK, Memory, IsTable, Table, Entries, IsEnd, FullLength
<1>4. CASE Crash(r)
  <2>1. PICK m \in CutShort(mem, r.call.log) : mem' = Boot(m)
    BY <1>4 DEF Crash
  <2>2. m \in Memory
    BY <1>1, <1>2, <2>1, CutShortTyped
  <2>3. mem' \in Memory /\ IsTable(mem')
    BY <2>1, <2>2, BootDoes DEF IsTable
  <2>4. MishapLimit \in Nat
    BY Sizes
  <2>5. Typed
    BY <1>1, <1>4, <2>3, <2>4 DEF Crash, CanGoWrong
  <2>. QED
    BY <2>3, <2>5 DEF TableInv, TypeOK, Memory, IsTable, Table, Entries, IsEnd, FullLength
<1>5. CASE Fault(r)
  <2>1. mem' \in Memory
    BY <1>1, <1>2, <1>5, WithFaultTyped DEF Fault
  <2>2. MishapLimit \in Nat
    BY Sizes
  <2>3. Typed /\ faults' # 0
    BY <1>1, <1>2, <1>5, <2>1, <2>2 DEF Fault, CanGoWrong
  <2>. QED
    BY <2>3 DEF TableInv, TypeOK, Memory
<1>. QED
  BY <1>3, <1>4, <1>5 DEF Run

LEMMA InitTable ==
  ASSUME Init
  PROVE  TableInv
<1>1. [a \in 0 .. MemSize - 1 |-> Blank] \in Memory
  BY Sizes DEF Memory, Byte
<1>2. mem \in Memory /\ IsTable(mem)
  BY <1>1, BootDoes DEF Init, IsTable
<1>3. /\ result \in BOOLEAN /\ stuck \in BOOLEAN /\ crashes \in Nat /\ faults \in Nat
      /\ crashes + faults <= MishapLimit
  <2>1. MishapLimit \in Nat
    BY Sizes
  <2>2. crashes = 0 /\ faults = 0 /\ result \in BOOLEAN /\ stuck \in BOOLEAN
    BY DEF Init
  <2>. QED
    BY <2>1, <2>2
<1>. QED
  BY <1>2, <1>3 DEF TableInv, TypeOK, Memory

LEMMA NextKeepsTable ==
  ASSUME TableInv, [Next]_vars
  PROVE  TableInv'
<1>1. mem \in Memory
  BY DEF TableInv, TypeOK, Memory
<1>2. ASSUME Hang
      PROVE  TableInv'
  <2>1. mem' = mem
    BY <1>2 DEF Hang
  <2>2. (faults = 0 => IsTable(mem))'
    BY <1>2, <2>1 DEF Hang, TableInv, IsTable, Table, Entries, IsEnd, FullLength
  <2>. QED
    BY <1>2, <2>1, <2>2 DEF Hang, TableInv, TypeOK
<1>3. ASSUME NEW k \in Key, NEW v \in Value, Store(k, v)
      PROVE  TableInv'
  <2>. DEFINE r == StoreCall(mem, k, v)
  <2>1. r \in CallRecord
    BY <1>1, StoreTyped
  <2>2. IsTable(mem) => IsTable(r.call.mem)
    BY <1>1, StoreDoes DEF IsTable
  <2>3. Run(r) \/ Hang
    BY <1>3 DEF Store
  <2>. HIDE DEF r
  <2>. QED
    BY <1>2, <2>1, <2>2, <2>3, RunKeepsTable
<1>4. ASSUME NEW k \in Key, Delete(k)
      PROVE  TableInv'
  <2>. DEFINE r == DeleteCall(mem, k)
  <2>1. r \in CallRecord
    BY <1>1, DeleteTyped
  <2>2. IsTable(mem) => IsTable(r.call.mem)
    BY <1>1, DeleteDoes DEF IsTable
  <2>3. Run(r) \/ Hang
    BY <1>4 DEF Delete
  <2>. HIDE DEF r
  <2>. QED
    BY <1>2, <2>1, <2>2, <2>3, RunKeepsTable
<1>5. ASSUME Format
      PROVE  TableInv'
  <2>. DEFINE r == FormatCall(mem)
  <2>1. r \in CallRecord /\ Table(r.call.mem, {}, FirstItem)
    BY <1>1, FormatDoes
  <2>2. IsTable(mem) => IsTable(r.call.mem)
    BY <2>1 DEF IsTable
  <2>3. Run(r)
    BY <1>5 DEF Format
  <2>. HIDE DEF r
  <2>. QED
    BY <2>1, <2>2, <2>3, RunKeepsTable
<1>6. ASSUME Restart
      PROVE  TableInv'
  <2>1. mem' \in Memory /\ IsTable(mem')
    BY <1>1, <1>6, BootDoes DEF Restart, IsTable
  <2>2. /\ result' \in BOOLEAN /\ stuck' \in BOOLEAN /\ crashes' \in Nat /\ faults' \in Nat
        /\ crashes' + faults' <= MishapLimit
    BY <1>6 DEF Restart, TableInv, TypeOK
  <2>. QED
    BY <2>1, <2>2 DEF TableInv, TypeOK, Memory, IsTable, Table, Entries, IsEnd, FullLength
<1>7. ASSUME UNCHANGED vars
      PROVE  TableInv'
  BY <1>7 DEF vars, TableInv, TypeOK, IsTable, Table, Entries, IsEnd, FullLength
<1>. QED
  BY <1>3, <1>4, <1>5, <1>6, <1>7 DEF Next

\* The bytes of the partition are bytes, whatever the calls, power failures and
\* failing writes.  Unless a write failed, the entries lead one after another to
\* an end tag, so that no search runs on for ever or off the table, for every
\* partition, key, value and number of mishaps: of the calls in the middle of
\* which the power can fail, all that matters is that storageTest runs at the
\* next start (kve.c:187-205, storage.c:108-123).
THEOREM TableTheorem == Spec => []TableIsSound
<1>1. TableInv => TableIsSound
  BY TableIsChain DEF TableInv, TableIsSound, TypeOK, Memory
<1>2. Init => TableInv
  BY InitTable
<1>3. TableInv /\ [Next]_vars => TableInv'
  BY NextKeepsTable
<1>. QED
  BY <1>1, <1>2, <1>3, PTL DEF Spec

-----------------------------------------------------------------------------
(* What a fetch finds                                                        *)

\* l bytes of v go into n bytes.
IsClip(l, v, n) == l = Min({Len(v), n})

LEMMA DataDoes ==
  ASSUME NEW m \in Memory, NEW A, NEW e, Table(m, A, e), NEW x \in A, NEW k \in Key,
         NEW v \in Value, Entry(m, x, k, v), NEW n \in Nat, NEW l \in Nat,
         IsClip(l, v, n)
  PROVE  /\ Data(m, x, n) \in Seq(Byte) /\ Len(Data(m, x, n)) = l
         /\ \A i \in 1 .. l : Data(m, x, n)[i] = v[i]
<1>1. /\ x \in Nat /\ e \in Nat /\ e <= MemSize - 3 /\ FullLength(m, x) \in Nat
      /\ x + FullLength(m, x) <= e
  BY GoodFacts
<1>2. PICK c \in 1 .. 255 : c = Len(k)
  BY ItemSizeIsSmall
<1>3. PICK d \in Nat : d = Len(v) /\ v \in Seq(Byte)
  BY ItemSizeIsSmall
<1>4. FullLength(m, x) = 3 + c + d /\ KeyLength(m, x) = c
  BY <1>2, <1>3, ItemSizeIsSmall DEF Entry
<1>5. DataLength(m, x) = d
  BY <1>2, <1>3, <1>4 DEF DataLength
<1>6. ReadLength(m, x, n) = l
  BY <1>3, <1>5 DEF ReadLength, IsClip
<1>7. l <= d
  BY <1>3, MinOfTwo DEF IsClip
<1>. DEFINE b == x + 3 + c
<1>8. b \in Nat /\ b + l <= Accessible
  <2>1. Accessible \in Nat /\ MemSize \in Nat /\ MemSize - 1 <= Accessible
    BY Sizes
  <2>. QED
    BY <1>1, <1>2, <1>3, <1>4, <1>7, <2>1
<1>9. Data(m, x, n) = Bytes(m, b, l)
  BY <1>4, <1>6 DEF Data
<1>10. \A i \in 1 .. l : m[b + i - 1] = v[i]
  <2>1. SUFFICES ASSUME NEW i \in 1 .. l
                 PROVE  m[b + i - 1] = v[i]
    OBVIOUS
  <2>2. i \in 1 .. Len(v) /\ b + i - 1 = x + 2 + Len(k) + i
    BY <1>1, <1>2, <1>3, <1>7
  <2>. QED
    BY <2>2 DEF Entry
<1>. HIDE DEF b
<1>11. /\ Bytes(m, b, l) \in Seq(Byte) /\ Len(Bytes(m, b, l)) = l
       /\ \A i \in 1 .. l : Bytes(m, b, l)[i] = m[b + i - 1]
  BY <1>8, BytesDoes
<1>. QED
  BY <1>9, <1>10, <1>11

LEMMA FetchDoes ==
  ASSUME NEW m \in Memory, NEW A, NEW e, Table(m, A, e), NEW st, Holds(m, A, st), NEW k \in Key
  PROVE  Fetch(m, k) = st[k]
<1>. DEFINE a == FindItemByKey(m, k)
<1>1. CASE st[k] = <<>>
  BY <1>1, FindKeyDoes DEF Fetch
<1>2. CASE st[k] # <<>>
  <2>1. st[k] \in Value /\ a # Invalid /\ a \in A /\ Entry(m, a, k, st[k])
    BY <1>2, FindKeyDoes, ValueInStore
  <2>. HIDE DEF a
  <2>0. PICK v \in Value : v = st[k]
    BY <2>1
  <2>2. PICK l \in Nat : l = Len(v) /\ v \in Seq(Byte)
    BY ItemSizeIsSmall
  <2>3. MemSize \in Nat
    BY Sizes
  <2>4. l <= MemSize
    <3>1. /\ a \in Nat /\ e \in Nat /\ e <= MemSize - 3 /\ FullLength(m, a) \in Nat
          /\ a + FullLength(m, a) <= e
      BY <2>1, GoodFacts
    <3>2. PICK c \in 1 .. 255 : c = Len(k)
      BY ItemSizeIsSmall
    <3>3. FullLength(m, a) = 3 + c + l
      BY <2>0, <2>1, <2>2, <3>2, ItemSizeIsSmall DEF Entry
    <3>. QED
      BY <2>2, <2>3, <3>1, <3>2, <3>3
  <2>5. l = Min({Len(v), MemSize})
    BY <2>2, <2>3, <2>4, MinOfTwo
  <2>6. /\ Data(m, a, MemSize) \in Seq(Byte) /\ Len(Data(m, a, MemSize)) = l
        /\ \A i \in 1 .. l : Data(m, a, MemSize)[i] = v[i]
    <3>1. a \in A /\ Entry(m, a, k, v)
      BY <2>0, <2>1
    <3>. DEFINE n == MemSize
    <3>2. n \in Nat /\ IsClip(l, v, n)
      BY <2>3, <2>5 DEF IsClip
    <3>. HIDE DEF n
    <3>3. /\ Data(m, a, n) \in Seq(Byte) /\ Len(Data(m, a, n)) = l
          /\ \A i \in 1 .. l : Data(m, a, n)[i] = v[i]
      BY <3>1, <3>2, DataDoes
    <3>. QED
      BY <3>3 DEF n
  <2>7. Data(m, a, MemSize) = v
    BY <2>2, <2>6, SeqEqual
  <2>. QED
    BY <2>0, <2>1, <2>7 DEF Fetch, a
<1>. QED
  BY <1>1, <1>2

-----------------------------------------------------------------------------
(* The bytes implement the store                                             *)

\* What the memory m shows of the store.
Shows(m, st, live, holes) ==
  /\ [k \in Key |-> Fetch(m, k)] = st
  /\ Total(m, FirstItem, FALSE) = live
  /\ Total(m, FirstItem, TRUE) = holes

LEMMA TableShows ==
  ASSUME NEW m \in Memory, NEW A, NEW e, Table(m, A, e), NEW st, Holds(m, A, st)
  PROVE  \E l \in Nat, h \in Nat : /\ Shows(m, st, l, h) /\ e = FirstItem + l + h
                                   /\ l = LiveBytes(m, FirstItem)
<1>1. FirstItem \in A \cup {e} /\ e \in Nat
  BY GoodFacts
<1>2. /\ Total(m, FirstItem, FALSE) \in Nat /\ Total(m, FirstItem, TRUE) \in Nat
      /\ Total(m, FirstItem, FALSE) + Total(m, FirstItem, TRUE) = e - FirstItem
  <2>. DEFINE f == FirstItem
  <2>1. f \in A \cup {e}
    BY <1>1
  <2>. HIDE DEF f
  <2>2. /\ Total(m, f, FALSE) \in Nat /\ Total(m, f, TRUE) \in Nat
        /\ Total(m, f, FALSE) + Total(m, f, TRUE) = e - f
    BY <2>1, TotalsFill, ZenonT(60)
  <2>. QED
    BY <2>2, Zenon DEF f
<1>3. PICK l \in Nat, h \in Nat : /\ l = Total(m, FirstItem, FALSE)
                                  /\ h = Total(m, FirstItem, TRUE)
  BY <1>2
<1>4. e = FirstItem + l + h
  <2>1. l + h = e - FirstItem
    BY <1>2, <1>3
  <2>. QED
    BY <1>1, <2>1 DEF FirstItem
<1>5. st \in [Key -> Value \cup {<<>>}]
  BY DEF Holds
<1>6. [k \in Key |-> Fetch(m, k)] = st
  <2>1. \A k \in Key : Fetch(m, k) = st[k]
    BY FetchDoes
  <2>. QED
    BY <1>5, <2>1
<1>. QED
  BY <1>3, <1>4, <1>6 DEF Shows, LiveBytes

IsStore(m) == \E A, e, st : Table(m, A, e) /\ Holds(m, A, st)

\* Nothing has failed: a version, a table and nobody who waits.
StoreInv ==
  /\ TypeOK
  /\ crashes = 0 /\ faults = 0 /\ stuck = FALSE
  /\ mem[0] = Version
  /\ IsStore(mem)

LEMMA SearchesEnd ==
  ASSUME NEW m \in Memory, NEW A, NEW e, Table(m, A, e), NEW k \in Key
  PROVE  SearchEnds(m, k)
<1>. DEFINE limit == MemSize - 3
<1>1. /\ limit \in Nat /\ limit <= MemSize - 2 /\ FirstItem \in A \cup {e}
      /\ \A x \in A : FullLength(m, x) # 0
  BY GoodFacts, Sizes
<1>. HIDE DEF limit
<1>2. Visited(m, FirstItem, limit) = {x \in A : FirstItem <= x /\ x < limit}
  BY <1>1, SearchFollowsTable
<1>. QED
  BY <1>1, <1>2 DEF SearchEnds, limit

LEMMA BlankIsFormatted ==
  ASSUME NEW m, m = [a \in 0 .. MemSize - 1 |-> Blank]
  PROVE  m \in Memory /\ ~Check(m)
<1>1. m \in Memory /\ MemSize \in Nat /\ MemSize >= 6
  BY Sizes DEF Memory, Byte
<1>2. ~Check(m)
  <2>1. SUFFICES ASSUME Check(m)
                 PROVE  FALSE
    OBVIOUS
  <2>2. Blank = 1
    <3>1. 0 \in 0 .. MemSize - 1
      BY <1>1
    <3>. QED
      BY <2>1, <3>1 DEF Check, Version
  <2>3. PICK A, e : Good(m, A, e)
    BY <1>1, <2>1, CheckFindsTable
  <2>4. e \in Nat /\ e <= MemSize - 3 /\ IsEnd(m, e)
    BY <1>1, <2>3, GoodFacts DEF Good
  <2>5. m[e] = 1 /\ m[e + 1] = 1
    <3>1. e \in 0 .. MemSize - 1 /\ e + 1 \in 0 .. MemSize - 1
      BY <1>1, <2>4
    <3>. QED
      BY <2>2, <3>1
  <2>. QED
    BY <2>4, <2>5 DEF IsEnd, FullLength, EndTag
<1>. QED
  BY <1>1, <1>2

\* storageTest keeps a table whose end it can find, and empties any other.
LEMMA BootShows ==
  ASSUME NEW m \in Memory, NEW A, NEW e, Table(m, A, e), m[0] = Version
  PROVE  Check(m) <=> e + 3 <= Accessible
<1>1. e \in Nat /\ FirstItem \in A \cup {e}
  BY GoodFacts
<1>2. ASSUME e + 3 <= Accessible
      PROVE  Check(m)
  <2>1. Good(m, A, e)
    BY <1>2 DEF Good
  <2>2. FindEnd(m, FirstItem) = e
    BY <1>1, <2>1, FindEndDoes
  <2>. QED
    BY <1>1, <2>2 DEF Check, Invalid
<1>3. ASSUME Check(m)
      PROVE  e + 3 <= Accessible
  <2>1. Good(m, Visited(m, FirstItem, MemSize - 2), PastItems(m, FirstItem))
    BY <1>3, FindEndFinds DEF Check
  <2>2. PastItems(m, FirstItem) = e
    <3>. DEFINE limit == MemSize - 2
    <3>1. limit \in Nat /\ limit <= MemSize - 2
      BY GoodFacts
    <3>. HIDE DEF limit
    <3>. QED
      BY <1>1, <3>1, SearchFollowsTable
  <2>. QED
    BY <2>1, <2>2 DEF Good
<1>. QED
  BY <1>2, <1>3

LEMMA FormatShows ==
  ASSUME NEW m \in Memory, NEW r, r = FormatCall(m).call.mem
  PROVE  /\ r \in Memory /\ r[0] = Version
         /\ \E A, e, st : Table(r, A, e) /\ Holds(r, A, st)
         /\ Shows(r, [k \in Key |-> <<>>], 0, 0)
<1>. DEFINE st == [k \in Key |-> <<>>]
<1>1. /\ FormatCall(m) \in CallRecord
      /\ r[0] = Version
      /\ Table(r, {}, FirstItem)
      /\ Holds(r, {}, st)
  BY FormatDoes
<1>. HIDE DEF st
<1>2. r \in Memory
  BY <1>1 DEF CallRecord, Call
<1>3. \E l \in Nat, h \in Nat : /\ Shows(r, st, l, h) /\ FirstItem = FirstItem + l + h
                                /\ l = LiveBytes(r, FirstItem)
  BY <1>1, <1>2, TableShows
<1>4. Shows(r, st, 0, 0)
  <2>1. PICK l \in Nat, h \in Nat : Shows(r, st, l, h) /\ FirstItem = FirstItem + l + h
    BY <1>3
  <2>2. l = 0 /\ h = 0
    BY <2>1 DEF FirstItem
  <2>. QED
    BY <2>1, <2>2
<1>. QED
  BY <1>1, <1>2, <1>4 DEF st

\* How the abstract store sees the memory.
LEMMA Seen ==
  ASSUME NEW st, NEW l \in Nat, NEW h \in Nat, Shows(mem, st, l, h),
         st \in [Key -> Value \cup {<<>>}], NEW e, e = FirstItem + l + h, NEW k \in Key
  PROVE  /\ Live = l /\ Holes = h /\ [o \in Key |-> Fetch(mem, o)] = st
         /\ Promise!Present(k) <=> st[k] # <<>>
         /\ Promise!Taken(k) = TakenIn(st, k)
         /\ TakenIn(st, k) \in Nat
         /\ Promise!EndIsFound <=> e + 3 <= Accessible
         /\ \A n \in Nat : Promise!Fits(Live + Holes, n) <=> e + n + 2 < MemSize
         /\ \A n \in Nat : Promise!Fits(Live - TakenIn(st, k), n)
                             <=> FirstItem + (l - TakenIn(st, k)) + n + 2 < MemSize
<1>1. Live = l /\ Holes = h /\ [o \in Key |-> Fetch(mem, o)] = st
  BY DEF Shows, Live, Holes
<1>2. Promise!Present(k) <=> st[k] # <<>>
  BY <1>1 DEF Promise!Present
<1>3. Promise!Taken(k) = TakenIn(st, k)
  BY <1>1, <1>2 DEF Promise!Taken, TakenIn
<1>4. TakenIn(st, k) \in Nat
  BY ItemSizeIsSmall DEF TakenIn
<1>5. Promise!EndIsFound <=> e + 3 <= Accessible
  <2>1. Promise!EndIsFound <=> 1 + l + h + 3 <= Accessible
    BY <1>1 DEF Promise!EndIsFound, Promise!FirstItem, Promise!Header
  <2>. QED
    BY <2>1 DEF FirstItem
<1>6. MemSize \in Nat
  BY Sizes
<1>7. ASSUME NEW n \in Nat
      PROVE  Promise!Fits(Live + Holes, n) <=> e + n + 2 < MemSize
  BY <1>1, <1>6 DEF Promise!Fits, Promise!FirstItem, Promise!EndTag, FirstItem
<1>8. ASSUME NEW n \in Nat
      PROVE  Promise!Fits(Live - TakenIn(st, k), n)
               <=> FirstItem + (l - TakenIn(st, k)) + n + 2 < MemSize
  BY <1>1, <1>4, <1>6 DEF Promise!Fits, Promise!FirstItem, Promise!EndTag, FirstItem
<1>. QED
  BY <1>1, <1>2, <1>3, <1>4, <1>5, <1>7, <1>8

LEMMA SeenNext ==
  ASSUME NEW m, mem' = m, NEW st, NEW l, NEW h, Shows(m, st, l, h)
  PROVE  /\ Live' = l /\ Holes' = h /\ [o \in Key |-> Fetch(mem, o)]' = st
BY DEF Shows, Live, Holes

\* Once nothing has failed, a complete call keeps it so.
LEMMA CompleteKeeps ==
  ASSUME StoreInv, NEW r \in CallRecord, Complete(r), r.call.mem[0] = Version,
         NEW A, NEW e, NEW st, Table(r.call.mem, A, e), Holds(r.call.mem, A, st)
  PROVE  StoreInv'
<1>1. r.call.mem \in Memory /\ r.ok \in BOOLEAN
  BY DEF CallRecord, Call
<1>2. IsStore(r.call.mem)
  BY DEF IsStore
<1>3. IsStore(mem') /\ mem' \in Memory /\ mem'[0] = Version
  BY <1>1, <1>2 DEF Complete
<1>4. /\ TypeOK' /\ crashes' = 0 /\ faults' = 0 /\ stuck' = FALSE
  BY <1>1, <1>3 DEF Complete, StoreInv, TypeOK, Memory
<1>. QED
  BY <1>3, <1>4 DEF StoreInv

LEMMA StoreMaps ==
  ASSUME StoreInv, NEW k \in Key, NEW v \in Value, Complete(StoreCall(mem, k, v))
  PROVE  StoreInv' /\ Promise!Store(k, v)
<1>1. PICK m \in Memory : m = mem
  BY DEF StoreInv, TypeOK, Memory
<1>2. PICK A, e, st : Table(m, A, e) /\ Holds(m, A, st)
  BY <1>1 DEF StoreInv, IsStore
<1>3. PICK r \in CallRecord : r = StoreCall(m, k, v)
  BY StoreTyped
<1>4. mem' = r.call.mem /\ result' = r.ok /\ r.call.mem \in Memory
  BY <1>1, <1>3 DEF Complete, CallRecord, Call
<1>5. PICK o \in Memory : o = r.call.mem
  BY <1>4
<1>6. o[0] = m[0]
      /\ \E B, f : /\ Table(o, B, f)
                   /\ \A s : Holds(m, A, s) =>
                        Stored(r, B, f, e, LiveBytes(m, FirstItem), s, k, v)
  BY <1>2, <1>3, <1>5, StoreDoes
<1>7. PICK B, f : /\ Table(o, B, f)
                  /\ Stored(r, B, f, e, LiveBytes(m, FirstItem), st, k, v)
  BY <1>2, <1>6
<1>8. PICK l \in Nat, h \in Nat : /\ Shows(m, st, l, h) /\ e = FirstItem + l + h
                                  /\ l = LiveBytes(m, FirstItem)
  BY <1>2, TableShows
<1>9. PICK t \in Nat : t = TakenIn(st, k)
  BY ItemSizeIsSmall, <1>2 DEF TakenIn, Holds
<1>10. PICK n \in Nat : n = ItemSize(k, v)
  BY ItemSizeIsSmall
<1>11. st \in [Key -> Value \cup {<<>>}]
  BY <1>2 DEF Holds
<1>12. /\ Live = l /\ Holes = h /\ [x \in Key |-> Fetch(mem, x)] = st
       /\ Promise!Present(k) <=> st[k] # <<>>
       /\ Promise!Taken(k) = t
       /\ Promise!EndIsFound <=> e + 3 <= Accessible
       /\ Promise!Fits(Live + Holes, n) <=> e + n + 2 < MemSize
       /\ Promise!Fits(Live - t, n) <=> FirstItem + (l - t) + n + 2 < MemSize
  BY <1>1, <1>8, <1>9, <1>11, Seen
<1>13. ASSUME NEW st2, Holds(o, B, st2)
       PROVE  /\ StoreInv'
              /\ \E l2 \in Nat, h2 \in Nat :
                   /\ Live' = l2 /\ Holes' = h2
                   /\ [x \in Key |-> Fetch(mem, x)]' = st2
                   /\ f = FirstItem + l2 + h2
                   /\ l2 = LiveBytes(o, FirstItem)
  <2>1. PICK l2 \in Nat, h2 \in Nat : /\ Shows(o, st2, l2, h2) /\ f = FirstItem + l2 + h2
                                      /\ l2 = LiveBytes(o, FirstItem)
    BY <1>7, <1>13, TableShows
  <2>2. mem' = o
    BY <1>4, <1>5
  <2>3. Live' = l2 /\ Holes' = h2 /\ [x \in Key |-> Fetch(mem, x)]' = st2
    BY <2>1, <2>2, SeenNext
  <2>4. o[0] = Version
    BY <1>1, <1>6 DEF StoreInv
  <2>5. StoreInv'
    BY <1>1, <1>3, <1>5, <1>7, <1>13, <2>4, CompleteKeeps
  <2>. QED
    BY <2>1, <2>3, <2>5
<1>14. CASE /\ st[k] # <<>> /\ ItemSize(k, v) = TakenIn(st, k)
            /\ r.ok /\ Holds(r.call.mem, B, [st EXCEPT ![k] = v])
            /\ LiveBytes(r.call.mem, FirstItem) = LiveBytes(m, FirstItem)
            /\ f = e
  <2>1. Holds(o, B, [st EXCEPT ![k] = v])
    BY <1>5, <1>14
  <2>2. PICK l2 \in Nat, h2 \in Nat :
          /\ Live' = l2 /\ Holes' = h2
          /\ [x \in Key |-> Fetch(mem, x)]' = [st EXCEPT ![k] = v]
          /\ f = FirstItem + l2 + h2
          /\ l2 = LiveBytes(o, FirstItem)
    BY <1>13, <2>1
  <2>3. l2 = l
    BY <1>5, <1>8, <1>14, <2>2
  <2>4. h2 = h
    BY <1>8, <1>14, <2>2, <2>3 DEF FirstItem
  <2>5. result' = TRUE
    <3>1. r.ok \in BOOLEAN
      BY DEF CallRecord
    <3>. QED
      BY <1>4, <1>14, <3>1
  <2>6. Promise!Bind(k, v)
    BY <1>12, <2>2 DEF Promise!Bind
  <2>7. Promise!Overwrite(k, v)
    BY <1>9, <1>12, <1>14, <2>2, <2>3, <2>4, <2>5, <2>6 DEF Promise!Overwrite
  <2>. QED
    BY <1>13, <2>1, <2>7 DEF Promise!Store
<1>15. CASE /\ st[k] # <<>> => ItemSize(k, v) # TakenIn(st, k)
            /\ Appended(r, B, f, e, LiveBytes(m, FirstItem) - TakenIn(st, k), Without(st, k), k, v)
  <2>1. Appended(r, B, f, e, l - t, Without(st, k), k, v)
    BY <1>8, <1>9, <1>15
  <2>2. Promise!Outgrown(k, v)
    BY <1>9, <1>12, <1>15 DEF Promise!Outgrown
  <2>3. r.ok \in BOOLEAN
    BY DEF CallRecord
  <2>4. [Without(st, k) EXCEPT ![k] = v] = [st EXCEPT ![k] = v]
    BY <1>11 DEF Without
  <2>5. \/ /\ ~(e + 3 <= Accessible)
           /\ ~r.ok /\ Holds(o, B, Without(st, k)) /\ LiveBytes(o, FirstItem) = l - t
           /\ f = e
        \/ /\ e + 3 <= Accessible /\ e + n + 2 < MemSize
           /\ r.ok /\ Holds(o, B, [st EXCEPT ![k] = v]) /\ LiveBytes(o, FirstItem) = l - t + n
           /\ f = e + n
        \/ /\ e + 3 <= Accessible /\ ~(e + n + 2 < MemSize) /\ FirstItem + (l - t) + n + 2 < MemSize
           /\ r.ok /\ Holds(o, B, [st EXCEPT ![k] = v]) /\ LiveBytes(o, FirstItem) = l - t + n
           /\ f = FirstItem + (l - t) + n
        \/ /\ e + 3 <= Accessible /\ ~(e + n + 2 < MemSize) /\ ~(FirstItem + (l - t) + n + 2 < MemSize)
           /\ ~r.ok /\ Holds(o, B, Without(st, k)) /\ LiveBytes(o, FirstItem) = l - t
           /\ f = FirstItem + (l - t)
    BY <1>5, <1>10, <2>1, <2>4 DEF Appended
  <2>6. CASE /\ ~(e + 3 <= Accessible)
             /\ ~r.ok /\ Holds(o, B, Without(st, k)) /\ LiveBytes(o, FirstItem) = l - t
             /\ f = e
    <3>1. PICK l2 \in Nat, h2 \in Nat :
            /\ Live' = l2 /\ Holes' = h2
            /\ [x \in Key |-> Fetch(mem, x)]' = Without(st, k)
            /\ f = FirstItem + l2 + h2
            /\ l2 = LiveBytes(o, FirstItem)
      BY <1>13, <2>6
    <3>2. l2 = l - t
      BY <2>6, <3>1
    <3>3. h2 = h + t
      BY <1>8, <2>6, <3>1, <3>2 DEF FirstItem
    <3>4. Promise!Bind(k, <<>>)
      BY <1>12, <3>1 DEF Promise!Bind, Without
    <3>5. result' = FALSE
      BY <1>4, <2>3, <2>6
    <3>6. Promise!EndNotFound(k, v)
      BY <1>12, <2>2, <2>6, <3>1, <3>2, <3>3, <3>4, <3>5 DEF Promise!EndNotFound
    <3>. QED
      BY <1>13, <2>6, <3>6 DEF Promise!Store
  <2>7. CASE /\ e + 3 <= Accessible /\ e + n + 2 < MemSize
             /\ r.ok /\ Holds(o, B, [st EXCEPT ![k] = v]) /\ LiveBytes(o, FirstItem) = l - t + n
             /\ f = e + n
    <3>1. PICK l2 \in Nat, h2 \in Nat :
            /\ Live' = l2 /\ Holes' = h2
            /\ [x \in Key |-> Fetch(mem, x)]' = [st EXCEPT ![k] = v]
            /\ f = FirstItem + l2 + h2
            /\ l2 = LiveBytes(o, FirstItem)
      BY <1>13, <2>7
    <3>2. l2 = l - t + n
      BY <2>7, <3>1
    <3>3. h2 = h + t
      BY <1>8, <2>7, <3>1, <3>2 DEF FirstItem
    <3>4. Promise!Bind(k, v)
      BY <1>12, <3>1 DEF Promise!Bind
    <3>5. result' = TRUE
      BY <1>4, <2>3, <2>7
    <3>6. Promise!AppendItem(k, v)
      BY <1>10, <1>12, <2>2, <2>7, <3>1, <3>2, <3>3, <3>4, <3>5 DEF Promise!AppendItem
    <3>. QED
      BY <1>13, <2>7, <3>6 DEF Promise!Store
  <2>8. CASE /\ e + 3 <= Accessible /\ ~(e + n + 2 < MemSize) /\ FirstItem + (l - t) + n + 2 < MemSize
             /\ r.ok /\ Holds(o, B, [st EXCEPT ![k] = v]) /\ LiveBytes(o, FirstItem) = l - t + n
             /\ f = FirstItem + (l - t) + n
    <3>1. PICK l2 \in Nat, h2 \in Nat :
            /\ Live' = l2 /\ Holes' = h2
            /\ [x \in Key |-> Fetch(mem, x)]' = [st EXCEPT ![k] = v]
            /\ f = FirstItem + l2 + h2
            /\ l2 = LiveBytes(o, FirstItem)
      BY <1>13, <2>8
    <3>2. l2 = l - t + n
      BY <2>8, <3>1
    <3>3. h2 = 0
      BY <2>8, <3>1, <3>2 DEF FirstItem
    <3>4. Promise!Bind(k, v)
      BY <1>12, <3>1 DEF Promise!Bind
    <3>5. result' = TRUE
      BY <1>4, <2>3, <2>8
    <3>6. Promise!DefragAndAppend(k, v)
      BY <1>10, <1>12, <2>2, <2>8, <3>1, <3>2, <3>3, <3>4, <3>5 DEF Promise!DefragAndAppend
    <3>. QED
      BY <1>13, <2>8, <3>6 DEF Promise!Store
  <2>9. CASE /\ e + 3 <= Accessible /\ ~(e + n + 2 < MemSize)
             /\ ~(FirstItem + (l - t) + n + 2 < MemSize)
             /\ ~r.ok /\ Holds(o, B, Without(st, k)) /\ LiveBytes(o, FirstItem) = l - t
             /\ f = FirstItem + (l - t)
    <3>1. PICK l2 \in Nat, h2 \in Nat :
            /\ Live' = l2 /\ Holes' = h2
            /\ [x \in Key |-> Fetch(mem, x)]' = Without(st, k)
            /\ f = FirstItem + l2 + h2
            /\ l2 = LiveBytes(o, FirstItem)
      BY <1>13, <2>9
    <3>2. l2 = l - t
      BY <2>9, <3>1
    <3>3. h2 = 0
      BY <2>9, <3>1, <3>2 DEF FirstItem
    <3>4. Promise!Bind(k, <<>>)
      BY <1>12, <3>1 DEF Promise!Bind, Without
    <3>5. result' = FALSE
      BY <1>4, <2>3, <2>9
    <3>6. Promise!Full(k, v)
      BY <1>10, <1>12, <2>2, <2>9, <3>1, <3>2, <3>3, <3>4, <3>5 DEF Promise!Full
    <3>. QED
      BY <1>13, <2>9, <3>6 DEF Promise!Store
  <2>. QED
    BY <2>5, <2>6, <2>7, <2>8, <2>9
<1>. QED
  BY <1>7, <1>14, <1>15 DEF Stored

LEMMA DeleteMaps ==
  ASSUME StoreInv, NEW k \in Key, Complete(DeleteCall(mem, k))
  PROVE  StoreInv' /\ Promise!Delete(k)
<1>1. PICK m \in Memory : m = mem
  BY DEF StoreInv, TypeOK, Memory
<1>2. PICK A, e, st : Table(m, A, e) /\ Holds(m, A, st)
  BY <1>1 DEF StoreInv, IsStore
<1>3. PICK r \in CallRecord : r = DeleteCall(m, k)
  BY DeleteTyped
<1>4. mem' = r.call.mem /\ result' = r.ok /\ r.call.mem \in Memory
  BY <1>1, <1>3 DEF Complete, CallRecord, Call
<1>5. PICK o \in Memory : o = r.call.mem
  BY <1>4
<1>6. /\ Table(o, A, e) /\ o[0] = m[0]
      /\ r.ok = (st[k] # <<>>)
      /\ Holds(o, A, Without(st, k))
      /\ LiveBytes(o, FirstItem) = LiveBytes(m, FirstItem) - TakenIn(st, k)
  BY <1>2, <1>3, <1>5, DeleteDoes
<1>7. PICK l \in Nat, h \in Nat : /\ Shows(m, st, l, h) /\ e = FirstItem + l + h
                                  /\ l = LiveBytes(m, FirstItem)
  BY <1>2, TableShows
<1>8. PICK t \in Nat : t = TakenIn(st, k)
  BY ItemSizeIsSmall, <1>2 DEF TakenIn, Holds
<1>9. st \in [Key -> Value \cup {<<>>}]
  BY <1>2 DEF Holds
<1>10. /\ Live = l /\ Holes = h /\ [x \in Key |-> Fetch(mem, x)] = st
       /\ Promise!Present(k) <=> st[k] # <<>>
       /\ Promise!Taken(k) = t
  BY <1>1, <1>7, <1>8, <1>9, Seen
<1>11. PICK l2 \in Nat, h2 \in Nat : /\ Shows(o, Without(st, k), l2, h2)
                                     /\ e = FirstItem + l2 + h2
                                     /\ l2 = LiveBytes(o, FirstItem)
  BY <1>6, TableShows
<1>12. /\ Live' = l2 /\ Holes' = h2
       /\ [x \in Key |-> Fetch(mem, x)]' = Without(st, k)
  BY <1>4, <1>5, <1>11, SeenNext
<1>13. l2 = l - t
  BY <1>6, <1>7, <1>8, <1>11
<1>14. h2 = h + t
  BY <1>7, <1>11, <1>13 DEF FirstItem
<1>15. Promise!Bind(k, <<>>)
  BY <1>10, <1>12 DEF Promise!Bind, Without
<1>16. result' = Promise!Present(k)
  <2>1. Promise!Present(k) \in BOOLEAN
    BY DEF Promise!Present
  <2>. QED
    BY <1>4, <1>6, <1>10, <2>1
<1>17. Promise!Delete(k)
  BY <1>10, <1>12, <1>13, <1>14, <1>15, <1>16 DEF Promise!Delete
<1>18. o[0] = Version
  BY <1>1, <1>6 DEF StoreInv
<1>19. StoreInv'
  BY <1>1, <1>3, <1>5, <1>6, <1>18, CompleteKeeps
<1>. QED
  BY <1>17, <1>19

LEMMA FormatMaps ==
  ASSUME StoreInv, Complete(FormatCall(mem))
  PROVE  StoreInv' /\ Promise!Format
<1>1. PICK m \in Memory : m = mem
  BY DEF StoreInv, TypeOK, Memory
<1>2. PICK r \in CallRecord : r = FormatCall(m) /\ r.ok = TRUE
  BY FormatDoes
<1>3. PICK o : o = r.call.mem
  OBVIOUS
<1>4. /\ o \in Memory /\ o[0] = Version
      /\ \E A, e, st : Table(o, A, e) /\ Holds(o, A, st)
      /\ Shows(o, [k \in Key |-> <<>>], 0, 0)
  BY <1>2, <1>3, FormatShows
<1>5. mem' = o /\ result' = TRUE
  BY <1>1, <1>2, <1>3 DEF Complete
<1>6. /\ Live' = 0 /\ Holes' = 0 /\ [x \in Key |-> Fetch(mem, x)]' = [k \in Key |-> <<>>]
  BY <1>4, <1>5, SeenNext
<1>7. StoreInv'
  <2>1. PICK A, e, st : Table(o, A, e) /\ Holds(o, A, st)
    BY <1>4
  <2>. QED
    BY <1>1, <1>2, <1>3, <1>4, <2>1, CompleteKeeps
<1>. QED
  BY <1>5, <1>6, <1>7 DEF Promise!Format

LEMMA RestartMaps ==
  ASSUME StoreInv, Restart
  PROVE  StoreInv' /\ Promise!Restart
<1>1. PICK m \in Memory : m = mem
  BY DEF StoreInv, TypeOK, Memory
<1>2. PICK A, e, st : Table(m, A, e) /\ Holds(m, A, st) /\ m[0] = Version
  BY <1>1 DEF StoreInv, IsStore
<1>3. PICK l \in Nat, h \in Nat : /\ Shows(m, st, l, h) /\ e = FirstItem + l + h
  BY <1>2, TableShows
<1>4. Promise!EndIsFound <=> e + 3 <= Accessible
  <2>1. Live = l /\ Holes = h
    BY <1>1, <1>3 DEF Shows, Live, Holes
  <2>2. Promise!EndIsFound <=> 1 + l + h + 3 <= Accessible
    BY <2>1 DEF Promise!EndIsFound, Promise!FirstItem, Promise!Header
  <2>. QED
    BY <1>3, <2>2 DEF FirstItem
<1>5. Check(m) <=> Promise!EndIsFound
  BY <1>2, <1>4, BootShows
<1>6. mem' = Boot(m) /\ result' = TRUE /\ stuck' = FALSE /\ crashes' = 0 /\ faults' = 0
  BY <1>1 DEF Restart, StoreInv
<1>7. CASE Check(m)
  <2>1. mem' = mem
    BY <1>1, <1>6, <1>7 DEF Boot
  <2>2. Promise!Restart
    BY <1>5, <1>6, <1>7, <2>1 DEF Promise!Restart, Live, Holes
  <2>3. StoreInv'
    BY <1>6, <2>1 DEF StoreInv, TypeOK
  <2>. QED
    BY <2>2, <2>3
<1>8. CASE ~Check(m)
  <2>1. PICK o : o = FormatCall(m).call.mem
    OBVIOUS
  <2>2. /\ o \in Memory /\ o[0] = Version /\ IsStore(o)
        /\ Shows(o, [k \in Key |-> <<>>], 0, 0)
    BY <2>1, FormatShows DEF IsStore
  <2>3. mem' = o
    BY <1>6, <1>8, <2>1 DEF Boot
  <2>4. /\ Live' = 0 /\ Holes' = 0 /\ [x \in Key |-> Fetch(mem, x)]' = [k \in Key |-> <<>>]
    BY <2>2, <2>3, SeenNext
  <2>5. Promise!Restart
    BY <1>5, <1>6, <1>8, <2>4 DEF Promise!Restart, Promise!Format
  <2>6. mem' \in Memory /\ mem'[0] = Version /\ IsStore(mem')
    BY <2>2, <2>3
  <2>7. TypeOK'
    <3>1. MishapLimit \in Nat
      BY Sizes
    <3>. QED
      <4>1. crashes' + faults' <= MishapLimit
        BY <1>6, <3>1
      <4>2. crashes' \in Nat /\ faults' \in Nat /\ result' \in BOOLEAN /\ stuck' \in BOOLEAN
        BY <1>6
      <4>. QED
        BY <2>6, <4>1, <4>2 DEF TypeOK, Memory
  <2>8. StoreInv'
    BY <1>6, <2>6, <2>7 DEF StoreInv
  <2>. QED
    BY <2>5, <2>8
<1>. QED
  BY <1>7, <1>8

LEMMA InitMaps ==
  ASSUME Init
  PROVE  StoreInv /\ Promise!Init
<1>1. PICK b : b = [a \in 0 .. MemSize - 1 |-> Blank]
  OBVIOUS
<1>2. b \in Memory /\ ~Check(b)
  BY <1>1, BlankIsFormatted
<1>3. PICK o : o = FormatCall(b).call.mem
  OBVIOUS
<1>4. /\ o \in Memory /\ o[0] = Version
      /\ \E A, e, st : Table(o, A, e) /\ Holds(o, A, st)
      /\ Shows(o, [k \in Key |-> <<>>], 0, 0)
  BY <1>2, <1>3, FormatShows
<1>5. mem = o
  BY <1>1, <1>2, <1>3 DEF Init, Boot
<1>6. /\ Live = 0 /\ Holes = 0 /\ [x \in Key |-> Fetch(mem, x)] = [k \in Key |-> <<>>]
  BY <1>4, <1>5 DEF Shows, Live, Holes
<1>7. Promise!Init
  <2>1. result = TRUE
    BY DEF Init
  <2>. QED
    BY <1>6, <2>1 DEF Promise!Init
<1>8. TypeOK
  <2>1. crashes = 0 /\ faults = 0 /\ result \in BOOLEAN /\ stuck \in BOOLEAN
    BY DEF Init
  <2>. QED
    BY <1>4, <1>5, <2>1, Sizes DEF TypeOK, Memory
<1>. QED
  BY <1>4, <1>5, <1>7, <1>8 DEF StoreInv, IsStore, Init

\* Where nothing fails, a call is complete.
LEMMA NothingFails ==
  ASSUME StoreInv, MishapLimit = 0, NEW r, Run(r)
  PROVE  Complete(r)
<1>1. ~CanGoWrong
  BY DEF StoreInv, CanGoWrong
<1>. QED
  BY <1>1 DEF Run, Crash, Fault

LEMMA NextMaps ==
  ASSUME StoreInv, MishapLimit = 0, [Next]_vars
  PROVE  StoreInv' /\ [Promise!Next]_Promise!vars
<1>1. \A k \in Key : SearchEnds(mem, k)
  <2>1. PICK m \in Memory : m = mem
    BY DEF StoreInv, TypeOK, Memory
  <2>2. PICK A, e : Table(m, A, e)
    BY <2>1 DEF StoreInv, IsStore
  <2>. QED
    BY <2>1, <2>2, SearchesEnd
<1>2. ASSUME NEW k \in Key, NEW v \in Value, Store(k, v)
      PROVE  StoreInv' /\ Promise!Next
  <2>1. Complete(StoreCall(mem, k, v))
    BY <1>1, <1>2, NothingFails DEF Store
  <2>. QED
    BY <2>1, StoreMaps DEF Promise!Next
<1>3. ASSUME NEW k \in Key, Delete(k)
      PROVE  StoreInv' /\ Promise!Next
  <2>1. Complete(DeleteCall(mem, k))
    BY <1>1, <1>3, NothingFails DEF Delete
  <2>. QED
    BY <2>1, DeleteMaps DEF Promise!Next
<1>4. ASSUME Format
      PROVE  StoreInv' /\ Promise!Next
  <2>1. Complete(FormatCall(mem))
    BY <1>4, NothingFails DEF Format
  <2>. QED
    BY <2>1, FormatMaps DEF Promise!Next
<1>5. ASSUME Restart
      PROVE  StoreInv' /\ Promise!Next
  BY <1>5, RestartMaps DEF Promise!Next
<1>6. ASSUME UNCHANGED vars
      PROVE  StoreInv' /\ UNCHANGED Promise!vars
  <2>1. StoreInv'
    BY <1>6 DEF vars, StoreInv, TypeOK
  <2>2. UNCHANGED Promise!vars
    BY <1>6 DEF vars, Promise!vars, Live, Holes
  <2>. QED
    BY <2>1, <2>2
<1>. QED
  BY <1>2, <1>3, <1>4, <1>5, <1>6 DEF Next

\* When nothing fails, the bytes of any partition behave as the key-value store
\* does, whatever the keys and values: each call changes what a fetch finds, what
\* the entries and the holes take and what is returned as KveStore says, in
\* particular when it defragments in chunks that overlap their destination.
THEOREM StoreTheorem ==
  ASSUME MishapLimit = 0
  PROVE  Spec => ImplementsStore
<1>1. Init => StoreInv /\ Promise!Init
  BY InitMaps
<1>2. StoreInv /\ [Next]_vars => StoreInv' /\ [Promise!Next]_Promise!vars
  BY NextMaps
<1>. QED
  BY <1>1, <1>2, PTL DEF Spec, ImplementsStore, Promise!Spec

-----------------------------------------------------------------------------
(* kveForeach                                                                *)

\* What kveForeach calls its function with for the item at x.
Told(m, x) == <<Bytes(m, x + 3, KeyLength(m, x)), Data(m, x, ClipSize)>>

LEMMA PrefixFound ==
  ASSUME NEW m \in Memory, NEW p, NEW b \in Nat, FindItemByPrefix(m, b, p) # Invalid
  PROVE  LET a == FindItemByPrefix(m, b, p)
         IN  /\ a \in Nat /\ b <= a /\ a < MemSize - 3
             /\ FullLength(m, a) \in Nat /\ a + FullLength(m, a) \in Nat
<1>. DEFINE limit == MemSize - 3
            V == Visited(m, b, limit)
            S == {i \in V : Matches(m, i, p)}
            a == FindItemByPrefix(m, b, p)
<1>1. limit \in Nat /\ limit <= MemSize - 2
  BY Sizes
<1>2. a = First(S)
  BY DEF FindItemByPrefix
<1>. HIDE DEF limit, a
<1>3. \A x \in V : x \in Nat /\ b <= x /\ x < limit
  BY <1>1, VisitedBounds
<1>. HIDE DEF V
<1>4. S \in SUBSET Nat
  BY <1>3
<1>5. a \in S
  <2>. HIDE DEF S
  <2>1. a # Invalid
    BY DEF a
  <2>. QED
    BY <1>2, <1>4, <2>1, FirstIsLeast
<1>6. a \in Nat /\ b <= a /\ a < limit
  BY <1>3, <1>5
<1>7. FullLength(m, a) \in Nat /\ a + FullLength(m, a) \in Nat
  <2>1. a <= MemSize - 2
    BY <1>6, Sizes DEF limit
  <2>. QED
    BY <1>6, <2>1, Header
<1>. QED
  BY <1>6, <1>7 DEF a, limit

LEMMA CallsExist ==
  ASSUME NEW m \in Memory, NEW p
  PROVE  \E f : f = [b \in Nat |->
                       LET a == FindItemByPrefix(m, b, p)
                       IN  IF a = Invalid THEN <<>>
                           ELSE <<Told(m, a)>>
                                  \o (IF FullLength(m, a) = 0 THEN <<>>
                                      ELSE f[a + FullLength(m, a)])]
<1>. DEFINE at(b) == FindItemByPrefix(m, b, p)
            limit == MemSize - 3
            row(f, b) == LET a == FindItemByPrefix(m, b, p)
                         IN  IF a = Invalid THEN <<>>
                             ELSE <<Told(m, a)>>
                                    \o (IF FullLength(m, a) = 0 THEN <<>>
                                        ELSE f[a + FullLength(m, a)])
            from(f, n) == f = [b \in Nat |-> IF b >= limit - n THEN row(f, b) ELSE <<>>]
            S == {n \in Nat : \E f : from(f, n)}
<1>0. limit \in Nat
  BY Sizes
<1>00. ASSUME NEW b \in Nat, at(b) # Invalid
       PROVE  /\ at(b) \in Nat /\ b <= at(b) /\ at(b) < limit
              /\ FullLength(m, at(b)) \in Nat /\ at(b) + FullLength(m, at(b)) \in Nat
  BY <1>00, PrefixFound
<1>1. 0 \in S
  <2>. DEFINE f == [b \in Nat |-> <<>>]
  <2>1. ASSUME NEW b \in Nat, b >= limit
        PROVE  row(f, b) = <<>>
    <3>1. at(b) = Invalid
      <4>. HIDE DEF at, limit
      <4>1. SUFFICES ASSUME at(b) # Invalid
                     PROVE  FALSE
        OBVIOUS
      <4>2. PICK a \in Nat : a = at(b) /\ b <= a /\ a < limit
        BY <1>00, <4>1
      <4>. QED
        BY <1>0, <2>1, <4>2
    <3>. QED
      BY <3>1
  <2>2. from(f, 0)
    <3>1. limit - 0 = limit
      BY <1>0
    <3>. HIDE DEF row
    <3>. QED
      BY <2>1, <3>1
  <2>. HIDE DEF from, f
  <2>. QED
    BY <2>2
<1>2. ASSUME NEW n \in S
      PROVE  n + 1 \in S
  <2>0. n \in Nat /\ \E f : from(f, n)
    <3>. HIDE DEF from
    <3>. QED
      OBVIOUS
  <2>1. PICK f : from(f, n)
    BY <2>0
  <2>. DEFINE g == [b \in Nat |-> IF b >= limit - (n + 1) THEN row(f, b) ELSE <<>>]
  <2>2. \A b \in Nat : b >= limit - n => g[b] = f[b]
    <3>1. SUFFICES ASSUME NEW b \in Nat, b >= limit - n
                   PROVE  g[b] = f[b]
      OBVIOUS
    <3>2. b >= limit - (n + 1)
      BY <1>0, <2>0, <3>1
    <3>. HIDE DEF row, S
    <3>3. f[b] = row(f, b)
      BY <2>1, <3>1
    <3>. QED
      BY <3>2, <3>3
  <2>3. ASSUME NEW b \in Nat, b >= limit - (n + 1)
        PROVE  row(g, b) = row(f, b)
    <3>1. CASE at(b) = Invalid \/ FullLength(m, at(b)) = 0
      BY <3>1
    <3>2. CASE ~(at(b) = Invalid \/ FullLength(m, at(b)) = 0)
      <4>. DEFINE c == at(b) + FullLength(m, at(b))
      <4>1. c \in Nat /\ c >= limit - n
        <5>. HIDE DEF at, limit, S
        <5>1. PICK a \in Nat : a = at(b) /\ b <= a
          BY <1>00, <3>2
        <5>2. PICK l \in Nat : l = FullLength(m, at(b)) /\ l # 0
          BY <1>00, <3>2
        <5>. QED
          BY <1>0, <2>0, <2>3, <5>1, <5>2
      <4>2. g[c] = f[c]
        <5>. HIDE DEF g, c
        <5>. QED
          BY <2>2, <4>1
      <4>. HIDE DEF g
      <4>. QED
        BY <3>2, <4>2
    <3>. QED
      BY <3>1, <3>2
  <2>4. from(g, n + 1)
    <3>. HIDE DEF row
    <3>. QED
      BY <2>3
  <2>. HIDE DEF g, from
  <2>. QED
    BY <2>0, <2>4
<1>3. S = Nat
  <2>. HIDE DEF S
  <2>1. S \in SUBSET Nat
    BY DEF S
  <2>. QED
    BY <1>1, <1>2, <2>1, Induction
<1>4. PICK f : from(f, limit)
  <2>. HIDE DEF from, limit
  <2>. QED
    BY <1>0, <1>3
<1>5. f = [b \in Nat |-> row(f, b)]
  <2>1. \A b \in Nat : b >= limit - limit
    BY <1>0
  <2>. HIDE DEF row, limit
  <2>. QED
    BY <1>4, <2>1
<1>. QED
  BY <1>5

LEMMA ForeachStep ==
  ASSUME NEW m \in Memory, NEW p, NEW b \in Nat, NEW a, a = FindItemByPrefix(m, b, p)
  PROVE  /\ a = Invalid => Foreach(m, b, p) = <<>>
         /\ a # Invalid /\ FullLength(m, a) # 0 =>
              Foreach(m, b, p) = <<Told(m, a)>> \o Foreach(m, a + FullLength(m, a), p)
<1>. DEFINE row(f, c) == LET i == FindItemByPrefix(m, c, p)
                         IN  IF i = Invalid THEN <<>>
                             ELSE <<Told(m, i)>>
                                    \o (IF FullLength(m, i) = 0 THEN <<>>
                                        ELSE f[i + FullLength(m, i)])
            v == CHOOSE f : f = [c \in Nat |-> row(f, c)]
<1>1. \E f : f = [c \in Nat |-> row(f, c)]
  BY CallsExist
<1>2. v = [c \in Nat |-> row(v, c)]
  <2>. HIDE DEF row
  <2>. QED
    BY <1>1
<1>3. \A c : Foreach(m, c, p) = v[c]
  BY DEF Foreach, Told
<1>4. v[b] = row(v, b)
  <2>. HIDE DEF row, v
  <2>. QED
    BY <1>2
<1>. HIDE DEF v
<1>. QED
  BY <1>3, <1>4

\* What kveForeach tells of the items of A from a on: each once, if they have
\* different keys.
Tells(c, m, A, a, p) ==
  /\ c \in Seq({Told(m, x) : x \in A})
  /\ \A i \in 1 .. Len(c) : \E x \in A : a <= x /\ Matches(m, x, p) /\ c[i] = Told(m, x)
  /\ \A x \in A : a <= x /\ Matches(m, x, p) => \E i \in 1 .. Len(c) : c[i] = Told(m, x)
  /\ \A i \in 1 .. Len(c), j \in 1 .. Len(c) : c[i] = c[j] => i = j

LEMMA ForeachTells ==
  ASSUME NEW m \in Memory, NEW A, NEW e, Table(m, A, e), NEW p,
         \A x \in A, y \in A :
           Matches(m, x, p) /\ Matches(m, y, p) /\ Told(m, x) = Told(m, y) => x = y,
         NEW b \in A \cup {e}
  PROVE  Tells(Foreach(m, b, p), m, A, b, p)
<1>. DEFINE S == {c \in Nat : c \in A \cup {e} => Tells(Foreach(m, c, p), m, A, c, p)}
            T == {Told(m, x) : x \in A}
            limit == MemSize - 3
<1>1. /\ A \in SUBSET Nat /\ e \in Nat /\ \A x \in A : x < e /\ x < limit
  BY GoodFacts
<1>2. \A x \in A : /\ FullLength(m, x) \in Nat /\ FullLength(m, x) # 0
                   /\ x + FullLength(m, x) \in A \cup {e}
  BY GoodFacts
<1>3. \A x \in A, y \in A : x < y => x + FullLength(m, x) <= y
  BY DEF Table, Entries
<1>4. limit \in Nat /\ limit <= MemSize - 2
  BY Sizes
<1>. HIDE DEF limit
<1>5. ASSUME NEW c \in A \cup {e}, c \in Nat,
             \A d \in Nat : d > c /\ d \in A \cup {e} => Tells(Foreach(m, d, p), m, A, d, p)
      PROVE  Tells(Foreach(m, c, p), m, A, c, p)
  <2>. DEFINE M == {x \in A : c <= x /\ Matches(m, x, p)}
  <2>1. Visited(m, c, limit) = {x \in A : c <= x /\ x < limit}
    BY <1>4, <1>5, SearchFollowsTable
  <2>2. {i \in Visited(m, c, limit) : Matches(m, i, p)} = M
    BY <1>1, <2>1
  <2>. HIDE DEF M
  <2>3. FindItemByPrefix(m, c, p) = First(M)
    BY <2>2 DEF FindItemByPrefix, limit
  <2>4. M \in SUBSET Nat
    BY <1>1 DEF M
  <2>5. CASE M = {}
    <3>1. First(M) = Invalid
      BY <2>4, <2>5, FirstIsLeast
    <3>2. Foreach(m, c, p) = <<>>
      BY <1>5, <2>3, <3>1, ForeachStep
    <3>. QED
      BY <2>5, <3>2 DEF Tells, M
  <2>6. CASE M # {}
    <3>1. PICK a \in M : a = First(M) /\ a # Invalid /\ a \in Nat /\ \A y \in M : a <= y
      BY <2>4, <2>6, FirstIsLeast DEF Invalid
    <3>2. a \in A /\ c <= a /\ Matches(m, a, p)
      BY <3>1 DEF M
    <3>3. PICK d \in Nat : d = a + FullLength(m, a) /\ d > a /\ d \in A \cup {e}
      BY <1>1, <1>2, <3>1, <3>2
    <3>4. Foreach(m, c, p) = <<Told(m, a)>> \o Foreach(m, d, p)
      BY <1>2, <1>5, <2>3, <3>1, <3>2, <3>3, ForeachStep
    <3>5. Tells(Foreach(m, d, p), m, A, d, p)
      BY <1>5, <3>1, <3>2, <3>3
    <3>6. PICK r : r = Foreach(m, d, p)
      OBVIOUS
    <3>7. PICK h : h = <<Told(m, a)>>
      OBVIOUS
    <3>8. h \in Seq(T) /\ Len(h) = 1 /\ h[1] = Told(m, a) /\ r \in Seq(T)
      BY <3>2, <3>5, <3>6, <3>7 DEF Tells
    <3>. HIDE DEF T
    <3>9. PICK n \in Nat : n = Len(r)
      BY <3>8
    <3>10. PICK w : w = h \o r
      OBVIOUS
    <3>11. /\ w \in Seq(T) /\ Len(w) = 1 + n
           /\ \A i \in 1 .. 1 + n : w[i] = IF i <= 1 THEN h[1] ELSE r[i - 1]
      <4>1. /\ h \o r \in Seq(T) /\ Len(h \o r) = Len(h) + Len(r)
            /\ \A i \in 1 .. Len(h) + Len(r) :
                 (h \o r)[i] = IF i <= Len(h) THEN h[i] ELSE r[i - Len(h)]
        BY <3>8, ConcatProperties
      <4>2. \A i \in 1 .. 1 + n : i <= 1 => i = 1
        BY <3>9
      <4>. QED
        BY <3>8, <3>9, <3>10, <4>1, <4>2
    <3>12. w[1] = Told(m, a) /\ \A i \in 1 .. n : i + 1 \in 1 .. 1 + n /\ w[i + 1] = r[i]
      <4>1. 1 \in 1 .. 1 + n /\ w[1] = h[1]
        BY <3>9, <3>11
      <4>2. \A i \in 1 .. n : i + 1 \in 1 .. 1 + n /\ ~(i + 1 <= 1) /\ (i + 1) - 1 = i
        BY <3>9
      <4>. QED
        BY <3>8, <3>11, <4>1, <4>2
    <3>13. \A i \in 1 .. 1 + n : i = 1 \/ \E j \in 1 .. n : i = j + 1 /\ w[i] = r[j]
      <4>1. SUFFICES ASSUME NEW i \in 1 .. 1 + n, i # 1
                     PROVE  \E j \in 1 .. n : i = j + 1 /\ w[i] = r[j]
        OBVIOUS
      <4>2. i - 1 \in 1 .. n /\ i = (i - 1) + 1
        BY <3>9, <4>1
      <4>. QED
        BY <3>12, <4>2
    <3>14. ASSUME NEW i \in 1 .. n
           PROVE  r[i] # Told(m, a)
                  /\ \E x \in A : c <= x /\ Matches(m, x, p) /\ r[i] = Told(m, x)
      <4>1. PICK x \in A : d <= x /\ Matches(m, x, p) /\ r[i] = Told(m, x)
        BY <3>5, <3>6, <3>9 DEF Tells
      <4>2. x # a /\ c <= x
        BY <1>1, <1>5, <3>1, <3>2, <3>3, <4>1
      <4>. QED
        BY <3>2, <4>1, <4>2
    <3>15. \A i \in 1 .. 1 + n : \E x \in A : c <= x /\ Matches(m, x, p) /\ w[i] = Told(m, x)
      BY <3>2, <3>12, <3>13, <3>14
    <3>16. ASSUME NEW x \in A, c <= x, Matches(m, x, p)
           PROVE  \E i \in 1 .. 1 + n : w[i] = Told(m, x)
      <4>1. CASE x = a
        <5>1. 1 \in 1 .. 1 + n
          BY <3>9
        <5>. QED
          BY <3>12, <4>1, <5>1
      <4>2. CASE x # a
        <5>1. x \in M
          BY <3>16 DEF M
        <5>2. a < x
          BY <1>1, <3>1, <4>2, <5>1
        <5>3. d <= x
          BY <1>3, <3>2, <3>3, <5>2
        <5>4. PICK i \in 1 .. n : r[i] = Told(m, x)
          BY <3>5, <3>6, <3>9, <3>16, <5>3 DEF Tells
        <5>. QED
          BY <3>12, <5>4
      <4>. QED
        BY <4>1, <4>2
    <3>17. ASSUME NEW i \in 1 .. 1 + n, NEW j \in 1 .. 1 + n, w[i] = w[j]
           PROVE  i = j
      <4>1. CASE i = 1 /\ j = 1
        BY <4>1
      <4>2. CASE i = 1 /\ j # 1
        BY <3>12, <3>13, <3>14, <3>17, <4>2
      <4>3. CASE i # 1 /\ j = 1
        BY <3>12, <3>13, <3>14, <3>17, <4>3
      <4>4. CASE i # 1 /\ j # 1
        <5>1. PICK x \in 1 .. n : i = x + 1 /\ w[i] = r[x]
          BY <3>13, <4>4
        <5>2. PICK y \in 1 .. n : j = y + 1 /\ w[j] = r[y]
          BY <3>13, <4>4
        <5>3. x = y
          BY <3>5, <3>6, <3>9, <3>17, <5>1, <5>2 DEF Tells
        <5>. QED
          BY <5>1, <5>2, <5>3
      <4>. QED
        BY <4>1, <4>2, <4>3, <4>4
    <3>18. Foreach(m, c, p) = w
      BY <3>4, <3>6, <3>7, <3>10
    <3>. QED
      BY <3>11, <3>15, <3>16, <3>17, <3>18 DEF Tells, T
  <2>. QED
    BY <2>5, <2>6
<1>6. \A c \in Nat : (\A d \in Nat : d > c => d \in S) => c \in S
  <2>1. SUFFICES ASSUME NEW c \in Nat, \A d \in Nat : d > c => d \in S, c \in A \cup {e}
                 PROVE  Tells(Foreach(m, c, p), m, A, c, p)
    OBVIOUS
  <2>2. \A d \in Nat : d > c /\ d \in A \cup {e} => Tells(Foreach(m, d, p), m, A, d, p)
    BY <2>1
  <2>. HIDE DEF S
  <2>. QED
    BY <1>5, <2>1, <2>2
<1>7. \A c \in Nat : c >= e + 1 => c \in S
  BY <1>1
<1>8. S = Nat
  <2>1. S \in SUBSET Nat /\ e + 1 \in Nat
    BY <1>1
  <2>. DEFINE N == e + 1
  <2>2. N \in Nat /\ \A c \in Nat : c >= N => c \in S
    BY <1>7, <2>1
  <2>. HIDE DEF S, N
  <2>. QED
    BY <1>6, <2>1, <2>2, Downward
<1>. QED
  BY <1>1, <1>8

\* An item with a key is told with the key and its value, clipped.
LEMMA ItemTold ==
  ASSUME NEW m \in Memory, NEW A, NEW e, Table(m, A, e), NEW x \in A, NEW k \in Key,
         NEW v \in Value, Entry(m, x, k, v)
  PROVE  Told(m, x) = <<k, SubSeq(v, 1, Min({Len(v), ClipSize}))>>
<1>1. ClipSize \in Nat /\ MemSize \in Nat /\ Accessible \in Nat /\ MemSize - 1 <= Accessible
  BY Sizes
<1>2. PICK d \in Nat : d = Len(v) /\ v \in Seq(Byte)
  BY ItemSizeIsSmall
<1>3. PICK l \in Nat : l = Min({d, ClipSize}) /\ l <= d
  BY <1>1, <1>2, MinOfTwo
<1>4. IsClip(l, v, ClipSize)
  BY <1>2, <1>3 DEF IsClip
<1>. DEFINE n == ClipSize
            data == Data(m, x, n)
<1>5. n \in Nat /\ IsClip(l, v, n)
  BY <1>1, <1>4
<1>. HIDE DEF n
<1>6. data \in Seq(Byte) /\ Len(data) = l /\ \A i \in 1 .. l : data[i] = v[i]
  BY <1>5, DataDoes
<1>. HIDE DEF data
<1>7. /\ SubSeq(v, 1, l) \in Seq(Byte) /\ Len(SubSeq(v, 1, l)) = l
      /\ \A i \in 1 .. l : SubSeq(v, 1, l)[i] = v[i]
  <2>1. \A i \in 1 .. l : v[i] \in Byte
    BY <1>2, <1>3
  <2>2. /\ SubSeq(v, 1, l) \in Seq(Byte)
        /\ Len(SubSeq(v, 1, l)) = IF 1 <= l THEN l - 1 + 1 ELSE 0
        /\ \A i \in 1 .. l - 1 + 1 : SubSeq(v, 1, l)[i] = v[1 + i - 1]
    BY <2>1, SubSeqProperties
  <2>3. l - 1 + 1 = l /\ (1 <= l \/ l = 0) /\ \A i \in 1 .. l : 1 + i - 1 = i
    OBVIOUS
  <2>. QED
    BY <2>2, <2>3
<1>8. data = SubSeq(v, 1, l)
  BY <1>6, <1>7, SeqEqual
<1>9. Bytes(m, x + 3, KeyLength(m, x)) = k
  <2>1. KeyAt(m, x, k) /\ KeyLength(m, x) = Len(k)
    BY DEF Entry, KeyAt
  <2>2. /\ x \in Nat /\ e \in Nat /\ e <= MemSize - 3 /\ FullLength(m, x) \in Nat
        /\ x + FullLength(m, x) <= e
    BY GoodFacts
  <2>3. PICK c \in 1 .. 255 : c = Len(k)
    BY ItemSizeIsSmall
  <2>4. FullLength(m, x) = 3 + c + d
    BY <1>2, <2>3, ItemSizeIsSmall DEF Entry
  <2>5. x + 3 + Len(k) <= Accessible
    BY <1>1, <2>2, <2>3, <2>4
  <2>6. HasKey(m, x, k)
    BY <2>1, <2>2, <2>5, KeyBytes
  <2>. QED
    BY <2>1, <2>6 DEF HasKey
<1>10. Data(m, x, ClipSize) = SubSeq(v, 1, l)
  BY <1>8 DEF data, n
<1>. QED
  BY <1>2, <1>3, <1>9, <1>10 DEF Told

LEMMA PrefixIsBytes ==
  ASSUME NEW p \in Prefix
  PROVE  p \in Seq(Byte) /\ Len(p) \in Nat /\ Len(p) >= 1
<1>1. PICK k \in Key : p \in Prefixes(k) /\ p # <<>>
  BY DEF Prefix
<1>2. PICK l \in 0 .. Len(k) : p = SubSeq(k, 1, l)
  BY <1>1 DEF Prefixes
<1>3. PICK c \in 1 .. 255 : c = Len(k) /\ k \in Seq(Byte)
  <2>1. 1 .. 255 \subseteq Byte
    BY DEF Byte
  <2>2. k \in Seq(1 .. 255) /\ Len(k) \in 1 .. 255
    BY KeyAssumption
  <2>3. k \in Seq(Byte)
    BY <2>1, <2>2, SeqMonotonic
  <2>. QED
    BY <2>2, <2>3
<1>4. l \in Nat /\ l <= c
  BY <1>3
<1>5. ASSUME NEW i \in 1 .. l
      PROVE  k[i] \in Byte
  <2>1. i \in 1 .. Len(k)
    BY <1>3, <1>4
  <2>. QED
    BY <1>3, <2>1, ElementOfSeq
<1>. DEFINE first == 1
<1>6. first \in Int /\ l \in Int /\ \A i \in first .. l : k[i] \in Byte
  BY <1>4, <1>5
<1>. HIDE DEF first
<1>7. SubSeq(k, first, l) \in Seq(Byte)
  BY <1>6, SubSeqProperties
<1>. QED
  BY <1>1, <1>2, <1>7, LenProperties, EmptySeq DEF first

\* Items are matched by the keys that have the prefix.
LEMMA MatchDoes ==
  ASSUME NEW m \in Memory, NEW A, NEW e, Table(m, A, e), NEW x \in A, NEW k \in Key,
         NEW v \in Value, Entry(m, x, k, v), NEW p \in Prefix
  PROVE  Matches(m, x, p) <=> IsPrefix(p, k)
<1>1. PICK n \in Nat : n = Len(p) /\ n >= 1 /\ p \in Seq(Byte)
  BY PrefixIsBytes
<1>2. PICK c \in 1 .. 255 : c = Len(k) /\ k \in Seq(Byte)
  BY ItemSizeIsSmall
<1>3. KeyLength(m, x) = c /\ \A i \in 1 .. c : m[x + 2 + i] = k[i]
  BY <1>2 DEF Entry
<1>4. CASE c < n
  <2>1. ~ Len(p) <= KeyLength(m, x)
    BY <1>1, <1>3, <1>4
  <2>2. ~ Len(p) <= Len(k)
    BY <1>1, <1>2, <1>4
  <2>. QED
    BY <2>1, <2>2 DEF Matches, IsPrefix
<1>5. CASE n <= c
  <2>. DEFINE b == x + 3
  <2>1. x \in Nat /\ b \in Nat /\ b + n <= Accessible
    <3>1. /\ x \in Nat /\ e \in Nat /\ e <= MemSize - 3 /\ FullLength(m, x) \in Nat
          /\ x + FullLength(m, x) <= e
      BY GoodFacts
    <3>2. PICK d \in Nat : d = Len(v)
      BY ItemSizeIsSmall
    <3>3. FullLength(m, x) = 3 + c + d
      BY <1>2, <3>2, ItemSizeIsSmall DEF Entry
    <3>4. MemSize \in Nat /\ Accessible \in Nat /\ MemSize - 1 <= Accessible
      BY Sizes
    <3>. QED
      BY <1>5, <3>1, <3>3, <3>4
  <2>2. \A i \in 1 .. n : m[b + i - 1] = k[i]
    <3>1. \A i \in 1 .. n : i \in 1 .. c /\ b + i - 1 = x + 2 + i
      BY <1>5, <2>1
    <3>. QED
      BY <1>3, <3>1
  <2>. HIDE DEF b
  <2>3. /\ Bytes(m, b, n) \in Seq(Byte) /\ Len(Bytes(m, b, n)) = n
        /\ \A i \in 1 .. n : Bytes(m, b, n)[i] = k[i]
    <3>1. /\ Bytes(m, b, n) \in Seq(Byte) /\ Len(Bytes(m, b, n)) = n
          /\ \A i \in 1 .. n : Bytes(m, b, n)[i] = m[b + i - 1]
      BY <2>1, BytesDoes
    <3>. QED
      BY <2>2, <3>1
  <2>4. /\ SubSeq(k, 1, n) \in Seq(Byte) /\ Len(SubSeq(k, 1, n)) = n
        /\ \A i \in 1 .. n : SubSeq(k, 1, n)[i] = k[i]
    <3>1. \A i \in 1 .. n : k[i] \in Byte
      BY <1>2, <1>5
    <3>2. /\ SubSeq(k, 1, n) \in Seq(Byte)
          /\ Len(SubSeq(k, 1, n)) = IF 1 <= n THEN n - 1 + 1 ELSE 0
          /\ \A i \in 1 .. n - 1 + 1 : SubSeq(k, 1, n)[i] = k[1 + i - 1]
      BY <3>1, SubSeqProperties
    <3>3. n - 1 + 1 = n /\ 1 <= n /\ \A i \in 1 .. n : 1 + i - 1 = i
      BY <1>1
    <3>. QED
      BY <3>2, <3>3
  <2>5. Bytes(m, b, n) = SubSeq(k, 1, n)
    BY <2>3, <2>4, SeqEqual
  <2>6. SubSeq(p, 1, n) = p
    BY <1>1, SubSeqFull
  <2>7. Matches(m, x, p) <=> Bytes(m, b, n) = p
    BY <1>1, <1>2, <1>3, <1>5 DEF Matches, b
  <2>8. IsPrefix(p, k) <=> p = SubSeq(k, 1, n)
    BY <1>1, <1>2, <1>5, <2>6 DEF IsPrefix
  <2>. QED
    BY <2>5, <2>7, <2>8
<1>. QED
  BY <1>1, <1>2, <1>4, <1>5

\* What kveForeach tells of a table that says st.
LEMMA ForeachDoes ==
  ASSUME NEW m \in Memory, NEW A, NEW e, Table(m, A, e), NEW st, Holds(m, A, st),
         NEW p \in Prefix
  PROVE  LET calls == Foreach(m, FirstItem, p)
         IN  /\ ToSet(calls) = {<<k, SubSeq(st[k], 1, Min({Len(st[k]), ClipSize}))>> :
                                  k \in {x \in Key : IsPrefix(p, x) /\ st[x] # <<>>}}
             /\ IsInjective(calls)
<1>. DEFINE told(k) == <<k, SubSeq(st[k], 1, Min({Len(st[k]), ClipSize}))>>
            c == Foreach(m, FirstItem, p)
<1>1. ASSUME NEW x \in A, Matches(m, x, p)
      PROVE  \E k \in Key : /\ st[k] # <<>> /\ IsPrefix(p, k) /\ KeyAt(m, x, k)
                            /\ Told(m, x) = told(k)
  <2>1. KeyLength(m, x) # 0
    <3>1. Len(p) \in Nat /\ Len(p) >= 1 /\ KeyLength(m, x) >= Len(p)
      BY <1>1, PrefixIsBytes DEF Matches
    <3>. QED
      BY <3>1
  <2>2. PICK k \in Key : st[k] # <<>> /\ Entry(m, x, k, st[k])
    BY <2>1 DEF Holds
  <2>3. PICK v \in Value : v = st[k] /\ Entry(m, x, k, v)
    BY <2>2, ValueInStore
  <2>4. Told(m, x) = <<k, SubSeq(v, 1, Min({Len(v), ClipSize}))>>
    BY <2>3, ItemTold
  <2>5. IsPrefix(p, k)
    BY <1>1, <2>3, MatchDoes
  <2>6. KeyAt(m, x, k)
    BY <2>3 DEF Entry, KeyAt
  <2>. QED
    BY <2>2, <2>3, <2>4, <2>5, <2>6
<1>2. ASSUME NEW k \in Key, st[k] # <<>>, IsPrefix(p, k)
      PROVE  \E x \in A : Matches(m, x, p) /\ Told(m, x) = told(k)
  <2>1. PICK x \in A : Entry(m, x, k, st[k])
    BY <1>2 DEF Holds
  <2>3. PICK v \in Value : v = st[k] /\ Entry(m, x, k, v)
    BY <1>2, <2>1, ValueInStore
  <2>4. Told(m, x) = <<k, SubSeq(v, 1, Min({Len(v), ClipSize}))>>
    BY <2>3, ItemTold
  <2>5. Matches(m, x, p)
    BY <1>2, <2>3, MatchDoes
  <2>. QED
    BY <2>3, <2>4, <2>5
<1>3. \A k \in Key, o \in Key : told(k) = told(o) => k = o
  OBVIOUS
<1>. HIDE DEF told
<1>4. ASSUME NEW x \in A, NEW y \in A, Matches(m, x, p), Matches(m, y, p), Told(m, x) = Told(m, y)
      PROVE  x = y
  <2>1. PICK k \in Key : KeyAt(m, x, k) /\ Told(m, x) = told(k)
    BY <1>1, <1>4
  <2>2. PICK o \in Key : KeyAt(m, y, o) /\ Told(m, y) = told(o)
    BY <1>1, <1>4
  <2>3. k = o
    BY <1>3, <1>4, <2>1, <2>2
  <2>. QED
    BY <2>1, <2>2, <2>3 DEF Holds
<1>5. FirstItem \in A \cup {e} /\ \A x \in A : FirstItem <= x
  BY GoodFacts
<1>6. Tells(c, m, A, FirstItem, p)
  <2>1. \A x \in A, y \in A :
          Matches(m, x, p) /\ Matches(m, y, p) /\ Told(m, x) = Told(m, y) => x = y
    BY <1>4
  <2>. QED
    BY <1>5, <2>1, ForeachTells
<1>. HIDE DEF c
<1>7. PICK n \in Nat : n = Len(c) /\ DOMAIN c = 1 .. n
  BY <1>6 DEF Tells
<1>8. \A i \in 1 .. n : \E k \in Key : st[k] # <<>> /\ IsPrefix(p, k) /\ c[i] = told(k)
  <2>1. SUFFICES ASSUME NEW i \in 1 .. n
                 PROVE  \E k \in Key : st[k] # <<>> /\ IsPrefix(p, k) /\ c[i] = told(k)
    OBVIOUS
  <2>2. PICK x \in A : Matches(m, x, p) /\ c[i] = Told(m, x)
    BY <1>6, <1>7 DEF Tells
  <2>. QED
    BY <1>1, <2>2
<1>9. \A k \in Key : st[k] # <<>> /\ IsPrefix(p, k) => \E i \in 1 .. n : c[i] = told(k)
  <2>1. SUFFICES ASSUME NEW k \in Key, st[k] # <<>>, IsPrefix(p, k)
                 PROVE  \E i \in 1 .. n : c[i] = told(k)
    OBVIOUS
  <2>2. PICK x \in A : Matches(m, x, p) /\ Told(m, x) = told(k)
    BY <1>2, <2>1
  <2>3. PICK i \in 1 .. n : c[i] = Told(m, x)
    BY <1>5, <1>6, <1>7, <2>2 DEF Tells
  <2>. QED
    BY <2>2, <2>3
<1>10. ToSet(c) = {told(k) : k \in {x \in Key : IsPrefix(p, x) /\ st[x] # <<>>}}
  <2>. DEFINE K == {x \in Key : IsPrefix(p, x) /\ st[x] # <<>>}
  <2>1. ToSet(c) = {c[i] : i \in 1 .. n}
    BY <1>7 DEF ToSet
  <2>2. {c[i] : i \in 1 .. n} \subseteq {told(k) : k \in K}
    <3>. SUFFICES ASSUME NEW i \in 1 .. n
                  PROVE  \E k \in K : c[i] = told(k)
      OBVIOUS
    <3>. QED
      BY <1>8
  <2>3. {told(k) : k \in K} \subseteq {c[i] : i \in 1 .. n}
    <3>. SUFFICES ASSUME NEW k \in K
                  PROVE  \E i \in 1 .. n : told(k) = c[i]
      OBVIOUS
    <3>. QED
      BY <1>9
  <2>. QED
    BY <2>1, <2>2, <2>3
<1>11. IsInjective(c)
  BY <1>6, <1>7 DEF Tells, IsInjective
<1>. QED
  BY <1>10, <1>11 DEF c, told

\* When nothing fails, in any partition, kveForeach calls its function exactly
\* once for each key that begins with the prefix, with what a fetch would find,
\* clipped to the buffer, past holes and in whatever order the entries lie, if none of
\* these keys is too long for the buffer it has for keys.
THEOREM ForeachTheorem ==
  ASSUME MishapLimit = 0
  PROVE  Spec => []ForeachVisitsEachOnce
<1>1. Init => StoreInv
  BY InitMaps
<1>2. StoreInv /\ [Next]_vars => StoreInv'
  BY NextMaps
<1>3. StoreInv => ForeachVisitsEachOnce
  <2>1. SUFFICES ASSUME StoreInv, NEW p \in Prefix
                 PROVE  LET calls == Foreach(mem, FirstItem, p)
                        IN  /\ ToSet(calls) =
                                 {<<k, SubSeq(Fetch(mem, k), 1, Min({Len(Fetch(mem, k)), ClipSize}))>> :
                                    k \in {x \in Key : IsPrefix(p, x) /\ Fetch(mem, x) # <<>>}}
                            /\ IsInjective(calls)
    BY DEF ForeachVisitsEachOnce
  <2>2. PICK m \in Memory : m = mem
    BY <2>1 DEF StoreInv, TypeOK, Memory
  <2>3. PICK A, e, st : Table(m, A, e) /\ Holds(m, A, st)
    BY <2>1, <2>2 DEF StoreInv, IsStore
  <2>. DEFINE calls == Foreach(m, FirstItem, p)
              told(k, v) == <<k, SubSeq(v, 1, Min({Len(v), ClipSize}))>>
  <2>4. /\ ToSet(calls) = {told(k, st[k]) : k \in {x \in Key : IsPrefix(p, x) /\ st[x] # <<>>}}
        /\ IsInjective(calls)
    BY <2>3, ForeachDoes
  <2>5. \A k \in Key : Fetch(m, k) = st[k]
    BY <2>3, FetchDoes
  <2>. HIDE DEF calls, told
  <2>6. {told(k, st[k]) : k \in {x \in Key : IsPrefix(p, x) /\ st[x] # <<>>}}
          = {told(k, Fetch(m, k)) : k \in {x \in Key : IsPrefix(p, x) /\ Fetch(m, x) # <<>>}}
    BY <2>5
  <2>. QED
    BY <2>2, <2>4, <2>6 DEF calls, told
<1>. QED
  BY <1>1, <1>2, <1>3, PTL DEF Spec

-----------------------------------------------------------------------------
(* An interrupted delete                                                     *)

LEMMA ApplyNone ==
  ASSUME NEW m
  PROVE  Apply(m, <<>>) = m
<1>. DEFINE n == 0
<1>1. n \in Nat /\ n = Len(<<>>)
  OBVIOUS
<1>. HIDE DEF n
<1>2. \E c : /\ c[0] = m
             /\ \A i \in 1 .. n : c[i] = Overlay(c[i - 1], <<>>[i].at, <<>>[i].bytes)
             /\ Apply(m, <<>>) = c[n]
  BY <1>1, ApplyIsApplied
<1>. QED
  BY <1>2 DEF n

LEMMA ApplyOne ==
  ASSUME NEW m, NEW w
  PROVE  Apply(m, <<w>>) = Overlay(m, w.at, w.bytes)
<1>. DEFINE log == <<w>>
            n == 1
<1>1. n \in Nat /\ n = Len(log) /\ log[1] = w
  OBVIOUS
<1>. HIDE DEF n, log
<1>2. PICK c : /\ c[0] = m
               /\ \A i \in 1 .. n : c[i] = Overlay(c[i - 1], log[i].at, log[i].bytes)
               /\ Apply(m, log) = c[n]
  BY <1>1, ApplyIsApplied
<1>3. c[1] = Overlay(c[0], log[1].at, log[1].bytes)
  <2>1. 1 \in 1 .. n /\ 1 - 1 = 0
    BY DEF n
  <2>. QED
    BY <1>2, <2>1
<1>. QED
  BY <1>1, <1>2, <1>3 DEF n, log

\* Bytes that are there already change nothing.
LEMMA OverlaySame ==
  ASSUME NEW m \in Memory, NEW a \in Nat, NEW bytes, Len(bytes) \in Nat,
         \A i \in 1 .. Len(bytes) : a + i - 1 < MemSize => bytes[i] = m[a + i - 1]
  PROVE  Overlay(m, a, bytes) = m
<1>1. PICK n \in Nat : n = Len(bytes)
  OBVIOUS
<1>2. DOMAIN m = 0 .. MemSize - 1 /\ m = [x \in 0 .. MemSize - 1 |-> m[x]] /\ MemSize \in Nat
  BY Sizes DEF Memory
<1>3. \A x \in 0 .. MemSize - 1 : x \in a .. a + n - 1 => bytes[x - a + 1] = m[x]
  <2>1. SUFFICES ASSUME NEW x \in 0 .. MemSize - 1, x \in a .. a + n - 1
                 PROVE  bytes[x - a + 1] = m[x]
    OBVIOUS
  <2>2. PICK i \in 1 .. n : i = x - a + 1
    BY <2>1
  <2>3. a + i - 1 = x /\ x < MemSize
    BY <1>2, <2>1, <2>2
  <2>4. bytes[i] = m[x]
    BY <1>1, <2>3
  <2>. QED
    BY <2>2, <2>4
<1>. QED
  BY <1>1, <1>2, <1>3 DEF Overlay

LEMMA HeaderBytes ==
  ASSUME NEW x \in Byte, NEW y \in Byte
  PROVE  (x + 256 * y) % 256 = x /\ (x + 256 * y) \div 256 = y
BY DEF Byte

\* The header that marks a hole differs from the one there in its last byte.
LEMMA TornHoleIsNothing ==
  ASSUME NEW m \in Memory, NEW a \in Nat, a < MemSize - 3,
         NEW r \in CutShort(m, WriteHole(Begin(m), a, FullLength(m, a)).log)
  PROVE  r = m
<1>. DEFINE bytes == <<FullLength(m, a) % 256, FullLength(m, a) \div 256, 0>>
            w == [at |-> a, bytes |-> bytes]
<1>1. WriteHole(Begin(m), a, FullLength(m, a)).log = <<w>>
  BY DEF WriteHole, WriteHeader, Write, Begin
<1>2. bytes[1] = m[a] /\ bytes[2] = m[a + 1] /\ bytes \in Seq(Byte) /\ Len(bytes) = 3
  <2>1. PICK x \in Byte, y \in Byte : x = m[a] /\ y = m[a + 1]
    <3>1. a \in 0 .. MemSize - 1 /\ a + 1 \in 0 .. MemSize - 1
      BY Sizes
    <3>. QED
      BY <3>1 DEF Memory
  <2>2. FullLength(m, a) % 256 = x /\ FullLength(m, a) \div 256 = y
    BY <2>1, HeaderBytes DEF FullLength
  <2>3. bytes = <<x, y, 0>>
    BY <2>2
  <2>. HIDE DEF bytes
  <2>4. 0 \in Byte
    BY DEF Byte
  <2>. QED
    BY <2>1, <2>3, <2>4
<1>. HIDE DEF bytes
<1>3. \E t \in Torn(w) : r = Apply(Apply(m, <<>>), <<t>>)
  <2>. DEFINE log == <<w>>
  <2>1. PICK i \in DOMAIN log : \E t \in Torn(log[i]) :
                                  r = Apply(Apply(m, SubSeq(log, 1, i - 1)), <<t>>)
    BY <1>1 DEF CutShort
  <2>2. i = 1 /\ log[1] = w
    BY <2>1
  <2>3. SubSeq(log, 1, 0) = <<>>
    BY SubSeqEmpty
  <2>. HIDE DEF log
  <2>4. i - 1 = 0
    BY <2>2
  <2>. QED
    BY <2>1, <2>2, <2>3, <2>4
<1>4. PICK t \in Torn(w) : r = Apply(Apply(m, <<>>), <<t>>)
  BY <1>3
<1>5. PICK n \in 0 .. 2 : t = [at |-> a, bytes |-> SubSeq(bytes, 1, n)]
  <2>1. PICK n \in 0 .. Len(bytes) - 1 : t = [w EXCEPT !.bytes = SubSeq(@, 1, n)]
    BY <1>4 DEF Torn
  <2>2. n \in 0 .. 2
    BY <1>2
  <2>3. t = [at |-> a, bytes |-> SubSeq(bytes, 1, n)]
    BY <2>1
  <2>. QED
    BY <2>2, <2>3
<1>6. r = Overlay(m, a, SubSeq(bytes, 1, n))
  <2>1. Apply(m, <<>>) = m
    BY ApplyNone
  <2>2. Apply(m, <<t>>) = Overlay(m, t.at, t.bytes)
    BY ApplyOne
  <2>3. t.at = a /\ t.bytes = SubSeq(bytes, 1, n)
    BY <1>5
  <2>. QED
    BY <1>4, <2>1, <2>2, <2>3
<1>7. /\ Len(SubSeq(bytes, 1, n)) = n
      /\ \A i \in 1 .. n : SubSeq(bytes, 1, n)[i] = bytes[i]
  <2>1. \A i \in 1 .. n : bytes[i] \in Byte
    BY <1>2, <1>5
  <2>2. /\ Len(SubSeq(bytes, 1, n)) = IF 1 <= n THEN n - 1 + 1 ELSE 0
        /\ \A i \in 1 .. n - 1 + 1 : SubSeq(bytes, 1, n)[i] = bytes[1 + i - 1]
    BY <2>1, SubSeqProperties
  <2>3. n - 1 + 1 = n /\ (1 <= n \/ n = 0) /\ \A i \in 1 .. n : 1 + i - 1 = i
    BY <1>5
  <2>. QED
    BY <2>2, <2>3
<1>8. \A i \in 1 .. n : SubSeq(bytes, 1, n)[i] = m[a + i - 1]
  <2>1. SUFFICES ASSUME NEW i \in 1 .. n
                 PROVE  bytes[i] = m[a + i - 1]
    BY <1>7
  <2>2. CASE i = 1
    <3>1. a + i - 1 = a
      BY <2>2
    <3>. QED
      BY <1>2, <2>2, <3>1
  <2>3. CASE i = 2
    <3>1. a + i - 1 = a + 1
      BY <2>3
    <3>. QED
      BY <1>2, <2>3, <3>1
  <2>4. i = 1 \/ i = 2
    BY <1>5, <2>1
  <2>. QED
    BY <2>2, <2>3, <2>4
<1>9. Overlay(m, a, SubSeq(bytes, 1, n)) = m
  <2>. DEFINE b == SubSeq(bytes, 1, n)
  <2>1. Len(b) = n /\ n \in Nat
    BY <1>5, <1>7
  <2>2. \A i \in 1 .. n : b[i] = m[a + i - 1]
    BY <1>8
  <2>. HIDE DEF b
  <2>3. Len(b) \in Nat
    BY <2>1
  <2>4. \A i \in 1 .. Len(b) : a + i - 1 < MemSize => b[i] = m[a + i - 1]
    BY <2>1, <2>2
  <2>5. Overlay(m, a, b) = m
    BY <2>3, <2>4, OverlaySame
  <2>. QED
    BY <2>5 DEF b
<1>. QED
  BY <1>6, <1>9

LEMMA InterruptedDelete ==
  ASSUME NEW m \in Memory, NEW k \in Key, NEW r \in CutShort(m, DeleteCall(m, k).call.log)
  PROVE  r = m
<1>. DEFINE a == FindItemByKey(m, k)
<1>1. a # Invalid
  <2>1. SUFFICES ASSUME a = Invalid
                 PROVE  FALSE
    OBVIOUS
  <2>2. DeleteCall(m, k).call.log = <<>>
    BY <2>1 DEF DeleteCall, Called, Begin
  <2>. QED
    BY <2>2 DEF CutShort
<1>2. DeleteCall(m, k).call = WriteHole(Begin(m), a, FullLength(m, a))
  BY <1>1 DEF DeleteCall, Called
<1>3. a \in Nat /\ a < MemSize - 3
  BY <1>1, FoundKey
<1>. HIDE DEF a
<1>. QED
  BY <1>2, <1>3, TornHoleIsNothing

\* A power failure during a delete loses no other key, and leaves the key its
\* value or takes it, in any table that storageTest accepts, also one that
\* failing writes have spoilt: of the header that makes the item a hole only the
\* last byte is new, and a header that is cut short ends before it
\* (kve.c:169-179, kve_storage.c:69-78).
THEOREM DeleteTheorem == Spec => DeleteIsAtomic
<1>. DEFINE Atomic == \A k \in Key :
                        Check(mem) /\ Interrupts(DeleteCall(mem, k).call) =>
                          /\ \A o \in Others(k) : Kept(o)
                          /\ Kept(k) \/ Fetch(mem', k) = <<>>
<1>1. TableInv /\ [Next]_vars => [Atomic]_vars
  <2>1. SUFFICES ASSUME TableInv, NEW k \in Key, Check(mem), Interrupts(DeleteCall(mem, k).call)
                 PROVE  mem' = mem
    BY DEF Kept, Others
  <2>2. mem \in Memory
    BY <2>1 DEF TableInv, TypeOK, Memory
  <2>3. PICK m \in CutShort(mem, DeleteCall(mem, k).call.log) : mem' = Boot(m)
    BY <2>1 DEF Interrupts
  <2>4. m = mem
    BY <2>2, <2>3, InterruptedDelete
  <2>. QED
    BY <2>1, <2>3, <2>4 DEF Boot
<1>2. Init => TableInv
  BY InitTable
<1>3. TableInv /\ [Next]_vars => TableInv'
  BY NextKeepsTable
<1>. HIDE DEF Atomic
<1>4. Spec => [][Atomic]_vars
  BY <1>1, <1>2, <1>3, PTL DEF Spec
<1>. QED
  BY <1>4 DEF DeleteIsAtomic, Atomic
=============================================================================
