------------------------------ MODULE LogProof ------------------------------
(* The log's lists, limits, packets and requests, for every table of         *)
(* contents, every number of blocks and operations and every client.         *)
EXTENDS Log, FiniteSetTheorems, SequenceTheorems, TLAPS

-----------------------------------------------------------------------------
(* Induction over the naturals, as facts about sets of naturals              *)

Below == OpToRel(<, Nat)

LEMMA BelowIsWellFounded == IsWellFoundedOn(Below, Nat)
BY NatLessThanWellFounded DEF Below

LEMMA BelowIsLess ==
  ASSUME NEW m \in Nat, NEW n \in Nat, m < n
  PROVE  <<m, n>> \in Below
BY DEF OpToRel, Below

\* A set of naturals has a least one.
LEMMA LeastNatural ==
  ASSUME NEW S \in SUBSET Nat, S # {}
  PROVE  \E n \in S : \A k \in S : n <= k
<1>1. PICK n \in S : \A k \in S : ~(<<k, n>> \in Below)
  BY BelowIsWellFounded, WFMin
<1>2. ASSUME NEW k \in S
      PROVE  n <= k
  <2>1. <<k, n>> \notin Below
    BY <1>1
  <2>. QED
    BY <2>1, BelowIsLess
<1>. QED
  BY <1>2

\* A set that has 0 and the successors of its elements has every natural.
LEMMA Induction ==
  ASSUME NEW S \in SUBSET Nat, 0 \in S, \A n \in S : n + 1 \in S
  PROVE  S = Nat
<1>. SUFFICES ASSUME Nat \ S # {}
              PROVE  FALSE
  OBVIOUS
<1>1. PICK n \in Nat \ S : \A k \in Nat \ S : n <= k
  BY LeastNatural
<1>2. n - 1 \in Nat /\ n - 1 \notin Nat \ S
  BY <1>1
<1>. QED
  BY <1>1, <1>2

\* What Least chooses.
LEMMA LeastIsLeast ==
  ASSUME NEW S \in SUBSET Nat, S # {}
  PROVE  Least(S) \in S /\ \A k \in S : Least(S) <= k
BY LeastNatural DEF Least

LEMMA LeastOfOne ==
  ASSUME NEW n \in Nat
  PROVE  Least({n}) = n
BY LeastIsLeast

-----------------------------------------------------------------------------
(* Lists                                                                     *)

OpOrNull == Op \cup {Null}

Pool ==
  [Op -> [variable : DOMAIN Toc \cup {Memory, Null},
          length : {0} \cup Lengths,
          next : OpOrNull]]

LEMMA NullIsNoOp == Null \notin Op
BY NameAssumption, NumberAssumption DEF Op

\* The operations of q, each once, are what a list that starts at first holds.
IsList(p, first, q) ==
  /\ q \in Seq(Op)
  /\ first = IF q = <<>> THEN Null ELSE q[1]
  /\ \A j, k \in 1 .. Len(q) : q[j] = q[k] => j = k
  /\ \A k \in 1 .. Len(q) : p[q[k]].next = IF k = Len(q) THEN Null ELSE q[k + 1]

\* No list is longer than the pool.
LEMMA ListFits ==
  ASSUME NEW p, NEW first, NEW q, IsList(p, first, q)
  PROVE  Len(q) \in Nat /\ Len(q) <= MaxOps
<1>1. q \in Seq(Op) /\ Len(q) \in Nat /\ q \in [1 .. Len(q) -> Op]
  BY LenProperties DEF IsList
<1>2. q \in Injection(1 .. Len(q), Op)
  BY <1>1 DEF IsList, Injection, IsInjective
<1>3. IsFiniteSet(Op) /\ Cardinality(Op) = MaxOps
  BY FS_Interval, NumberAssumption DEF Op
<1>4. Cardinality(1 .. Len(q)) = Len(q)
  <2>1. PICK n \in Nat : n = Len(q)
    BY <1>1
  <2>2. Cardinality(1 .. n) = IF 1 > n THEN 0 ELSE n - 1 + 1
    BY FS_Interval
  <2>. QED
    BY <2>1, <2>2
<1>5. Cardinality(1 .. Len(q)) <= Cardinality(Op)
  BY <1>2, <1>3, FS_Injection
<1>. QED
  BY <1>1, <1>3, <1>4, <1>5

\* What the recursive function of Chain is.
Walks(p, w, n) ==
  w = [k \in 0 .. n |->
        [o \in OpOrNull |-> IF k = 0 \/ o = Null THEN <<>>
                            ELSE <<o>> \o w[k - 1][p[o].next]]]

LEMMA WalkExists ==
  ASSUME NEW p \in Pool
  PROVE  \A n \in Nat : \E w : Walks(p, w, n)
<1>. DEFINE S == {n \in Nat : \E w : Walks(p, w, n)}
<1>1. 0 \in S
  <2>. DEFINE w == [k \in 0 .. 0 |-> [o \in OpOrNull |-> <<>>]]
  <2>1. Walks(p, w, 0)
    BY DEF Walks
  <2>. QED
    BY <2>1
<1>2. ASSUME NEW n \in S
      PROVE  n + 1 \in S
  <2>. DEFINE row(u, k) == [o \in OpOrNull |-> IF k = 0 \/ o = Null THEN <<>>
                                              ELSE <<o>> \o u[k - 1][p[o].next]]
  <2>1. PICK w : w = [k \in 0 .. n |-> row(w, k)]
    BY DEF Walks
  <2>. DEFINE v == [k \in 0 .. n + 1 |-> row(w, k)]
  <2>2. ASSUME NEW k \in 0 .. n + 1
        PROVE  row(v, k) = row(w, k)
    <3>1. CASE k = 0
      BY <3>1
    <3>2. CASE k # 0
      <4>1. k - 1 \in 0 .. n
        BY <3>2
      <4>. HIDE DEF row
      <4>2. v[k - 1] = w[k - 1]
        BY <2>1, <4>1
      <4>. HIDE DEF v
      <4>. QED
        BY <4>2 DEF row
    <3>. QED
      BY <3>1, <3>2
  <2>3. v = [k \in 0 .. n + 1 |-> row(v, k)]
    <3>. HIDE DEF row
    <3>. QED
      BY <2>2
  <2>4. Walks(p, v, n + 1)
    <3>. HIDE DEF v
    <3>. QED
      BY <2>3 DEF Walks
  <2>. QED
    BY <2>4
<1>3. S = Nat
  <2>. HIDE DEF S
  <2>1. S \in SUBSET Nat
    BY DEF S
  <2>. QED
    BY <1>1, <1>2, <2>1, Induction
<1>. QED
  BY <1>3

LEMMA WalkStep ==
  ASSUME NEW p, NEW w, NEW n \in Nat, Walks(p, w, n), NEW k \in 0 .. n, NEW o \in OpOrNull
  PROVE  w[k][o] = IF k = 0 \/ o = Null THEN <<>> ELSE <<o>> \o w[k - 1][p[o].next]
<1>. DEFINE row(u, j) == [x \in OpOrNull |-> IF j = 0 \/ x = Null THEN <<>>
                                            ELSE <<x>> \o u[j - 1][p[x].next]]
<1>1. w = [j \in 0 .. n |-> row(w, j)]
  BY DEF Walks
<1>2. w[k] = row(w, k)
  <2>. HIDE DEF row
  <2>. QED
    BY <1>1
<1>. QED
  BY <1>2

LEMMA HeadOfSubSeq ==
  ASSUME NEW T, NEW q \in Seq(T), NEW k \in 1 .. Len(q)
  PROVE  <<q[k]>> \o SubSeq(q, k + 1, Len(q)) = SubSeq(q, k, Len(q))
<1>. DEFINE l == Len(q)
            rest == SubSeq(q, k + 1, l)
            all == SubSeq(q, k, l)
<1>1. l \in Nat /\ q[k] \in T
  BY LenProperties, ElementOfSeq
<1>2. /\ rest \in Seq(T) /\ Len(rest) = l - k
      /\ \A j \in 1 .. l - k : rest[j] = q[k + j]
  BY <1>1
<1>3. /\ all \in Seq(T) /\ Len(all) = l - k + 1
      /\ \A j \in 1 .. l - k + 1 : all[j] = q[k + j - 1]
  BY <1>1
<1>. DEFINE one == <<q[k]>>
<1>4. one \in Seq(T) /\ Len(one) = 1 /\ one[1] = q[k]
  BY <1>1
<1>. HIDE DEF rest, all, l, one
<1>5. /\ one \o rest \in Seq(T) /\ Len(one \o rest) = l - k + 1
      /\ (one \o rest)[1] = q[k]
      /\ \A j \in 2 .. l - k + 1 : (one \o rest)[j] = rest[j - 1]
  <2>1. /\ one \o rest \in Seq(T) /\ Len(one \o rest) = Len(one) + Len(rest)
        /\ \A j \in 1 .. Len(one) + Len(rest) :
             (one \o rest)[j] = IF j <= Len(one) THEN one[j] ELSE rest[j - Len(one)]
    BY <1>2, <1>4, ConcatProperties
  <2>2. Len(one) + Len(rest) = l - k + 1
    BY <1>1, <1>2, <1>4
  <2>. QED
    BY <1>1, <1>4, <2>1, <2>2
<1>6. ASSUME NEW j \in 1 .. l - k + 1
      PROVE  (one \o rest)[j] = all[j]
  <2>1. CASE j = 1
    <3>1. all[1] = q[k + 1 - 1] /\ k + 1 - 1 = k
      BY <1>3, <2>1
    <3>. QED
      BY <1>5, <2>1, <3>1
  <2>2. CASE j # 1
    <3>1. j \in 2 .. l - k + 1 /\ j - 1 \in 1 .. l - k
      BY <1>1, <2>2
    <3>2. rest[j - 1] = q[k + (j - 1)] /\ k + (j - 1) = k + j - 1
      BY <1>2, <3>1
    <3>. QED
      BY <1>3, <1>5, <3>1, <3>2
  <2>. QED
    BY <2>1, <2>2
<1>7. one \o rest = all
  BY <1>3, <1>5, <1>6, SeqEqual
<1>. QED
  BY <1>7 DEF rest, all, l, one

LEMMA ChainIsWalk ==
  ASSUME NEW p \in Pool, NEW first
  PROVE  \E w : Walks(p, w, MaxOps) /\ Chain(p, first) = w[MaxOps][first]
<1>1. \E w : Walks(p, w, MaxOps)
  BY WalkExists, NumberAssumption
<1>. QED
  BY <1>1 DEF Walks, Chain, OpOrNull

\* The chain from the first operation of a list is the list.
LEMMA ChainOfList ==
  ASSUME NEW p \in Pool, NEW first, NEW q, IsList(p, first, q)
  PROVE  Chain(p, first) = q
<1>1. PICK w : Walks(p, w, MaxOps) /\ Chain(p, first) = w[MaxOps][first]
  BY ChainIsWalk
<1>2. PICK l \in Nat : l = Len(q) /\ l <= MaxOps /\ q \in Seq(Op)
  BY ListFits DEF IsList
<1>. DEFINE start(m) == IF m = 0 THEN Null ELSE q[l - m + 1]
            S == {m \in Nat : m <= l =>
                    \A n \in m .. MaxOps : w[n][start(m)] = SubSeq(q, l - m + 1, l)}
<1>3. 0 \in S
  <2>1. ASSUME NEW n \in 0 .. MaxOps
        PROVE  w[n][Null] = SubSeq(q, l + 1, l)
    <3>1. w[n][Null] = <<>>
      BY <1>1, NumberAssumption DEF Walks, OpOrNull
    <3>2. SubSeq(q, l + 1, l) = <<>>
      BY <1>2, SubSeqEmpty
    <3>. QED
      BY <3>1, <3>2
  <2>. QED
    BY <2>1, <1>2
<1>4. ASSUME NEW m \in S
      PROVE  m + 1 \in S
  <2>. SUFFICES ASSUME m + 1 <= l, NEW n \in m + 1 .. MaxOps
                PROVE  w[n][start(m + 1)] = SubSeq(q, l - m, l)
    <3>1. l - (m + 1) + 1 = l - m /\ m + 1 \in Nat
      BY <1>2
    <3>. QED
      BY <3>1
  <2>1. n - 1 \in m .. MaxOps /\ n \in 0 .. MaxOps /\ n # 0
    BY NumberAssumption
  <2>2. start(m + 1) = q[l - m] /\ l - m \in 1 .. l
    BY <1>2
  <2>3. q[l - m] \in Op /\ p[q[l - m]].next = start(m)
    BY <1>2, <2>2 DEF IsList
  <2>4. w[n - 1][start(m)] = SubSeq(q, l - m + 1, l)
    BY <2>1, <1>2
  <2>5. w[n][q[l - m]] = <<q[l - m]>> \o w[n - 1][p[q[l - m]].next]
    <3>1. Walks(p, w, MaxOps) /\ MaxOps \in Nat
      BY <1>1, NumberAssumption
    <3>2. PICK o \in OpOrNull : o = q[l - m] /\ o # Null
      BY <2>3, NullIsNoOp DEF OpOrNull
    <3>3. w[n][o] = IF n = 0 \/ o = Null THEN <<>> ELSE <<o>> \o w[n - 1][p[o].next]
      BY <2>1, <3>1, WalkStep
    <3>. QED
      BY <2>1, <3>2, <3>3
  <2>6. <<q[l - m]>> \o SubSeq(q, l - m + 1, l) = SubSeq(q, l - m, l)
    BY <1>2, <2>2, HeadOfSubSeq
  <2>. QED
    BY <2>2, <2>3, <2>4, <2>5, <2>6
<1>5. S = Nat
  <2>. HIDE DEF S
  <2>1. S \in SUBSET Nat
    BY DEF S
  <2>. QED
    BY <1>3, <1>4, <2>1, Induction
<1>6. first = start(l)
  BY <1>2 DEF IsList
<1>7. w[MaxOps][start(l)] = SubSeq(q, 1, l)
  <2>1. MaxOps \in l .. MaxOps /\ l - l + 1 = 1
    BY <1>2, NumberAssumption
  <2>2. l \in S
    BY <1>5
  <2>. QED
    BY <1>2, <2>1, <2>2
<1>8. SubSeq(q, 1, l) = q
  BY <1>2
<1>. QED
  BY <1>1, <1>6, <1>7, <1>8

\* The same operations with the same successors are the same list.
LEMMA ListKept ==
  ASSUME NEW p, NEW r, NEW first, NEW q, IsList(p, first, q),
         \A o \in Ops(q) : r[o].next = p[o].next
  PROVE  IsList(r, first, q)
<1>1. \A k \in 1 .. Len(q) : q[k] \in Ops(q)
  BY DEF IsList, Ops
<1>. QED
  BY <1>1 DEF IsList

\* The last operation of a list, which the code finds by its walk.
LEMMA PutLastOfList ==
  ASSUME NEW p \in Pool, NEW first, NEW q, IsList(p, first, q), NEW o \in Op \ Ops(q)
  PROVE  /\ PutLast(p, first, o) \in Pool
         /\ \A x \in Op :
              PutLast(p, first, o)[x] =
                [variable |-> p[x].variable, length |-> p[x].length,
                 next |-> IF x = o THEN Null
                          ELSE IF q # <<>> /\ x = q[Len(q)] THEN o ELSE p[x].next]
<1>. DEFINE r == [p EXCEPT ![o].next = Null]
<1>1. /\ r \in Pool
      /\ \A x \in Op : r[x] = [variable |-> p[x].variable, length |-> p[x].length,
                                next |-> IF x = o THEN Null ELSE p[x].next]
  BY DEF Pool, OpOrNull
<1>. HIDE DEF r
<1>2. IsList(r, first, q)
  <2>1. \A x \in Ops(q) : x \in Op /\ x # o
    BY DEF Ops, IsList
  <2>2. ASSUME NEW x \in Ops(q)
        PROVE  r[x].next = p[x].next
    <3>1. r[x] = [variable |-> p[x].variable, length |-> p[x].length, next |-> p[x].next]
      BY <1>1, <2>1
    <3>. QED
      BY <3>1
  <2>. QED
    BY <2>2, ListKept
<1>3. Chain(r, first) = q
  BY <1>1, <1>2, ChainOfList
<1>4. PutLast(p, first, o) = IF q = <<>> THEN r ELSE [r EXCEPT ![q[Len(q)]].next = o]
  BY <1>3 DEF PutLast, r
<1>5. CASE q = <<>>
  BY <1>1, <1>4, <1>5
<1>6. CASE q # <<>>
  <2>1. q[Len(q)] \in Op /\ q[Len(q)] # o
    BY <1>6 DEF IsList, Ops
  <2>2. PICK z \in Op : z = q[Len(q)] /\ z # o
    BY <2>1
  <2>3. PutLast(p, first, o) = [r EXCEPT ![z].next = o]
    BY <1>4, <1>6, <2>2
  <2>. QED
    BY <1>1, <1>6, <2>2, <2>3 DEF Pool, OpOrNull
<1>. QED
  BY <1>5, <1>6

LEMMA ListExtended ==
  ASSUME NEW p \in Pool, NEW first, NEW q, IsList(p, first, q), NEW o \in Op \ Ops(q)
  PROVE  IsList(PutLast(p, first, o), IF first = Null THEN o ELSE first, Append(q, o))
<1>. DEFINE r == PutLast(p, first, o)
            l == Len(q)
            a == Append(q, o)
<1>1. \A x \in Op : r[x].next = IF x = o THEN Null
                               ELSE IF q # <<>> /\ x = q[l] THEN o ELSE p[x].next
  <2>. TAKE x \in Op
  <2>1. r[x] = [variable |-> p[x].variable, length |-> p[x].length,
                next |-> IF x = o THEN Null
                         ELSE IF q # <<>> /\ x = q[l] THEN o ELSE p[x].next]
    BY PutLastOfList
  <2>. QED
    BY <2>1
<1>2. /\ q \in Seq(Op) /\ l \in Nat /\ \A k \in 1 .. l : q[k] \in Op /\ q[k] # o
      /\ q # <<>> <=> l # 0
  BY DEF IsList, Ops
<1>3. /\ a \in Seq(Op) /\ Len(a) = l + 1 /\ a # <<>>
      /\ a[l + 1] = o /\ \A k \in 1 .. l : a[k] = q[k]
  <2>1. q \in Seq(Op)
    BY <1>2
  <2>2. /\ a \in Seq(Op) /\ Len(a) = l + 1
        /\ a[l + 1] = o /\ \A k \in 1 .. l : a[k] = q[k]
    BY <2>1
  <2>. QED
    BY <1>2, <2>2
<1>. HIDE DEF a, r, l
<1>4. (IF first = Null THEN o ELSE first) = a[1]
  BY <1>2, <1>3, NullIsNoOp DEF IsList
<1>5. ASSUME NEW j \in 1 .. l + 1, NEW k \in 1 .. l + 1, a[j] = a[k]
      PROVE  j = k
  BY <1>2, <1>3, <1>5 DEF IsList, l
<1>6. ASSUME NEW k \in 1 .. l + 1
      PROVE  r[a[k]].next = IF k = l + 1 THEN Null ELSE a[k + 1]
  <2>1. CASE k = l + 1
    BY <1>1, <1>3, <2>1
  <2>2. CASE k = l
    BY <1>1, <1>2, <1>3, <2>2
  <2>3. CASE k < l
    <3>1. k \in 1 .. l /\ k + 1 \in 1 .. l /\ l \in 1 .. l /\ k # l
      BY <1>2, <2>3
    <3>2. q[k] # q[l] /\ p[q[k]].next = q[k + 1]
      BY <3>1 DEF IsList, l
    <3>. QED
      BY <1>1, <1>2, <1>3, <3>1, <3>2
  <2>. QED
    BY <1>2, <2>1, <2>2, <2>3
<1>7. IsList(r, IF first = Null THEN o ELSE first, a)
  BY <1>3, <1>4, <1>5, <1>6 DEF IsList
<1>. QED
  BY <1>7 DEF a, r

\* The items of a list.
ItemsOf(p, q) == [k \in DOMAIN q |-> ItemAt(p, q[k])]

LEMMA ItemsOfList ==
  ASSUME NEW p \in Pool, NEW first, NEW q, IsList(p, first, q)
  PROVE  Items(p, first) = ItemsOf(p, q)
BY ChainOfList DEF Items, ItemsOf

LEMMA ItemsOfSeq ==
  ASSUME NEW p \in Pool, NEW q \in Seq(Op)
  PROVE  /\ ItemsOf(p, q) \in Seq([variable : DOMAIN Toc \cup {Memory, Null},
                                   length : {0} \cup Lengths])
         /\ Len(ItemsOf(p, q)) = Len(q)
         /\ \A k \in 1 .. Len(q) : ItemsOf(p, q)[k] = ItemAt(p, q[k])
<1>1. \A k \in 1 .. Len(q) : ItemAt(p, q[k]) \in [variable : DOMAIN Toc \cup {Memory, Null},
                                                  length : {0} \cup Lengths]
  BY DEF ItemAt, Pool
<1>2. ItemsOf(p, q) = [k \in 1 .. Len(q) |-> ItemAt(p, q[k])]
  BY DEF ItemsOf
<1>. QED
  BY <1>1, <1>2

LEMMA ItemsKept ==
  ASSUME NEW p \in Pool, NEW r \in Pool, NEW q \in Seq(Op),
         \A o \in Ops(q) : r[o].variable = p[o].variable /\ r[o].length = p[o].length
  PROVE  ItemsOf(r, q) = ItemsOf(p, q)
<1>1. \A k \in DOMAIN q : q[k] \in Ops(q)
  BY DEF Ops
<1>. QED
  BY <1>1 DEF ItemsOf, ItemAt

LEMMA ItemsExtended ==
  ASSUME NEW p \in Pool, NEW q \in Seq(Op), NEW o \in Op
  PROVE  ItemsOf(p, Append(q, o)) = Append(ItemsOf(p, q), ItemAt(p, o))
<1>. DEFINE a == Append(q, o)
            T == [variable : DOMAIN Toc \cup {Memory, Null}, length : {0} \cup Lengths]
            s == ItemsOf(p, q)
            x == ItemAt(p, o)
<1>1. a \in Seq(Op) /\ Len(a) = Len(q) + 1 /\ a[Len(q) + 1] = o
      /\ \A k \in 1 .. Len(q) : a[k] = q[k]
  OBVIOUS
<1>2. /\ ItemsOf(p, a) \in Seq(T) /\ Len(ItemsOf(p, a)) = Len(a)
      /\ \A k \in 1 .. Len(a) : ItemsOf(p, a)[k] = ItemAt(p, a[k])
  BY <1>1, ItemsOfSeq
<1>3. /\ s \in Seq(T) /\ Len(s) = Len(q)
      /\ \A k \in 1 .. Len(q) : s[k] = ItemAt(p, q[k])
  BY ItemsOfSeq
<1>4. x \in T
  BY DEF ItemAt, Pool
<1>. HIDE DEF a, T, s, x
<1>5. /\ Append(s, x) \in Seq(T) /\ Len(Append(s, x)) = Len(s) + 1
      /\ Append(s, x)[Len(s) + 1] = x
      /\ \A k \in 1 .. Len(s) : Append(s, x)[k] = s[k]
  BY <1>3, <1>4
<1>6. Len(q) \in Nat
  OBVIOUS
<1>7. ItemsOf(p, a) = Append(s, x)
  <2>1. ASSUME NEW k \in 1 .. Len(q) + 1
        PROVE  ItemsOf(p, a)[k] = Append(s, x)[k]
    <3>1. CASE k = Len(q) + 1
      BY <1>1, <1>2, <1>3, <1>5, <1>6, <3>1 DEF x
    <3>2. CASE k # Len(q) + 1
      BY <1>1, <1>2, <1>3, <1>5, <1>6, <3>2
    <3>. QED
      BY <3>1, <3>2
  <2>. QED
    BY <1>1, <1>2, <1>3, <1>5, <2>1, SeqEqual
<1>. QED
  BY <1>7 DEF a, s, x

-----------------------------------------------------------------------------
(* The blocks and their lists                                                *)

\* Each item fits behind those before it.
FitsWhole(items) ==
  \A k \in 1 .. Len(items) :
    Total(SubSeq(items, 1, k - 1)) + items[k].length <= MaxLength

LEMMA FitsExtended ==
  ASSUME NEW T, NEW s \in Seq(T), FitsWhole(s),
         NEW x \in T, Total(s) + x.length <= MaxLength
  PROVE  FitsWhole(Append(s, x))
<1>. DEFINE a == Append(s, x)
            l == Len(s)
<1>1. /\ a \in Seq(T) /\ Len(a) = l + 1 /\ l \in Nat
      /\ a[l + 1] = x /\ \A k \in 1 .. l : a[k] = s[k]
  OBVIOUS
<1>. HIDE DEF a
<1>2. ASSUME NEW k \in 1 .. l + 1
      PROVE  SubSeq(a, 1, k - 1) = SubSeq(s, 1, k - 1)
  <2>1. /\ SubSeq(a, 1, k - 1) \in Seq(T) /\ Len(SubSeq(a, 1, k - 1)) = k - 1
        /\ \A j \in 1 .. k - 1 : SubSeq(a, 1, k - 1)[j] = a[j]
    BY <1>1
  <2>2. /\ SubSeq(s, 1, k - 1) \in Seq(T) /\ Len(SubSeq(s, 1, k - 1)) = k - 1
        /\ \A j \in 1 .. k - 1 : SubSeq(s, 1, k - 1)[j] = s[j]
    BY <1>1
  <2>3. \A j \in 1 .. k - 1 : a[j] = s[j]
    BY <1>1
  <2>. QED
    BY <2>1, <2>2, <2>3, SeqEqual
<1>3. SubSeq(s, 1, l + 1 - 1) = s
  BY <1>1
<1>4. ASSUME NEW k \in 1 .. l + 1
      PROVE  Total(SubSeq(a, 1, k - 1)) + a[k].length <= MaxLength
  <2>1. CASE k = l + 1
    <3>1. SubSeq(a, 1, k - 1) = s /\ a[k] = x
      BY <1>1, <1>2, <1>3, <2>1
    <3>. QED
      BY <3>1
  <2>2. CASE k # l + 1
    <3>1. k \in 1 .. l /\ a[k] = s[k] /\ SubSeq(a, 1, k - 1) = SubSeq(s, 1, k - 1)
      BY <1>1, <1>2, <2>2
    <3>. QED
      BY <3>1 DEF FitsWhole
  <2>. QED
    BY <2>1, <2>2
<1>5. FitsWhole(a)
  BY <1>1, <1>4 DEF FitsWhole
<1>. QED
  BY <1>5 DEF a

Table == [Block -> [id : Id \cup {FreeId}, ops : OpOrNull]]

Occupied(t) == {b \in Block : t[b].id # FreeId}

\* L has the operations of every block there is: each in one list only, within
\* the limit of a packet.  No two blocks have one number.
Lists(t, p, L) ==
  /\ L \in [Block -> Seq(Op)]
  /\ \A b \in Occupied(t) : IsList(p, t[b].ops, L[b])
  /\ \A b \in Occupied(t) : FitsWhole(ItemsOf(p, L[b]))
  /\ \A b, c \in Occupied(t) : b # c => t[b].id # t[c].id
  /\ \A b, c \in Occupied(t) : b # c => Ops(L[b]) \cap Ops(L[c]) = {}

\* The operations of all blocks.
Held(t, L) == UNION {Ops(L[b]) : b \in Occupied(t)}

InUse(p) == {o \in Op : p[o].variable # Null}

LEMMA EmptyList ==
  ASSUME NEW p \in Pool
  PROVE  IsList(p, Null, <<>>) /\ FitsWhole(ItemsOf(p, <<>>)) /\ Ops(<<>>) = {}
         /\ <<>> \in Seq(Op)
<1>1. <<>> \in Seq(Op) /\ Len(<<>>) = 0
  OBVIOUS
<1>2. Len(ItemsOf(p, <<>>)) = 0
  BY <1>1, ItemsOfSeq
<1>. QED
  BY <1>1, <1>2 DEF IsList, FitsWhole, Ops

\* A new block has no operations.
LEMMA ListsCreate ==
  ASSUME NEW t \in Table, NEW p \in Pool, NEW L, Lists(t, p, L),
         NEW b \in Block \ Occupied(t), NEW i \in Id, \A c \in Block : t[c].id # i,
         NEW u \in Table, u[b] = [id |-> i, ops |-> Null], \A c \in Block \ {b} : u[c] = t[c]
  PROVE  LET M == [L EXCEPT ![b] = <<>>]
         IN  /\ Lists(u, p, M)
             /\ Held(u, M) = Held(t, L)
             /\ Occupied(u) = Occupied(t) \cup {b}
<1>. DEFINE M == [L EXCEPT ![b] = <<>>]
<1>1. /\ u[b] = [id |-> i, ops |-> Null] /\ \A c \in Block \ {b} : u[c] = t[c]
      /\ M[b] = <<>> /\ \A c \in Block \ {b} : M[c] = L[c]
  BY DEF Lists
<1>2. M \in [Block -> Seq(Op)]
  BY EmptyList DEF Lists
<1>. HIDE DEF M
<1>3. Occupied(u) = Occupied(t) \cup {b}
  BY <1>1, NameAssumption DEF Occupied
<1>4. \A c \in Occupied(u) : c \in Block /\ (c # b => c \in Occupied(t))
  BY <1>3 DEF Occupied
<1>5. ASSUME NEW c \in Occupied(u)
      PROVE  IsList(p, u[c].ops, M[c]) /\ FitsWhole(ItemsOf(p, M[c]))
  BY <1>1, <1>4, EmptyList DEF Lists
<1>6. ASSUME NEW c \in Occupied(u), NEW d \in Occupied(u), c # d
      PROVE  u[c].id # u[d].id /\ Ops(M[c]) \cap Ops(M[d]) = {}
  <2>1. CASE c = b
    BY <1>1, <1>4, <1>6, <2>1, EmptyList
  <2>2. CASE d = b
    BY <1>1, <1>4, <1>6, <2>2, EmptyList
  <2>3. CASE c # b /\ d # b
    BY <1>1, <1>4, <1>6, <2>3 DEF Lists
  <2>. QED
    BY <2>1, <2>2, <2>3
<1>7. Lists(u, p, M)
  BY <1>2, <1>5, <1>6 DEF Lists
<1>8. Held(u, M) = Held(t, L)
  <2>1. Ops(M[b]) = {} /\ \A c \in Occupied(t) : c # b /\ M[c] = L[c]
    BY <1>1, EmptyList DEF Occupied
  <2>. QED
    BY <1>3, <2>1 DEF Held
<1>. QED
  BY <1>3, <1>7, <1>8 DEF M

\* What is done to other operations changes no list.
LEMMA ListsKept ==
  ASSUME NEW t \in Table, NEW p \in Pool, NEW r \in Pool, NEW L, Lists(t, p, L),
         \A o \in Held(t, L) : r[o] = p[o]
  PROVE  Lists(t, r, L)
<1>1. ASSUME NEW b \in Occupied(t)
      PROVE  IsList(r, t[b].ops, L[b]) /\ FitsWhole(ItemsOf(r, L[b]))
  <2>1. \A o \in Ops(L[b]) : r[o] = p[o]
    BY DEF Held
  <2>2. IsList(p, t[b].ops, L[b]) /\ FitsWhole(ItemsOf(p, L[b])) /\ L[b] \in Seq(Op)
    BY DEF Lists, Occupied
  <2>3. IsList(r, t[b].ops, L[b])
    BY <2>1, <2>2, ListKept
  <2>4. ItemsOf(r, L[b]) = ItemsOf(p, L[b])
    BY <2>1, <2>2, ItemsKept
  <2>. QED
    BY <2>2, <2>3, <2>4
<1>. QED
  BY <1>1 DEF Lists

\* The operations of these blocks.
OpsOf(L, gone) == UNION {Ops(L[b]) : b \in gone}

\* Blocks forget their operations.
LEMMA ListsDelete ==
  ASSUME NEW t \in Table, NEW p \in Pool, NEW L, Lists(t, p, L), NEW gone \in SUBSET Occupied(t),
         NEW u \in Table,
         \A b \in gone : u[b].id = FreeId,
         \A b \in Block \ gone : u[b] = t[b]
  PROVE  LET r == Freed(p, OpsOf(L, gone))
         IN  /\ Lists(u, r, L)
             /\ Held(u, L) = Held(t, L) \ OpsOf(L, gone)
             /\ Occupied(u) = Occupied(t) \ gone
             /\ InUse(r) = InUse(p) \ OpsOf(L, gone)
             /\ \A o \in Held(u, L) : r[o] = p[o]
<1>. DEFINE lost == OpsOf(L, gone)
            r == Freed(p, lost)
<1>1. /\ r \in Pool
      /\ \A o \in Op \ lost : r[o] = p[o]
      /\ \A o \in Op \cap lost : r[o].variable = Null
  BY DEF Freed, Pool
<1>2. Occupied(u) = Occupied(t) \ gone
  BY DEF Occupied
<1>3. ASSUME NEW b \in Occupied(u)
      PROVE  Ops(L[b]) \cap lost = {}
  <2>1. \A c \in gone : Ops(L[b]) \cap Ops(L[c]) = {}
    BY <1>2 DEF Lists
  <2>. QED
    BY <2>1 DEF OpsOf
<1>4. \A b \in Occupied(t) : Ops(L[b]) \subseteq Op
  BY DEF Lists, Ops, Occupied
<1>5. lost \subseteq Op /\ lost \subseteq Held(t, L)
  BY <1>4 DEF Held, OpsOf
<1>. HIDE DEF r, lost
<1>6. Held(u, L) = Held(t, L) \ lost
  BY <1>2, <1>3 DEF Held, lost, OpsOf
<1>7. Lists(u, p, L)
  <2>1. \A b \in Occupied(u) : b \in Occupied(t) /\ u[b] = t[b]
    BY <1>2 DEF Occupied
  <2>2. L \in [Block -> Seq(Op)]
    BY DEF Lists
  <2>3. \A b \in Occupied(u) : IsList(p, u[b].ops, L[b]) /\ FitsWhole(ItemsOf(p, L[b]))
    BY <2>1 DEF Lists
  <2>4. \A b, c \in Occupied(u) : b # c => u[b].id # u[c].id /\ Ops(L[b]) \cap Ops(L[c]) = {}
    BY <2>1 DEF Lists
  <2>. QED
    BY <2>2, <2>3, <2>4 DEF Lists
<1>8. Lists(u, r, L) /\ \A o \in Held(u, L) : r[o] = p[o]
  <2>1. \A o \in Held(u, L) : o \in Op \ lost
    BY <1>2, <1>3, <1>4 DEF Held
  <2>. QED
    BY <1>1, <1>7, <2>1, ListsKept
<1>9. InUse(r) = InUse(p) \ lost
  BY <1>1, <1>5 DEF InUse
<1>. QED
  BY <1>2, <1>6, <1>8, <1>9 DEF r, lost

\* There is room for an operation behind those of a list.
HasPlace(p, q, o) == Total(ItemsOf(p, q)) + p[o].length <= MaxLength

\* An operation that no block holds follows the last one of block b: what becomes of
\* the blocks, of the operations and of the lists.
Linked(t, p, L, b, o, u, r, M) ==
  /\ Lists(t, p, L) /\ b \in Occupied(t) /\ o \in Op \ Held(t, L) /\ HasPlace(p, L[b], o)
  /\ r = PutLast(p, t[b].ops, o)
  /\ u[b] = [id |-> t[b].id, ops |-> IF t[b].ops = Null THEN o ELSE t[b].ops]
  /\ M \in [Block -> Seq(Op)] /\ M[b] = Append(L[b], o)
  /\ \A c \in Block \ {b} : u[c] = t[c] /\ M[c] = L[c]

LEMMA ListsLink ==
  ASSUME NEW t \in Table, NEW p \in Pool, NEW L, NEW b, NEW o, NEW u, NEW r, NEW M,
         Linked(t, p, L, b, o, u, r, M)
  PROVE  /\ r \in Pool
         /\ Lists(u, r, M)
         /\ Held(u, M) = Held(t, L) \cup {o}
         /\ Occupied(u) = Occupied(t)
         /\ InUse(r) = InUse(p)
         /\ ItemsOf(r, M[b]) = Append(ItemsOf(p, L[b]), ItemAt(p, o))
         /\ \A c \in Occupied(t) \ {b} : ItemsOf(r, M[c]) = ItemsOf(p, L[c])
<1>. DEFINE first == IF t[b].ops = Null THEN o ELSE t[b].ops
            q == L[b]
<1>1. /\ b \in Block /\ q \in Seq(Op) /\ IsList(p, t[b].ops, q) /\ FitsWhole(ItemsOf(p, q))
      /\ o \in Op \ Ops(q) /\ Lists(t, p, L) /\ b \in Occupied(t) /\ o \notin Held(t, L)
      /\ HasPlace(p, q, o)
  BY DEF Linked, Lists, Occupied, Held
<1>2. /\ u[b] = [id |-> t[b].id, ops |-> first] /\ \A c \in Block \ {b} : u[c] = t[c]
      /\ M[b] = Append(q, o) /\ \A c \in Block \ {b} : M[c] = L[c]
  BY DEF Linked
<1>3. M \in [Block -> Seq(Op)]
  BY DEF Linked
<1>4. r \in Pool /\ IsList(r, first, Append(q, o))
  BY <1>1, PutLastOfList, ListExtended DEF Linked
<1>5. ASSUME NEW x \in Op
      PROVE  /\ r[x].variable = p[x].variable /\ r[x].length = p[x].length
             /\ x # o /\ x \notin Ops(q) => r[x] = p[x]
  <2>1. r[x] = [variable |-> p[x].variable, length |-> p[x].length,
                next |-> IF x = o THEN Null
                         ELSE IF q # <<>> /\ x = q[Len(q)] THEN o ELSE p[x].next]
    <3>1. IsList(p, t[b].ops, q) /\ o \in Op \ Ops(q) /\ r = PutLast(p, t[b].ops, o)
      BY <1>1 DEF Linked
    <3>. HIDE DEF q
    <3>. QED
      BY <3>1, PutLastOfList
  <2>2. q # <<>> => q[Len(q)] \in Ops(q)
    BY <1>1 DEF Ops
  <2>3. x # o /\ x \notin Ops(q) => r[x] = [variable |-> p[x].variable, length |-> p[x].length,
                                            next |-> p[x].next]
    BY <2>1, <2>2
  <2>4. p[x] = [variable |-> p[x].variable, length |-> p[x].length, next |-> p[x].next]
    BY DEF Pool
  <2>. QED
    BY <2>1, <2>3, <2>4
<1>. HIDE DEF first
<1>6. Occupied(u) = Occupied(t)
  BY <1>2 DEF Occupied
<1>7. ItemsOf(r, M[b]) = Append(ItemsOf(p, q), ItemAt(p, o))
  <2>1. Append(q, o) \in Seq(Op) /\ \A x \in Ops(Append(q, o)) : x \in Op
    BY <1>1 DEF Ops
  <2>2. ItemsOf(r, Append(q, o)) = ItemsOf(p, Append(q, o))
    BY <1>4, <1>5, <2>1, ItemsKept
  <2>. QED
    BY <1>1, <1>2, <2>2, ItemsExtended
<1>8. FitsWhole(ItemsOf(r, M[b]))
  <2>1. ItemAt(p, o).length = p[o].length
    BY DEF ItemAt
  <2>2. ItemAt(p, o) \in [variable : DOMAIN Toc \cup {Memory, Null}, length : {0} \cup Lengths]
    BY <1>1 DEF ItemAt, Pool
  <2>. DEFINE T == [variable : DOMAIN Toc \cup {Memory, Null}, length : {0} \cup Lengths]
  <2>3. ItemsOf(p, q) \in Seq(T) /\ FitsWhole(ItemsOf(p, q))
    BY <1>1, ItemsOfSeq
  <2>4. Total(ItemsOf(p, q)) + ItemAt(p, o).length <= MaxLength
    BY <1>1, <2>1 DEF HasPlace
  <2>5. ItemAt(p, o) \in T
    BY <2>2
  <2>. HIDE DEF T
  <2>6. FitsWhole(Append(ItemsOf(p, q), ItemAt(p, o)))
    BY <2>3, <2>4, <2>5, FitsExtended
  <2>. QED
    BY <1>7, <2>6
<1>9. ASSUME NEW c \in Occupied(t) \ {b}
      PROVE  /\ c \in Block /\ M[c] = L[c] /\ u[c] = t[c] /\ L[c] \in Seq(Op)
             /\ \A x \in Ops(L[c]) : x \in Op /\ x # o /\ r[x] = p[x]
  <2>1. c \in Block /\ M[c] = L[c] /\ u[c] = t[c] /\ L[c] \in Seq(Op)
    BY <1>1, <1>2 DEF Lists, Occupied
  <2>2. \A x \in Ops(L[c]) : x \in Op
    BY <2>1 DEF Ops
  <2>3. \A x \in Ops(L[c]) : x # o
    BY <1>1 DEF Held
  <2>4. Ops(L[c]) \cap Ops(q) = {}
    BY <1>1 DEF Lists
  <2>. QED
    BY <1>5, <2>1, <2>2, <2>3, <2>4
<1>10. ASSUME NEW c \in Occupied(t) \ {b}
       PROVE  ItemsOf(r, M[c]) = ItemsOf(p, L[c])
  BY <1>4, <1>9, ItemsKept
<1>11. ASSUME NEW c \in Occupied(t)
       PROVE  IsList(r, u[c].ops, M[c]) /\ FitsWhole(ItemsOf(r, M[c]))
  <2>1. CASE c = b
    <3>1. u[b].ops = first /\ M[b] = Append(q, o)
      BY <1>2
    <3>. QED
      BY <1>4, <1>8, <2>1, <3>1
  <2>2. CASE c # b
    <3>1. IsList(p, t[c].ops, L[c]) /\ FitsWhole(ItemsOf(p, L[c]))
      BY <1>1 DEF Lists
    <3>. QED
      BY <1>9, <1>10, <2>2, <3>1, ListKept
  <2>. QED
    BY <2>1, <2>2
<1>12. Ops(M[b]) = Ops(q) \cup {o}
  <2>1. /\ DOMAIN Append(q, o) = 1 .. Len(q) + 1 /\ DOMAIN q = 1 .. Len(q) /\ Len(q) \in Nat
        /\ Append(q, o)[Len(q) + 1] = o /\ \A k \in 1 .. Len(q) : Append(q, o)[k] = q[k]
    BY <1>1
  <2>2. \A k \in 1 .. Len(q) + 1 : k \in 1 .. Len(q) \/ k = Len(q) + 1
    BY <2>1
  <2>3. \A k \in 1 .. Len(q) : k \in 1 .. Len(q) + 1
    BY <2>1
  <2>. QED
    BY <1>2, <2>1, <2>2, <2>3 DEF Ops
<1>13. ASSUME NEW c \in Occupied(t), NEW d \in Occupied(t), c # d
       PROVE  u[c].id # u[d].id /\ Ops(M[c]) \cap Ops(M[d]) = {}
  <2>1. u[c].id = t[c].id /\ u[d].id = t[d].id /\ t[c].id # t[d].id
    <3>1. \A e \in Block : u[e].id = t[e].id
      BY <1>2
    <3>. QED
      BY <1>1, <1>13, <3>1 DEF Lists, Occupied
  <2>2. Ops(L[c]) \cap Ops(L[d]) = {} /\ o \notin Ops(L[c]) /\ o \notin Ops(L[d])
    BY <1>1, <1>13 DEF Lists, Held
  <2>. QED
    BY <1>9, <1>12, <1>13, <2>1, <2>2
<1>14. Lists(u, r, M)
  BY <1>3, <1>6, <1>11, <1>13 DEF Lists
<1>15. Held(u, M) = Held(t, L) \cup {o}
  <2>1. \A c \in Occupied(t) : Ops(M[c]) = IF c = b THEN Ops(L[c]) \cup {o} ELSE Ops(L[c])
    BY <1>9, <1>12
  <2>2. b \in Occupied(t)
    BY <1>1
  <2>. QED
    BY <1>6, <2>1, <2>2 DEF Held
<1>16. InUse(r) = InUse(p)
  BY <1>5 DEF InUse
<1>. QED
  BY <1>4, <1>6, <1>7, <1>10, <1>14, <1>15, <1>16

-----------------------------------------------------------------------------
(* The table of contents                                                     *)

LEMMA TocIsSeq ==
  /\ Len(Toc) \in Nat /\ DOMAIN Toc = 1 .. Len(Toc)
  /\ \A k \in DOMAIN Toc : Toc[k].kind \in {"start", "stop", "variable"}
<1>. DEFINE Entry == [kind : {"start", "stop", "variable"}, name : STRING]
<1>1. Toc \in Seq(Entry)
  BY NameAssumption
<1>2. /\ Len(Toc) \in Nat /\ DOMAIN Toc = 1 .. Len(Toc)
      /\ \A k \in DOMAIN Toc : Toc[k] \in Entry
  <2>. HIDE DEF Entry
  <2>. QED
    BY <1>1
<1>. QED
  BY <1>2

\* One place more, one variable more at most.
LEMMA CountedStep ==
  /\ Counted(1) = 0
  /\ \A k \in Nat \ {0} : /\ Counted(k) \in Nat
                         /\ Counted(k + 1) = Counted(k) + (IF IsVariable(k) THEN 1 ELSE 0)
<1>. DEFINE before(k) == {j \in 1 .. k - 1 : IsVariable(j)}
<1>1. Counted(1) = 0
  <2>1. before(1) = {}
    OBVIOUS
  <2>. QED
    BY <2>1, FS_EmptySet DEF Counted
<1>2. ASSUME NEW k \in Nat \ {0}
      PROVE  /\ Counted(k) \in Nat
             /\ Counted(k + 1) = Counted(k) + (IF IsVariable(k) THEN 1 ELSE 0)
  <2>1. IsFiniteSet(1 .. k - 1) /\ before(k) \in SUBSET (1 .. k - 1)
    BY FS_Interval
  <2>2. IsFiniteSet(before(k)) /\ Cardinality(before(k)) \in Nat
    BY <2>1, FS_Subset, FS_CardinalityType
  <2>3. k \notin before(k)
    OBVIOUS
  <2>4. CASE IsVariable(k)
    <3>1. before(k + 1) = before(k) \cup {k}
      BY <2>4
    <3>. HIDE DEF before
    <3>2. Cardinality(before(k + 1)) = Cardinality(before(k)) + 1
      BY <2>2, <2>3, <3>1, FS_AddElement
    <3>. QED
      BY <2>2, <2>4, <3>2 DEF Counted, before
  <2>5. CASE ~IsVariable(k)
    <3>1. before(k + 1) = before(k)
      BY <2>5
    <3>. QED
      BY <2>2, <2>5, <3>1 DEF Counted
  <2>. QED
    BY <2>4, <2>5
<1>. QED
  BY <1>1, <1>2

\* The count of logTOCProcess is that of variableGetIndex.
PassedIs(f) ==
  f = [k \in 1 .. Len(Toc) + 1 |->
        IF k = 1 THEN 0 ELSE f[k - 1] + (IF IsVariable(k - 1) THEN 1 ELSE 0)]

LEMMA PassedExists == \E f : PassedIs(f)
<1>. DEFINE f == [k \in 1 .. Len(Toc) + 1 |-> Counted(k)]
<1>1. ASSUME NEW k \in 1 .. Len(Toc) + 1
      PROVE  Counted(k) = IF k = 1 THEN 0
                          ELSE f[k - 1] + (IF IsVariable(k - 1) THEN 1 ELSE 0)
  <2>1. CASE k = 1
    BY <2>1, CountedStep
  <2>2. CASE k # 1
    <3>1. k - 1 \in Nat \ {0} /\ k - 1 \in 1 .. Len(Toc) + 1 /\ (k - 1) + 1 = k
      BY <2>2, TocIsSeq
    <3>2. Counted(k) = Counted(k - 1) + (IF IsVariable(k - 1) THEN 1 ELSE 0)
      BY <3>1, CountedStep
    <3>. QED
      BY <2>2, <3>1, <3>2
  <2>. QED
    BY <2>1, <2>2
<1>2. f = [k \in 1 .. Len(Toc) + 1 |-> Counted(k)]
  OBVIOUS
<1>. HIDE DEF f
<1>3. PassedIs(f)
  BY <1>1, <1>2 DEF PassedIs
<1>. QED
  BY <1>3

LEMMA PassedIsCounted ==
  ASSUME NEW f, PassedIs(f)
  PROVE  \A k \in 1 .. Len(Toc) + 1 : f[k] = Counted(k)
<1>. DEFINE S == {n \in Nat : n \in 0 .. Len(Toc) => f[n + 1] = Counted(n + 1)}
<1>1. 0 \in S
  BY CountedStep, TocIsSeq DEF PassedIs
<1>2. ASSUME NEW n \in S
      PROVE  n + 1 \in S
  <2>. SUFFICES ASSUME n + 1 \in 0 .. Len(Toc)
                PROVE  f[(n + 1) + 1] = Counted((n + 1) + 1)
    OBVIOUS
  <2>1. n + 1 \in Nat \ {0} /\ f[n + 1] = Counted(n + 1)
    BY TocIsSeq
  <2>2. /\ (n + 1) + 1 \in 1 .. Len(Toc) + 1 /\ (n + 1) + 1 # 1
        /\ (n + 1) + 1 - 1 = n + 1
    BY TocIsSeq
  <2>3. f[(n + 1) + 1] = f[n + 1] + (IF IsVariable(n + 1) THEN 1 ELSE 0)
    BY <2>2 DEF PassedIs
  <2>. QED
    BY <2>1, <2>3, CountedStep
<1>3. S = Nat
  <2>. HIDE DEF S
  <2>1. S \in SUBSET Nat
    BY DEF S
  <2>. QED
    BY <1>1, <1>2, <2>1, Induction
<1>4. ASSUME NEW k \in 1 .. Len(Toc) + 1
      PROVE  f[k] = Counted(k)
  <2>1. k - 1 \in Nat /\ k - 1 \in 0 .. Len(Toc) /\ (k - 1) + 1 = k
    BY TocIsSeq
  <2>2. k - 1 \in S
    <3>. HIDE DEF S
    <3>. QED
      BY <1>3, <2>1
  <2>. QED
    BY <2>1, <2>2
<1>. QED
  BY <1>4

\* The mark that GroupAt looks at is the one that CurrentGroup looks at.
LEMMA GroupIsCurrent ==
  ASSUME NEW k \in DOMAIN Toc, IsVariable(k)
  PROVE  GroupAt(k) = CurrentGroup(k)
<1>. DEFINE marks == {j \in 1 .. k - 1 : ~IsVariable(j)}
            starts == {j \in 1 .. k - 1 : Toc[j].kind = "start"}
            last == CHOOSE j \in marks : \A i \in marks : i <= j
            latest == CHOOSE j \in starts : \A i \in starts : i <= j
<1>1. k \in Nat /\ starts \subseteq marks /\ marks \subseteq 1 .. k - 1
      /\ \A j \in marks : Toc[j].kind \in {"start", "stop"}
  BY TocIsSeq DEF IsVariable
<1>2. CASE marks = {}
  <2>1. starts = {}
    BY <1>1, <1>2
  <2>2. GroupAt(k) = ""
    BY <1>2 DEF GroupAt
  <2>3. CurrentGroup(k) = ""
    BY <2>1 DEF CurrentGroup
  <2>. QED
    BY <2>2, <2>3
<1>3. CASE marks # {}
  <2>. HIDE DEF marks, starts
  <2>. DEFINE S == {k - j : j \in marks}
  <2>1. S \in SUBSET Nat /\ S # {}
    <3>1. \A j \in marks : k - j \in Nat
      BY <1>1
    <3>. QED
      BY <1>3, <3>1
  <2>2. PICK n \in S : \A m \in S : n <= m
    BY <2>1, LeastNatural
  <2>3. PICK j \in marks : n = k - j
    OBVIOUS
  <2>4. \A i \in marks : k - i \in S /\ i \in Int
    BY <1>1
  <2>5. ASSUME NEW i \in marks
        PROVE  i <= j
    <3>1. n <= k - i
      BY <2>2, <2>4
    <3>2. i \in Int /\ j \in Int /\ k \in Int
      BY <1>1, <2>4
    <3>. QED
      BY <2>3, <3>1, <3>2
  <2>6. Toc[j].kind # "stop"
    <3>. SUFFICES ASSUME Toc[j].kind = "stop"
                  PROVE  FALSE
      OBVIOUS
    <3>1. j \in 1 .. k - 1
      BY <1>1
    <3>2. PICK i \in j + 1 .. k - 1 : Toc[i].kind = "start"
      BY <3>1, TocAssumption
    <3>3. i \in marks
      BY <1>1, <3>1, <3>2 DEF starts
    <3>. QED
      BY <1>1, <2>5, <3>1, <3>2, <3>3
  <2>7. j \in starts
    BY <1>1, <2>6 DEF starts, marks
  <2>8. last \in marks /\ \A i \in marks : i <= last
    BY <2>5
  <2>9. latest \in starts /\ \A i \in starts : i <= latest
    BY <1>1, <2>5, <2>7
  <2>10. last = j
    <3>. HIDE DEF last
    <3>1. last \in Int /\ j \in Int
      BY <1>1, <2>8
    <3>2. last <= j /\ j <= last
      BY <2>5, <2>8
    <3>. QED
      BY <3>1, <3>2
  <2>11. latest = j
    <3>. HIDE DEF latest
    <3>1. latest \in marks /\ j \in marks /\ \A i \in marks : i \in Int
      BY <1>1, <2>9
    <3>2. latest <= j /\ j <= latest
      BY <2>5, <2>7, <2>9, <3>1
    <3>. QED
      BY <3>1, <3>2
  <2>12. GroupAt(k) = Toc[j].name
    BY <1>3, <2>6, <2>10 DEF GroupAt, marks
  <2>13. CurrentGroup(k) = Toc[j].name
    BY <2>7, <2>11 DEF CurrentGroup, starts
  <2>. QED
    BY <2>12, <2>13
<1>. QED
  BY <1>2, <1>3

\* Three walks over the table of contents: by number, for its name, and back.
LEMMA WalksAgree ==
  ASSUME NEW n, VariableIndex(n) # Null
  PROVE  LET item == TocItem(n)
         IN  item # <<>> /\ VarId(item[1], item[2]) = VariableIndex(n)
<1>. DEFINE found == {k \in DOMAIN Toc : IsVariable(k) /\ Counted(k) = n}
            k == Least(found)
<1>1. found # {} /\ VariableIndex(n) = k
  BY DEF VariableIndex
<1>2. k \in found
  BY <1>1, LeastIsLeast, TocIsSeq
<1>3. k \in DOMAIN Toc /\ IsVariable(k)
  BY <1>2
<1>4. \E f : PassedIs(f) /\
        TocItem(n) = LET seen == {j \in 1 .. Len(Toc) : IsVariable(j) /\ f[j] = n}
                     IN  IF seen = {} THEN <<>>
                         ELSE <<GroupAt(Least(seen)), Toc[Least(seen)].name>>
  BY PassedExists DEF TocItem, PassedIs
<1>5. PICK f : /\ PassedIs(f)
               /\ TocItem(n) = LET seen == {j \in 1 .. Len(Toc) : IsVariable(j) /\ f[j] = n}
                               IN  IF seen = {} THEN <<>>
                                   ELSE <<GroupAt(Least(seen)), Toc[Least(seen)].name>>
  BY <1>4
<1>6. {j \in 1 .. Len(Toc) : IsVariable(j) /\ f[j] = n} = found
  BY <1>5, PassedIsCounted, TocIsSeq
<1>. HIDE DEF found
<1>7. TocItem(n) = <<GroupAt(k), Toc[k].name>>
  BY <1>1, <1>5, <1>6
<1>8. GroupAt(k) = CurrentGroup(k)
  BY <1>3, GroupIsCurrent
<1>9. {j \in DOMAIN Toc : /\ IsVariable(j) /\ CurrentGroup(j) = CurrentGroup(k)
                         /\ Toc[j].name = Toc[k].name} = {k}
  BY <1>3, TocAssumption
<1>10. VarId(CurrentGroup(k), Toc[k].name) = k
  BY <1>3, <1>9, LeastOfOne, TocIsSeq DEF VarId
<1>. QED
  BY <1>1, <1>7, <1>8, <1>10

-----------------------------------------------------------------------------
(* The invariant                                                             *)

Appends == {"create", "createV2", "append", "appendV2"}

\* The log task is in the middle of storing settings.
Storing == task.at \in {"append", "link"}

\* The operation it has filled and not yet linked.
Linking == {o \in Op : task.at = "link" /\ task.op = o}

\* The settings that are to be stored, those that have been, and the one that is
\* being stored, which nobody else fills.
AppendOK ==
  Storing =>
    /\ task.request.cmd \in Appends
    /\ task.done <= Len(Settings) + 2
    /\ task.at = "link" =>
         /\ task.done < Len(Settings)
         /\ Asked(Current).variable # Null
         /\ pool[task.op].variable \in {Null, Asked(Current).variable}

\* The lists of the blocks, and what is in use: theirs and the one to be linked.
TablesOK(L) ==
  /\ Lists(blocks, pool, L)
  /\ InUse(pool) = Held(blocks, L) \cup Linking
  /\ task.at = "link" => task.op \notin Held(blocks, L)

\* The block of the request, and what of the request it has.
RequestOK(L) ==
  Storing =>
    /\ task.block \in Occupied(blocks)
    /\ blocks[task.block].id = task.request.id
    /\ Stored(ItemsOf(pool, L[task.block]), task.done)
    /\ task.at = "link" =>
         /\ ItemAt(pool, task.op) = Asked(Current)
         /\ Total(ItemsOf(pool, L[task.block])) + Current.length <= MaxLength

\* The head that the worker has read is that of its block, or the block was empty.
WorkerOK ==
  worker.at = "lock" /\ ~worker.outdated =>
    /\ worker.block \in Occupied(blocks)
    /\ worker.ops \in {Null, blocks[worker.block].ops}

\* A reset has deleted the blocks that it has come past.
ResetOK ==
  worker.at = "reset" => \A b \in Block : b < worker.block => b \notin Occupied(blocks)

TimersOK == \A b \in Block : timers[b] = "running" => b \in Occupied(blocks)

Sound ==
  /\ ~Overlaps
  /\ \E L : TablesOK(L) /\ RequestOK(L)
  /\ WorkerOK
  /\ ResetOK
  /\ TimersOK

Inv == TypeOK /\ AppendOK /\ (overlap \/ Sound)

\* What an action leaves to be shown: nothing is promised after an overlap.
NoOverlap == overlap' = (overlap \/ Overlaps') /\ ticking' \in [Block -> BOOLEAN]

LEMMA TaskFields ==
  ASSUME task \in TaskState
  PROVE  /\ task.at \in {"idle", "lock", "run", "append", "link", "answer"}
         /\ task.at = "idle" <=> task = Idle
         /\ task.at # "idle" => task.request \in Request
         /\ task.at \in {"append", "link"} => task.block \in Block /\ task.done \in Nat
         /\ task.at = "link" => task.op \in Op
<1>1. CASE task = Idle
  BY <1>1 DEF Idle
<1>2. CASE task \in [at : {"lock", "run"}, request : Request]
  BY <1>2 DEF Idle
<1>3. CASE task \in [at : {"append"}, request : Request, block : Block, done : Nat]
  BY <1>3 DEF Idle
<1>4. CASE task \in [at : {"link"}, request : Request, block : Block, done : Nat, op : Op]
  BY <1>4 DEF Idle
<1>5. CASE task \in [at : {"answer"}, request : Request,
                    ret : {"ok", "EEXIST", "ENOENT", "ENOMEM", "E2BIG", "ENOEXEC"}]
  BY <1>5 DEF Idle
<1>. QED
  BY <1>1, <1>2, <1>3, <1>4, <1>5 DEF TaskState

LEMMA RequestFields ==
  ASSUME NEW r \in Request
  PROVE  /\ r.cmd \in Appends => r.id \in Id /\ r.settings \in SettingList
         /\ r.cmd \in {"delete", "start", "stop"} => r.id \in Id
<1>1. CASE r \in [cmd : {"create", "createV2", "append", "appendV2"}, id : Id,
                 settings : SettingList]
  BY <1>1 DEF Appends
<1>2. CASE r \in [cmd : {"delete", "stop"}, id : Id]
  BY <1>2 DEF Appends
<1>3. CASE r \in [cmd : {"start"}, id : Id, period : {0, 1}]
  BY <1>3 DEF Appends
<1>4. CASE r \in [cmd : {"reset", "toc", "unknown"}]
  BY <1>4 DEF Appends
<1>. QED
  BY <1>1, <1>2, <1>3, <1>4 DEF Request

LEMMA SettingFields ==
  ASSUME NEW list \in SettingList
  PROVE  /\ Len(list) \in Nat
         /\ \A k \in 1 .. Len(list) : list[k].length \in Lengths /\ list[k].length \in Nat
<1>. DEFINE T == [id : Nat, length : Nat]
<1>1. list \in Seq(T)
  BY NumberAssumption
<1>2. /\ Len(list) \in Nat /\ DOMAIN list = 1 .. Len(list)
      /\ \A k \in 1 .. Len(list) : list[k] \in T
  <2>. HIDE DEF T
  <2>. QED
    BY <1>1
<1>. QED
  BY <1>2 DEF Lengths

\* A variable, an address, or nothing.
LEMMA ReadingType ==
  ASSUME NEW n
  PROVE  Reading(n) \in DOMAIN Toc \cup {Memory, Null} /\ ReadingV2(n) \in DOMAIN Toc \cup {Memory, Null}
<1>1. VariableIndex(n) \in DOMAIN Toc \cup {Null}
  <2>. DEFINE found == {k \in DOMAIN Toc : IsVariable(k) /\ Counted(k) = n}
  <2>1. found \in SUBSET Nat
    BY TocIsSeq
  <2>2. CASE found = {}
    BY <2>2 DEF VariableIndex
  <2>3. CASE found # {}
    BY <2>1, <2>3, LeastIsLeast DEF VariableIndex
  <2>. QED
    BY <2>2, <2>3
<1>. QED
  BY <1>1 DEF Reading, ReadingV2

LEMMA PoolIsTyped ==
  ASSUME TypeOK
  PROVE  pool \in Pool /\ blocks \in Table
BY DEF TypeOK, Pool, Table, OpOrNull

LEMMA NoTask ==
  /\ Idle \in TaskState /\ Idle.at = "idle"
  /\ Idle \in WorkerState
BY DEF Idle, TaskState, WorkerState

\* Initially there are no blocks.
LEMMA InitInv == Init => Inv
<1>. SUFFICES ASSUME Init
              PROVE  Inv
  OBVIOUS
<1>1. TypeOK
  <2>1. blocks \in [Block -> [id : Id \cup {FreeId}, ops : Op \cup {Null}]]
    BY DEF Init
  <2>2. pool \in [Op -> [variable : DOMAIN Toc \cup {Memory, Null}, length : {0} \cup Lengths,
                        next : Op \cup {Null}]]
    BY DEF Init
  <2>3. jobs \in Seq(Block) /\ Len(jobs) = 0
    BY DEF Init
  <2>4. task \in TaskState /\ worker \in WorkerState /\ task.at = "idle"
    BY NoTask DEF Init
  <2>5. txQueue \in 0 .. TxSize /\ asked \in 0 .. RequestLimit
    BY NumberAssumption DEF Init
  <2>6. jobs \in Seq(Block) /\ Len(jobs) <= JobSize
    BY <2>3, NumberAssumption
  <2>7. timers \in [Block -> {"none", "stopped", "running"}]
    BY DEF Init
  <2>8. locked = FALSE /\ connected = TRUE /\ overlap = FALSE
    BY DEF Init
  <2>9. ticking \in [Block -> BOOLEAN]
    BY DEF Init
  <2>. QED
    BY <2>1, <2>2, <2>4, <2>5, <2>6, <2>7, <2>8, <2>9 DEF TypeOK
<1>2. ~Storing /\ ~Overlaps /\ Occupied(blocks) = {} /\ worker.at = "idle" /\ Linking = {}
  BY NoTask DEF Init, Storing, Overlaps, Occupied, Linking
<1>3. AppendOK
  BY <1>2 DEF AppendOK
<1>4. TablesOK([b \in Block |-> <<>>]) /\ RequestOK([b \in Block |-> <<>>])
  <2>1. InUse(pool) = {}
    BY DEF Init, InUse
  <2>2. \A L : Held(blocks, L) = {}
    BY <1>2 DEF Held
  <2>3. [b \in Block |-> <<>>] \in [Block -> Seq(Op)]
    OBVIOUS
  <2>4. Lists(blocks, pool, [b \in Block |-> <<>>])
    BY <1>2, <2>3 DEF Lists
  <2>5. task.at = "idle"
    BY NoTask DEF Init
  <2>. QED
    BY <1>2, <2>1, <2>2, <2>4, <2>5 DEF TablesOK, RequestOK
<1>5. WorkerOK /\ ResetOK
  BY <1>2 DEF WorkerOK, ResetOK
<1>6. TimersOK
  BY DEF Init, TimersOK
<1>. QED
  BY <1>1, <1>2, <1>3, <1>4, <1>5, <1>6 DEF Inv, Sound

-----------------------------------------------------------------------------
(* The steps that leave blocks and operations alone                          *)

LEMMA OverlapGrows ==
  ASSUME Inv, NoOverlap
  PROVE  /\ overlap' \in BOOLEAN /\ (~overlap' => ~overlap /\ ~Overlaps' /\ Sound)
         /\ ticking' \in [Block -> BOOLEAN]
BY DEF Inv, NoOverlap, TypeOK

\* The task stays where it is, or is not storing.
SameTask ==
  \/ task' = task
  \/ task.at # "link" /\ task'.at \notin {"append", "link"}

\* What has been stored of a request that stays the same.
LEMMA StoredKept ==
  ASSUME Settings' = Settings, \A s : Asked(s)' = Asked(s)
  PROVE  \A items, done : Stored(items, done) => Stored(items, done)'
<1>. SUFFICES ASSUME NEW items, NEW done, Stored(items, done)
              PROVE  Stored(items, done)'
  OBVIOUS
<1>0. PICK n \in 0 .. done : \E at \in [1 .. n -> 1 .. Len(Settings)] :
         ReadBefore(at, n, done) /\ EndWith(items, at, n)
  BY DEF Stored
<1>1. PICK at \in [1 .. n -> 1 .. Len(Settings)] :
        ReadBefore(at, n, done) /\ EndWith(items, at, n)
  BY <1>0
<1>2. ReadBefore(at, n, done)'
  BY <1>1 DEF ReadBefore
<1>3. EndWith(items, at, n)'
  BY <1>1 DEF EndWith
<1>4. at \in [1 .. n -> 1 .. Len(Settings')]
  BY <1>1
<1>. QED
  BY <1>1, <1>2, <1>3, <1>4 DEF Stored

\* Nothing has been stored.
LEMMA NothingStored ==
  ASSUME NEW items, Len(items) \in Nat
  PROVE  Stored(items, 0)'
<1>. DEFINE at == [k \in 1 .. 0 |-> 1]
<1>1. at \in [1 .. 0 -> 1 .. Len(Settings')]
  OBVIOUS
<1>. HIDE DEF at
<1>2. ReadBefore(at, 0, 0)'
  BY DEF ReadBefore
<1>3. EndWith(items, at, 0)'
  BY DEF EndWith
<1>4. PICK n \in Int, done \in Int : n = 0 /\ done = 0
  OBVIOUS
<1>5. \E a \in [1 .. n -> 1 .. Len(Settings')] : ReadBefore(a, n, done)' /\ EndWith(items, a, n)'
  BY <1>1, <1>2, <1>3, <1>4
<1>6. n \in 0 .. done
  BY <1>4
<1>7. Stored(items, done)'
  BY <1>5, <1>6 DEF Stored
<1>. QED
  BY <1>4, <1>7

LEMMA TablesKept ==
  ASSUME Sound, UNCHANGED <<blocks, pool>>, SameTask
  PROVE  \E L : TablesOK(L)' /\ RequestOK(L)'
<1>1. PICK L : TablesOK(L) /\ RequestOK(L)
  BY DEF Sound
<1>2. CASE task' = task
  <2>1. Settings' = Settings /\ Current' = Current /\ (\A s : Asked(s)' = Asked(s))
    BY <1>2 DEF Asked, Current, Settings, IsV2
  <2>2. TablesOK(L)'
    BY <1>1, <1>2 DEF TablesOK, Linking
  <2>3. RequestOK(L)'
    <3>. SUFFICES ASSUME Storing'
                  PROVE  RequestOK(L)'
      BY DEF RequestOK
    <3>1. Storing
      BY <1>2 DEF Storing
    <3>2. PICK items, done : items = ItemsOf(pool, L[task.block]) /\ done = task.done
      OBVIOUS
    <3>3. Stored(items, done)'
      BY <1>1, <2>1, <3>1, <3>2, StoredKept DEF RequestOK
    <3>4. Stored(ItemsOf(pool, L[task.block]), task.done)'
      BY <1>2, <3>2, <3>3
    <3>. QED
      BY <1>1, <1>2, <2>1, <3>1, <3>4 DEF RequestOK
  <2>. QED
    BY <2>2, <2>3
<1>3. CASE task.at # "link" /\ task'.at \notin {"append", "link"}
  <2>1. Linking = {} /\ Linking' = {} /\ ~Storing'
    BY <1>3 DEF Linking, Storing
  <2>. QED
    BY <1>1, <1>3, <2>1 DEF TablesOK, RequestOK
<1>. QED
  BY <1>2, <1>3 DEF SameTask

LEMMA AppendKept ==
  ASSUME AppendOK, pool' = pool, SameTask
  PROVE  AppendOK'
BY DEF AppendOK, SameTask, Storing, Asked, Current, Settings, IsV2

LEMMA SoundKept ==
  ASSUME Inv, NoOverlap, ~overlap', UNCHANGED <<blocks, pool, timers>>, SameTask,
         worker' = worker \/ worker'.at \notin {"lock", "reset"}
  PROVE  Sound'
<1>1. Sound /\ ~Overlaps'
  BY OverlapGrows
<1>2. \E L : TablesOK(L)' /\ RequestOK(L)'
  BY <1>1, TablesKept
<1>3. WorkerOK' /\ ResetOK' /\ TimersOK'
  BY <1>1 DEF Sound, WorkerOK, ResetOK, TimersOK
<1>. QED
  BY <1>1, <1>2, <1>3 DEF Sound

\* The log task has answered, or waits for another request.
LEMMA TaskEnds ==
  ASSUME task.at # "idle", task \in TaskState
  PROVE  /\ \A ret \in {"ok", "EEXIST", "ENOENT", "ENOMEM", "E2BIG", "ENOEXEC"} :
              Finish(ret) => task' \in TaskState /\ task'.at = "answer"
         /\ task' = Idle => task' \in TaskState /\ task'.at = "idle"
         /\ [at |-> "run", request |-> task.request] \in TaskState
BY TaskFields, NoTask DEF TaskState, Finish

LEMMA ReceiveInv ==
  ASSUME Inv, NEW r \in Request, Receive(r), NoOverlap
  PROVE  Inv'
<1>1. task' \in TaskState /\ task'.at = "lock" /\ task.at = "idle"
  BY NoTask DEF Receive, TaskState
<1>2. TypeOK'
  <2>1. asked' \in 0 .. RequestLimit
    BY NumberAssumption DEF Inv, TypeOK, Receive
  <2>. QED
    BY <1>1, <2>1, OverlapGrows DEF Inv, TypeOK, Receive, tables
<1>3. SameTask
  BY <1>1 DEF SameTask
<1>4. AppendOK'
  BY <1>3, AppendKept DEF Inv, Receive, tables
<1>5. ~overlap' => Sound'
  BY <1>3, SoundKept DEF Receive, tables
<1>. QED
  BY <1>2, <1>4, <1>5 DEF Inv

LEMMA LockInv ==
  ASSUME Inv, Lock, NoOverlap
  PROVE  Inv'
<1>1. task' \in TaskState /\ task'.at = "run" /\ task.at = "lock"
  BY TaskEnds DEF Lock, Inv, TypeOK
<1>2. TypeOK'
  BY <1>1, OverlapGrows DEF Inv, TypeOK, Lock, tables, outside
<1>3. SameTask
  BY <1>1 DEF SameTask
<1>4. AppendOK'
  BY <1>3, AppendKept DEF Inv, Lock, tables
<1>5. ~overlap' => Sound'
  BY <1>3, SoundKept DEF Lock, tables
<1>. QED
  BY <1>2, <1>4, <1>5 DEF Inv

LEMMA AnswerTocInv ==
  ASSUME Inv, AnswerToc, NoOverlap
  PROVE  Inv'
<1>1. task' \in TaskState /\ task'.at = "answer" /\ task.at = "run"
  BY TaskEnds DEF AnswerToc, Asks, Inv, TypeOK
<1>2. TypeOK'
  BY <1>1, OverlapGrows DEF Inv, TypeOK, AnswerToc, tables, outside
<1>3. SameTask
  BY <1>1 DEF SameTask
<1>4. AppendOK'
  BY <1>3, AppendKept DEF Inv, AnswerToc, tables
<1>5. ~overlap' => Sound'
  BY <1>3, SoundKept DEF AnswerToc, tables
<1>. QED
  BY <1>2, <1>4, <1>5 DEF Inv

LEMMA UnknownInv ==
  ASSUME Inv, Unknown, NoOverlap
  PROVE  Inv'
<1>1. task' \in TaskState /\ task'.at = "answer" /\ task.at = "run"
  BY TaskEnds DEF Unknown, Asks, Inv, TypeOK
<1>2. TypeOK'
  BY <1>1, OverlapGrows DEF Inv, TypeOK, Unknown, tables, outside
<1>3. SameTask
  BY <1>1 DEF SameTask
<1>4. AppendOK'
  BY <1>3, AppendKept DEF Inv, Unknown, tables
<1>5. ~overlap' => Sound'
  BY <1>3, SoundKept DEF Unknown, tables
<1>. QED
  BY <1>2, <1>4, <1>5 DEF Inv

\* The timer task takes the commands that wait for it.
LEMMA TimersFollowInv ==
  ASSUME Inv, TimersFollow, NoOverlap
  PROVE  Inv'
<1>1. UNCHANGED <<blocks, timers, pool, locked, task, worker, jobs, packets, txQueue,
                  connected, asked>>
  BY DEF TimersFollow, tables, outside
<1>2. TypeOK'
  BY <1>1, OverlapGrows DEF Inv, TypeOK
<1>3. SameTask
  BY <1>1 DEF SameTask
<1>4. AppendOK'
  BY <1>1, <1>3, AppendKept DEF Inv
<1>5. ~overlap' => Sound'
  BY <1>1, <1>3, SoundKept
<1>. QED
  BY <1>2, <1>4, <1>5 DEF Inv

LEMMA AppendedInv ==
  ASSUME Inv, Appended, NoOverlap
  PROVE  Inv'
<1>1. task' \in TaskState /\ task'.at = "answer" /\ task.at = "append"
  BY TaskEnds DEF Appended, Inv, TypeOK
<1>2. TypeOK'
  BY <1>1, OverlapGrows DEF Inv, TypeOK, Appended, tables, outside
<1>3. SameTask
  BY <1>1 DEF SameTask
<1>4. AppendOK'
  BY <1>3, AppendKept DEF Inv, Appended, tables
<1>5. ~overlap' => Sound'
  BY <1>3, SoundKept DEF Appended, tables
<1>. QED
  BY <1>2, <1>4, <1>5 DEF Inv

LEMMA AnswerInv ==
  ASSUME Inv, Answer, NoOverlap
  PROVE  Inv'
<1>1. task' \in TaskState /\ task'.at = "idle" /\ task.at = "answer"
  BY TaskEnds DEF Answer, Inv, TypeOK
<1>2. TypeOK'
  <2>1. txQueue' \in 0 .. TxSize /\ locked' = FALSE
    BY NumberAssumption DEF Inv, TypeOK, Answer, Unlocked
  <2>. QED
    BY <1>1, <2>1, OverlapGrows DEF Inv, TypeOK, Answer, tables, outside
<1>3. SameTask
  BY <1>1 DEF SameTask
<1>4. AppendOK'
  BY <1>3, AppendKept DEF Inv, Answer, tables
<1>5. ~overlap' => Sound'
  BY <1>3, SoundKept DEF Answer, tables
<1>. QED
  BY <1>2, <1>4, <1>5 DEF Inv

LEMMA WorkerFields ==
  ASSUME worker \in WorkerState
  PROVE  /\ worker.at \in {"idle", "lock", "reset", "send", "purge"}
         /\ worker.at = "lock" => worker \in [at : {"lock"}, block : Block,
                                              ops : OpOrNull, outdated : BOOLEAN]
         /\ worker.at = "reset" => worker \in [at : {"reset"}, block : 0 .. MaxBlocks]
BY DEF WorkerState, Idle, OpOrNull

LEMMA ScheduledType ==
  ASSUME TypeOK, NEW b \in Block
  PROVE  Scheduled(b) \in Seq(Block) /\ Len(Scheduled(b)) <= JobSize
BY NumberAssumption DEF TypeOK, Scheduled

LEMMA TimerFiresInv ==
  ASSUME Inv, NEW b \in Block, TimerFires(b), NoOverlap
  PROVE  Inv'
<1>1. TypeOK'
  <2>1. jobs' \in Seq(Block) /\ Len(jobs') <= JobSize
    BY ScheduledType DEF TimerFires, Inv
  <2>. QED
    BY <2>1, OverlapGrows DEF Inv, TypeOK, TimerFires, tables, outside
<1>2. SameTask
  BY DEF SameTask, TimerFires
<1>3. AppendOK'
  BY <1>2, AppendKept DEF Inv, TimerFires, tables
<1>4. ~overlap' => Sound'
  BY <1>2, SoundKept DEF TimerFires, tables
<1>. QED
  BY <1>1, <1>3, <1>4 DEF Inv

LEMMA CollectInv ==
  ASSUME Inv, Collect, NoOverlap
  PROVE  Inv'
<1>1. worker' \in WorkerState /\ worker'.at = "send"
  BY DEF Collect, WorkerState
<1>2. TypeOK'
  BY <1>1, OverlapGrows DEF Inv, TypeOK, Collect, tables, outside
<1>3. SameTask
  BY DEF SameTask, Collect
<1>4. AppendOK'
  BY <1>3, AppendKept DEF Inv, Collect, tables
<1>5. ~overlap' => Sound'
  BY <1>1, <1>3, SoundKept DEF Collect, tables
<1>. QED
  BY <1>2, <1>4, <1>5 DEF Inv

LEMMA SendPacketInv ==
  ASSUME Inv, SendPacket, NoOverlap
  PROVE  Inv'
<1>1. worker' \in WorkerState /\ worker'.at = "idle"
  BY NoTask DEF SendPacket
<1>2. TypeOK'
  <2>1. txQueue' \in 0 .. TxSize
    BY NumberAssumption DEF Inv, TypeOK, SendPacket
  <2>. QED
    BY <1>1, <2>1, OverlapGrows DEF Inv, TypeOK, SendPacket, tables, outside
<1>3. SameTask
  BY DEF SameTask, SendPacket
<1>4. AppendOK'
  BY <1>3, AppendKept DEF Inv, SendPacket, tables
<1>5. ~overlap' => Sound'
  BY <1>1, <1>3, SoundKept DEF SendPacket, tables
<1>. QED
  BY <1>2, <1>4, <1>5 DEF Inv

LEMMA LinkChangesInv ==
  ASSUME Inv, LinkChanges, NoOverlap
  PROVE  Inv'
<1>1. TypeOK'
  BY OverlapGrows DEF Inv, TypeOK, LinkChanges, tables
<1>2. SameTask
  BY DEF SameTask, LinkChanges
<1>3. AppendOK'
  BY <1>2, AppendKept DEF Inv, LinkChanges, tables
<1>4. ~overlap' => Sound'
  BY <1>2, SoundKept DEF LinkChanges, tables
<1>. QED
  BY <1>1, <1>3, <1>4 DEF Inv

LEMMA TransmitInv ==
  ASSUME Inv, Transmit, NoOverlap
  PROVE  Inv'
<1>1. TypeOK'
  <2>1. txQueue' \in 0 .. TxSize
    BY NumberAssumption DEF Inv, TypeOK, Transmit
  <2>. QED
    BY <2>1, OverlapGrows DEF Inv, TypeOK, Transmit, tables, outside
<1>2. SameTask
  BY DEF SameTask, Transmit
<1>3. AppendOK'
  BY <1>2, AppendKept DEF Inv, Transmit, tables
<1>4. ~overlap' => Sound'
  BY <1>2, SoundKept DEF Transmit, tables
<1>. QED
  BY <1>1, <1>3, <1>4 DEF Inv

LEMMA WorkerPurgesInv ==
  ASSUME Inv, WorkerPurges, NoOverlap
  PROVE  Inv'
<1>1. worker' \in WorkerState /\ worker'.at = "idle"
  BY NoTask DEF WorkerPurges
<1>2. SameTask /\ task' \in TaskState /\ locked' \in BOOLEAN
      /\ (locked' <=> task'.at \notin {"idle", "lock"})
  <2>1. CASE task.at = "answer" /\ txQueue = TxSize
    <3>1. task' = Idle /\ locked' = FALSE
      BY <2>1 DEF WorkerPurges
    <3>2. task' \in TaskState /\ task'.at = "idle"
      BY <3>1, NoTask
    <3>. QED
      BY <2>1, <3>1, <3>2 DEF SameTask
  <2>2. CASE ~(task.at = "answer" /\ txQueue = TxSize)
    BY <2>2 DEF SameTask, WorkerPurges, Inv, TypeOK
  <2>. QED
    BY <2>1, <2>2
<1>3. TypeOK'
  <2>1. txQueue' \in 0 .. TxSize
    BY NumberAssumption DEF WorkerPurges
  <2>. QED
    BY <1>1, <1>2, <2>1, OverlapGrows DEF Inv, TypeOK, WorkerPurges, tables, outside
<1>4. AppendOK'
  BY <1>2, AppendKept DEF Inv, WorkerPurges, tables
<1>5. ~overlap' => Sound'
  BY <1>1, <1>2, SoundKept DEF WorkerPurges, tables
<1>. QED
  BY <1>3, <1>4, <1>5 DEF Inv

LEMMA TakeJobInv ==
  ASSUME Inv, TakeJob, NoOverlap
  PROVE  Inv'
<1>1. jobs \in Seq(Block) /\ jobs # <<>> /\ Len(jobs) <= JobSize /\ JobSize \in Nat
  BY NumberAssumption DEF TakeJob, Inv, TypeOK
<1>2. Head(jobs) \in Block /\ jobs' \in Seq(Block) /\ Len(jobs') <= JobSize
  <2>1. Head(jobs) \in Block /\ Tail(jobs) \in Seq(Block) /\ Len(Tail(jobs)) = Len(jobs) - 1
        /\ Len(jobs) \in Nat
    BY <1>1
  <2>. QED
    BY <1>1, <2>1 DEF TakeJob
<1>3. PICK b \in Block : worker' = [at |-> "lock", block |-> b, ops |-> blocks[b].ops,
                                   outdated |-> ~Live(b)]
  BY <1>2 DEF TakeJob
<1>4. worker' \in WorkerState
  <2>1. blocks[b].ops \in Op \cup {Null}
    BY DEF Inv, TypeOK
  <2>. QED
    BY <1>3, <2>1 DEF WorkerState
<1>5. TypeOK'
  BY <1>2, <1>4, OverlapGrows DEF Inv, TypeOK, TakeJob, tables, outside
<1>6. SameTask
  BY DEF SameTask, TakeJob
<1>7. AppendOK'
  BY <1>6, AppendKept DEF Inv, TakeJob, tables
<1>8. ASSUME ~overlap'
      PROVE  Sound'
  <2>1. Sound /\ ~Overlaps'
    BY <1>8, OverlapGrows
  <2>2. \E L : TablesOK(L)' /\ RequestOK(L)'
    BY <1>6, <2>1, TablesKept DEF TakeJob, tables
  <2>3. WorkerOK'
    <3>1. worker'.at = "lock" /\ worker'.block = b /\ worker'.ops = blocks[b].ops
          /\ worker'.outdated = ~Live(b)
      BY <1>3
    <3>2. blocks' = blocks
      BY DEF TakeJob, tables
    <3>. QED
      BY <3>1, <3>2 DEF WorkerOK, Occupied, Live
  <2>4. ResetOK'
    BY <1>3 DEF ResetOK
  <2>5. TimersOK'
    BY <2>1 DEF Sound, TimersOK, TakeJob, tables
  <2>. QED
    BY <2>1, <2>2, <2>3, <2>4, <2>5 DEF Sound
<1>. QED
  BY <1>5, <1>7, <1>8 DEF Inv

LEMMA LinkLostInv ==
  ASSUME Inv, LinkLost, NoOverlap
  PROVE  Inv'
<1>1. worker' = [at |-> "reset", block |-> 0]
  BY DEF LinkLost
<1>2. worker' \in WorkerState
  BY <1>1, NumberAssumption DEF WorkerState
<1>3. TypeOK'
  BY <1>2, OverlapGrows DEF Inv, TypeOK, LinkLost, tables, outside
<1>4. SameTask
  BY DEF SameTask, LinkLost
<1>5. AppendOK'
  BY <1>4, AppendKept DEF Inv, LinkLost, tables
<1>6. ASSUME ~overlap'
      PROVE  Sound'
  <2>1. Sound /\ ~Overlaps'
    BY <1>6, OverlapGrows
  <2>2. \E L : TablesOK(L)' /\ RequestOK(L)'
    BY <1>4, <2>1, TablesKept DEF LinkLost, tables
  <2>3. WorkerOK'
    BY <1>1 DEF WorkerOK
  <2>4. ResetOK'
    <3>1. worker'.block = 0 /\ \A c \in Block : ~(c < 0)
      BY <1>1 DEF Block
    <3>. QED
      BY <3>1 DEF ResetOK
  <2>5. TimersOK'
    BY <2>1 DEF Sound, TimersOK, LinkLost, tables
  <2>. QED
    BY <2>1, <2>2, <2>3, <2>4, <2>5 DEF Sound
<1>. QED
  BY <1>3, <1>5, <1>6 DEF Inv

\* The blocks with a number: one at most.
LEMMA OneWithId ==
  ASSUME NEW L, Lists(blocks, pool, L), NEW i \in Id, NEW b \in WithId(i)
  PROVE  b \in Occupied(blocks) /\ blocks[b].id = i /\ WithId(i) = {b} /\ Least(WithId(i)) = b
<1>1. \A c \in WithId(i) : c \in Occupied(blocks) /\ blocks[c].id = i
  BY NameAssumption DEF WithId, Occupied
<1>2. WithId(i) = {b}
  BY <1>1 DEF Lists
<1>3. b \in Nat
  BY DEF WithId, Block
<1>. QED
  BY <1>1, <1>2, <1>3, LeastOfOne

LEMMA LeastWithId ==
  ASSUME NEW i, WithId(i) # {}
  PROVE  Least(WithId(i)) \in WithId(i) /\ Least(WithId(i)) \in Block
<1>1. WithId(i) \in SUBSET Nat /\ WithId(i) \subseteq Block
  BY DEF WithId, Block
<1>. QED
  BY <1>1, LeastIsLeast

LEMMA RequestHasId ==
  ASSUME Inv, task.at # "idle"
  PROVE  /\ task.request \in Request
         /\ task.request.cmd \in Appends => task.request.id \in Id /\ Settings \in SettingList
         /\ task.request.cmd \in {"delete", "start", "stop"} => task.request.id \in Id
BY TaskFields, RequestFields DEF Inv, TypeOK, Settings

LEMMA FindBlockInv ==
  ASSUME Inv, FindBlock, NoOverlap
  PROVE  Inv'
<1>1. /\ task.at = "run" /\ task.request.cmd \in Appends /\ task.request \in Request
      /\ task.request.id \in Id /\ Settings \in SettingList
  BY RequestHasId DEF FindBlock, Asks, Appends
<1>2. UNCHANGED <<blocks, timers, pool, locked, worker, jobs, packets, txQueue, connected, asked>>
  BY DEF FindBlock, tables, outside
<1>3. CASE WithId(task.request.id) = {}
  <2>1. task' \in TaskState /\ task'.at = "answer"
    BY <1>1, <1>3, TaskEnds DEF FindBlock, Inv, TypeOK
  <2>2. TypeOK'
    BY <1>1, <1>2, <2>1, OverlapGrows DEF Inv, TypeOK
  <2>3. SameTask
    BY <1>1, <2>1 DEF SameTask
  <2>4. AppendOK'
    BY <1>2, <2>3, AppendKept DEF Inv
  <2>5. ~overlap' => Sound'
    BY <1>2, <2>3, SoundKept
  <2>. QED
    BY <2>2, <2>4, <2>5 DEF Inv
<1>4. CASE WithId(task.request.id) # {}
  <2>1. PICK b \in WithId(task.request.id) : b = Least(WithId(task.request.id)) /\ b \in Block
    BY <1>4, LeastWithId
  <2>2. task' = [at |-> "append", request |-> task.request, block |-> b, done |-> 0]
    BY <1>4, <2>1 DEF FindBlock, GoOnWith
  <2>3. task' \in TaskState /\ task'.at = "append" /\ task'.request = task.request
        /\ task'.block = b /\ task'.done = 0
    BY <1>1, <2>1, <2>2 DEF TaskState
  <2>4. TypeOK'
    BY <1>1, <1>2, <2>3, OverlapGrows DEF Inv, TypeOK
  <2>5. AppendOK'
    BY <1>1, <2>3, SettingFields DEF AppendOK, Settings
  <2>6. ASSUME ~overlap'
        PROVE  Sound'
    <3>1. Sound /\ ~Overlaps'
      BY <2>6, OverlapGrows
    <3>2. PICK L : TablesOK(L)
      BY <3>1 DEF Sound
    <3>3. TablesOK(L)'
      BY <1>1, <1>2, <2>3, <3>2 DEF TablesOK, Linking
    <3>4. b \in Occupied(blocks) /\ blocks[b].id = task.request.id
      BY <1>1, <2>1, <3>2, OneWithId DEF TablesOK
    <3>5. Stored(ItemsOf(pool, L[b]), 0)'
      <4>1. L[b] \in Seq(Op) /\ pool \in Pool
        BY <2>1, <3>2, PoolIsTyped DEF TablesOK, Lists, Inv
      <4>2. Len(ItemsOf(pool, L[b])) \in Nat
        BY <4>1, ItemsOfSeq
      <4>3. Len(ItemsOf(pool', L[b])) \in Nat
        BY <1>2, <4>2
      <4>4. PICK items : items = ItemsOf(pool', L[b])
        OBVIOUS
      <4>5. Stored(items, 0)'
        BY <4>3, <4>4, NothingStored
      <4>. QED
        BY <4>4, <4>5
    <3>6. RequestOK(L)'
      BY <1>2, <2>3, <3>4, <3>5 DEF RequestOK
    <3>7. WorkerOK' /\ ResetOK' /\ TimersOK'
      BY <1>2, <3>1 DEF Sound, WorkerOK, ResetOK, TimersOK
    <3>. QED
      BY <3>1, <3>3, <3>6, <3>7 DEF Sound
  <2>. QED
    BY <2>4, <2>5, <2>6 DEF Inv
<1>. QED
  BY <1>3, <1>4

LEMMA TimersInv ==
  ASSUME Inv, NoOverlap, task.at = "run", UNCHANGED <<blocks, pool, worker>>,
         locked' = locked, task' \in TaskState, task'.at = "answer",
         UNCHANGED <<txQueue, connected, asked>>,
         jobs' \in Seq(Block), Len(jobs') <= JobSize,
         timers' \in [Block -> {"none", "stopped", "running"}],
         \A b \in Block : timers'[b] = "running" => timers[b] = "running" \/ b \in Occupied(blocks)
  PROVE  Inv'
<1>1. TypeOK'
  BY OverlapGrows DEF Inv, TypeOK
<1>2. SameTask
  BY DEF SameTask
<1>3. AppendOK'
  BY <1>2, AppendKept DEF Inv
<1>4. ASSUME ~overlap'
      PROVE  Sound'
  <2>1. Sound /\ ~Overlaps'
    BY <1>4, OverlapGrows
  <2>2. \E L : TablesOK(L)' /\ RequestOK(L)'
    BY <1>2, <2>1, TablesKept
  <2>3. WorkerOK' /\ ResetOK' /\ TimersOK'
    BY <2>1 DEF Sound, WorkerOK, ResetOK, TimersOK
  <2>. QED
    BY <2>1, <2>2, <2>3 DEF Sound
<1>. QED
  BY <1>1, <1>3, <1>4 DEF Inv

LEMMA FoundIsOccupied ==
  ASSUME NEW i \in Id
  PROVE  WithId(i) \subseteq Occupied(blocks)
BY NameAssumption DEF WithId, Occupied

LEMMA StartInv ==
  ASSUME Inv, Start, NoOverlap
  PROVE  Inv'
<1>. DEFINE found == WithId(task.request.id)
            b == Least(found)
<1>1. task.at = "run" /\ task.request.id \in Id
  BY RequestHasId DEF Start, Asks
<1>2. task' \in TaskState /\ task'.at = "answer"
  BY <1>1, TaskEnds DEF Start, Inv, TypeOK
<1>3. found # {} => b \in Occupied(blocks) /\ b \in Block
  BY <1>1, LeastWithId, FoundIsOccupied
<1>4. jobs' \in Seq(Block) /\ Len(jobs') <= JobSize
  <2>1. CASE found # {} /\ task.request.period = 0
    BY <1>3, <2>1, ScheduledType DEF Inv, Start
  <2>2. CASE ~(found # {} /\ task.request.period = 0)
    BY <2>2 DEF Inv, Start, TypeOK
  <2>. QED
    BY <2>1, <2>2
<1>5. /\ timers' \in [Block -> {"none", "stopped", "running"}]
      /\ \A c \in Block : timers'[c] = "running" => timers[c] = "running" \/ c \in Occupied(blocks)
  <2>. HIDE DEF found, b
  <2>1. timers \in [Block -> {"none", "stopped", "running"}]
    BY DEF Inv, TypeOK
  <2>2. \/ found # {} /\ timers' = [timers EXCEPT ![b] = "running"]
        \/ timers' = timers
    <3>1. timers' \in IF found # {} /\ task.request.period > 0
                        THEN {[timers EXCEPT ![b] = "running"], timers} ELSE {timers}
      BY DEF Start, found, b
    <3>. QED
      BY <3>1
  <2>. QED
    BY <1>3, <2>1, <2>2
<1>. QED
  BY <1>1, <1>2, <1>4, <1>5, TimersInv DEF Start, outside

LEMMA StopInv ==
  ASSUME Inv, Stop, NoOverlap
  PROVE  Inv'
<1>1. task.at = "run"
  BY DEF Stop, Asks
<1>2. task' \in TaskState /\ task'.at = "answer"
  BY <1>1, TaskEnds DEF Stop, Inv, TypeOK
<1>3. /\ timers' \in [Block -> {"none", "stopped", "running"}]
      /\ \A c \in Block : timers'[c] = "running" => timers[c] = "running"
  BY DEF Stop, Inv, TypeOK
<1>. QED
  BY <1>1, <1>2, <1>3, TimersInv DEF Stop, outside, Inv, TypeOK

-----------------------------------------------------------------------------
(* Blocks and operations come                                                *)

LEMMA CreateInv ==
  ASSUME Inv, Create, NoOverlap
  PROVE  Inv'
<1>. DEFINE i == task.request.id
            b == Least(Block \ LiveBlocks)
<1>1. /\ task.at = "run" /\ task.request.cmd \in Appends /\ task.request \in Request
      /\ i \in Id /\ Settings \in SettingList
  BY RequestHasId DEF Create, Asks, Appends
<1>2. UNCHANGED <<pool, locked, worker, jobs, packets, txQueue, connected, asked>>
  BY DEF Create, tables, outside
<1>3. CASE WithId(i) # {} \/ LiveBlocks = Block
  <2>1. task' \in TaskState /\ task'.at = "answer" /\ UNCHANGED <<blocks, timers>>
    BY <1>1, <1>3, TaskEnds DEF Create, Inv, TypeOK, tables
  <2>2. TypeOK'
    BY <1>1, <1>2, <2>1, OverlapGrows DEF Inv, TypeOK
  <2>3. SameTask
    BY <1>1, <2>1 DEF SameTask
  <2>4. AppendOK'
    BY <1>2, <2>3, AppendKept DEF Inv
  <2>5. ~overlap' => Sound'
    BY <1>2, <2>1, <2>3, SoundKept
  <2>. QED
    BY <2>2, <2>4, <2>5 DEF Inv
<1>4. CASE ~(WithId(i) # {} \/ LiveBlocks = Block)
  <2>1. b \in Block \ Occupied(blocks)
    <3>1. Block \ LiveBlocks \in SUBSET Nat /\ Block \ LiveBlocks # {}
      BY <1>4 DEF Block, LiveBlocks
    <3>. QED
      BY <3>1, LeastIsLeast DEF LiveBlocks, Live, Occupied
  <2>2. PICK c \in Block \ Occupied(blocks) : c = b
    BY <2>1
  <2>3. /\ blocks' = [blocks EXCEPT ![c] = [id |-> i, ops |-> Null]]
        /\ timers' = [timers EXCEPT ![c] = "stopped"]
        /\ task' = [at |-> "append", request |-> task.request, block |-> c, done |-> 0]
    BY <1>4, <2>2 DEF Create, GoOnWith
  <2>4. task' \in TaskState /\ task'.at = "append" /\ task'.request = task.request
        /\ task'.block = c /\ task'.done = 0
    BY <1>1, <2>3 DEF TaskState
  <2>5. /\ blocks' \in [Block -> [id : Id \cup {FreeId}, ops : Op \cup {Null}]]
        /\ timers' \in [Block -> {"none", "stopped", "running"}]
        /\ timers'[c] = "stopped"
        /\ \A d \in Block \ {c} : timers'[d] = timers[d] /\ blocks'[d] = blocks[d]
        /\ blocks'[c].id = i
    BY <1>1, <2>3 DEF Inv, TypeOK
  <2>6. TypeOK'
    BY <1>1, <1>2, <2>4, <2>5, OverlapGrows DEF Inv, TypeOK
  <2>7. AppendOK'
    BY <1>1, <2>4, SettingFields DEF AppendOK, Settings
  <2>8. ASSUME ~overlap'
        PROVE  Sound'
    <3>1. Sound /\ ~Overlaps'
      BY <2>8, OverlapGrows
    <3>2. PICK L : TablesOK(L)
      BY <3>1 DEF Sound
    <3>. DEFINE M == [L EXCEPT ![c] = <<>>]
    <3>3. /\ Lists(blocks', pool, M) /\ Held(blocks', M) = Held(blocks, L)
          /\ Occupied(blocks') = Occupied(blocks) \cup {c}
      <4>1. \A d \in Block : blocks[d].id # i
        BY <1>4 DEF WithId
      <4>2. blocks \in Table /\ pool \in Pool
        BY PoolIsTyped DEF Inv
      <4>3. Lists(blocks, pool, L)
        BY <3>2 DEF TablesOK
      <4>4. i \in Id
        BY <1>1
      <4>. HIDE DEF i, b
      <4>5. /\ blocks' \in Table /\ blocks'[c] = [id |-> i, ops |-> Null]
            /\ \A d \in Block \ {c} : blocks'[d] = blocks[d]
        BY <2>3, <2>5, <4>2, <4>4 DEF Table, OpOrNull
      <4>. QED
        BY <4>1, <4>2, <4>3, <4>4, <4>5, ListsCreate
    <3>4. TablesOK(M)'
      <4>1. Lists(blocks', pool', M)
        BY <1>2, <3>3
      <4>2. InUse(pool') = Held(blocks', M) /\ Linking' = {}
        BY <1>1, <1>2, <2>4, <3>2, <3>3 DEF TablesOK, Linking
      <4>3. task'.at # "link"
        BY <2>4
      <4>. HIDE DEF M
      <4>. QED
        BY <4>1, <4>2, <4>3 DEF TablesOK
    <3>5. RequestOK(M)'
      <4>1. M \in [Block -> Seq(Op)] /\ pool' \in Pool
        BY <1>2, <3>3, PoolIsTyped DEF Lists, Inv
      <4>2. Len(ItemsOf(pool', M[c])) \in Nat
        BY <4>1, ItemsOfSeq
      <4>. HIDE DEF M
      <4>3. PICK items : items = ItemsOf(pool', M[c])
        OBVIOUS
      <4>4. Stored(items, 0)'
        BY <4>2, <4>3, NothingStored
      <4>5. Stored(ItemsOf(pool, M[c]), 0)'
        BY <4>3, <4>4
      <4>. QED
        BY <2>4, <2>5, <3>3, <4>5 DEF RequestOK
    <3>6. WorkerOK' /\ TimersOK'
      BY <1>2, <2>5, <3>1, <3>3 DEF Sound, WorkerOK, TimersOK, Occupied
    <3>7. ResetOK'
      BY <2>4, <3>1 DEF ResetOK, Overlaps
    <3>. QED
      BY <3>1, <3>4, <3>5, <3>6, <3>7 DEF Sound
  <2>. QED
    BY <2>6, <2>7, <2>8 DEF Inv
<1>. QED
  BY <1>3, <1>4

LEMMA LeastFree ==
  ASSUME FreeOps # {}
  PROVE  Least(FreeOps) \in Op /\ pool[Least(FreeOps)].variable = Null
<1>1. FreeOps \in SUBSET Nat
  BY DEF FreeOps, Op
<1>. QED
  BY <1>1, LeastIsLeast DEF FreeOps

\* A setting that is being stored is one of the request's.
LEMMA CurrentFields ==
  ASSUME Inv, task.at \in {"append", "link"}, task.done < Len(Settings)
  PROVE  /\ Current.length \in Lengths /\ Current.length \in Nat
         /\ Asked(Current).variable \in DOMAIN Toc \cup {Memory, Null}
         /\ Asked(Current).length = Current.length
         /\ Len(Settings) \in Nat /\ task.done \in Nat
<1>1. task.request.cmd \in Appends
  BY DEF Inv, AppendOK, Storing
<1>2. Settings \in SettingList /\ task.done \in Nat
  BY <1>1, RequestHasId, TaskFields DEF Inv, TypeOK
<1>3. Len(Settings) \in Nat /\ task.done + 1 \in 1 .. Len(Settings)
  BY <1>2, SettingFields
<1>4. Current.length \in Lengths /\ Current.length \in Nat
  BY <1>2, <1>3, SettingFields DEF Current
<1>5. Asked(Current).variable \in DOMAIN Toc \cup {Memory, Null}
  BY ReadingType DEF Asked
<1>6. Asked(Current).length = Current.length
  BY DEF Asked
<1>. QED
  BY <1>2, <1>3, <1>4, <1>5, <1>6

LEMMA AppendRoundInv ==
  ASSUME Inv, NEW version2, NEW variable, AppendRound(version2, variable), NoOverlap,
         variable = Asked(Current).variable
  PROVE  Inv'
<1>. DEFINE b == task.block
            o == Least(FreeOps)
            takes == Fits(b, Current) /\ FreeOps # {} /\ variable # Null
<1>1. /\ task.at = "append" /\ task.done < Len(Settings)
      /\ UNCHANGED <<blocks, timers, locked, worker, jobs, packets, txQueue, connected, asked>>
  BY DEF AppendRound, outside
<1>2. CASE ~takes
  <2>1. task' \in TaskState /\ task'.at = "answer" /\ pool' = pool
    <3>1. PICK ret \in {"E2BIG", "ENOMEM", "ENOENT"} : Finish(ret) /\ pool' = pool
      BY <1>2 DEF AppendRound
    <3>. QED
      BY <1>1, <3>1, TaskEnds DEF Inv, TypeOK
  <2>2. TypeOK'
    BY <1>1, <2>1, OverlapGrows DEF Inv, TypeOK
  <2>3. SameTask
    BY <1>1, <2>1 DEF SameTask
  <2>4. AppendOK'
    BY <2>1, <2>3, AppendKept DEF Inv
  <2>5. ~overlap' => Sound'
    BY <1>1, <2>1, <2>3, SoundKept
  <2>. QED
    BY <2>2, <2>4, <2>5 DEF Inv
<1>3. CASE takes
  <2>1. PICK x \in Op : x = o /\ pool[x].variable = Null
    BY <1>3, LeastFree
  <2>2. /\ pool' = [pool EXCEPT ![x].variable = variable, ![x].length = Current.length]
        /\ task' = [at |-> "link", request |-> task.request, block |-> b,
                    done |-> task.done, op |-> x]
    BY <1>3, <2>1 DEF AppendRound
  <2>3. b \in Block /\ task.request \in Request /\ task.done \in Nat
    BY <1>1, TaskFields DEF Inv, TypeOK
  <2>4. /\ task' \in TaskState /\ task'.at = "link" /\ task'.request = task.request
        /\ task'.block = b /\ task'.done = task.done /\ task'.op = x
    BY <2>2, <2>3 DEF TaskState
  <2>5. /\ Current.length \in Lengths /\ Asked(Current).length = Current.length
        /\ variable \in DOMAIN Toc \cup {Memory}
    BY <1>1, <1>3, CurrentFields
  <2>6. /\ pool' \in Pool /\ pool \in Pool
        /\ ItemAt(pool', x) = Asked(Current)
        /\ pool'[x].variable = variable
        /\ \A y \in Op \ {x} : pool'[y] = pool[y]
    <3>1. pool \in Pool
      BY PoolIsTyped DEF Inv
    <3>2. pool' \in Pool /\ pool'[x].variable = variable /\ pool'[x].length = Current.length
          /\ \A y \in Op \ {x} : pool'[y] = pool[y]
      BY <2>2, <2>5, <3>1 DEF Pool
    <3>3. ItemAt(pool', x) = Asked(Current)
      BY <2>5, <3>2 DEF ItemAt, Asked
    <3>. QED
      BY <3>1, <3>2, <3>3
  <2>7. TypeOK'
    BY <1>1, <2>4, <2>6, OverlapGrows DEF Inv, TypeOK, Pool, OpOrNull
  <2>8. Settings' = Settings /\ Current' = Current /\ (\A s : Asked(s)' = Asked(s))
    BY <2>4 DEF Settings, Current, Asked, IsV2
  <2>9. AppendOK'
    <3>1. task.request.cmd \in Appends
      BY <1>1 DEF Inv, AppendOK, Storing
    <3>2. task'.done <= Len(Settings') + 2 /\ task'.done < Len(Settings')
      BY <1>1, <2>4, <2>8, CurrentFields
    <3>3. Asked(Current)'.variable = variable
      BY <2>8 DEF Asked
    <3>. QED
      BY <1>3, <2>4, <2>6, <3>1, <3>2, <3>3 DEF AppendOK
  <2>10. ASSUME ~overlap'
         PROVE  Sound'
    <3>1. Sound /\ ~Overlaps' /\ ~overlap
      BY <2>10, OverlapGrows
    <3>2. PICK L : TablesOK(L) /\ RequestOK(L)
      BY <3>1 DEF Sound
    <3>3. /\ Lists(blocks, pool, L) /\ InUse(pool) = Held(blocks, L)
          /\ b \in Occupied(blocks) /\ blocks[b].id = task.request.id
          /\ Stored(ItemsOf(pool, L[b]), task.done)
      BY <1>1, <3>2 DEF TablesOK, RequestOK, Linking, Storing
    <3>4. x \notin Held(blocks, L) /\ \A y \in Held(blocks, L) : y \in Op /\ pool'[y] = pool[y]
      BY <2>1, <2>6, <3>3 DEF InUse
    <3>5. Lists(blocks', pool', L)
      <4>1. blocks \in Table
        BY PoolIsTyped DEF Inv
      <4>2. Lists(blocks, pool', L)
        BY <2>6, <3>3, <3>4, <4>1, ListsKept
      <4>. QED
        BY <1>1, <4>2
    <3>6. InUse(pool') = Held(blocks, L) \cup {x}
      <4>1. variable # Null
        BY <1>3
      <4>. QED
        BY <2>6, <3>3, <4>1 DEF InUse
    <3>7. TablesOK(L)'
      <4>1. Linking' = {x}
        BY <2>4 DEF Linking
      <4>. QED
        BY <1>1, <2>4, <3>4, <3>5, <3>6, <4>1 DEF TablesOK
    <3>8. ItemsOf(pool', L[b]) = ItemsOf(pool, L[b])
      <4>1. L[b] \in Seq(Op) /\ \A y \in Ops(L[b]) : pool'[y] = pool[y]
        BY <2>3, <3>3, <3>4 DEF Lists, Held
      <4>. QED
        BY <2>6, <4>1, ItemsKept
    <3>9. Total(ItemsOf(pool, L[b])) + Current.length <= MaxLength
      <4>1. IsList(pool, blocks[b].ops, L[b])
        BY <3>3 DEF Lists
      <4>2. BlockLength(b) = Total(ItemsOf(pool, L[b]))
        BY <2>6, <4>1, ItemsOfList DEF BlockLength
      <4>. QED
        BY <1>3, <4>2 DEF Fits
    <3>10. RequestOK(L)'
      <4>1. Stored(ItemsOf(pool, L[task.block]), task.done)'
        <5>1. PICK items, done : items = ItemsOf(pool, L[b]) /\ done = task.done
          OBVIOUS
        <5>2. Stored(items, done)'
          BY <2>8, <3>3, <5>1, StoredKept
        <5>. QED
          BY <2>4, <3>8, <5>1, <5>2
      <4>2. ItemAt(pool', x) = Asked(Current)'
        BY <2>6, <2>8 DEF Asked
      <4>3. Total(ItemsOf(pool', L[b])) + Current'.length <= MaxLength
        BY <2>8, <3>8, <3>9
      <4>. QED
        BY <1>1, <2>4, <3>3, <4>1, <4>2, <4>3 DEF RequestOK
    <3>11. WorkerOK' /\ ResetOK' /\ TimersOK'
      BY <1>1, <3>1 DEF Sound, WorkerOK, ResetOK, TimersOK
    <3>. QED
      BY <3>1, <3>7, <3>10, <3>11 DEF Sound
  <2>. QED
    BY <2>7, <2>9, <2>10 DEF Inv
<1>. QED
  BY <1>2, <1>3

LEMMA AppendRoundsInv ==
  ASSUME Inv, AppendRoundV1 \/ AppendRoundV2, NoOverlap
  PROVE  Inv'
<1>1. CASE AppendRoundV1
  <2>1. AppendRound(FALSE, Reading(Current.id)) /\ ~IsV2
    BY <1>1 DEF AppendRoundV1, AppendRound, IsV2
  <2>2. Asked(Current).variable = Reading(Current.id)
    BY <2>1 DEF Asked
  <2>. QED
    BY <2>1, <2>2, AppendRoundInv
<1>2. CASE AppendRoundV2
  <2>1. AppendRound(TRUE, ReadingV2(Current.id)) /\ IsV2
    BY <1>2 DEF AppendRoundV2, AppendRound, IsV2
  <2>2. Asked(Current).variable = ReadingV2(Current.id)
    BY <2>1 DEF Asked
  <2>. QED
    BY <2>1, <2>2, AppendRoundInv
<1>. QED
  BY <1>1, <1>2

\* How far the loop goes on shows in what it stores.
LEMMA StepIs ==
  ASSUME NEW s
  PROVE  /\ StepOver(s) = IF Asked(s).variable = Memory THEN 3 ELSE 1
         /\ StepOver(s) \in {1, 3}
<1>. DEFINE found == {k \in DOMAIN Toc : IsVariable(k) /\ Counted(k) = s.id}
<1>1. VariableIndex(s.id) # Memory
  <2>1. found \in SUBSET Nat
    BY TocIsSeq
  <2>2. CASE found = {}
    BY <2>2, NameAssumption DEF VariableIndex
  <2>3. CASE found # {}
    <3>1. Least(found) \in Nat
      BY <2>1, <2>3, LeastIsLeast
    <3>. QED
      BY <2>3, <3>1, NameAssumption DEF VariableIndex
  <2>. QED
    BY <2>2, <2>3
<1>2. CASE IsV2
  BY <1>1, <1>2 DEF StepOver, Asked, ReadingV2
<1>3. CASE ~IsV2
  BY <1>1, <1>3 DEF StepOver, Asked, Reading
<1>. QED
  BY <1>2, <1>3

\* One more is stored.
LEMMA StoredMore ==
  ASSUME NEW T, NEW items \in Seq(T), NEW done \in Nat, Stored(items, done),
         Len(Settings) \in Nat, done < Len(Settings),
         NEW x \in T, x = Asked(Settings[done + 1]),
         NEW step \in {1, 3}, step = IF x.variable = Memory THEN 3 ELSE 1
  PROVE  Stored(Append(items, x), done + step)
<1>. DEFINE a == Append(items, x)
            l == Len(items)
<1>1. /\ l \in Nat /\ Len(a) = l + 1
      /\ a[l + 1] = x /\ \A k \in 1 .. l : a[k] = items[k]
  OBVIOUS
<1>0. PICK n \in 0 .. done : \E at \in [1 .. n -> 1 .. Len(Settings)] :
         ReadBefore(at, n, done) /\ EndWith(items, at, n)
  BY DEF Stored
<1>2. PICK at \in [1 .. n -> 1 .. Len(Settings)] :
        ReadBefore(at, n, done) /\ EndWith(items, at, n)
  BY <1>0
<1>3. l >= n /\ \A k \in 1 .. n : items[l - n + k] = Asked(Settings[at[k]])
  BY <1>2 DEF EndWith
<1>. HIDE DEF a, l
<1>. DEFINE more == [k \in 1 .. n + 1 |-> IF k = n + 1 THEN done + 1 ELSE at[k]]
<1>4. more \in [1 .. n + 1 -> 1 .. Len(Settings)]
  <2>1. done + 1 \in 1 .. Len(Settings)
    OBVIOUS
  <2>2. \A k \in 1 .. n + 1 : k # n + 1 => k \in 1 .. n
    BY <1>2
  <2>. QED
    BY <1>2, <2>1, <2>2
<1>5. more[n + 1] = done + 1 /\ \A k \in 1 .. n : more[k] = at[k]
  BY <1>2
<1>. HIDE DEF more
<1>6. ReadBefore(more, n + 1, done + step)
  <2>1. \A k \in 1 .. n : (IF k = n THEN done + 1 ELSE at[k + 1]) =
            at[k] + (IF Asked(Settings[at[k]]).variable = Memory THEN 3 ELSE 1)
    BY <1>2 DEF ReadBefore
  <2>2. ASSUME NEW k \in 1 .. n
        PROVE  more[k + 1] =
                 more[k] + (IF Asked(Settings[more[k]]).variable = Memory THEN 3 ELSE 1)
    <3>1. more[k + 1] = IF k = n THEN done + 1 ELSE at[k + 1]
      <4>1. CASE k = n
        BY <1>5, <4>1
      <4>2. CASE k # n
        <5>1. k + 1 \in 1 .. n
          BY <1>2, <4>2
        <5>. QED
          BY <1>5, <4>2, <5>1
      <4>. QED
        BY <4>1, <4>2
    <3>. QED
      BY <1>5, <2>1, <3>1
  <2>3. (done + step) + 1 =
          more[n + 1] + (IF Asked(Settings[more[n + 1]]).variable = Memory THEN 3 ELSE 1)
    BY <1>5
  <2>4. more[1] = 1
    <3>1. CASE n = 0
      BY <1>2, <1>5, <3>1 DEF ReadBefore
    <3>2. CASE n # 0
      <4>1. 1 \in 1 .. n /\ at[1] = 1
        BY <1>2, <3>2 DEF ReadBefore
      <4>. QED
        BY <1>5, <4>1
    <3>. QED
      BY <3>1, <3>2
  <2>5. ASSUME NEW k \in 1 .. n + 1
        PROVE  (IF k = n + 1 THEN (done + step) + 1 ELSE more[k + 1]) =
                 more[k] + (IF Asked(Settings[more[k]]).variable = Memory THEN 3 ELSE 1)
    <3>1. CASE k = n + 1
      BY <2>3, <3>1
    <3>2. CASE k # n + 1
      <4>1. k \in 1 .. n
        BY <1>2, <3>2
      <4>. QED
        BY <2>2, <3>2, <4>1
    <3>. QED
      BY <3>1, <3>2
  <2>. QED
    BY <1>2, <2>4, <2>5 DEF ReadBefore
<1>7. EndWith(a, more, n + 1)
  <2>1. ASSUME NEW k \in 1 .. n + 1
        PROVE  a[(l + 1) - (n + 1) + k] = Asked(Settings[more[k]])
    <3>1. CASE k = n + 1
      <4>1. (l + 1) - (n + 1) + k = l + 1
        BY <1>1, <1>2, <3>1
      <4>. QED
        BY <1>1, <1>5, <3>1, <4>1
    <3>2. CASE k # n + 1
      <4>1. (l + 1) - (n + 1) + k = l - n + k /\ l - n + k \in 1 .. l /\ k \in 1 .. n
        BY <1>1, <1>2, <1>3, <3>2
      <4>. QED
        BY <1>1, <1>3, <1>5, <4>1
    <3>. QED
      BY <3>1, <3>2
  <2>2. Len(a) >= n + 1
    BY <1>1, <1>2, <1>3
  <2>. QED
    BY <1>1, <2>1, <2>2 DEF EndWith
<1>8. n + 1 \in 0 .. done + step
  BY <1>2
<1>9. Stored(a, done + step)
  BY <1>4, <1>6, <1>7, <1>8 DEF Stored
<1>. QED
  BY <1>9 DEF a

LEMMA PutLastType ==
  ASSUME NEW p \in Pool, NEW first, NEW o \in Op
  PROVE  PutLast(p, first, o) \in Pool
<1>. DEFINE q == [p EXCEPT ![o].next = Null]
            c == Chain(q, first)
            y == c[Len(c)]
<1>1. q \in Pool
  BY DEF Pool, OpOrNull
<1>2. PutLast(p, first, o) = IF c = <<>> THEN q ELSE [q EXCEPT ![y].next = o]
  BY DEF PutLast
<1>. HIDE DEF y, c, q
<1>3. [q EXCEPT ![y].next = o] \in Pool
  BY <1>1 DEF Pool, OpOrNull
<1>. QED
  BY <1>1, <1>2, <1>3

\* What a link does to the lists.
LEMMA LinkIsLinked ==
  ASSUME Inv, Link, NEW L, TablesOK(L), RequestOK(L)
  PROVE  \E M : Linked(blocks, pool, L, task.block, task.op, blocks', pool', M)
<1>1. task.at = "link" /\ task \in TaskState
  BY DEF Link, Inv, TypeOK
<1>2. PICK b \in Block, o \in Op : b = task.block /\ o = task.op
  BY <1>1, TaskFields
<1>3. pool \in Pool /\ blocks \in Table
  BY PoolIsTyped DEF Inv
<1>4. /\ pool' = PutLast(pool, blocks[b].ops, o)
      /\ blocks' = [blocks EXCEPT ![b].ops = IF @ = Null THEN o ELSE @]
  BY <1>2 DEF Link
<1>5. /\ blocks'[b] = [id |-> blocks[b].id,
                      ops |-> IF blocks[b].ops = Null THEN o ELSE blocks[b].ops]
      /\ \A c \in Block \ {b} : blocks'[c] = blocks[c]
  BY <1>3, <1>4 DEF Table
<1>6. /\ Lists(blocks, pool, L) /\ b \in Occupied(blocks) /\ o \in Op \ Held(blocks, L)
      /\ ItemAt(pool, o) = Asked(Current)
      /\ Total(ItemsOf(pool, L[b])) + Current.length <= MaxLength
  BY <1>1, <1>2 DEF TablesOK, RequestOK, Storing
<1>7. pool[o].length = Current.length
  BY <1>6 DEF ItemAt, Asked
<1>8. HasPlace(pool, L[b], o)
  BY <1>6, <1>7 DEF HasPlace
<1>. DEFINE M == [L EXCEPT ![b] = Append(L[b], o)]
<1>9. M \in [Block -> Seq(Op)] /\ M[b] = Append(L[b], o) /\ \A c \in Block \ {b} : M[c] = L[c]
  BY <1>6 DEF Lists
<1>. HIDE DEF M
<1>10. Linked(blocks, pool, L, b, o, blocks', pool', M)
  BY <1>4, <1>5, <1>6, <1>8, <1>9 DEF Linked
<1>. QED
  BY <1>2, <1>10

LEMMA LinkInv ==
  ASSUME Inv, Link, NoOverlap
  PROVE  Inv'
<1>1. task.at = "link" /\ task \in TaskState
  BY DEF Link, Inv, TypeOK
<1>2. PICK b \in Block, o \in Op : b = task.block /\ o = task.op
  BY <1>1, TaskFields
<1>3. UNCHANGED <<timers, locked, worker, jobs, packets, txQueue, connected, asked>>
  BY DEF Link, outside
<1>4. /\ pool' = PutLast(pool, blocks[b].ops, o)
      /\ blocks' = [blocks EXCEPT ![b].ops = IF @ = Null THEN o ELSE @]
      /\ task' = [at |-> "append", request |-> task.request, block |-> b,
                  done |-> task.done + StepOver(Current)]
  BY <1>2 DEF Link, GoOnWith
<1>5. task.request \in Request /\ task.done \in Nat
  BY <1>1, TaskFields
<1>. DEFINE step == StepOver(Current)
<1>5a. step \in {1, 3} /\ step = IF Asked(Current).variable = Memory THEN 3 ELSE 1
  BY StepIs
<1>6. /\ task' \in TaskState /\ task'.at = "append" /\ task'.request = task.request
      /\ task'.block = b /\ task'.done = task.done + step
  <2>1. task.done + step \in Nat
    BY <1>5, <1>5a
  <2>. QED
    BY <1>4, <1>5, <2>1 DEF TaskState
<1>. HIDE DEF step
<1>7. pool \in Pool /\ blocks \in Table
  BY PoolIsTyped DEF Inv
<1>8. pool' \in Pool
  BY <1>4, <1>7, PutLastType
<1>9. /\ blocks' \in Table
      /\ blocks'[b].id = blocks[b].id
      /\ blocks'[b].ops = IF blocks[b].ops = Null THEN o ELSE blocks[b].ops
      /\ \A d \in Block \ {b} : blocks'[d] = blocks[d]
  BY <1>4, <1>7 DEF Table, OpOrNull
<1>10. TypeOK'
  BY <1>1, <1>3, <1>6, <1>8, <1>9, OverlapGrows DEF Inv, TypeOK, Pool, Table, OpOrNull
<1>11. Settings' = Settings /\ (\A s : Asked(s)' = Asked(s))
  BY <1>6 DEF Settings, Asked, IsV2
<1>12. AppendOK'
  <2>1. task.request.cmd \in Appends /\ task.done < Len(Settings)
    BY <1>1 DEF Inv, AppendOK, Storing
  <2>2. task'.done <= Len(Settings') + 2
    <3>1. Len(Settings) \in Nat
      BY <1>1, <2>1, CurrentFields
    <3>. QED
      BY <1>5, <1>5a, <1>6, <1>11, <2>1, <3>1
  <2>. QED
    BY <1>6, <2>1, <2>2 DEF AppendOK
<1>13. ASSUME ~overlap'
       PROVE  Sound'
  <2>1. Sound /\ ~Overlaps'
    BY <1>13, OverlapGrows
  <2>2. PICK L : TablesOK(L) /\ RequestOK(L)
    BY <2>1 DEF Sound
  <2>3. PICK M : Linked(blocks, pool, L, b, o, blocks', pool', M)
    BY <1>2, <2>2, LinkIsLinked
  <2>4. /\ Lists(blocks, pool, L) /\ InUse(pool) = Held(blocks, L) \cup {o}
        /\ b \in Occupied(blocks) /\ blocks[b].id = task.request.id
        /\ Stored(ItemsOf(pool, L[b]), task.done)
        /\ ItemAt(pool, o) = Asked(Current)
    BY <1>1, <1>2, <2>2 DEF TablesOK, RequestOK, Linking, Storing
  <2>5. /\ Lists(blocks', pool', M) /\ Held(blocks', M) = Held(blocks, L) \cup {o}
        /\ Occupied(blocks') = Occupied(blocks) /\ InUse(pool') = InUse(pool)
        /\ ItemsOf(pool', M[b]) = Append(ItemsOf(pool, L[b]), ItemAt(pool, o))
    BY <1>7, <2>3, ListsLink
  <2>6. TablesOK(M)'
    <3>1. Linking' = {}
      BY <1>6 DEF Linking
    <3>. QED
      BY <1>6, <2>4, <2>5, <3>1 DEF TablesOK
  <2>7. Stored(ItemsOf(pool', M[b]), task.done + step)
    <3>. DEFINE T == [variable : DOMAIN Toc \cup {Memory, Null}, length : {0} \cup Lengths]
    <3>1. L[b] \in Seq(Op)
      BY <2>4 DEF Lists
    <3>2. ItemsOf(pool, L[b]) \in Seq(T)
      BY <1>7, <3>1, ItemsOfSeq
    <3>3. ItemAt(pool, o) \in T
      BY <1>7 DEF ItemAt, Pool
    <3>4. ItemAt(pool, o) = Asked(Settings[task.done + 1])
      BY <2>4 DEF Current
    <3>. HIDE DEF T
    <3>5. task.done < Len(Settings) /\ Len(Settings) \in Nat
      BY <1>1, CurrentFields DEF Inv, AppendOK, Storing
    <3>6. PICK items \in Seq(T), x \in T, done \in Nat :
            items = ItemsOf(pool, L[b]) /\ x = ItemAt(pool, o) /\ done = task.done
      BY <1>5, <3>2, <3>3
    <3>7. /\ Stored(items, done) /\ done < Len(Settings) /\ x = Asked(Settings[done + 1])
          /\ step = IF x.variable = Memory THEN 3 ELSE 1
      BY <1>5a, <2>4, <3>4, <3>5, <3>6
    <3>8. Stored(Append(items, x), done + step)
      BY <1>5a, <3>5, <3>6, <3>7, StoredMore
    <3>. QED
      BY <2>5, <3>6, <3>8
  <2>8. RequestOK(M)'
    <3>1. Stored(ItemsOf(pool, M[b]), task.done)'
      <4>1. PICK items, done : items = ItemsOf(pool', M[b]) /\ done = task.done + step
        OBVIOUS
      <4>2. Stored(items, done)'
        BY <1>11, <2>7, <4>1, StoredKept
      <4>. QED
        BY <1>6, <4>1, <4>2
    <3>2. b \in Occupied(blocks') /\ blocks'[b].id = task'.request.id
      BY <1>6, <1>9, <2>4, <2>5
    <3>. QED
      BY <1>6, <3>1, <3>2 DEF RequestOK
  <2>9. WorkerOK'
    <3>1. \A d \in Occupied(blocks) : /\ d \in Block /\ d \in Occupied(blocks')
                                     /\ blocks[d].ops \in {Null, blocks'[d].ops}
      BY <1>9, <2>5 DEF Occupied
    <3>. QED
      BY <1>3, <2>1, <3>1 DEF Sound, WorkerOK
  <2>10. ResetOK' /\ TimersOK'
    BY <1>3, <2>1, <2>5 DEF Sound, ResetOK, TimersOK
  <2>. QED
    BY <2>1, <2>6, <2>8, <2>9, <2>10 DEF Sound
<1>. QED
  BY <1>10, <1>12, <1>13 DEF Inv

-----------------------------------------------------------------------------
(* Blocks and operations go                                                  *)

\* What is deleted whether or not there has been an overlap.
LEMMA DeleteType ==
  ASSUME TypeOK, NEW gone \in SUBSET Block, DeleteBlocks(gone)
  PROVE  /\ blocks' \in Table /\ pool' \in Pool
         /\ timers' \in [Block -> {"none", "stopped", "running"}]
         /\ \A b \in gone : timers'[b] = "none" /\ blocks'[b].id = FreeId
         /\ \A b \in Block \ gone : timers'[b] = timers[b] /\ blocks'[b] = blocks[b]
         /\ \A b \in Block : blocks'[b].ops = blocks[b].ops
         /\ \A o \in Op : pool'[o].variable \in {Null, pool[o].variable}
<1>1. blocks \in Table /\ pool \in Pool /\ timers \in [Block -> {"none", "stopped", "running"}]
  BY PoolIsTyped DEF TypeOK
<1>2. /\ blocks' \in Table
      /\ \A b \in gone : blocks'[b].id = FreeId
      /\ \A b \in Block \ gone : blocks'[b] = blocks[b]
      /\ \A b \in Block : blocks'[b].ops = blocks[b].ops
  BY <1>1 DEF DeleteBlocks, Table
<1>3. /\ timers' \in [Block -> {"none", "stopped", "running"}]
      /\ \A b \in gone : timers'[b] = "none"
      /\ \A b \in Block \ gone : timers'[b] = timers[b]
  BY <1>1 DEF DeleteBlocks
<1>4. PICK lost : pool' = Freed(pool, lost)
  BY DEF DeleteBlocks
<1>5. pool' \in Pool /\ \A o \in Op : pool'[o].variable \in {Null, pool[o].variable}
  BY <1>1, <1>4 DEF Freed, Pool
<1>. QED
  BY <1>2, <1>3, <1>5

LEMMA DeleteLists ==
  ASSUME Inv, NEW L, TablesOK(L), task.at # "link",
         NEW gone \in SUBSET Occupied(blocks), DeleteBlocks(gone)
  PROVE  /\ Lists(blocks', pool', L)
         /\ InUse(pool') = Held(blocks', L)
         /\ Occupied(blocks') = Occupied(blocks) \ gone
         /\ \A o \in Held(blocks', L) : pool'[o] = pool[o]
<1>1. blocks \in Table /\ pool \in Pool /\ gone \in SUBSET Block
  BY PoolIsTyped DEF Inv, Occupied
<1>2. /\ blocks' \in Table
      /\ \A b \in gone : blocks'[b].id = FreeId
      /\ \A b \in Block \ gone : blocks'[b] = blocks[b]
  BY <1>1, DeleteType DEF Inv
<1>3. Lists(blocks, pool, L) /\ InUse(pool) = Held(blocks, L)
  BY DEF TablesOK, Linking
<1>4. \A b \in gone : Chain(pool, blocks[b].ops) = L[b]
  <2>1. \A b \in gone : IsList(pool, blocks[b].ops, L[b])
    BY <1>3 DEF Lists
  <2>. QED
    BY <1>1, <2>1, ChainOfList
<1>5. pool' = Freed(pool, OpsOf(L, gone))
  <2>1. {Ops(Chain(pool, blocks[b].ops)) : b \in gone} = {Ops(L[b]) : b \in gone}
    BY <1>4
  <2>. QED
    BY <2>1 DEF DeleteBlocks, OpsOf
<1>6. /\ Lists(blocks', Freed(pool, OpsOf(L, gone)), L)
      /\ Held(blocks', L) = Held(blocks, L) \ OpsOf(L, gone)
      /\ Occupied(blocks') = Occupied(blocks) \ gone
      /\ InUse(Freed(pool, OpsOf(L, gone))) = InUse(pool) \ OpsOf(L, gone)
      /\ \A o \in Held(blocks', L) : Freed(pool, OpsOf(L, gone))[o] = pool[o]
  BY <1>1, <1>2, <1>3, ListsDelete
<1>. QED
  BY <1>3, <1>5, <1>6

\* The worker's job, when blocks go.
LEMMA OutdateType ==
  ASSUME worker \in WorkerState, NEW gone, Outdate(gone)
  PROVE  /\ worker' \in WorkerState /\ worker'.at = worker.at
         /\ worker.at # "lock" => worker' = worker
         /\ worker.at = "lock" =>
              /\ worker'.block = worker.block /\ worker'.ops = worker.ops
              /\ worker'.outdated <=> (worker.outdated \/ worker.block \in gone)
<1>1. CASE worker.at = "lock"
  <2>1. worker \in [at : {"lock"}, block : Block, ops : OpOrNull, outdated : BOOLEAN]
    BY <1>1, WorkerFields
  <2>2. worker' = IF worker.block \in gone THEN [worker EXCEPT !.outdated = TRUE] ELSE worker
    BY <1>1 DEF Outdate
  <2>3. CASE worker.block \in gone
    <3>1. worker' \in [at : {"lock"}, block : Block, ops : OpOrNull, outdated : BOOLEAN]
          /\ worker'.at = "lock" /\ worker'.block = worker.block /\ worker'.ops = worker.ops
          /\ worker'.outdated = TRUE
      BY <2>1, <2>2, <2>3
    <3>. QED
      BY <1>1, <2>3, <3>1 DEF WorkerState, OpOrNull
  <2>4. CASE worker.block \notin gone
    BY <1>1, <2>2, <2>4
  <2>. QED
    BY <2>3, <2>4
<1>2. CASE worker.at # "lock"
  BY <1>2 DEF Outdate
<1>. QED
  BY <1>1, <1>2

LEMMA DeleteInv ==
  ASSUME Inv, Delete, NoOverlap
  PROVE  Inv'
<1>. DEFINE gone == WithId(task.request.id)
<1>1. task.at = "run" /\ task.request.id \in Id
  BY RequestHasId DEF Delete, Asks
<1>2. task' \in TaskState /\ task'.at = "answer"
  BY <1>1, TaskEnds DEF Delete, Inv, TypeOK
<1>3. gone \subseteq Occupied(blocks) /\ gone \subseteq Block
  BY <1>1, FoundIsOccupied DEF Occupied
<1>4. DeleteBlocks(gone) /\ Outdate(gone)
      /\ UNCHANGED <<locked, jobs, packets, txQueue, connected, asked>>
  BY DEF Delete, outside
<1>. HIDE DEF gone
<1>5. /\ blocks' \in Table /\ pool' \in Pool
      /\ timers' \in [Block -> {"none", "stopped", "running"}]
      /\ \A b \in gone : timers'[b] = "none" /\ blocks'[b].id = FreeId
      /\ \A b \in Block \ gone : timers'[b] = timers[b] /\ blocks'[b] = blocks[b]
      /\ \A b \in Block : blocks'[b].ops = blocks[b].ops
  BY <1>3, <1>4, DeleteType DEF Inv
<1>6. worker \in WorkerState
  BY DEF Inv, TypeOK
<1>7. TypeOK'
  <2>1. worker' \in WorkerState
    BY <1>4, <1>6, OutdateType
  <2>. QED
    BY <1>1, <1>2, <1>4, <1>5, <2>1, OverlapGrows DEF Inv, TypeOK, Table, Pool, OpOrNull
<1>8. AppendOK'
  BY <1>2 DEF AppendOK, Storing
<1>9. ASSUME ~overlap'
      PROVE  Sound'
  <2>1. Sound /\ ~Overlaps'
    BY <1>9, OverlapGrows
  <2>2. PICK L : TablesOK(L)
    BY <2>1 DEF Sound
  <2>3. /\ Lists(blocks', pool', L)
        /\ InUse(pool') = Held(blocks', L)
        /\ Occupied(blocks') = Occupied(blocks) \ gone
    BY <1>1, <1>3, <1>4, <2>2, DeleteLists
  <2>4. TablesOK(L)' /\ RequestOK(L)'
    BY <1>2, <2>3 DEF TablesOK, RequestOK, Linking, Storing
  <2>5. WorkerOK'
    <3>1. SUFFICES ASSUME worker'.at = "lock", ~worker'.outdated
                   PROVE  /\ worker'.block \in Occupied(blocks')
                          /\ worker'.ops \in {Null, blocks'[worker'.block].ops}
      BY DEF WorkerOK
    <3>2. /\ worker.at = "lock" /\ ~worker.outdated /\ worker.block \notin gone
          /\ worker'.block = worker.block /\ worker'.ops = worker.ops
      BY <1>4, <1>6, <3>1, OutdateType
    <3>3. worker.block \in Occupied(blocks) /\ worker.ops \in {Null, blocks[worker.block].ops}
      BY <2>1, <3>2 DEF Sound, WorkerOK
    <3>. QED
      BY <1>5, <2>3, <3>2, <3>3 DEF Occupied
  <2>6. ResetOK'
    <3>1. worker'.at = worker.at /\ (worker.at # "lock" => worker' = worker)
      BY <1>4, <1>6, OutdateType
    <3>. QED
      BY <2>1, <2>3, <3>1 DEF Sound, ResetOK
  <2>7. TimersOK'
    BY <1>5, <2>1, <2>3 DEF Sound, TimersOK
  <2>. QED
    BY <2>1, <2>4, <2>5, <2>6, <2>7 DEF Sound
<1>. QED
  BY <1>7, <1>8, <1>9 DEF Inv

\* The end of a reset.
LEMMA FreeType ==
  ASSUME TypeOK, pool' = ForceFree(pool), blocks' = NoIds(blocks)
  PROVE  /\ blocks' \in Table /\ pool' \in Pool
         /\ Occupied(blocks') = {} /\ InUse(pool') = {}
         /\ \A o \in Op : pool'[o].variable = Null
<1>1. blocks \in Table /\ pool \in Pool
  BY PoolIsTyped
<1>2. blocks' \in Table /\ \A b \in Block : blocks'[b].id = FreeId
  BY <1>1 DEF NoIds, Table
<1>3. pool' \in Pool /\ \A o \in Op : pool'[o].variable = Null
  BY <1>1 DEF ForceFree, Pool
<1>. QED
  BY <1>2, <1>3 DEF Occupied, InUse

LEMMA NothingHeld ==
  ASSUME NEW L, L \in [Block -> Seq(Op)], NEW t, NEW p, Occupied(t) = {}, InUse(p) = {}
  PROVE  Lists(t, p, L) /\ InUse(p) = Held(t, L)
BY DEF Lists, Held

LEMMA ResetCommandInv ==
  ASSUME Inv, ResetCommand, NoOverlap
  PROVE  Inv'
<1>1. task.at = "run"
  BY DEF ResetCommand, Asks
<1>2. task' \in TaskState /\ task'.at = "answer"
  BY <1>1, TaskEnds DEF ResetCommand, Inv, TypeOK
<1>3. /\ blocks' \in Table /\ pool' \in Pool
      /\ Occupied(blocks') = {} /\ InUse(pool') = {}
  BY FreeType DEF ResetCommand, Inv
<1>4. Outdate(LiveBlocks) /\ UNCHANGED <<locked, jobs, packets, txQueue, connected, asked>>
  BY DEF ResetCommand, outside
<1>5. /\ timers' \in [Block -> {"none", "stopped", "running"}]
      /\ \A b \in Block : timers'[b] = "running" => timers[b] = "running" /\ b \notin Occupied(blocks)
  BY DEF ResetCommand, StopTimers, Inv, TypeOK, Live, Occupied
<1>6. worker \in WorkerState
  BY DEF Inv, TypeOK
<1>7. TypeOK'
  <2>1. worker' \in WorkerState
    BY <1>4, <1>6, OutdateType
  <2>. QED
    BY <1>1, <1>2, <1>3, <1>4, <1>5, <2>1, OverlapGrows DEF Inv, TypeOK, Table, Pool, OpOrNull
<1>8. AppendOK'
  BY <1>2 DEF AppendOK, Storing
<1>9. ASSUME ~overlap'
      PROVE  Sound'
  <2>1. Sound /\ ~Overlaps'
    BY <1>9, OverlapGrows
  <2>2. PICK L : TablesOK(L)
    BY <2>1 DEF Sound
  <2>3. TablesOK(L)' /\ RequestOK(L)'
    <3>1. Lists(blocks', pool', L) /\ InUse(pool') = Held(blocks', L)
      BY <1>3, <2>2, NothingHeld DEF TablesOK, Lists
    <3>. QED
      BY <1>2, <3>1 DEF TablesOK, RequestOK, Linking, Storing
  <2>4. WorkerOK'
    <3>1. SUFFICES ASSUME worker'.at = "lock", ~worker'.outdated
                   PROVE  FALSE
      BY DEF WorkerOK
    <3>2. worker.at = "lock" /\ ~worker.outdated /\ worker.block \notin LiveBlocks
      BY <1>4, <1>6, <3>1, OutdateType
    <3>. QED
      BY <2>1, <3>2 DEF Sound, WorkerOK, LiveBlocks, Live, Occupied
  <2>5. ResetOK'
    BY <1>3 DEF ResetOK
  <2>6. TimersOK'
    BY <1>5, <2>1 DEF Sound, TimersOK
  <2>. QED
    BY <2>1, <2>3, <2>4, <2>5, <2>6 DEF Sound
<1>. QED
  BY <1>7, <1>8, <1>9 DEF Inv

\* A task in the middle of a request keeps what it knows of the settings.
LEMMA AppendForgotten ==
  ASSUME AppendOK, task \in TaskState, task' = task,
         \A o \in Op : pool'[o].variable \in {Null, pool[o].variable}
  PROVE  AppendOK'
<1>1. task.at = "link" => task.op \in Op
  BY TaskFields
<1>. QED
  BY <1>1 DEF AppendOK, Storing, Asked, Current, Settings, IsV2

LEMMA WorkerDeletesInv ==
  ASSUME Inv, WorkerDeletes, NoOverlap
  PROVE  Inv'
<1>1. worker.at = "reset" /\ worker \in WorkerState
  BY DEF WorkerDeletes, Inv, TypeOK
<1>2. PICK b \in Block : b = worker.block
  <2>1. worker \in [at : {"reset"}, block : 0 .. MaxBlocks]
    BY <1>1, WorkerFields
  <2>2. worker.block \in 0 .. MaxBlocks /\ worker.block < MaxBlocks
    BY <2>1 DEF WorkerDeletes
  <2>. QED
    BY <2>2, NumberAssumption DEF Block
<1>3. worker' = [at |-> "reset", block |-> b + 1]
  <2>1. worker \in [at : {"reset"}, block : 0 .. MaxBlocks]
    BY <1>1, WorkerFields
  <2>. QED
    BY <1>2, <2>1 DEF WorkerDeletes
<1>4. worker' \in WorkerState /\ worker'.at = "reset" /\ worker'.block = b + 1
  <2>1. b + 1 \in 0 .. MaxBlocks
    BY NumberAssumption DEF Block
  <2>. QED
    BY <1>3, <2>1 DEF WorkerState
<1>. DEFINE gone == {b} \cap LiveBlocks
<1>5. gone \subseteq Occupied(blocks) /\ gone \subseteq Block
      /\ (b \in Occupied(blocks) => b \in gone)
  BY DEF LiveBlocks, Live, Occupied
<1>6. DeleteBlocks(gone) /\ UNCHANGED <<locked, task, jobs, packets, txQueue, connected, asked>>
  BY <1>2 DEF WorkerDeletes, outside
<1>. HIDE DEF gone
<1>7. /\ blocks' \in Table /\ pool' \in Pool
      /\ timers' \in [Block -> {"none", "stopped", "running"}]
      /\ \A c \in gone : timers'[c] = "none"
      /\ \A c \in Block \ gone : timers'[c] = timers[c]
      /\ \A o \in Op : pool'[o].variable \in {Null, pool[o].variable}
  BY <1>5, <1>6, DeleteType DEF Inv
<1>8. TypeOK'
  BY <1>4, <1>6, <1>7, OverlapGrows DEF Inv, TypeOK, Table, Pool, OpOrNull
<1>9. AppendOK'
  BY <1>6, <1>7, AppendForgotten DEF Inv, TypeOK
<1>10. ASSUME ~overlap'
       PROVE  Sound'
  <2>1. Sound /\ ~Overlaps'
    BY <1>10, OverlapGrows
  <2>2. PICK L : TablesOK(L)
    BY <2>1 DEF Sound
  <2>3. task.at \notin {"run", "append", "link"}
    BY <1>1, <2>1 DEF Sound, Overlaps
  <2>4. /\ Lists(blocks', pool', L)
        /\ InUse(pool') = Held(blocks', L)
        /\ Occupied(blocks') = Occupied(blocks) \ gone
    BY <1>5, <1>6, <2>2, <2>3, DeleteLists
  <2>5. TablesOK(L)' /\ RequestOK(L)'
    BY <1>6, <2>3, <2>4 DEF TablesOK, RequestOK, Linking, Storing
  <2>6. WorkerOK'
    BY <1>4 DEF WorkerOK
  <2>7. ResetOK'
    <3>1. ASSUME NEW c \in Block, c < b + 1
          PROVE  c \notin Occupied(blocks')
      <4>1. c = b \/ c < b
        BY <3>1 DEF Block
      <4>. QED
        BY <1>1, <1>2, <1>5, <2>1, <2>4, <4>1 DEF Sound, ResetOK
    <3>. QED
      BY <1>4, <3>1 DEF ResetOK
  <2>8. TimersOK'
    BY <1>7, <2>1, <2>4 DEF Sound, TimersOK
  <2>. QED
    BY <2>1, <2>5, <2>6, <2>7, <2>8 DEF Sound
<1>. QED
  BY <1>8, <1>9, <1>10 DEF Inv

LEMMA WorkerFreesInv ==
  ASSUME Inv, WorkerFrees, NoOverlap
  PROVE  Inv'
<1>1. worker.at = "reset" /\ worker.block = MaxBlocks
  BY DEF WorkerFrees
<1>2. worker' \in WorkerState /\ worker'.at = "purge"
  BY DEF WorkerFrees, WorkerState
<1>3. UNCHANGED <<timers, locked, task, jobs, packets, txQueue, connected, asked>>
  BY DEF WorkerFrees, outside
<1>4. /\ blocks' \in Table /\ pool' \in Pool
      /\ Occupied(blocks') = {} /\ InUse(pool') = {}
      /\ \A o \in Op : pool'[o].variable = Null
  BY FreeType DEF WorkerFrees, Inv
<1>5. TypeOK'
  BY <1>2, <1>3, <1>4, OverlapGrows DEF Inv, TypeOK, Table, Pool, OpOrNull
<1>6. AppendOK'
  BY <1>3, <1>4, AppendForgotten DEF Inv, TypeOK
<1>7. ASSUME ~overlap'
      PROVE  Sound'
  <2>1. Sound /\ ~Overlaps'
    BY <1>7, OverlapGrows
  <2>2. PICK L : TablesOK(L)
    BY <2>1 DEF Sound
  <2>3. task.at \notin {"run", "append", "link"}
    BY <1>1, <2>1 DEF Sound, Overlaps
  <2>4. TablesOK(L)' /\ RequestOK(L)'
    <3>1. Lists(blocks', pool', L) /\ InUse(pool') = Held(blocks', L)
      BY <1>4, <2>2, NothingHeld DEF TablesOK, Lists
    <3>. QED
      BY <1>3, <2>3, <3>1 DEF TablesOK, RequestOK, Linking, Storing
  <2>5. WorkerOK' /\ ResetOK'
    BY <1>2 DEF WorkerOK, ResetOK
  <2>6. TimersOK'
    <3>1. \A b \in Block : b < MaxBlocks
      BY NumberAssumption DEF Block
    <3>2. \A b \in Block : timers[b] # "running"
      BY <1>1, <2>1, <3>1 DEF Sound, ResetOK, TimersOK
    <3>. QED
      BY <1>3, <3>2 DEF TimersOK
  <2>. QED
    BY <2>1, <2>4, <2>5, <2>6 DEF Sound
<1>. QED
  BY <1>5, <1>6, <1>7 DEF Inv

-----------------------------------------------------------------------------
LEMMA NextInv ==
  ASSUME Inv, [Next]_vars
  PROVE  Inv'
<1>1. CASE Next /\ Step
  <2>1. Step /\ NoOverlap
    <3>1. Next /\ Step
      BY <1>1
    <3>2. ticking' \in [Block -> BOOLEAN]
      <4>1. CASE ticking' = ticking
        BY <4>1 DEF Inv, TypeOK
      <4>2. CASE TimersFollow
        BY <4>2 DEF TimersFollow
      <4>. QED
        BY <3>1, <4>1, <4>2 DEF Next
    <3>. QED
      BY <3>1, <3>2 DEF Next, NoOverlap
  <2>2. CASE \E r \in Request : Receive(r)
    BY <2>1, <2>2, ReceiveInv
  <2>3. CASE Lock
    BY <2>1, <2>3, LockInv
  <2>4. CASE Control
    <3>1. CASE Create
      BY <2>1, <3>1, CreateInv
    <3>2. CASE FindBlock
      BY <2>1, <3>2, FindBlockInv
    <3>3. CASE AppendRoundV1 \/ AppendRoundV2
      BY <2>1, <3>3, AppendRoundsInv
    <3>4. CASE Link
      BY <2>1, <3>4, LinkInv
    <3>5. CASE Appended
      BY <2>1, <3>5, AppendedInv
    <3>6. CASE Delete
      BY <2>1, <3>6, DeleteInv
    <3>7. CASE Start
      BY <2>1, <3>7, StartInv
    <3>8. CASE Stop
      BY <2>1, <3>8, StopInv
    <3>9. CASE ResetCommand
      BY <2>1, <3>9, ResetCommandInv
    <3>10. CASE AnswerToc
      BY <2>1, <3>10, AnswerTocInv
    <3>11. CASE Unknown
      BY <2>1, <3>11, UnknownInv
    <3>. QED
      BY <2>4, <3>1, <3>2, <3>3, <3>4, <3>5, <3>6, <3>7, <3>8, <3>9, <3>10, <3>11 DEF Control
  <2>5. CASE Answer
    BY <2>1, <2>5, AnswerInv
  <2>6. CASE \E b \in Block : TimerFires(b)
    BY <2>1, <2>6, TimerFiresInv
  <2>7. CASE Run
    <3>1. CASE TakeJob
      BY <2>1, <3>1, TakeJobInv
    <3>2. CASE Collect
      BY <2>1, <3>2, CollectInv
    <3>3. CASE SendPacket
      BY <2>1, <3>3, SendPacketInv
    <3>4. CASE LinkLost
      BY <2>1, <3>4, LinkLostInv
    <3>5. CASE WorkerDeletes
      BY <2>1, <3>5, WorkerDeletesInv
    <3>6. CASE WorkerFrees
      BY <2>1, <3>6, WorkerFreesInv
    <3>7. CASE WorkerPurges
      BY <2>1, <3>7, WorkerPurgesInv
    <3>. QED
      BY <2>7, <3>1, <3>2, <3>3, <3>4, <3>5, <3>6, <3>7 DEF Run
  <2>8. CASE LinkChanges
    BY <2>1, <2>8, LinkChangesInv
  <2>9. CASE Transmit
    BY <2>1, <2>9, TransmitInv
  <2>. QED
    BY <2>1, <2>2, <2>3, <2>4, <2>5, <2>6, <2>7, <2>8, <2>9 DEF Step
<1>2. CASE UNCHANGED vars
  <2>1. UNCHANGED <<blocks, timers, pool, locked, task, worker, jobs, packets, txQueue,
                    connected, asked, ticking, overlap>>
    BY <1>2 DEF vars, tables, outside
  <2>2. TypeOK'
    BY <2>1 DEF Inv, TypeOK
  <2>3. AppendOK'
    BY <2>1, AppendKept DEF Inv, SameTask
  <2>4. ASSUME ~overlap'
        PROVE  Sound'
    <3>1. Sound
      BY <2>1, <2>4 DEF Inv
    <3>2. \E L : TablesOK(L)' /\ RequestOK(L)'
      BY <2>1, <3>1, TablesKept DEF SameTask
    <3>3. ~Overlaps'
      BY <2>1, <3>1 DEF Sound, Overlaps
    <3>4. WorkerOK' /\ ResetOK' /\ TimersOK'
      BY <2>1, <3>1 DEF Sound, WorkerOK, ResetOK, TimersOK
    <3>. QED
      BY <3>2, <3>3, <3>4 DEF Sound
  <2>. QED
    BY <2>2, <2>3, <2>4 DEF Inv
<1>3. CASE Next /\ TimersFollow
  <2>1. NoOverlap
    BY <1>3 DEF Next, TimersFollow, NoOverlap
  <2>. QED
    BY <1>3, <2>1, TimersFollowInv
<1>. QED
  BY <1>1, <1>2, <1>3 DEF Next

\* The inductive invariant holds at every state the log can get to.
THEOREM Invariance == Spec => []Inv
<1>1. Init => Inv
  BY InitInv
<1>2. Inv /\ [Next]_vars => Inv'
  BY NextInv
<1>. QED
  BY <1>1, <1>2, PTL DEF Spec

-----------------------------------------------------------------------------
(* The tables                                                                *)

LEMMA SoundTables ==
  ASSUME Inv, ~overlap
  PROVE  PoolIsSound /\ TimersOfLiveBlocks
<1>1. PICK L : TablesOK(L)
  BY DEF Inv, Sound
<1>2. pool \in Pool /\ LiveBlocks = Occupied(blocks)
  BY PoolIsTyped DEF Inv, LiveBlocks, Live, Occupied
<1>3. Lists(blocks, pool, L) /\ InUse(pool) = Held(blocks, L) \cup Linking
  BY <1>1 DEF TablesOK
<1>4. ASSUME NEW b \in LiveBlocks
      PROVE  Chain(pool, blocks[b].ops) = L[b] /\ IsList(pool, blocks[b].ops, L[b])
  <2>1. IsList(pool, blocks[b].ops, L[b])
    BY <1>2, <1>3 DEF Lists
  <2>. QED
    BY <1>2, <2>1, ChainOfList
<1>5. \A b \in LiveBlocks : ListOf(b) = Ops(L[b])
  BY <1>4 DEF ListOf
<1>6. ASSUME NEW b \in LiveBlocks
      PROVE  Ends(pool, blocks[b].ops)
  <2>1. L[b] # <<>> => Len(L[b]) \in 1 .. Len(L[b])
    BY <1>4 DEF IsList
  <2>2. L[b] # <<>> => pool[L[b][Len(L[b])]].next = Null
    BY <1>4, <2>1 DEF IsList
  <2>. QED
    BY <1>4, <2>2 DEF Ends
<1>7. \A b, c \in LiveBlocks : b # c => ListOf(b) \cap ListOf(c) = {}
  BY <1>2, <1>3, <1>5 DEF Lists
<1>8. Held(blocks, L) = UNION {ListOf(b) : b \in LiveBlocks}
  BY <1>2, <1>5 DEF Held
<1>9. ListsAreSound
  <2>1. {o \in Op : pool[o].variable # Null} =
          (UNION {ListOf(b) : b \in LiveBlocks}) \cup {o \in Op : task.at = "link" /\ task.op = o}
    BY <1>3, <1>8 DEF InUse, Linking
  <2>. QED
    BY <1>6, <1>7, <2>1 DEF ListsAreSound
<1>10. \A b \in Block : timers[b] = "running" => Live(b)
  BY DEF Inv, Sound, TimersOK, Occupied, Live
<1>. QED
  BY <1>9, <1>10 DEF PoolIsSound, TimersOfLiveBlocks

LEMMA NumbersOfInv ==
  ASSUME Inv
  PROVE  NumbersAgree
<1>. SUFFICES ASSUME task.at = "link", pool[task.op].variable \notin {Memory, Null}
              PROVE  LET item == TocItem(Current.id)
                     IN  item # <<>> /\ VarId(item[1], item[2]) = pool[task.op].variable
  BY DEF NumbersAgree
<1>1. pool[task.op].variable = Asked(Current).variable
  BY DEF Inv, AppendOK, Storing
<1>2. Asked(Current).variable \in {Memory, VariableIndex(Current.id)}
  BY DEF Asked, Reading, ReadingV2
<1>3. pool[task.op].variable = VariableIndex(Current.id) /\ VariableIndex(Current.id) # Null
  BY <1>1, <1>2
<1>. QED
  BY <1>3, WalksAgree

\* Unless the worker has reset the log in the middle of a request, no operation is
\* lost or in two lists, the lists end, timers belong to blocks; and the three
\* walks over the table of contents always agree (log.c:216, 286-305, 520, 650).
THEOREM TablesAreSound == Spec => []LogIsSound
<1>1. Inv => LogIsSound
  <2>. SUFFICES ASSUME Inv
                PROVE  LogIsSound
    OBVIOUS
  <2>1. TypeOK /\ NumbersAgree
    BY NumbersOfInv DEF Inv
  <2>2. CASE overlap
    BY <2>1, <2>2 DEF LogIsSound, PoolIsSound, TimersOfLiveBlocks
  <2>3. CASE ~overlap
    BY <2>1, <2>3, SoundTables DEF LogIsSound
  <2>. QED
    BY <2>2, <2>3
<1>. QED
  BY <1>1, Invariance, PTL

-----------------------------------------------------------------------------
(* Packets                                                                   *)

\* What append accepted never is dropped.
LEMMA PacketOfList ==
  ASSUME NEW p \in Pool, NEW first, NEW q, IsList(p, first, q), FitsWhole(ItemsOf(p, q))
  PROVE  PacketOf(p, first) = Items(p, first)
<1>1. Items(p, first) = ItemsOf(p, q)
  BY ItemsOfList
<1>. DEFINE items == Items(p, first)
            full == {k \in DOMAIN items :
                       ~HasRoom(Total(SubSeq(items, 1, k - 1)), items[k].length)}
<1>2. DOMAIN items = 1 .. Len(ItemsOf(p, q))
  <2>1. q \in Seq(Op)
    BY DEF IsList
  <2>. QED
    BY <1>1, <2>1, ItemsOfSeq DEF ItemsOf
<1>3. \A k \in DOMAIN items : HasRoom(Total(SubSeq(items, 1, k - 1)), items[k].length)
  BY <1>1, <1>2 DEF FitsWhole, HasRoom
<1>4. full = {}
  BY <1>3
<1>. HIDE DEF items
<1>. QED
  BY <1>4 DEF PacketOf, items

\* A packet has the number of its block and every value of it, unless the block has
\* been deleted or the log reset meanwhile (log.c:514, 724, 853-863).
THEOREM PacketsAreWhole == Spec => PacketIsWhole
<1>1. Inv /\ [Next]_vars =>
        [(worker.at = "lock" /\ worker'.at = "send") =>
           LET b == worker.block
           IN  \/ overlap
               \/ worker.outdated
               \/ /\ packets'.id = blocks[b].id
                  /\ packets'.items \in {Items(pool, blocks[b].ops), Items(pool, worker.ops)}
        ]_vars
  <2>. SUFFICES ASSUME Inv, Next, worker.at = "lock", worker'.at = "send",
                       ~overlap, ~worker.outdated
                PROVE  /\ packets'.id = blocks[worker.block].id
                       /\ packets'.items \in {Items(pool, blocks[worker.block].ops),
                                              Items(pool, worker.ops)}
    OBVIOUS
  <2>1. worker \in WorkerState
    BY DEF Inv, TypeOK
  <2>2. Collect
    <3>1. worker' # worker
      OBVIOUS
    <3>2. ~(worker'.at = worker.at)
      OBVIOUS
    <3>3. Step
      BY <3>1 DEF Next, TimersFollow
    <3>4. ~(Delete \/ ResetCommand)
      <4>1. \A gone : Outdate(gone) => worker'.at = worker.at
        BY <2>1, OutdateType
      <4>. QED
        BY <3>2, <4>1 DEF Delete, ResetCommand
    <3>5. ~Control
      BY <3>1, <3>4 DEF Control, Create, FindBlock, AppendRoundV1, AppendRoundV2, AppendRound,
           Link, Appended, Start, Stop, AnswerToc, Unknown
    <3>6. ~(TakeJob \/ SendPacket \/ LinkLost \/ WorkerDeletes \/ WorkerFrees \/ WorkerPurges)
      BY NoTask DEF TakeJob, SendPacket, LinkLost, WorkerDeletes, WorkerFrees, WorkerPurges
    <3>7. ~((\E r \in Request : Receive(r)) \/ Lock \/ Answer \/ (\E b \in Block : TimerFires(b))
            \/ LinkChanges \/ Transmit)
      BY <3>1 DEF Receive, Lock, Answer, TimerFires, LinkChanges, Transmit
    <3>. QED
      BY <3>3, <3>5, <3>6, <3>7 DEF Step, Run
  <2>3. packets' = [id |-> blocks[worker.block].id, items |-> PacketOf(pool, worker.ops)]
    BY <2>2 DEF Collect
  <2>4. PICK L : Lists(blocks, pool, L)
    BY DEF Inv, Sound, TablesOK
  <2>5. worker.block \in Occupied(blocks) /\ worker.ops \in {Null, blocks[worker.block].ops}
    BY DEF Inv, Sound, WorkerOK
  <2>6. pool \in Pool
    BY PoolIsTyped DEF Inv
  <2>7. PacketOf(pool, worker.ops) = Items(pool, worker.ops)
    <3>1. CASE worker.ops = Null
      BY <2>6, <3>1, EmptyList, PacketOfList
    <3>2. CASE worker.ops = blocks[worker.block].ops
      <4>1. /\ IsList(pool, worker.ops, L[worker.block])
            /\ FitsWhole(ItemsOf(pool, L[worker.block]))
        BY <2>4, <2>5, <3>2 DEF Lists
      <4>. QED
        BY <2>6, <4>1, PacketOfList
    <3>. QED
      BY <2>5, <3>1, <3>2
  <2>. QED
    BY <2>3, <2>7
<1>. QED
  BY <1>1, Invariance, PTL DEF Spec, PacketIsWhole

-----------------------------------------------------------------------------
(* Requests                                                                  *)

\* A request for settings that is answered with success has stored all of them at
\* the end of its block (log.c:509-552).
THEOREM SuccessMeansStored == Spec => SuccessIsStored
<1>1. Inv /\ [Next]_vars =>
        [(task.at = "append" /\ task'.at = "answer") =>
           LET found == WithId(task.request.id)
           IN  \/ overlap
               \/ task'.ret # "ok"
               \/ /\ found # {}
                  /\ \E done \in Len(Settings) .. Len(Settings) + 2 :
                       Stored(Items(pool, blocks[Least(found)].ops), done)
        ]_vars
  <2>. DEFINE found == WithId(task.request.id)
              items == Items(pool, blocks[Least(found)].ops)
  <2>. SUFFICES ASSUME Inv, Next, task.at = "append", task'.at = "answer",
                       ~overlap, task'.ret = "ok"
                PROVE  /\ found # {}
                       /\ \E done \in Len(Settings) .. Len(Settings) + 2 : Stored(items, done)
    OBVIOUS
  <2>. HIDE DEF found, items
  <2>1. task.done >= Len(Settings)
    <3>1. Step /\ task' # task
      BY DEF Next, TimersFollow
    <3>2. CASE Appended
      BY <3>2 DEF Appended
    <3>3. CASE AppendRoundV1 \/ AppendRoundV2
      <4>1. PICK v, x : AppendRound(v, x)
        BY <3>3 DEF AppendRoundV1, AppendRoundV2
      <4>2. \/ task' = [at |-> "link", request |-> task.request, block |-> task.block,
                        done |-> task.done, op |-> Least(FreeOps)]
            \/ \E ret \in {"E2BIG", "ENOMEM", "ENOENT"} : Finish(ret)
        BY <4>1 DEF AppendRound
      <4>. QED
        BY <4>2 DEF Finish
    <3>4. CASE Control /\ ~Appended /\ ~(AppendRoundV1 \/ AppendRoundV2)
      BY <3>4 DEF Control, Create, FindBlock, Link, Delete, Start, Stop, ResetCommand, AnswerToc,
         Unknown, Asks
    <3>5. CASE (\E r \in Request : Receive(r)) \/ Lock \/ Answer
      BY <3>5, NoTask DEF Receive, Lock, Answer
    <3>6. CASE (\E b \in Block : TimerFires(b)) \/ LinkChanges \/ Transmit
      BY <3>1, <3>6 DEF TimerFires, LinkChanges, Transmit
    <3>7. CASE Run
      BY <3>1, <3>7, NoTask DEF Run, TakeJob, Collect, SendPacket, LinkLost, WorkerDeletes,
         WorkerFrees, WorkerPurges
    <3>. QED
      BY <3>1, <3>2, <3>3, <3>4, <3>5, <3>6, <3>7 DEF Step
  <2>2. PICK L : TablesOK(L) /\ RequestOK(L)
    BY DEF Inv, Sound
  <2>3. /\ task.block \in Occupied(blocks) /\ blocks[task.block].id = task.request.id
        /\ Stored(ItemsOf(pool, L[task.block]), task.done)
    BY <2>2 DEF RequestOK, Storing
  <2>4. task.request.id \in Id
    BY RequestHasId DEF Inv, AppendOK, Storing
  <2>5. Lists(blocks, pool, L) /\ pool \in Pool /\ task.block \in WithId(task.request.id)
    BY <2>2, <2>3, PoolIsTyped DEF Inv, TablesOK, WithId, Occupied
  <2>6. found # {} /\ Least(found) = task.block
    BY <2>4, <2>5, OneWithId DEF found
  <2>7. items = ItemsOf(pool, L[task.block])
    <3>1. IsList(pool, blocks[task.block].ops, L[task.block])
      BY <2>3, <2>5 DEF Lists
    <3>. QED
      BY <2>5, <2>6, <3>1, ItemsOfList DEF items
  <2>8. task.done \in Len(Settings) .. Len(Settings) + 2
    <3>1. task.done <= Len(Settings) + 2 /\ task.request.cmd \in Appends
      BY DEF Inv, AppendOK, Storing
    <3>2. Settings \in SettingList /\ task.done \in Nat
      BY <3>1, RequestHasId, TaskFields DEF Inv, TypeOK
    <3>3. Len(Settings) \in Nat
      BY <3>2, SettingFields
    <3>. QED
      BY <2>1, <3>1, <3>2, <3>3
  <2>9. Stored(items, task.done)
    BY <2>3, <2>7
  <2>. QED
    BY <2>6, <2>8, <2>9
<1>. QED
  BY <1>1, Invariance, PTL DEF Spec, SuccessIsStored

-----------------------------------------------------------------------------
(* The configuration that a client sees                                      *)

Ids(t) == {t[b].id : b \in Occupied(t)}

ConfigBy(t, p) ==
  [i \in Ids(t) |-> Items(p, t[Least({b \in Block : t[b].id = i})].ops)]

LEMMA OpsAreFinite == IsFiniteSet(Op) /\ Cardinality(Op) = MaxOps
BY FS_Interval, NumberAssumption DEF Op

LEMMA BlocksAreFinite == IsFiniteSet(Block) /\ Cardinality(Block) = MaxBlocks
BY FS_Interval, NumberAssumption DEF Block

LEMMA ConfigValues ==
  ASSUME NEW t \in Table, NEW p \in Pool, NEW L, Lists(t, p, L)
  PROVE  /\ DOMAIN ConfigBy(t, p) = Ids(t)
         /\ \A b \in Occupied(t) :
              t[b].id \in Ids(t) /\ ConfigBy(t, p)[t[b].id] = ItemsOf(p, L[b])
<1>1. ASSUME NEW b \in Occupied(t)
      PROVE  t[b].id \in Ids(t) /\ ConfigBy(t, p)[t[b].id] = ItemsOf(p, L[b])
  <2>1. t[b].id \in Ids(t)
    BY DEF Ids
  <2>2. {c \in Block : t[c].id = t[b].id} = {b}
    BY DEF Lists, Occupied
  <2>3. Least({c \in Block : t[c].id = t[b].id}) = b
    BY <2>2, LeastOfOne DEF Occupied, Block
  <2>4. ConfigBy(t, p)[t[b].id] = Items(p, t[b].ops)
    BY <2>1, <2>3 DEF ConfigBy
  <2>5. IsList(p, t[b].ops, L[b])
    BY DEF Lists
  <2>. QED
    BY <2>1, <2>4, <2>5, ItemsOfList
<1>2. DOMAIN ConfigBy(t, p) = Ids(t)
  BY DEF ConfigBy
<1>. QED
  BY <1>1, <1>2

\* A function on the numbers of the blocks is known by its values there.
LEMMA ConfigIs ==
  ASSUME NEW t \in Table, NEW p \in Pool, NEW f, f = [i \in DOMAIN f |-> f[i]],
         DOMAIN f = Ids(t), \A b \in Occupied(t) : ConfigBy(t, p)[t[b].id] = f[t[b].id]
  PROVE  ConfigBy(t, p) = f
<1>1. \A i \in Ids(t) : \E b \in Occupied(t) : i = t[b].id
  BY DEF Ids
<1>2. \A i \in Ids(t) : ConfigBy(t, p)[i] = f[i]
  BY <1>1
<1>3. DOMAIN ConfigBy(t, p) = Ids(t) /\ ConfigBy(t, p) = [i \in Ids(t) |-> ConfigBy(t, p)[i]]
  BY DEF ConfigBy
<1>4. ConfigBy(t, p) = [i \in Ids(t) |-> f[i]]
  BY <1>2, <1>3
<1>. QED
  BY <1>4

\* What is done to operations that no block holds.
LEMMA ConfigSame ==
  ASSUME NEW t \in Table, NEW p \in Pool, NEW L, Lists(t, p, L),
         NEW r \in Pool, Lists(t, r, L),
         \A o \in Held(t, L) : r[o] = p[o]
  PROVE  ConfigBy(t, r) = ConfigBy(t, p)
<1>1. ASSUME NEW b \in Occupied(t)
      PROVE  ConfigBy(t, r)[t[b].id] = ConfigBy(t, p)[t[b].id]
  <2>1. L[b] \in Seq(Op) /\ \A o \in Ops(L[b]) : r[o] = p[o]
    BY DEF Lists, Occupied, Held
  <2>2. ItemsOf(r, L[b]) = ItemsOf(p, L[b])
    BY <2>1, ItemsKept
  <2>. QED
    BY <2>2, ConfigValues
<1>2. DOMAIN ConfigBy(t, p) = Ids(t)
      /\ ConfigBy(t, p) = [i \in DOMAIN ConfigBy(t, p) |-> ConfigBy(t, p)[i]]
  BY DEF ConfigBy
<1>. QED
  BY <1>1, <1>2, ConfigIs

\* g is f with an empty block i, which is new.
Created(f, i, g) ==
  /\ i \notin DOMAIN f
  /\ Cardinality(DOMAIN f) < MaxBlocks
  /\ g = [j \in DOMAIN f \cup {i} |-> IF j = i THEN <<>> ELSE f[j]]

\* A block that is new is empty.
LEMMA ConfigCreate ==
  ASSUME NEW t \in Table, NEW p \in Pool, NEW L, Lists(t, p, L),
         NEW b \in Block \ Occupied(t), NEW i \in Id, \A c \in Block : t[c].id # i,
         NEW u \in Table, u[b] = [id |-> i, ops |-> Null], \A c \in Block \ {b} : u[c] = t[c]
  PROVE  Created(ConfigBy(t, p), i, ConfigBy(u, p))
<1>. DEFINE f == ConfigBy(t, p)
            g == [j \in Ids(t) \cup {i} |-> IF j = i THEN <<>> ELSE f[j]]
            M == [L EXCEPT ![b] = <<>>]
<1>1. DOMAIN f = Ids(t) /\ \A c \in Occupied(t) : c \in Block /\ t[c].id # i
  BY ConfigValues DEF Occupied
<1>2. i \notin Ids(t)
  BY <1>1 DEF Ids
<1>3. Cardinality(Ids(t)) < MaxBlocks
  <2>. DEFINE h == [j \in Ids(t) |-> CHOOSE c \in Occupied(t) : t[c].id = j]
  <2>1. \A j \in Ids(t) : h[j] \in Occupied(t) /\ t[h[j]].id = j
    BY DEF Ids
  <2>. HIDE DEF h
  <2>2. h \in [Ids(t) -> Block \ {b}]
    <3>1. h = [j \in Ids(t) |-> h[j]]
      BY DEF h
    <3>. QED
      BY <1>1, <2>1, <3>1
  <2>3. h \in Injection(Ids(t), Block \ {b})
    BY <2>1, <2>2 DEF Injection, IsInjective
  <2>4. IsFiniteSet(Block) /\ Cardinality(Block) = MaxBlocks
    BY BlocksAreFinite
  <2>5. IsFiniteSet(Block \ {b}) /\ Cardinality(Block \ {b}) = MaxBlocks - 1
    BY <2>4, FS_RemoveElement
  <2>6. Cardinality(Ids(t)) <= MaxBlocks - 1 /\ IsFiniteSet(Ids(t))
    BY <2>3, <2>5, FS_Injection
  <2>. QED
    BY <2>6, FS_CardinalityType, NumberAssumption
<1>4. Lists(u, p, M) /\ Occupied(u) = Occupied(t) \cup {b}
  BY ListsCreate
<1>5. /\ u[b].id = i /\ M[b] = <<>>
      /\ \A c \in Occupied(t) : u[c] = t[c] /\ M[c] = L[c]
  BY DEF Lists, Occupied
<1>. HIDE DEF M
<1>6. Ids(u) = Ids(t) \cup {i}
  BY <1>4, <1>5 DEF Ids
<1>7. ASSUME NEW c \in Occupied(u)
      PROVE  ConfigBy(u, p)[u[c].id] = g[u[c].id]
  <2>1. ConfigBy(u, p)[u[c].id] = ItemsOf(p, M[c]) /\ u[c].id \in Ids(u)
    BY <1>4, ConfigValues
  <2>2. CASE c = b
    <3>1. ItemsOf(p, <<>>) = <<>>
      BY DEF ItemsOf
    <3>. QED
      BY <1>5, <1>6, <2>1, <2>2, <3>1
  <2>3. CASE c # b
    <3>1. c \in Occupied(t)
      BY <1>4, <2>3
    <3>2. f[t[c].id] = ItemsOf(p, L[c])
      BY <3>1, ConfigValues
    <3>. QED
      BY <1>1, <1>5, <1>6, <2>1, <3>1, <3>2
  <2>. QED
    BY <2>2, <2>3
<1>8. DOMAIN g = Ids(u) /\ g = [j \in DOMAIN g |-> g[j]]
  BY <1>6
<1>. HIDE DEF g
<1>9. ConfigBy(u, p) = g
  BY <1>7, <1>8, ConfigIs
<1>. QED
  BY <1>1, <1>2, <1>3, <1>9 DEF Created, g

\* What becomes of a configuration when blocks go, and when one gets an item.
Without(f, lost) == [j \in DOMAIN f \ lost |-> f[j]]
Extended(f, i, item) == [f EXCEPT ![i] = Append(@, item)]

IdsOf(t, gone) == {t[b].id : b \in gone}

\* Blocks that go take their items along.
LEMMA ConfigForget ==
  ASSUME NEW t \in Table, NEW p \in Pool, NEW L, Lists(t, p, L), NEW gone \in SUBSET Occupied(t),
         NEW u \in Table, NEW r \in Pool, Lists(u, r, L), Occupied(u) = Occupied(t) \ gone,
         \A b \in Block \ gone : u[b] = t[b],
         \A o \in Held(u, L) : r[o] = p[o]
  PROVE  ConfigBy(u, r) = Without(ConfigBy(t, p), IdsOf(t, gone))
<1>. DEFINE f == ConfigBy(t, p)
            lost == IdsOf(t, gone)
            g == [j \in Ids(t) \ lost |-> f[j]]
<1>1. DOMAIN f = Ids(t)
  BY ConfigValues
<1>2. ASSUME NEW b \in Occupied(u)
      PROVE  /\ b \in Occupied(t) /\ u[b] = t[b] /\ b \notin gone /\ b \in Block
             /\ t[b].id \notin lost
  <2>1. b \in Occupied(t) /\ u[b] = t[b] /\ b \notin gone /\ b \in Block
    BY DEF Occupied
  <2>2. \A c \in gone : t[c].id # t[b].id
    BY <2>1 DEF Lists
  <2>. QED
    BY <2>1, <2>2 DEF IdsOf
<1>3. Ids(u) = Ids(t) \ lost
  <2>1. \A b \in Occupied(t) : t[b].id \notin lost => b \in Occupied(u)
    BY DEF IdsOf
  <2>. HIDE DEF lost
  <2>. QED
    BY <1>2, <2>1 DEF Ids
<1>4. ASSUME NEW b \in Occupied(u)
      PROVE  ConfigBy(u, r)[u[b].id] = g[u[b].id]
  <2>1. ConfigBy(u, r)[u[b].id] = ItemsOf(r, L[b]) /\ u[b].id \in Ids(u)
    BY ConfigValues
  <2>2. f[t[b].id] = ItemsOf(p, L[b])
    BY <1>2, ConfigValues
  <2>3. L[b] \in Seq(Op) /\ \A o \in Ops(L[b]) : r[o] = p[o]
    BY <1>2 DEF Lists, Held
  <2>4. ItemsOf(r, L[b]) = ItemsOf(p, L[b])
    BY <2>3, ItemsKept
  <2>5. g[u[b].id] = f[u[b].id]
    BY <1>3, <2>1
  <2>. QED
    BY <1>2, <2>1, <2>2, <2>4, <2>5
<1>5. DOMAIN g = Ids(u) /\ g = [j \in DOMAIN g |-> g[j]]
  BY <1>3
<1>. HIDE DEF g
<1>6. ConfigBy(u, r) = g
  BY <1>4, <1>5, ConfigIs
<1>. QED
  BY <1>1, <1>6 DEF g, Without

\* A block that gets an operation gets its item, last.
LEMMA ConfigLink ==
  ASSUME NEW t \in Table, NEW p \in Pool, NEW L, NEW b, NEW o, NEW u \in Table, NEW r, NEW M,
         Linked(t, p, L, b, o, u, r, M)
  PROVE  LET f == ConfigBy(t, p)
         IN  /\ t[b].id \in DOMAIN f /\ f[t[b].id] = ItemsOf(p, L[b])
             /\ ConfigBy(u, r) = Extended(f, t[b].id, ItemAt(p, o))
<1>. DEFINE f == ConfigBy(t, p)
            i == t[b].id
            g == [f EXCEPT ![i] = Append(@, ItemAt(p, o))]
<1>1. Lists(t, p, L) /\ b \in Occupied(t) /\ b \in Block
  BY DEF Linked, Occupied
<1>2. /\ r \in Pool /\ Lists(u, r, M) /\ Occupied(u) = Occupied(t)
      /\ ItemsOf(r, M[b]) = Append(ItemsOf(p, L[b]), ItemAt(p, o))
      /\ \A c \in Occupied(t) \ {b} : ItemsOf(r, M[c]) = ItemsOf(p, L[c])
  BY ListsLink
<1>3. \A c \in Occupied(t) : c \in Block /\ u[c].id = t[c].id
  BY DEF Linked, Occupied
<1>4. Ids(u) = Ids(t)
  BY <1>2, <1>3 DEF Ids
<1>5. DOMAIN f = Ids(t) /\ i \in Ids(t) /\ f[i] = ItemsOf(p, L[b])
      /\ \A c \in Occupied(t) : t[c].id \in Ids(t) /\ f[t[c].id] = ItemsOf(p, L[c])
  BY <1>1, ConfigValues
<1>6. f = [j \in DOMAIN f |-> f[j]]
  BY DEF ConfigBy
<1>. HIDE DEF f, i
<1>7. DOMAIN g = Ids(u) /\ g = [j \in DOMAIN g |-> g[j]]
      /\ g[i] = Append(f[i], ItemAt(p, o))
      /\ \A j \in Ids(t) \ {i} : g[j] = f[j]
  BY <1>4, <1>5, <1>6
<1>. HIDE DEF g
<1>8. ASSUME NEW c \in Occupied(u)
      PROVE  ConfigBy(u, r)[u[c].id] = g[u[c].id]
  <2>1. ConfigBy(u, r)[u[c].id] = ItemsOf(r, M[c])
    BY <1>2, ConfigValues
  <2>2. CASE c = b
    BY <1>2, <1>3, <1>5, <1>7, <2>1, <2>2 DEF i
  <2>3. CASE c # b
    <3>1. c \in Occupied(t) /\ t[c].id # t[b].id
      BY <1>1, <1>2, <2>3 DEF Lists
    <3>. QED
      BY <1>2, <1>3, <1>5, <1>7, <2>1, <2>3, <3>1 DEF i
  <2>. QED
    BY <2>2, <2>3
<1>9. ConfigBy(u, r) = g
  BY <1>2, <1>7, <1>8, ConfigIs
<1>. QED
  BY <1>5, <1>9 DEF g, f, i, Extended

\* The places that are taken in a configuration, and the operations behind them.
Taken(f) ==
  {q \in {<<i, n>> : i \in DOMAIN f, n \in 1 .. MaxOps} : q[2] <= Len(f[q[1]])}

LEMMA TakenAreHeld ==
  ASSUME NEW t \in Table, NEW p \in Pool, NEW L, Lists(t, p, L), NEW o \in Op \ Held(t, L)
  PROVE  Cardinality(Taken(ConfigBy(t, p))) < MaxOps
<1>. DEFINE f == ConfigBy(t, p)
            at(i) == CHOOSE b \in Occupied(t) : t[b].id = i
            U == Taken(f)
            g == [q \in U |-> L[at(q[1])][q[2]]]
<1>1. DOMAIN f = Ids(t) /\ \A b \in Occupied(t) : f[t[b].id] = ItemsOf(p, L[b])
  BY ConfigValues
<1>2. \A i \in Ids(t) : at(i) \in Occupied(t) /\ t[at(i)].id = i
  BY DEF Ids
<1>. HIDE DEF at, f
<1>3. \A b \in Occupied(t) : L[b] \in Seq(Op) /\ Len(L[b]) = Len(ItemsOf(p, L[b]))
  <2>1. \A b \in Occupied(t) : L[b] \in Seq(Op)
    BY DEF Lists, Occupied
  <2>. QED
    BY <2>1, ItemsOfSeq
<1>4. ASSUME NEW q \in U
      PROVE  \E i \in Ids(t), n \in Nat :
               /\ q = <<i, n>> /\ n \in 1 .. Len(L[at(i)])
               /\ at(i) \in Occupied(t) /\ t[at(i)].id = i
               /\ g[q] = L[at(i)][n] /\ g[q] \in Ops(L[at(i)]) /\ g[q] \in Op \ {o}
  <2>1. PICK i \in Ids(t), n \in 1 .. MaxOps : q = <<i, n>> /\ n <= Len(f[i])
    BY <1>1 DEF Taken
  <2>2. at(i) \in Occupied(t) /\ t[at(i)].id = i
    BY <1>2
  <2>3. f[i] = ItemsOf(p, L[at(i)])
    BY <1>1, <2>2
  <2>4. L[at(i)] \in Seq(Op) /\ n \in 1 .. Len(L[at(i)]) /\ n \in Nat
    BY <1>3, <2>1, <2>2, <2>3
  <2>5. g[q] = L[at(i)][n]
    BY <2>1
  <2>. HIDE DEF g
  <2>6. g[q] \in Ops(L[at(i)]) /\ g[q] \in Op
    BY <2>4, <2>5 DEF Ops
  <2>7. g[q] # o
    BY <2>2, <2>6 DEF Held
  <2>. QED
    BY <2>1, <2>2, <2>4, <2>5, <2>6, <2>7
<1>5. g \in [U -> Op \ {o}]
  BY <1>4
<1>. HIDE DEF g
<1>6. ASSUME NEW q \in U, NEW s \in U, g[q] = g[s]
      PROVE  q = s
  <2>1. PICK i \in Ids(t), n \in Nat :
          /\ q = <<i, n>> /\ n \in 1 .. Len(L[at(i)])
          /\ at(i) \in Occupied(t) /\ t[at(i)].id = i
          /\ g[q] = L[at(i)][n] /\ g[q] \in Ops(L[at(i)])
    BY <1>4
  <2>2. PICK j \in Ids(t), m \in Nat :
          /\ s = <<j, m>> /\ m \in 1 .. Len(L[at(j)])
          /\ at(j) \in Occupied(t) /\ t[at(j)].id = j
          /\ g[s] = L[at(j)][m] /\ g[s] \in Ops(L[at(j)])
    BY <1>4
  <2>3. at(i) = at(j)
    BY <1>6, <2>1, <2>2 DEF Lists
  <2>4. i = j
    BY <2>1, <2>2, <2>3
  <2>5. IsList(p, t[at(i)].ops, L[at(i)])
    BY <2>1 DEF Lists
  <2>6. n = m
    BY <1>6, <2>1, <2>2, <2>3, <2>5 DEF IsList
  <2>. QED
    BY <2>1, <2>2, <2>4, <2>6
<1>7. g \in Injection(U, Op \ {o})
  BY <1>5, <1>6 DEF Injection, IsInjective
<1>8. IsFiniteSet(Op \ {o}) /\ Cardinality(Op \ {o}) = MaxOps - 1
  BY OpsAreFinite, FS_RemoveElement
<1>. HIDE DEF U
<1>9. Cardinality(U) <= MaxOps - 1 /\ IsFiniteSet(U)
  BY <1>7, <1>8, FS_Injection
<1>10. Cardinality(U) < MaxOps
  BY <1>9, FS_CardinalityType, NumberAssumption
<1>. QED
  BY <1>10 DEF U, f

\* A step of a configuration, or none.
Changes(f, g) ==
  \/ g = f
  \/ \E i \in Id : Created(f, i, g)
  \/ \E i \in DOMAIN f, item \in [variable : DOMAIN Toc \cup {Memory}, length : Lengths] :
       /\ Total(f[i]) + item.length <= MaxLength
       /\ Cardinality(Taken(f)) < MaxOps
       /\ g = Extended(f, i, item)
  \/ \E i \in DOMAIN f : g = Without(f, {i})
  \/ g = Without(f, DOMAIN f)

ConfigChanges == Changes(ConfigBy(blocks, pool), ConfigBy(blocks', pool'))

LEMMA CreateChanges ==
  ASSUME Inv, ~overlap, Create
  PROVE  ConfigChanges
<1>. DEFINE i == task.request.id
            b == Least(Block \ LiveBlocks)
<1>1. i \in Id
  BY RequestHasId DEF Create, Asks, Appends
<1>2. blocks \in Table /\ pool \in Pool /\ pool' = pool
  BY PoolIsTyped DEF Inv, Create, tables
<1>3. CASE WithId(i) # {} \/ LiveBlocks = Block
  BY <1>2, <1>3 DEF Create, tables, ConfigChanges, Changes
<1>4. CASE ~(WithId(i) # {} \/ LiveBlocks = Block)
  <2>1. PICK c \in Block \ Occupied(blocks) : c = b
    <3>1. Block \ LiveBlocks \in SUBSET Nat /\ Block \ LiveBlocks # {}
      BY <1>4 DEF Block, LiveBlocks
    <3>. QED
      BY <3>1, LeastIsLeast DEF LiveBlocks, Live, Occupied
  <2>2. blocks' = [blocks EXCEPT ![c] = [id |-> i, ops |-> Null]]
    BY <1>4, <2>1 DEF Create
  <2>. HIDE DEF i, b
  <2>3. /\ blocks' \in Table /\ blocks'[c] = [id |-> i, ops |-> Null]
        /\ \A d \in Block \ {c} : blocks'[d] = blocks[d]
    BY <1>1, <1>2, <2>2 DEF Table, OpOrNull
  <2>4. \A d \in Block : blocks[d].id # i
    BY <1>4 DEF WithId
  <2>5. PICK L : Lists(blocks, pool, L)
    BY DEF Inv, Sound, TablesOK
  <2>. DEFINE f == ConfigBy(blocks, pool)
  <2>6. Created(f, i, ConfigBy(blocks', pool))
    <3>1. PICK t \in Table, u \in Table, p \in Pool : t = blocks /\ u = blocks' /\ p = pool
      BY <1>2, <2>3
    <3>2. /\ Lists(t, p, L) /\ c \in Block \ Occupied(t) /\ \A d \in Block : t[d].id # i
          /\ u[c] = [id |-> i, ops |-> Null] /\ \A d \in Block \ {c} : u[d] = t[d]
      BY <2>1, <2>3, <2>4, <2>5, <3>1
    <3>3. Created(ConfigBy(t, p), i, ConfigBy(u, p))
      BY <1>1, <3>2, ConfigCreate
    <3>. QED
      BY <3>1, <3>3
  <2>. HIDE DEF f
  <2>7. Changes(f, ConfigBy(blocks', pool))
    BY <1>1, <2>6 DEF Changes
  <2>. QED
    BY <1>2, <2>7 DEF ConfigChanges, f
<1>. QED
  BY <1>3, <1>4

LEMMA AppendRoundChanges ==
  ASSUME Inv, ~overlap, NEW version2, NEW variable, AppendRound(version2, variable),
         variable = Asked(Current).variable
  PROVE  ConfigChanges
<1>1. blocks \in Table /\ pool \in Pool /\ blocks' = blocks
  BY PoolIsTyped DEF Inv, AppendRound
<1>2. CASE pool' = pool
  BY <1>1, <1>2 DEF ConfigChanges, Changes
<1>3. CASE pool' # pool
  <2>1. PICK x \in Op : x = Least(FreeOps) /\ pool[x].variable = Null
    BY <1>3, LeastFree DEF AppendRound
  <2>2. pool' = [pool EXCEPT ![x].variable = variable, ![x].length = Current.length]
    BY <1>3, <2>1 DEF AppendRound
  <2>3. variable \in DOMAIN Toc \cup {Memory, Null} /\ Current.length \in Lengths
    BY CurrentFields DEF AppendRound
  <2>4. pool' \in Pool /\ \A y \in Op \ {x} : pool'[y] = pool[y]
    BY <1>1, <2>2, <2>3 DEF Pool
  <2>5. PICK L : TablesOK(L)
    BY DEF Inv, Sound
  <2>6. Lists(blocks, pool, L) /\ InUse(pool) = Held(blocks, L)
    BY <2>5 DEF TablesOK, Linking, AppendRound
  <2>7. \A y \in Held(blocks, L) : pool'[y] = pool[y]
    BY <2>1, <2>4, <2>6 DEF InUse
  <2>8. Lists(blocks, pool', L)
    BY <1>1, <2>4, <2>6, <2>7, ListsKept
  <2>9. ConfigBy(blocks, pool') = ConfigBy(blocks, pool)
    BY <1>1, <2>4, <2>6, <2>7, <2>8, ConfigSame
  <2>. QED
    BY <1>1, <2>9 DEF ConfigChanges, Changes
<1>. QED
  BY <1>2, <1>3

LEMMA LinkConfigChanges ==
  ASSUME Inv, ~overlap, Link
  PROVE  ConfigChanges
<1>1. PICK L : TablesOK(L) /\ RequestOK(L)
  BY DEF Inv, Sound
<1>2. PICK b, o, M : b = task.block /\ o = task.op /\ Linked(blocks, pool, L, b, o, blocks', pool', M)
  BY <1>1, LinkIsLinked
<1>3. task.at = "link" /\ task \in TaskState
  BY DEF Link, Inv, TypeOK
<1>4. pool \in Pool /\ blocks \in Table
  BY PoolIsTyped DEF Inv
<1>5. /\ b \in Block /\ o \in Op \ Held(blocks, L) /\ Lists(blocks, pool, L)
      /\ HasPlace(pool, L[b], o)
  BY <1>2 DEF Linked, Occupied
<1>6. blocks' \in Table
  BY <1>3, <1>4, TaskFields DEF Link, Table, OpOrNull
<1>. DEFINE f == ConfigBy(blocks, pool)
            i == blocks[b].id
            item == ItemAt(pool, o)
<1>7. /\ i \in DOMAIN f /\ f[i] = ItemsOf(pool, L[b])
      /\ ConfigBy(blocks', pool') = Extended(f, i, item)
  BY <1>2, <1>4, <1>6, ConfigLink
<1>8. Cardinality(Taken(f)) < MaxOps
  BY <1>4, <1>5, TakenAreHeld
<1>9. item \in [variable : DOMAIN Toc \cup {Memory}, length : Lengths]
  <2>1. item = Asked(Current) /\ task.done < Len(Settings)
    BY <1>1, <1>2, <1>3 DEF RequestOK, Storing, Inv, AppendOK
  <2>2. Asked(Current).variable \in DOMAIN Toc \cup {Memory, Null} /\ Current.length \in Lengths
    BY <1>3, <2>1, CurrentFields
  <2>3. Asked(Current).variable # Null
    BY <1>3 DEF Inv, AppendOK, Storing
  <2>. HIDE DEF item
  <2>. QED
    BY <2>1, <2>2, <2>3 DEF Asked
<1>10. Total(f[i]) + item.length <= MaxLength
  BY <1>5, <1>7 DEF HasPlace, ItemAt
<1>. HIDE DEF f, i, item
<1>11. Changes(f, ConfigBy(blocks', pool'))
  BY <1>7, <1>8, <1>9, <1>10 DEF Changes
<1>. QED
  BY <1>11 DEF ConfigChanges, f

\* At most one block goes.
LEMMA DeleteChanges ==
  ASSUME Inv, ~overlap, task.at # "link",
         NEW gone \in SUBSET Occupied(blocks), DeleteBlocks(gone),
         gone = {} \/ \E b \in gone : gone = {b}
  PROVE  ConfigChanges
<1>1. PICK L : TablesOK(L)
  BY DEF Inv, Sound
<1>2. pool \in Pool /\ blocks \in Table /\ gone \in SUBSET Block /\ Lists(blocks, pool, L)
  BY <1>1, PoolIsTyped DEF Inv, TablesOK, Occupied
<1>3. blocks' \in Table /\ pool' \in Pool /\ \A b \in Block \ gone : blocks'[b] = blocks[b]
  BY <1>2, DeleteType DEF Inv
<1>4. /\ Lists(blocks', pool', L) /\ Occupied(blocks') = Occupied(blocks) \ gone
      /\ \A o \in Held(blocks', L) : pool'[o] = pool[o]
  BY <1>1, DeleteLists
<1>. DEFINE f == ConfigBy(blocks, pool)
            lost == IdsOf(blocks, gone)
<1>5. ConfigBy(blocks', pool') = Without(f, lost)
  BY <1>2, <1>3, <1>4, ConfigForget
<1>6. f = [j \in DOMAIN f |-> f[j]] /\ \A b \in gone : blocks[b].id \in DOMAIN f
  BY DEF ConfigBy, Ids
<1>7. lost = {} \/ \E b \in gone : lost = {blocks[b].id}
  BY DEF IdsOf
<1>. HIDE DEF f, lost
<1>8. CASE lost = {}
  <2>1. DOMAIN f \ lost = DOMAIN f
    BY <1>8
  <2>2. ConfigBy(blocks', pool') = f
    BY <1>5, <1>6, <2>1 DEF Without
  <2>. QED
    BY <2>2 DEF ConfigChanges, Changes, f
<1>9. CASE \E b \in gone : lost = {blocks[b].id}
  <2>1. PICK i \in DOMAIN f : lost = {i}
    BY <1>6, <1>9
  <2>2. Changes(f, ConfigBy(blocks', pool'))
    BY <1>5, <2>1 DEF Changes
  <2>. QED
    BY <2>2 DEF ConfigChanges, f
<1>. QED
  BY <1>7, <1>8, <1>9

LEMMA FreeChanges ==
  ASSUME Inv, ~overlap, pool' = ForceFree(pool), blocks' = NoIds(blocks)
  PROVE  ConfigChanges
<1>1. /\ blocks' \in Table /\ pool' \in Pool /\ Occupied(blocks') = {}
  BY FreeType DEF Inv
<1>. DEFINE f == ConfigBy(blocks, pool)
            g == Without(f, DOMAIN f)
<1>2. Ids(blocks') = {}
  BY <1>1 DEF Ids
<1>3. DOMAIN g = Ids(blocks') /\ g = [j \in DOMAIN g |-> g[j]]
  BY <1>2 DEF Without
<1>. HIDE DEF f, g
<1>4. ConfigBy(blocks', pool') = g
  BY <1>1, <1>3, ConfigIs
<1>5. Changes(f, g)
  BY DEF Changes, g
<1>. QED
  BY <1>4, <1>5 DEF ConfigChanges, f

LEMMA StepChanges ==
  ASSUME Inv, ~overlap, Next
  PROVE  ConfigChanges
<1>1. Step \/ UNCHANGED <<blocks, pool>>
  BY DEF Next, TimersFollow, tables
<1>2. CASE UNCHANGED <<blocks, pool>>
  BY <1>2 DEF ConfigChanges, Changes
<1>3. CASE ~UNCHANGED <<blocks, pool>>
  <2>1. \/ Create \/ AppendRoundV1 \/ AppendRoundV2 \/ Link \/ Delete \/ ResetCommand
        \/ WorkerDeletes \/ WorkerFrees
    BY <1>1, <1>3 DEF Step, Receive, Lock, Control, Answer, TimerFires, Run, LinkChanges, Transmit,
       FindBlock, Appended, Start, Stop, AnswerToc, Unknown, TakeJob, Collect, SendPacket, LinkLost,
       WorkerPurges, tables
  <2>2. CASE Create
    BY <2>2, CreateChanges
  <2>3. CASE AppendRoundV1
    <3>1. AppendRound(FALSE, Reading(Current.id)) /\ ~IsV2
      BY <2>3 DEF AppendRoundV1, AppendRound, IsV2
    <3>2. Asked(Current).variable = Reading(Current.id)
      BY <3>1 DEF Asked
    <3>. QED
      BY <3>1, <3>2, AppendRoundChanges
  <2>4. CASE AppendRoundV2
    <3>1. AppendRound(TRUE, ReadingV2(Current.id)) /\ IsV2
      BY <2>4 DEF AppendRoundV2, AppendRound, IsV2
    <3>2. Asked(Current).variable = ReadingV2(Current.id)
      BY <3>1 DEF Asked
    <3>. QED
      BY <3>1, <3>2, AppendRoundChanges
  <2>5. CASE Link
    BY <2>5, LinkConfigChanges
  <2>6. CASE Delete
    <3>. DEFINE gone == WithId(task.request.id)
    <3>1. task.at = "run" /\ task.request.id \in Id /\ DeleteBlocks(gone)
      BY <2>6, RequestHasId DEF Delete, Asks
    <3>2. gone \in SUBSET Occupied(blocks)
      BY <3>1, FoundIsOccupied
    <3>3. PICK L : Lists(blocks, pool, L)
      BY DEF Inv, Sound, TablesOK
    <3>4. gone = {} \/ \E b \in gone : gone = {b}
      BY <3>1, <3>3, OneWithId
    <3>. HIDE DEF gone
    <3>. QED
      BY <3>1, <3>2, <3>4, DeleteChanges
  <2>7. CASE ResetCommand
    BY <2>7, FreeChanges DEF ResetCommand
  <2>8. CASE WorkerDeletes
    <3>. DEFINE gone == {worker.block} \cap LiveBlocks
    <3>1. worker.at = "reset" /\ DeleteBlocks(gone)
      BY <2>8 DEF WorkerDeletes
    <3>2. task.at # "link"
      BY <3>1 DEF Inv, Sound, Overlaps
    <3>3. gone \in SUBSET Occupied(blocks) /\ (gone = {} \/ \E b \in gone : gone = {b})
      BY DEF LiveBlocks, Live, Occupied
    <3>. HIDE DEF gone
    <3>. QED
      BY <3>1, <3>2, <3>3, DeleteChanges
  <2>9. CASE WorkerFrees
    BY <2>9, FreeChanges DEF WorkerFrees
  <2>. QED
    BY <2>1, <2>2, <2>3, <2>4, <2>5, <2>6, <2>7, <2>8, <2>9
<1>. QED
  BY <1>2, <1>3

LEMMA ConfigNow ==
  /\ ConfigOfBlocks = IF overlap THEN [i \in {} |-> <<>>] ELSE ConfigBy(blocks, pool)
  /\ ConfigOfBlocks' = IF overlap' THEN [i \in {} |-> <<>>] ELSE ConfigBy(blocks', pool')
BY DEF ConfigOfBlocks, ConfigBy, Ids, Occupied, LiveBlocks, Live, WithId

\* The instance has the library's operators under names of its own.
LEMMA CardinalityIsOne == \A S : Config!Cardinality(S) = Cardinality(S)
BY DEF Config!Cardinality, Cardinality, Config!IsFiniteSet, IsFiniteSet

LEMMA ChangesAreSteps ==
  ASSUME ~overlap, ~overlap', overlap' = overlap, Changes(ConfigOfBlocks, ConfigOfBlocks')
  PROVE  [Config!ConfigNext]_Config!configVars
<1>. DEFINE f == ConfigOfBlocks
            g == ConfigOfBlocks'
<1>1. CASE g = f
  BY <1>1 DEF Config!configVars
<1>2. CASE \E i \in Id : Created(f, i, g)
  <2>1. PICK i \in Id : Created(f, i, g)
    BY <1>2
  <2>2. Config!NewBlock(i)
    BY <2>1, CardinalityIsOne DEF Config!NewBlock, Created
  <2>. QED
    BY <2>2 DEF Config!ConfigNext, Config!ConfigStep
<1>3. CASE \E i \in DOMAIN f, item \in [variable : DOMAIN Toc \cup {Memory}, length : Lengths] :
             /\ Total(f[i]) + item.length <= MaxLength
             /\ Cardinality(Taken(f)) < MaxOps
             /\ g = Extended(f, i, item)
  <2>1. PICK i \in DOMAIN f, item \in [variable : DOMAIN Toc \cup {Memory}, length : Lengths] :
             /\ Total(f[i]) + item.length <= MaxLength
             /\ Cardinality(Taken(f)) < MaxOps
             /\ g = Extended(f, i, item)
    BY <1>3
  <2>2. Config!Length(f[i]) = Total(f[i])
    BY DEF Config!Length, Total, LengthOf
  <2>3. Config!Used = Cardinality(Taken(f))
    <3>1. Config!Places = {<<j, n>> : j \in DOMAIN f, n \in 1 .. MaxOps}
      BY DEF Config!Places
    <3>2. Config!Used = Cardinality({q \in Config!Places : q[2] <= Len(f[q[1]])})
      BY CardinalityIsOne DEF Config!Used
    <3>. QED
      BY <3>1, <3>2 DEF Taken
  <2>4. Config!AddItem(i, item)
    BY <2>1, <2>2, <2>3 DEF Config!AddItem, Extended
  <2>. QED
    BY <2>4 DEF Config!ConfigNext, Config!ConfigStep
<1>4. CASE \E i \in DOMAIN f : g = Without(f, {i})
  <2>1. \E i \in DOMAIN f : Config!Forget({i})
    BY <1>4 DEF Config!Forget, Without
  <2>. QED
    BY <2>1 DEF Config!ConfigNext, Config!ConfigStep
<1>5. CASE g = Without(f, DOMAIN f)
  <2>1. Config!Forget(DOMAIN f)
    BY <1>5 DEF Config!Forget, Without
  <2>. QED
    BY <2>1 DEF Config!ConfigNext, Config!ConfigStep
<1>. QED
  BY <1>1, <1>2, <1>3, <1>4, <1>5 DEF Changes

\* What the client has configured is what LogConfig promises: blocks come and go as
\* a whole, items come one by one and last, within the limits of a packet, of the
\* blocks and of the pool.
THEOREM ConfigIsImplemented == Spec => ImplementsConfig
<1>1. Init => Config!ConfigInit
  <2>. SUFFICES ASSUME Init
                PROVE  Config!ConfigInit
    OBVIOUS
  <2>1. overlap = FALSE /\ Occupied(blocks) = {}
    BY DEF Init, Occupied
  <2>2. ConfigBy(blocks, pool) = [i \in {} |-> <<>>]
    <3>1. Ids(blocks) = {}
      BY <2>1 DEF Ids
    <3>. QED
      BY <3>1 DEF ConfigBy
  <2>. QED
    BY <2>1, <2>2, ConfigNow DEF Config!ConfigInit
<1>2. Inv /\ [Next]_vars => [Config!ConfigNext]_Config!configVars
  <2>. SUFFICES ASSUME Inv, [Next]_vars
                PROVE  [Config!ConfigNext]_Config!configVars
    OBVIOUS
  <2>1. CASE UNCHANGED vars
    <3>1. UNCHANGED <<blocks, pool, overlap>>
      BY <2>1 DEF vars, tables
    <3>. QED
      BY <3>1, ConfigNow DEF Config!configVars
  <2>2. CASE Next
    <3>1. overlap \in BOOLEAN /\ overlap' \in BOOLEAN /\ (overlap => overlap')
      <4>1. overlap' = (overlap \/ Overlaps')
        BY <2>2 DEF Next
      <4>2. overlap \in BOOLEAN
        BY DEF Inv, TypeOK
      <4>. QED
        BY <4>1, <4>2 DEF Overlaps
    <3>2. CASE overlap
      <4>1. overlap' = overlap /\ ConfigOfBlocks' = ConfigOfBlocks
        BY <3>1, <3>2, ConfigNow
      <4>. QED
        BY <4>1 DEF Config!configVars
    <3>3. CASE ~overlap /\ overlap'
      <4>1. overlap' = TRUE /\ ConfigOfBlocks' = [i \in {} |-> <<>>]
        BY <3>1, <3>3, ConfigNow
      <4>. QED
        BY <3>3, <4>1 DEF Config!ConfigNext, Config!Spoil
    <3>4. CASE ~overlap /\ ~overlap'
      <4>1. ConfigChanges
        BY <2>2, <3>4, StepChanges
      <4>2. ConfigOfBlocks = ConfigBy(blocks, pool) /\ ConfigOfBlocks' = ConfigBy(blocks', pool')
        BY <3>4, ConfigNow
      <4>3. overlap' = overlap
        BY <3>1, <3>4
      <4>. QED
        BY <3>4, <4>1, <4>2, <4>3, ChangesAreSteps DEF ConfigChanges
    <3>. QED
      BY <3>1, <3>2, <3>3, <3>4
  <2>. QED
    BY <2>1, <2>2
<1>. QED
  BY <1>1, <1>2, Invariance, PTL DEF Spec, ImplementsConfig, Config!ConfigSpec
=============================================================================
