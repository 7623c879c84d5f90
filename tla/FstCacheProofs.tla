--------------------------- MODULE FstCacheProofs ---------------------------
(***************************************************************************)
(* Proofs about the state cache of lazy machines (FstCache), for every     *)
(* finite machine, every set of arc iterators, and every scenario of       *)
(* options, copies and numbers of threads that FstCache allows: the cached *)
(* states are those of the machine computed, however they were collected,  *)
(* used again and copied; a state an iterator points to stays; a request   *)
(* answers for the state it was made for; and the size that garbage        *)
(* collection compares with its limit is the size of what it counts.       *)
(*                                                                         *)
(* CacheInv is the inductive invariant.  StoreOK is about the slots of the *)
(* store: slot 0 belongs to the first state while there is one, the list   *)
(* has each slot once (Shape), the size is the sum of the sizes of what    *)
(* has been counted (Exact) and at most the limit (Sized), and garbage     *)
(* collection is on once the first cache has been given up (Settled).      *)
(* Content says of each slot that it has the final weight and the arcs of  *)
(* the state that owns it, IteratorsOK that its reference count is the     *)
(* number of iterators that point to it, BaseOK and WalkOK that what is    *)
(* known and expanded is in the table of discovered states.  Each call of  *)
(* the store is followed through the states between its steps, where less  *)
(* holds: a slot is not counted yet, or is larger than its count.          *)
(* The loops (collection over the list, the doubling of the limit, the     *)
(* copy of the list, the search of a state, the rounds of the state        *)
(* iterator) are folds, and each has the lemma its rounds preserve.        *)
(***************************************************************************)
EXTENDS FstCache, NumberTheorems, FiniteSetTheorems, SequenceTheorems

-----------------------------------------------------------------------------
(* Stores.                                                                 *)

FinalValues(sc) == {0} \cup {sc.fst.final[n] : n \in DOMAIN sc.fst.next}
CachedStates(sc) == [final : FinalValues(sc), arcs : Seq(Nat), flags : SUBSET Flag, refs : Nat]
SlotMaps(sc) == UNION {[D -> CachedStates(sc)] : D \in SUBSET Nat}

Stores(sc) ==
  [slots : SlotMaps(sc), list : Seq(Nat), firstGc : BOOLEAN, firstId : Nat \cup {kNoStateId},
   gc : BOOLEAN, size : Nat, limit : Nat]

LEMMA MapsOfSlots ==
  ASSUME NEW sc, NEW f
  PROVE  f \in SlotMaps(sc) <=> /\ f = [i \in DOMAIN f |-> f[i]] /\ DOMAIN f \in SUBSET Nat
                                /\ \A i \in DOMAIN f : f[i] \in CachedStates(sc)
<1>1. ASSUME f \in SlotMaps(sc)
      PROVE  /\ f = [i \in DOMAIN f |-> f[i]] /\ DOMAIN f \in SUBSET Nat
             /\ \A i \in DOMAIN f : f[i] \in CachedStates(sc)
  <2>1. PICK D \in SUBSET Nat : f \in [D -> CachedStates(sc)] BY <1>1 DEF SlotMaps
  <2> QED BY <2>1
<1>2. ASSUME f = [i \in DOMAIN f |-> f[i]], DOMAIN f \in SUBSET Nat,
             \A i \in DOMAIN f : f[i] \in CachedStates(sc)
      PROVE  f \in SlotMaps(sc)
  <2>1. f \in [DOMAIN f -> CachedStates(sc)] BY <1>2
  <2> QED BY <1>2, <2>1 DEF SlotMaps
<1> QED BY <1>1, <1>2

\* The cached state st is put into slot i.
Put(c, i, st) == [c EXCEPT !.slots[i] = st]

LEMMA PutFields ==
  ASSUME NEW sc, NEW c \in Stores(sc), NEW i, NEW st
  PROVE  LET d == Put(c, i, st)
         IN  /\ DOMAIN d.slots = DOMAIN c.slots
             /\ \A j \in DOMAIN c.slots : d.slots[j] = IF j = i THEN st ELSE c.slots[j]
             /\ d.list = c.list /\ d.firstGc = c.firstGc /\ d.firstId = c.firstId
             /\ d.gc = c.gc /\ d.size = c.size /\ d.limit = c.limit
             /\ st \in CachedStates(sc) => d \in Stores(sc)
<1> DEFINE d == Put(c, i, st)
           f == [c.slots EXCEPT ![i] = st]
<1>1. /\ d.slots = f /\ d.list = c.list /\ d.firstGc = c.firstGc /\ d.firstId = c.firstId
      /\ d.gc = c.gc /\ d.size = c.size /\ d.limit = c.limit
  BY DEF Put, Stores
<1>2. DOMAIN f = DOMAIN c.slots OBVIOUS
<1>3. \A j \in DOMAIN c.slots : f[j] = IF j = i THEN st ELSE c.slots[j] OBVIOUS
<1>4. ASSUME st \in CachedStates(sc) PROVE d \in Stores(sc)
  <2>1. c.slots \in SlotMaps(sc) BY DEF Stores
  <2>2. DOMAIN c.slots \in SUBSET Nat /\ \A j \in DOMAIN c.slots : c.slots[j] \in CachedStates(sc)
    BY <2>1, MapsOfSlots
  <2>3. f = [j \in DOMAIN f |-> f[j]] OBVIOUS
  <2>4. \A j \in DOMAIN f : f[j] \in CachedStates(sc) BY <1>2, <1>3, <1>4, <2>2
  <2>5. f \in SlotMaps(sc)
    <3> HIDE DEF f
    <3> QED BY <1>2, <2>2, <2>3, <2>4, MapsOfSlots
  <2>6. d = [c EXCEPT !.slots = f] BY DEF Put, Stores
  <2> HIDE DEF f, d
  <2> QED BY <2>5, <2>6 DEF Stores
<1> QED BY <1>1, <1>2, <1>3, <1>4
LEMMA SlotsOfStore ==
  ASSUME NEW sc, NEW c \in Stores(sc)
  PROVE  /\ DOMAIN c.slots \in SUBSET Nat
         /\ \A i \in DOMAIN c.slots :
              /\ c.slots[i] \in CachedStates(sc)
              /\ c.slots[i].arcs \in Seq(Nat) /\ Len(c.slots[i].arcs) \in Nat
              /\ DOMAIN c.slots[i].arcs = 1..Len(c.slots[i].arcs)
              /\ c.slots[i].flags \in SUBSET Flag /\ c.slots[i].refs \in Nat
<1>1. c.slots \in SlotMaps(sc) BY DEF Stores
<1>2. DOMAIN c.slots \in SUBSET Nat /\ \A j \in DOMAIN c.slots : c.slots[j] \in CachedStates(sc)
  BY <1>1, MapsOfSlots
<1> QED BY <1>2 DEF CachedStates

-----------------------------------------------------------------------------
(* The size of cached states.                                              *)

LEMMA ArcsOfFinite ==
  ASSUME NEW sc, NEW c \in Stores(sc), NEW S \in SUBSET DOMAIN c.slots, IsFiniteSet(S)
  PROVE  IsFiniteSet(ArcsOf(c, S))
<1> DEFINE f == [i \in S |-> {i} \X DOMAIN c.slots[i].arcs]
           T == {{i} \X DOMAIN c.slots[i].arcs : i \in S}
<1>1. f \in Surjection(S, T)
  <2>1. f \in [S -> T] OBVIOUS
  <2>2. \A t \in T : \E i \in S : f[i] = t OBVIOUS
  <2> HIDE DEF f, T
  <2> QED BY <2>1, <2>2 DEF Surjection
<1>2. IsFiniteSet(T)
  <2> HIDE DEF f, T
  <2> QED BY <1>1, FS_Surjection
<1>3. ASSUME NEW t \in T PROVE IsFiniteSet(t)
  <2>1. PICK i \in S : t = {i} \X DOMAIN c.slots[i].arcs BY <1>3
  <2>2. DOMAIN c.slots[i].arcs = 1..Len(c.slots[i].arcs) /\ Len(c.slots[i].arcs) \in Nat
    BY SlotsOfStore
  <2>3. IsFiniteSet(1..Len(c.slots[i].arcs)) BY <2>2, FS_Interval
  <2>4. IsFiniteSet({i}) BY FS_Singleton
  <2> QED BY <2>1, <2>2, <2>3, <2>4, FS_Product
<1>4. IsFiniteSet(UNION T)
  <2> HIDE DEF T
  <2> QED BY <1>2, <1>3, FS_UNION
<1> QED BY <1>4 DEF ArcsOf

LEMMA SizeType ==
  ASSUME NEW sc, NEW c \in Stores(sc), NEW i \in DOMAIN c.slots
  PROVE  Size(c.slots[i]) \in Nat /\ Size(c.slots[i]) >= StateSize
<1>1. Len(c.slots[i].arcs) \in Nat /\ StateSize \in Nat /\ ArcSize \in Nat
  BY SlotsOfStore, CacheAssumption
<1>2. Len(c.slots[i].arcs) * ArcSize \in Nat BY <1>1
<1> QED BY <1>1, <1>2 DEF Size

LEMMA SizeOfType ==
  ASSUME NEW sc, NEW c \in Stores(sc), NEW S \in SUBSET DOMAIN c.slots, IsFiniteSet(S)
  PROVE  SizeOf(c, S) \in Nat
<1>1. Cardinality(S) \in Nat BY FS_CardinalityType
<1>2. Cardinality(ArcsOf(c, S)) \in Nat BY ArcsOfFinite, FS_CardinalityType
<1>3. StateSize \in Nat /\ ArcSize \in Nat BY CacheAssumption
<1> DEFINE m == Cardinality(S)
           n == Cardinality(ArcsOf(c, S))
<1>4. m \in Nat /\ n \in Nat BY <1>1, <1>2
<1>5. StateSize * m + ArcSize * n \in Nat
  <2> HIDE DEF m, n
  <2> QED BY <1>3, <1>4
<1> QED BY <1>5 DEF SizeOf

LEMMA SizeOfNone ==
  ASSUME NEW c
  PROVE  SizeOf(c, {}) = 0
<1>1. ArcsOf(c, {}) = {} BY DEF ArcsOf
<1>2. Cardinality({}) = 0 BY FS_EmptySet
<1>3. StateSize * 0 + ArcSize * 0 = 0
  <2>1. StateSize \in Nat /\ ArcSize \in Nat BY CacheAssumption
  <2> QED BY <2>1
<1> QED BY <1>1, <1>2, <1>3 DEF SizeOf

\* A cached state adds its size.
LEMMA SizeOfMore ==
  ASSUME NEW sc, NEW c \in Stores(sc), NEW S \in SUBSET DOMAIN c.slots, IsFiniteSet(S),
         NEW i \in DOMAIN c.slots, i \notin S
  PROVE  SizeOf(c, S \cup {i}) = SizeOf(c, S) + Size(c.slots[i])
<1> DEFINE A == ArcsOf(c, S)
           B == {i} \X DOMAIN c.slots[i].arcs
           n == Len(c.slots[i].arcs)
<1>1. ArcsOf(c, S \cup {i}) = A \cup B BY DEF ArcsOf
<1>2. A \cap B = {}
  <2> SUFFICES ASSUME NEW e \in A, e \in B PROVE FALSE OBVIOUS
  <2>1. PICK j \in S : e \in {j} \X DOMAIN c.slots[j].arcs BY DEF ArcsOf
  <2> QED BY <2>1
<1>3. n \in Nat /\ DOMAIN c.slots[i].arcs = 1..n BY SlotsOfStore
<1>4. IsFiniteSet(B) /\ Cardinality(B) = n
  <2>1. IsFiniteSet(1..n) /\ Cardinality(1..n) = n
    <3>1. IsFiniteSet(1..n) /\ Cardinality(1..n) = IF 1 > n THEN 0 ELSE n - 1 + 1
      BY <1>3, FS_Interval
    <3> HIDE DEF n
    <3> QED BY <1>3, <3>1
  <2>2. IsFiniteSet({i}) /\ Cardinality({i}) = 1 BY FS_Singleton
  <2>3. IsFiniteSet({i} \X (1..n)) /\ Cardinality({i} \X (1..n)) = 1 * n
    BY <2>1, <2>2, FS_Product
  <2> HIDE DEF n
  <2> QED BY <1>3, <2>3
<1>5. IsFiniteSet(A) BY ArcsOfFinite
<1>6. Cardinality(A \cup B) = Cardinality(A) + n
  <2>1. Cardinality(A \cup B) = Cardinality(A) + Cardinality(B) - Cardinality(A \cap B)
    BY <1>4, <1>5, FS_Union
  <2>2. Cardinality(A \cap B) = 0 BY <1>2, FS_EmptySet
  <2>3. Cardinality(A) \in Nat BY <1>5, FS_CardinalityType
  <2> HIDE DEF A, B, n
  <2> QED BY <1>3, <1>4, <2>1, <2>2, <2>3
<1>7. Cardinality(S \cup {i}) = Cardinality(S) + 1 /\ Cardinality(S) \in Nat
  BY FS_AddElement, FS_CardinalityType
<1>8. Cardinality(A) \in Nat BY <1>5, FS_CardinalityType
<1>9. StateSize \in Nat /\ ArcSize \in Nat BY CacheAssumption
<1>10. SizeOf(c, S \cup {i}) = StateSize * (Cardinality(S) + 1) + ArcSize * (Cardinality(A) + n)
  BY <1>1, <1>6, <1>7 DEF SizeOf
<1>11. SizeOf(c, S) = StateSize * Cardinality(S) + ArcSize * Cardinality(A) BY DEF SizeOf
<1>12. Size(c.slots[i]) = StateSize + n * ArcSize BY DEF Size
<1>13. ASSUME NEW a \in Nat, NEW b \in Nat, NEW k \in Nat, NEW x \in Nat, NEW y \in Nat
       PROVE  x * (a + 1) + y * (b + k) = (x * a + y * b) + (x + k * y)
  <2>1. x * (a + 1) = x * a + x /\ y * (b + k) = y * b + k * y BY <1>13
  <2>2. x * a \in Nat /\ y * b \in Nat /\ k * y \in Nat BY <1>13
  <2> QED BY <2>1, <2>2
<1> HIDE DEF A, B, n
<1> QED BY <1>3, <1>7, <1>8, <1>9, <1>10, <1>11, <1>12, <1>13

\* Only the arcs of the states matter.
LEMMA SizeOfSame ==
  ASSUME NEW c, NEW d, NEW S, \A i \in S : c.slots[i].arcs = d.slots[i].arcs
  PROVE  SizeOf(c, S) = SizeOf(d, S)
<1>1. ArcsOf(c, S) = ArcsOf(d, S) BY DEF ArcsOf
<1> QED BY <1>1 DEF SizeOf

\* What is left when a cached state is taken away.
LEMMA SizeOfLess ==
  ASSUME NEW sc, NEW c \in Stores(sc), NEW S \in SUBSET DOMAIN c.slots, IsFiniteSet(S),
         NEW i \in S
  PROVE  /\ SizeOf(c, S) = SizeOf(c, S \ {i}) + Size(c.slots[i])
         /\ SizeOf(c, S \ {i}) \in Nat
<1> DEFINE T == S \ {i}
<1>1. T \in SUBSET DOMAIN c.slots /\ i \notin T /\ i \in DOMAIN c.slots /\ T \cup {i} = S OBVIOUS
<1>2. IsFiniteSet(T) BY FS_RemoveElement
<1> HIDE DEF T
<1>3. SizeOf(c, T) \in Nat BY <1>1, <1>2, SizeOfType
<1>4. SizeOf(c, T \cup {i}) = SizeOf(c, T) + Size(c.slots[i]) BY <1>1, <1>2, SizeOfMore
<1> QED BY <1>1, <1>3, <1>4 DEF T
-----------------------------------------------------------------------------
(* What holds of a store between the steps of a call, and between calls.   *)

\* The state whose data a slot holds.
Owner(c, i) == IF i = 0 THEN c.firstId ELSE i - 1

Distinct(list) == \A j, k \in DOMAIN list : list[j] = list[k] => j = k

\* The first cached state is the one in slot 0, until it is collected; slots are
\* listed once.
Shape(sc, c) ==
  /\ c \in Stores(sc) /\ IsFiniteSet(DOMAIN c.slots) /\ c.limit >= 2
  /\ c.firstId # kNoStateId <=> 0 \in DOMAIN c.slots
  /\ c.firstId # kNoStateId => c.firstId + 1 \notin DOMAIN c.slots
  /\ c.firstGc => /\ DOMAIN c.slots \subseteq {0} /\ ~c.gc
                  /\ \A i \in DOMAIN c.slots : "Init" \in c.slots[i].flags
  /\ c.gc => sc.options.gc
  /\ IF sc.options.gc THEN Distinct(c.list) /\ ToSet(c.list) = DOMAIN c.slots
     ELSE c.list = <<>>

Exact(c) == c.size = IF c.gc THEN SizeOf(c, Counting(c)) ELSE 0

\* What garbage collection keeps of the slot i.
AsBefore(c, d, i) ==
  /\ i \in DOMAIN c.slots /\ i \in DOMAIN d.slots
  /\ Owner(d, i) = Owner(c, i)
  /\ d.slots[i].final = c.slots[i].final /\ d.slots[i].arcs = c.slots[i].arcs
  /\ d.slots[i].refs = c.slots[i].refs
  /\ \A f \in {"Final", "Arcs"} : f \in d.slots[i].flags <=> f \in c.slots[i].flags

Alike(c, d, i) ==
  AsBefore(c, d, i) /\ ("Init" \in d.slots[i].flags <=> "Init" \in c.slots[i].flags)

-----------------------------------------------------------------------------
(* Deleting a slot.                                                        *)

LEMMA RemovedFromList ==
  ASSUME NEW list \in Seq(Nat), Distinct(list), NEW i \in ToSet(list)
  PROVE  LET rest == RemoveAt(list, PositionOf(list, i))
         IN  rest \in Seq(Nat) /\ Distinct(rest) /\ ToSet(rest) = ToSet(list) \ {i}
<1> DEFINE k == PositionOf(list, i)
           n == Len(list)
           rest == RemoveAt(list, k)
<1>1. k \in 1..n /\ list[k] = i /\ n \in Nat
  <2>1. \E j \in DOMAIN list : list[j] = i BY DEF ToSet
  <2>2. k \in DOMAIN list /\ list[k] = i BY <2>1 DEF PositionOf
  <2> QED BY <2>2
<1> HIDE DEF k
<1>2. /\ SubSeq(list, 1, k-1) \in Seq(Nat) /\ SubSeq(list, k+1, n) \in Seq(Nat)
      /\ Len(SubSeq(list, 1, k-1)) = k - 1 /\ Len(SubSeq(list, k+1, n)) = n - k
      /\ \A j \in 1..k-1 : SubSeq(list, 1, k-1)[j] = list[j]
      /\ \A j \in 1..n-k : SubSeq(list, k+1, n)[j] = list[k+j]
  <2>1. 1..k-1 \subseteq DOMAIN list /\ k+1..n \subseteq DOMAIN list BY <1>1
  <2> QED BY <1>1, <2>1
<1>3. /\ rest \in Seq(Nat) /\ Len(rest) = n - 1
      /\ \A j \in 1..n-1 : rest[j] = IF j < k THEN list[j] ELSE list[j+1]
  <2>1. rest = SubSeq(list, 1, k-1) \o SubSeq(list, k+1, n) BY DEF RemoveAt
  <2> HIDE DEF rest, n
  <2> DEFINE a == SubSeq(list, 1, k-1)
             b == SubSeq(list, k+1, n)
  <2>0. a \in Seq(Nat) /\ b \in Seq(Nat) /\ rest = a \o b BY <1>2, <2>1
  <2>4. Len(a) = k - 1 /\ Len(b) = n - k BY <1>2
  <2>6. /\ rest \in Seq(Nat) /\ Len(rest) = Len(a) + Len(b)
        /\ \A j \in 1..Len(a) + Len(b) : rest[j] = IF j <= Len(a) THEN a[j] ELSE b[j - Len(a)]
    <3> HIDE DEF a, b
    <3> QED BY <2>0
  <2>2. rest \in Seq(Nat) /\ Len(rest) = Len(a) + Len(b) BY <2>6
  <2>3. \A j \in 1..Len(a) + Len(b) : rest[j] = IF j <= Len(a) THEN a[j] ELSE b[j - Len(a)]
    BY <2>6
  <2>5. ASSUME NEW j \in 1..n-1 PROVE rest[j] = IF j < k THEN list[j] ELSE list[j+1]
    <3>1. j \in 1..Len(a) + Len(b) BY <1>1, <2>4
    <3>2. CASE j < k
      <4>1. j \in 1..k-1 /\ j <= Len(a) BY <1>1, <2>4, <3>2
      <4> QED BY <1>2, <2>3, <3>1, <3>2, <4>1
    <3>3. CASE ~(j < k)
      <4>1. j - Len(a) \in 1..n-k /\ ~(j <= Len(a)) /\ k + (j - Len(a)) = j + 1
        BY <1>1, <2>4, <3>3
      <4>2. rest[j] = b[j - Len(a)] BY <2>3, <3>1, <4>1
      <4> QED BY <1>2, <3>3, <4>1, <4>2
    <3> QED BY <3>2, <3>3
  <2> HIDE DEF a, b
  <2> QED BY <1>1, <2>2, <2>4, <2>5
<1> DEFINE old(j) == IF j < k THEN j ELSE j + 1
<1>4. \A j \in 1..n-1 : old(j) \in 1..n /\ old(j) # k /\ rest[j] = list[old(j)]
  BY <1>1, <1>3
<1>5. DOMAIN rest = 1..n-1 /\ DOMAIN list = 1..n BY <1>1, <1>3
<1> HIDE DEF rest, n
<1>6. Distinct(rest)
  <2> SUFFICES ASSUME NEW j \in 1..n-1, NEW h \in 1..n-1, rest[j] = rest[h] PROVE j = h
    BY <1>5 DEF Distinct
  <2>1. old(j) = old(h) BY <1>4, <1>5 DEF Distinct
  <2> QED BY <1>1, <2>1
<1>7. ToSet(rest) = ToSet(list) \ {i}
  <2>1. ASSUME NEW e \in ToSet(rest) PROVE e \in ToSet(list) \ {i}
    <3>1. PICK j \in 1..n-1 : e = rest[j] BY <1>5 DEF ToSet
    <3>2. e = list[old(j)] /\ old(j) \in 1..n /\ old(j) # k BY <1>4, <3>1
    <3> HIDE DEF old
    <3>3. e # i BY <1>1, <1>5, <3>2 DEF Distinct
    <3> QED BY <1>5, <3>2, <3>3 DEF ToSet
  <2>2. ASSUME NEW e \in ToSet(list), e # i PROVE e \in ToSet(rest)
    <3>1. PICK j \in 1..n : e = list[j] BY <1>5 DEF ToSet
    <3>2. j # k BY <1>1, <2>2, <3>1
    <3>3. PICK h \in 1..n-1 : old(h) = j
      <4>1. CASE j < k
        <5>1. j \in 1..n-1 /\ old(j) = j BY <1>1, <4>1
        <5> QED BY <5>1
      <4>2. CASE j > k
        <5>1. j - 1 \in 1..n-1 /\ old(j-1) = j BY <1>1, <4>2
        <5> QED BY <5>1
      <4> QED BY <1>1, <3>2, <4>1, <4>2
    <3>4. rest[h] = e BY <1>4, <3>1, <3>3
    <3> QED BY <1>5, <3>4 DEF ToSet
  <2> QED BY <2>1, <2>2
<1> QED BY <1>3, <1>6, <1>7 DEF rest, k
LEMMA DeletedFields ==
  ASSUME NEW sc, NEW c \in Stores(sc), NEW i \in DOMAIN c.slots, i \in ToSet(c.list),
         Distinct(c.list)
  PROVE  LET d == Deleted(c, i)
         IN  /\ DOMAIN d.slots = DOMAIN c.slots \ {i}
             /\ \A j \in DOMAIN d.slots : d.slots[j] = c.slots[j]
             /\ Distinct(d.list) /\ ToSet(d.list) = ToSet(c.list) \ {i}
             /\ d.firstId = IF i = 0 THEN kNoStateId ELSE c.firstId
             /\ d.firstGc = c.firstGc /\ d.gc = c.gc /\ d.size = c.size /\ d.limit = c.limit
             /\ d \in Stores(sc)
<1> DEFINE d == Deleted(c, i)
           f == [j \in DOMAIN c.slots \ {i} |-> c.slots[j]]
           l == RemoveAt(c.list, PositionOf(c.list, i))
           g == IF i = 0 THEN kNoStateId ELSE c.firstId
<1>1. d = [c EXCEPT !.slots = f, !.list = l, !.firstId = g] BY DEF Deleted
<1>2. l \in Seq(Nat) /\ Distinct(l) /\ ToSet(l) = ToSet(c.list) \ {i}
  <2>1. c.list \in Seq(Nat) BY DEF Stores
  <2> QED BY <2>1, RemovedFromList
<1>3. DOMAIN f = DOMAIN c.slots \ {i} /\ \A j \in DOMAIN f : f[j] = c.slots[j] OBVIOUS
<1>4. f \in SlotMaps(sc)
  <2>1. f = [j \in DOMAIN f |-> f[j]] OBVIOUS
  <2>2. DOMAIN f \in SUBSET Nat /\ \A j \in DOMAIN f : f[j] \in CachedStates(sc)
    BY <1>3, SlotsOfStore
  <2> HIDE DEF f
  <2> QED BY <2>1, <2>2, MapsOfSlots
<1>5. g \in Nat \cup {kNoStateId} BY DEF Stores
<1> HIDE DEF d, f, l, g
<1>6. d.slots = f /\ d.list = l /\ d.firstId = g /\ d.firstGc = c.firstGc /\ d.gc = c.gc
      /\ d.size = c.size /\ d.limit = c.limit
  BY <1>1 DEF Stores
<1>7. d \in Stores(sc) BY <1>1, <1>2, <1>4, <1>5 DEF Stores
<1> QED BY <1>2, <1>3, <1>6, <1>7 DEF d, g

\* A state that is not in use is evicted, and its size taken off.
LEMMA EvictedKeeps ==
  ASSUME NEW sc, NEW c, Shape(sc, c), Exact(c), c.gc,
         NEW cur \in Counting(c), NEW i \in DOMAIN c.slots, i # cur
  PROVE  LET d == Evicted(c, i)
         IN  /\ Shape(sc, d) /\ Exact(d) /\ d.gc
             /\ DOMAIN d.slots = DOMAIN c.slots \ {i}
             /\ \A j \in DOMAIN d.slots : Alike(c, d, j)
             /\ d.limit = c.limit /\ d.size <= c.size
<1> DEFINE d == Evicted(c, i)
           e == Deleted(c, i)
           n == IF "Init" \in c.slots[i].flags /\ Size(c.slots[i]) < c.size
                  THEN c.size - Size(c.slots[i]) ELSE c.size
<1>1. /\ c \in Stores(sc) /\ Distinct(c.list) /\ ToSet(c.list) = DOMAIN c.slots
      /\ IsFiniteSet(DOMAIN c.slots) /\ sc.options.gc /\ ~c.firstGc
  BY DEF Shape
<1>2. /\ DOMAIN e.slots = DOMAIN c.slots \ {i}
      /\ \A j \in DOMAIN e.slots : e.slots[j] = c.slots[j]
      /\ Distinct(e.list) /\ ToSet(e.list) = ToSet(c.list) \ {i}
      /\ e.firstId = IF i = 0 THEN kNoStateId ELSE c.firstId
      /\ e.firstGc = c.firstGc /\ e.gc = c.gc /\ e.size = c.size /\ e.limit = c.limit
      /\ e \in Stores(sc)
  BY <1>1, DeletedFields
<1>3. c.size \in Nat /\ Size(c.slots[i]) \in Nat /\ n \in Nat /\ n <= c.size
  <2>1. c.size \in Nat BY <1>1 DEF Stores
  <2>2. Size(c.slots[i]) \in Nat BY <1>1, SizeType
  <2> QED BY <2>1, <2>2
<1>4. d = [e EXCEPT !.size = n]
  <2>1. d = [e EXCEPT !.size = IF "Init" \in c.slots[i].flags /\ Size(c.slots[i]) < e.size
                                 THEN e.size - Size(c.slots[i]) ELSE e.size] BY DEF Evicted
  <2> HIDE DEF d, e
  <2> QED BY <1>2, <2>1
<1> HIDE DEF d, e
<1>5. /\ d.slots = e.slots /\ d.list = e.list /\ d.firstGc = e.firstGc /\ d.firstId = e.firstId
      /\ d.gc = e.gc /\ d.size = n /\ d.limit = e.limit /\ d \in Stores(sc)
  <2> HIDE DEF n
  <2>1. e \in Stores(sc) /\ n \in Nat BY <1>2, <1>3
  <2> QED BY <1>4, <2>1 DEF Stores
<1>6. /\ DOMAIN d.slots = DOMAIN c.slots \ {i}
      /\ \A j \in DOMAIN d.slots : d.slots[j] = c.slots[j] /\ j \in DOMAIN c.slots
  BY <1>2, <1>5
<1>7. Exact(d)
  <2>1. Counting(d) = Counting(c) \ {i} BY <1>6 DEF Counting
  <2>2. Counting(c) \in SUBSET DOMAIN c.slots BY DEF Counting
  <2>3. IsFiniteSet(Counting(c)) BY <1>1, <2>2, FS_Subset
  <2>4. c.size = SizeOf(c, Counting(c)) BY DEF Exact
  <2>5. SizeOf(d, Counting(d)) = SizeOf(c, Counting(c) \ {i})
    <3>1. \A j \in Counting(d) : c.slots[j].arcs = d.slots[j].arcs BY <1>6 DEF Counting
    <3>2. SizeOf(c, Counting(d)) = SizeOf(d, Counting(d)) BY <3>1, SizeOfSame
    <3> QED BY <2>1, <3>2
  <2>6. d.size = SizeOf(c, Counting(c) \ {i})
    <3>1. CASE i \in Counting(c)
      <4> DEFINE T == Counting(c) \ {i}
      <4>1. /\ SizeOf(c, Counting(c)) = SizeOf(c, T) + Size(c.slots[i])
            /\ SizeOf(c, T) \in Nat
        BY <1>1, <2>2, <2>3, <3>1, SizeOfLess
      <4>2. cur \in T /\ T \in SUBSET DOMAIN c.slots /\ cur \in DOMAIN c.slots BY <2>2
      <4>3. IsFiniteSet(T) BY <2>3, FS_RemoveElement
      <4> HIDE DEF T
      <4>4. /\ SizeOf(c, T) = SizeOf(c, T \ {cur}) + Size(c.slots[cur])
            /\ SizeOf(c, T \ {cur}) \in Nat
        BY <1>1, <4>2, <4>3, SizeOfLess
      <4>5. Size(c.slots[cur]) \in Nat /\ Size(c.slots[cur]) >= StateSize
        BY <1>1, <4>2, SizeType
      <4>6. StateSize \in Nat \ {0} BY CacheAssumption
      <4>7. Size(c.slots[i]) < c.size BY <1>3, <2>4, <4>1, <4>4, <4>5, <4>6
      <4>8. "Init" \in c.slots[i].flags BY <3>1 DEF Counting
      <4>9. d.size = c.size - Size(c.slots[i]) BY <1>5, <4>7, <4>8
      <4>10. d.size = SizeOf(c, T) BY <1>3, <2>4, <4>1, <4>9
      <4> QED BY <4>10 DEF T
    <3>2. CASE i \notin Counting(c)
      <4>1. Counting(c) \ {i} = Counting(c) BY <3>2
      <4>2. "Init" \notin c.slots[i].flags BY <3>2 DEF Counting
      <4>3. d.size = c.size BY <1>5, <4>2
      <4> QED BY <2>4, <4>1, <4>3
    <3> QED BY <3>1, <3>2
  <2>7. d.gc BY <1>2, <1>5
  <2> QED BY <2>5, <2>6, <2>7 DEF Exact
<1>8. Shape(sc, d)
  <2>1. IsFiniteSet(DOMAIN d.slots) BY <1>1, <1>6, FS_RemoveElement
  <2>2. c.limit >= 2 /\ (c.firstId # kNoStateId <=> 0 \in DOMAIN c.slots)
        /\ (c.firstId # kNoStateId => c.firstId + 1 \notin DOMAIN c.slots)
    BY DEF Shape
  <2>3. d.firstId # kNoStateId <=> 0 \in DOMAIN d.slots BY <1>2, <1>5, <1>6, <2>2
  <2>4. d.firstId # kNoStateId => d.firstId + 1 \notin DOMAIN d.slots
    BY <1>2, <1>5, <1>6, <2>2
  <2>5. Distinct(d.list) /\ ToSet(d.list) = DOMAIN d.slots BY <1>1, <1>2, <1>5, <1>6
  <2>6. d.limit >= 2 /\ ~d.firstGc /\ d.gc BY <1>1, <1>2, <1>5, <2>2
  <2> QED BY <1>1, <1>5, <2>1, <2>3, <2>4, <2>5, <2>6 DEF Shape
<1>9. ASSUME NEW j \in DOMAIN d.slots PROVE Alike(c, d, j)
  <2>1. Owner(d, j) = Owner(c, j) BY <1>2, <1>5, <1>6 DEF Owner
  <2> QED BY <1>6, <2>1 DEF Alike, AsBefore
<1> QED BY <1>2, <1>3, <1>5, <1>6, <1>7, <1>8, <1>9 DEF d
-----------------------------------------------------------------------------
(* Garbage collection.                                                     *)

\* Changing a state in its slot, but not what is counted of it.
LEMMA PutAlike ==
  ASSUME NEW sc, NEW c, Shape(sc, c), NEW i \in DOMAIN c.slots, NEW st \in CachedStates(sc),
         "Init" \in st.flags <=> "Init" \in c.slots[i].flags
  PROVE  LET d == Put(c, i, st)
         IN  /\ Shape(sc, d) /\ Counting(d) = Counting(c)
             /\ st.arcs = c.slots[i].arcs /\ Exact(c) => Exact(d)
             /\ \A j \in DOMAIN c.slots : Owner(d, j) = Owner(c, j)
             /\ \A j \in DOMAIN c.slots : j # i => Alike(c, d, j)
<1> DEFINE d == Put(c, i, st)
<1>1. c \in Stores(sc) BY DEF Shape
<1>2. /\ DOMAIN d.slots = DOMAIN c.slots
      /\ \A j \in DOMAIN c.slots : d.slots[j] = IF j = i THEN st ELSE c.slots[j]
      /\ d.list = c.list /\ d.firstGc = c.firstGc /\ d.firstId = c.firstId
      /\ d.gc = c.gc /\ d.size = c.size /\ d.limit = c.limit
      /\ d \in Stores(sc)
  BY <1>1, PutFields
<1> HIDE DEF d
<1>3. Counting(d) = Counting(c) BY <1>2 DEF Counting
<1>4. Shape(sc, d)
  <2>2. d.firstGc => /\ DOMAIN d.slots \subseteq {0} /\ ~d.gc
                     /\ \A j \in DOMAIN d.slots : "Init" \in d.slots[j].flags
    BY <1>2 DEF Shape
  <2> QED BY <1>2, <2>2 DEF Shape
<1>5. ASSUME st.arcs = c.slots[i].arcs, Exact(c) PROVE Exact(d)
  <2>1. \A j \in Counting(c) : c.slots[j].arcs = d.slots[j].arcs BY <1>2, <1>5 DEF Counting
  <2>2. SizeOf(c, Counting(c)) = SizeOf(d, Counting(c)) BY <2>1, SizeOfSame
  <2> QED BY <1>2, <1>3, <1>5, <2>2 DEF Exact
<1>6. \A j \in DOMAIN c.slots : Owner(d, j) = Owner(c, j) BY <1>2 DEF Owner
<1>7. \A j \in DOMAIN c.slots : j # i => Alike(c, d, j) BY <1>2, <1>6 DEF Alike, AsBefore
<1> QED BY <1>3, <1>4, <1>5, <1>6, <1>7 DEF d

\* The flags of a state are changed, but not whether it counts and has its arcs.
LEMMA FlagsAlike ==
  ASSUME NEW sc, NEW c, Shape(sc, c), NEW i \in DOMAIN c.slots,
         NEW on \in SUBSET {"Recent"}, NEW off \in SUBSET {"Recent"}
  PROVE  LET st == WithFlags(c.slots[i], on, off)
             d == Put(c, i, st)
         IN  /\ st \in CachedStates(sc)
             /\ Shape(sc, d) /\ Counting(d) = Counting(c) /\ (Exact(c) => Exact(d))
             /\ \A j \in DOMAIN c.slots : Alike(c, d, j)
<1> DEFINE st == WithFlags(c.slots[i], on, off)
           d == Put(c, i, st)
<1>1. c \in Stores(sc) /\ c.slots[i] \in CachedStates(sc)
  <2>1. c \in Stores(sc) BY DEF Shape
  <2> QED BY <2>1, SlotsOfStore
<1>2. /\ st \in CachedStates(sc) /\ st.final = c.slots[i].final /\ st.arcs = c.slots[i].arcs
      /\ st.refs = c.slots[i].refs
      /\ \A f \in {"Final", "Arcs", "Init"} : f \in st.flags <=> f \in c.slots[i].flags
  BY <1>1 DEF WithFlags, CachedStates, Flag
<1> HIDE DEF st
<1>4. /\ Shape(sc, d) /\ Counting(d) = Counting(c) /\ (Exact(c) => Exact(d))
      /\ \A j \in DOMAIN c.slots : Owner(d, j) = Owner(c, j)
      /\ \A j \in DOMAIN c.slots : j # i => Alike(c, d, j)
  BY <1>2, PutAlike
<1>5. i \in DOMAIN d.slots /\ d.slots[i] = st BY <1>1, PutFields
<1> HIDE DEF d
<1>6. Alike(c, d, i) BY <1>2, <1>4, <1>5 DEF Alike, AsBefore
<1> QED BY <1>2, <1>4, <1>6 DEF d, st

\* What a sweep that spares the slot cur leaves of c.
Swept(sc, c, d, cur) ==
  /\ Shape(sc, d) /\ Exact(d) /\ d.gc /\ cur \in Counting(d)
  /\ \A j \in DOMAIN d.slots : Alike(c, d, j)
  /\ \A j \in DOMAIN c.slots : c.slots[j].refs # 0 \/ j = cur => j \in DOMAIN d.slots
  /\ d.limit = c.limit /\ d.size <= c.size /\ d.size \in Nat /\ c.size \in Nat

LEMMA AlikeTwice ==
  ASSUME NEW c, NEW d, NEW e, NEW i
  PROVE  /\ AsBefore(c, d, i) /\ AsBefore(d, e, i) => AsBefore(c, e, i)
         /\ Alike(c, d, i) /\ Alike(d, e, i) => Alike(c, e, i)
  BY DEF Alike, AsBefore

LEMMA SweptTwice ==
  ASSUME NEW sc, NEW c, NEW d, NEW e, NEW cur, Swept(sc, c, d, cur), Swept(sc, d, e, cur)
  PROVE  Swept(sc, c, e, cur)
<1>1. ASSUME NEW j \in DOMAIN e.slots PROVE Alike(c, e, j)
  <2>1. Alike(d, e, j) BY DEF Swept
  <2>2. j \in DOMAIN d.slots BY <2>1 DEF Alike, AsBefore
  <2>3. Alike(c, d, j) BY <2>2 DEF Swept
  <2> QED BY <2>1, <2>3, AlikeTwice
<1>2. ASSUME NEW j \in DOMAIN c.slots, c.slots[j].refs # 0 \/ j = cur
      PROVE  j \in DOMAIN e.slots
  <2>1. j \in DOMAIN d.slots BY <1>2 DEF Swept
  <2>2. Alike(c, d, j) BY <2>1 DEF Swept
  <2>3. d.slots[j].refs = c.slots[j].refs BY <2>2 DEF Alike, AsBefore
  <2> QED BY <1>2, <2>1, <2>3 DEF Swept
<1>3. e.limit = c.limit /\ e.size <= c.size /\ e.size \in Nat /\ c.size \in Nat BY DEF Swept
<1> QED BY <1>1, <1>2, <1>3 DEF Swept

LEMMA NothingSwept ==
  ASSUME NEW sc, NEW c, Shape(sc, c), Exact(c), c.gc, NEW cur \in Counting(c)
  PROVE  Swept(sc, c, c, cur)
<1>1. c.size \in Nat BY DEF Shape, Stores
<1> QED BY <1>1 DEF Swept, Alike, AsBefore, Counting

\* Of the slots that a pass has been through, those that are left are in use, if
\* the target is not met though recent states go as well.
InUse(d, at) ==
  at.freeRecent /\ d.size > at.target /\ at.slot \in DOMAIN d.slots /\ at.slot # at.current
    => d.slots[at.slot].refs # 0

LEMMA VisitedKeeps ==
  ASSUME NEW sc, NEW c, Shape(sc, c), Exact(c), c.gc, NEW at, at.current \in Counting(c),
         at.slot \in DOMAIN c.slots, at.freeRecent \in BOOLEAN, at.target \in Nat
  PROVE  LET d == Visited(c, at)
         IN  /\ Swept(sc, c, d, at.current) /\ InUse(d, at)
             /\ \A j \in DOMAIN c.slots : j # at.slot => j \in DOMAIN d.slots
<1> DEFINE d == Visited(c, at)
           i == at.slot
           cur == at.current
           st == WithFlags(c.slots[i], {}, {"Recent"})
<1>1. c \in Stores(sc) /\ c.size \in Nat /\ cur \in DOMAIN c.slots
  BY DEF Shape, Stores, Counting
<1>2. CASE c.size > at.target /\ Evictable(c, i, cur, at.freeRecent)
  <2>1. d = Evicted(c, i) BY <1>2 DEF Visited
  <2>2. i # cur /\ c.slots[i].refs = 0 BY <1>2 DEF Evictable
  <2>3. /\ Shape(sc, d) /\ Exact(d) /\ d.gc
        /\ DOMAIN d.slots = DOMAIN c.slots \ {i}
        /\ \A j \in DOMAIN d.slots : Alike(c, d, j)
        /\ d.limit = c.limit /\ d.size <= c.size
    BY <2>1, <2>2, EvictedKeeps
  <2> HIDE DEF d
  <2>4. cur \in Counting(d)
    <3>1. cur \in DOMAIN d.slots /\ Alike(c, d, cur) BY <1>1, <2>2, <2>3
    <3> QED BY <3>1 DEF Counting, Alike
  <2>5. d.size \in Nat BY <2>3 DEF Shape, Stores
  <2>6. Swept(sc, c, d, cur) BY <1>1, <2>2, <2>3, <2>4, <2>5 DEF Swept
  <2>7. InUse(d, at) BY <2>3 DEF InUse
  <2>8. \A j \in DOMAIN c.slots : j # i => j \in DOMAIN d.slots BY <2>3
  <2> QED BY <2>6, <2>7, <2>8 DEF d
<1>3. CASE ~(c.size > at.target /\ Evictable(c, i, cur, at.freeRecent))
  <2>1. d = Put(c, i, st) BY <1>3 DEF Visited, Put
  <2> HIDE DEF d
  <2>0. {} \in SUBSET {"Recent"} /\ {"Recent"} \in SUBSET {"Recent"} OBVIOUS
  <2>2. /\ Shape(sc, d) /\ Counting(d) = Counting(c) /\ Exact(d)
        /\ \A j \in DOMAIN c.slots : Alike(c, d, j)
    BY <2>0, <2>1, FlagsAlike, Zenon
  <2>3. DOMAIN d.slots = DOMAIN c.slots /\ d.size = c.size /\ d.limit = c.limit
    BY <1>1, <2>1, PutFields
  <2>6. d.gc BY <1>1, <2>1, PutFields
  <2>4. Swept(sc, c, d, cur) BY <1>1, <2>2, <2>3, <2>6 DEF Swept
  <2>5. InUse(d, at)
    <3> SUFFICES ASSUME at.freeRecent, d.size > at.target, i # cur PROVE d.slots[i].refs # 0
      BY DEF InUse
    <3>1. c.slots[i].refs # 0 BY <1>3, <2>3 DEF Evictable
    <3>2. Alike(c, d, i) BY <2>2
    <3> QED BY <3>1, <3>2 DEF Alike, AsBefore
  <2> QED BY <2>3, <2>4, <2>5 DEF d
<1> QED BY <1>2, <1>3
Sweeping == INSTANCE NumberTheorems WITH Step <- Visited

LEMMA InUseStays ==
  ASSUME NEW sc, NEW c, NEW d, NEW cur, Swept(sc, c, d, cur),
         NEW at, at.target \in Nat, InUse(c, at)
  PROVE  InUse(d, at)
<1> SUFFICES ASSUME at.freeRecent, d.size > at.target, at.slot \in DOMAIN d.slots,
                    at.slot # at.current
    PROVE  d.slots[at.slot].refs # 0
  BY DEF InUse
<1>1. Alike(c, d, at.slot) BY DEF Swept
<1>2. at.slot \in DOMAIN c.slots /\ d.slots[at.slot].refs = c.slots[at.slot].refs
  BY <1>1 DEF Alike, AsBefore
<1>3. c.size > at.target BY DEF Swept
<1> QED BY <1>2, <1>3 DEF InUse

\* A pass over the list.
LEMMA SweepKeeps ==
  ASSUME NEW sc, NEW c, Shape(sc, c), Exact(c), c.gc, NEW cur \in Counting(c),
         NEW freeRecent \in BOOLEAN, NEW target \in Nat
  PROVE  LET d == Sweep(c, cur, freeRecent, target)
         IN  /\ Swept(sc, c, d, cur)
             /\ freeRecent /\ d.size > target
                  => \A j \in DOMAIN d.slots : j # cur => d.slots[j].refs # 0
<1> DEFINE n == Len(c.list)
           L == [k \in 1..n |-> [slot |-> c.list[k], current |-> cur,
                                 freeRecent |-> freeRecent, target |-> target]]
           d == Sweep(c, cur, freeRecent, target)
<1>1. /\ c.list \in Seq(Nat) /\ n \in Nat /\ DOMAIN c.list = 1..n
      /\ Distinct(c.list) /\ ToSet(c.list) = DOMAIN c.slots
  <2>1. c.list \in Seq(Nat) BY DEF Shape, Stores
  <2>2. Distinct(c.list) /\ ToSet(c.list) = DOMAIN c.slots BY DEF Shape
  <2> QED BY <2>1, <2>2
<1>2. Len(L) = n /\ DOMAIN L = 1..n BY <1>1
<1>3. \A k \in 1..n : /\ L[k].slot = c.list[k] /\ L[k].current = cur
                      /\ L[k].freeRecent = freeRecent /\ L[k].target = target
  OBVIOUS
<1>4. d = FoldLeft(Visited, c, L) BY DEF Sweep
<1> HIDE DEF n, L, d
<1>5. PICK g : Sweeping!IsChain(g, c, L) /\ Sweeping!Folded(c, L) = g[Len(L)]
  <2>1. Len(L) \in Nat /\ DOMAIN L = 1..Len(L) BY <1>1, <1>2
  <2> QED BY <2>1, Sweeping!FoldIsChain, Zenon
<1>6. g[0] = c /\ \A k \in 1..n : g[k] = Visited(g[k-1], L[k])
  BY <1>2, <1>5 DEF Sweeping!IsChain
<1>7. d = g[n]
  <2>1. FoldLeft(Visited, c, L) = Sweeping!Folded(c, L)
    BY DEF Sweeping!Folded, FoldLeft, MapThenFoldSet, Sweeping!FoldLeft,
           Sweeping!MapThenFoldSet, Max, Sweeping!Max
  <2> QED BY <1>2, <1>4, <1>5, <2>1
<1> DEFINE Passed(k) ==
             /\ Swept(sc, c, g[k], cur)
             /\ \A j \in 1..n : j > k => c.list[j] \in DOMAIN g[k].slots
             /\ \A j \in 1..n : j <= k => InUse(g[k], L[j])
           K == {k \in Nat : k <= n => Passed(k)}
<1>8. 0 \in K
  <2>1. Swept(sc, c, g[0], cur) BY <1>6, NothingSwept
  <2>2. \A j \in 1..n : c.list[j] \in DOMAIN c.slots BY <1>1 DEF ToSet
  <2>3. \A j \in 1..n : ~(j <= 0) BY <1>1
  <2> QED BY <1>6, <2>1, <2>2, <2>3
<1>9. ASSUME NEW k \in Nat, k \in K PROVE k + 1 \in K
  <2> SUFFICES ASSUME k + 1 <= n PROVE Passed(k + 1) OBVIOUS
  <2> HIDE DEF Passed
  <2>1. Passed(k) /\ k + 1 \in 1..n /\ k + 1 > k /\ (k + 1) - 1 = k BY <1>1, <1>9
  <2> USE DEF Passed
  <2> DEFINE at == L[k+1]
             b == g[k]
             e == g[k+1]
  <2>2. e = Visited(b, at) BY <1>6, <2>1
  <2>3. /\ Shape(sc, b) /\ Exact(b) /\ b.gc /\ at.current \in Counting(b)
        /\ at.slot \in DOMAIN b.slots /\ at.freeRecent \in BOOLEAN /\ at.target \in Nat
        /\ at.current = cur /\ at.slot = c.list[k+1]
    BY <1>3, <2>1 DEF Swept
  <2> HIDE DEF at, b, e, Passed
  <2>4. /\ Swept(sc, b, e, at.current) /\ InUse(e, at)
        /\ \A j \in DOMAIN b.slots : j # at.slot => j \in DOMAIN e.slots
    BY <2>2, <2>3, VisitedKeeps
  <2>5. Swept(sc, c, e, cur)
    <3>1. Swept(sc, c, b, cur) BY <2>1 DEF Passed, b
    <3> QED BY <2>3, <2>4, <3>1, SweptTwice
  <2>6. ASSUME NEW j \in 1..n, j > k + 1 PROVE c.list[j] \in DOMAIN e.slots
    <3>1. c.list[j] \in DOMAIN b.slots BY <2>1, <2>6 DEF Passed, b
    <3>2. c.list[j] # at.slot
      <4>1. j # k + 1 /\ j \in DOMAIN c.list /\ k + 1 \in DOMAIN c.list BY <1>1, <2>1, <2>6
      <4> QED BY <1>1, <2>3, <4>1 DEF Distinct
    <3> QED BY <2>4, <3>1, <3>2
  <2>7. ASSUME NEW j \in 1..n, j <= k + 1 PROVE InUse(e, L[j])
    <3>1. CASE j = k + 1 BY <2>4, <3>1 DEF at
    <3>2. CASE j # k + 1
      <4>1. j <= k BY <2>7, <3>2
      <4>2. InUse(b, L[j]) BY <2>1, <4>1 DEF Passed, b
      <4>3. L[j].target \in Nat BY <1>3
      <4> QED BY <2>4, <4>2, <4>3, InUseStays
    <3> QED BY <3>1, <3>2
  <2> QED BY <2>5, <2>6, <2>7 DEF Passed, e
<1>10. Passed(n)
  <2> HIDE DEF Passed
  <2>1. Nat \subseteq K
    <3> HIDE DEF K
    <3> QED BY <1>8, <1>9, SetInduction
  <2>2. n \in K /\ n <= n BY <1>1, <2>1
  <2> QED BY <2>2
<1>11. ASSUME freeRecent, d.size > target, NEW j \in DOMAIN d.slots, j # cur
       PROVE  d.slots[j].refs # 0
  <2>1. j \in DOMAIN c.slots BY <1>7, <1>10 DEF Swept, Alike, AsBefore
  <2>2. PICK k \in 1..n : j = c.list[k] BY <1>1, <2>1 DEF ToSet
  <2>3. InUse(d, L[k]) BY <1>1, <1>7, <1>10
  <2> QED BY <1>3, <1>11, <2>2, <2>3 DEF InUse
<1> QED BY <1>7, <1>10, <1>11 DEF d
Doubling == INSTANCE NumberTheorems WITH Step <- Doubled

LEMMA Factor ==
  ASSUME NEW a \in Nat \ {0}, NEW m \in Nat
  PROVE  (a * m) \div a = m
<1> DEFINE x == a * m
           q == x \div a
<1>1. (a * m + 0) % a = 0 BY ModUnique
<1>2. x \in Nat /\ x % a = 0
  <2>1. a * m \in Nat BY SMT
  <2>2. a * m + 0 = a * m BY <2>1
  <2> QED BY <1>1, <2>1, <2>2
<1>3. x = a * q + (x % a) /\ q \in Int
  <2> HIDE DEF x
  <2> QED BY <1>2, DivMod
<1>4. q \in Nat
  <2> HIDE DEF x
  <2> QED BY <1>2, QuotientBounds
<1> HIDE DEF q
<1>5. a * q \in Nat BY <1>4, SMT
<1>6. a * q = a * m BY <1>2, <1>3, <1>5
<1> QED BY <1>4, <1>6, ProductOf DEF q

\* The limit is a multiple of what it was, and has room for what is cached.
LEMMA WidenedFields ==
  ASSUME NEW sc, NEW c \in Stores(sc), NEW target \in Nat \ {0}, target <= c.limit
  PROVE  LET d == Widened(c, target)
         IN  /\ d = [c EXCEPT !.limit = d.limit] /\ d.limit \in Nat
             /\ d.limit >= c.limit /\ c.size <= d.limit
             /\ d.limit # c.limit => c.size > target
<1> DEFINE n == c.size \div target
           a == c.limit
           x == c.size
           L == [i \in 1..n |-> [limit |-> a, target |-> target]]
           d == Widened(c, target)
<1>1. x \in Nat /\ a \in Nat \ {0}
  <2>1. x \in Nat /\ a \in Nat BY DEF Stores
  <2> QED BY <2>1
<1>2. n \in Nat /\ x < target * (n + 1)
  <2> DEFINE r == x % target
  <2>1. n \in Nat BY <1>1, QuotientBounds
  <2>2. x = target * n + r /\ r \in 0..target-1
    <3>1. x \in Int BY <1>1
    <3> HIDE DEF x
    <3>2. x = target * (x \div target) + (x % target) /\ x % target \in 0..target-1
      BY <3>1, DivMod
    <3> QED BY <3>2 DEF x
  <2> HIDE DEF n, r, x
  <2>3. target * (n + 1) = target * n + target BY <2>1
  <2>4. target * n \in Nat BY <2>1
  <2> QED BY <2>1, <2>2, <2>3, <2>4
<1>3. Len(L) = n /\ DOMAIN L = 1..n BY <1>2
<1>4. \A i \in 1..n : L[i].limit = a /\ L[i].target = target OBVIOUS
<1>5. d = FoldLeft(Doubled, c, L) BY DEF Widened
<1> HIDE DEF n, L, d
<1>6. PICK g : Doubling!IsChain(g, c, L) /\ Doubling!Folded(c, L) = g[Len(L)]
  <2>1. Len(L) \in Nat /\ DOMAIN L = 1..Len(L) BY <1>2, <1>3
  <2> QED BY <2>1, Doubling!FoldIsChain, Zenon
<1>7. g[0] = c /\ \A k \in 1..n : g[k] = Doubled(g[k-1], L[k])
  BY <1>3, <1>6 DEF Doubling!IsChain
<1>8. d = g[n]
  <2>1. FoldLeft(Doubled, c, L) = Doubling!Folded(c, L)
    BY DEF Doubling!Folded, FoldLeft, MapThenFoldSet, Doubling!FoldLeft,
           Doubling!MapThenFoldSet, Max, Doubling!Max
  <2> QED BY <1>3, <1>5, <1>6, <2>1
<1> DEFINE Times(k, m) ==
             /\ g[k] = [c EXCEPT !.limit = a * m]
             /\ m > k \/ x <= target * m
             /\ m # 1 => x > target
           K == {k \in Nat : k <= n => \E m \in Nat \ {0} : Times(k, m)}
<1>9. 0 \in K
  <2>1. a * 1 = a BY <1>1
  <2>2. c = [c EXCEPT !.limit = a] BY DEF Stores
  <2>3. Times(0, 1) BY <1>7, <2>1, <2>2
  <2> QED BY <2>3
<1>10. ASSUME NEW k \in Nat, k \in K PROVE k + 1 \in K
  <2> SUFFICES ASSUME k + 1 <= n PROVE \E m \in Nat \ {0} : Times(k + 1, m) OBVIOUS
  <2>1. k + 1 \in 1..n /\ (k + 1) - 1 = k /\ k <= n BY <1>2
  <2> HIDE DEF Times
  <2>2. PICK m \in Nat \ {0} : Times(k, m) BY <1>10, <2>1
  <2> USE DEF Times
  <2> DEFINE b == g[k]
             at == L[k+1]
  <2>3. g[k+1] = Doubled(b, at) /\ at.limit = a /\ at.target = target BY <1>4, <1>7, <2>1
  <2>4. b = [c EXCEPT !.limit = a * m] /\ b.size = x /\ b.limit = a * m BY <2>2 DEF Stores
  <2>5. b.limit \div at.limit = m BY <1>1, <2>3, <2>4, Factor
  <2> HIDE DEF b, at
  <2>6. CASE x > target * m
    <3>1. g[k+1] = [b EXCEPT !.limit = 2 * b.limit] BY <2>3, <2>4, <2>5, <2>6 DEF Doubled
    <3>2. 2 * (a * m) = a * (2 * m) BY <1>1
    <3>3. [b EXCEPT !.limit = 2 * b.limit] = [c EXCEPT !.limit = a * (2 * m)]
      <4>1. 2 * b.limit = a * (2 * m) BY <2>4, <3>2
      <4>2. [b EXCEPT !.limit = a * (2 * m)] = [c EXCEPT !.limit = a * (2 * m)]
        <5> DEFINE y == a * (2 * m)
                   z == a * m
        <5> HIDE DEF y, z
        <5>1. b = [c EXCEPT !.limit = z] BY <2>4 DEF z
        <5>2. [b EXCEPT !.limit = y] = [c EXCEPT !.limit = y] BY <5>1 DEF Stores
        <5> QED BY <5>2 DEF y
      <4> QED BY <4>1, <4>2
    <3>4. 2 * m > k + 1
      <4>1. m > k BY <1>1, <2>2, <2>6
      <4> QED BY <4>1
    <3>5. x > target
      <4>1. target * m >= target BY SMT
      <4>2. target * m \in Nat BY SMT
      <4> QED BY <1>1, <2>6, <4>1, <4>2
    <3>6. Times(k + 1, 2 * m) BY <3>1, <3>3, <3>4, <3>5
    <3>7. 2 * m \in Nat \ {0} OBVIOUS
    <3> HIDE DEF Times
    <3> QED BY <3>6, <3>7
  <2>7. CASE ~(x > target * m)
    <3>1. g[k+1] = b BY <2>3, <2>4, <2>5, <2>7 DEF Doubled
    <3>2. x <= target * m
      <4>1. target * m \in Nat BY SMT
      <4> QED BY <1>1, <2>7, <4>1
    <3>3. Times(k + 1, m) BY <2>2, <2>4, <3>1, <3>2
    <3> HIDE DEF Times
    <3> QED BY <3>3
  <2> QED BY <2>6, <2>7
<1>11. PICK m \in Nat \ {0} : Times(n, m)
  <2> HIDE DEF Times
  <2>1. Nat \subseteq K
    <3> HIDE DEF K
    <3> QED BY <1>9, <1>10, SetInduction
  <2>2. n \in K /\ n <= n BY <1>2, <2>1
  <2> QED BY <2>2
<1>12. d = [c EXCEPT !.limit = a * m] /\ d.limit = a * m BY <1>8, <1>11 DEF Stores
<1>13. x <= target * m
  <2>1. CASE m > n
    <3>1. target * m >= target * (n + 1) BY <1>2, <2>1
    <3>2. target * m \in Nat /\ target * (n + 1) \in Nat BY <1>2
    <3> QED BY <1>1, <1>2, <3>1, <3>2
  <2> QED BY <1>11, <2>1
<1>14. target * m <= a * m /\ a <= a * m /\ a * m \in Nat /\ target * m \in Nat
  <2> HIDE DEF a
  <2> QED BY <1>1, SMT DEF a
<1>15. d.limit # a => x > target
  <2>1. a * 1 = a BY <1>1
  <2> QED BY <1>11, <1>12, <2>1
<1>16. x <= a * m BY <1>1, <1>13, <1>14
<1> QED BY <1>12, <1>14, <1>15, <1>16 DEF d
\* What a call that counts the slot cur leaves of c: the limit holds again, and is
\* widened only if all other slots are in use.
Collects(sc, c, d, cur) ==
  /\ Shape(sc, d) /\ Exact(d) /\ d.gc /\ cur \in Counting(d)
  /\ \A j \in DOMAIN d.slots : Alike(c, d, j)
  /\ \A j \in DOMAIN c.slots : c.slots[j].refs # 0 \/ j = cur => j \in DOMAIN d.slots
  /\ d.size <= d.limit
  /\ d.limit # c.limit => \A j \in DOMAIN d.slots : j # cur => d.slots[j].refs # 0

LEMMA TargetBounds ==
  ASSUME NEW sc, NEW c, Shape(sc, c)
  PROVE  Target(c) \in Nat \ {0} /\ Target(c) <= c.limit
<1> DEFINE x == 666 * c.limit
           q == x \div 1000
           r == x % 1000
<1>1. c.limit \in Nat /\ c.limit >= 2 BY DEF Shape, Stores
<1>2. x \in Nat /\ x \in Int /\ 1000 \in Nat \ {0} BY <1>1
<1>3. q \in Int /\ r \in 0..999 /\ x = 1000 * q + r
  <2> HIDE DEF x
  <2>1. x \div 1000 \in Int /\ x % 1000 \in 0..1000-1
        /\ x = 1000 * (x \div 1000) + (x % 1000)
    BY <1>2, DivMod
  <2> QED BY <2>1
<1>4. Target(c) = q BY DEF Target
<1> HIDE DEF q, r
<1>5. q \in Nat \ {0} /\ q <= c.limit BY <1>1, <1>3
<1> QED BY <1>4, <1>5

LEMMA LimitFields ==
  ASSUME NEW sc, NEW c, Shape(sc, c), NEW n \in Nat, n >= 2, NEW d, d = [c EXCEPT !.limit = n]
  PROVE  /\ Shape(sc, d) /\ d.slots = c.slots /\ d.size = c.size /\ d.limit = n
         /\ d.firstId = c.firstId /\ (d.gc <=> c.gc) /\ Counting(d) = Counting(c)
         /\ (Exact(c) => Exact(d))
<1>1. c \in Stores(sc) BY DEF Shape
<1>2. /\ d.slots = c.slots /\ d.size = c.size /\ d.limit = n /\ d.list = c.list
      /\ d.firstId = c.firstId /\ d.gc = c.gc /\ d.firstGc = c.firstGc /\ d \in Stores(sc)
  BY <1>1 DEF Stores
<1>3. Counting(d) = Counting(c) BY <1>2 DEF Counting
<1>4. Shape(sc, d) BY <1>2 DEF Shape
<1>5. ASSUME Exact(c) PROVE Exact(d)
  <2>1. \A j \in Counting(c) : c.slots[j].arcs = d.slots[j].arcs BY <1>2
  <2>2. SizeOf(c, Counting(c)) = SizeOf(d, Counting(c)) BY <2>1, SizeOfSame
  <2> QED BY <1>2, <1>3, <1>5, <2>2 DEF Exact
<1> QED BY <1>2, <1>3, <1>4, <1>5

LEMMA GCKeeps ==
  ASSUME NEW sc, NEW c, Shape(sc, c), Exact(c), c.gc, NEW cur \in Counting(c)
  PROVE  Collects(sc, c, GC(c, cur), cur)
<1> DEFINE target == Target(c)
           a == Sweep(c, cur, FALSE, target)
           b == SweepRecent(a, cur, target)
           d == Widened(b, target)
<1>1. GC(c, cur) = d BY DEF GC
<1>2. target \in Nat \ {0} /\ target <= c.limit /\ FALSE \in BOOLEAN /\ TRUE \in BOOLEAN
  BY TargetBounds
<1>3. Swept(sc, c, a, cur)
  <2> HIDE DEF target
  <2>1. target \in Nat BY <1>2
  <2> QED BY <1>2, <2>1, SweepKeeps, Zenon
<1> HIDE DEF target, a
<1>4. /\ Swept(sc, c, b, cur)
      /\ b.size > target => \A j \in DOMAIN b.slots : j # cur => b.slots[j].refs # 0
  <2>1. CASE a.size > target
    <3> DEFINE e == Sweep(a, cur, TRUE, target)
    <3>1. b = e BY <2>1 DEF SweepRecent
    <3>2. /\ Shape(sc, a) /\ Exact(a) /\ a.gc /\ cur \in Counting(a) /\ target \in Nat
      BY <1>2, <1>3 DEF Swept
    <3>3. /\ Swept(sc, a, e, cur)
          /\ TRUE /\ e.size > target => \A j \in DOMAIN e.slots : j # cur => e.slots[j].refs # 0
      BY <1>2, <3>2, SweepKeeps, Zenon
    <3> HIDE DEF e, b
    <3>4. Swept(sc, c, e, cur) BY <1>3, <3>3, SweptTwice
    <3> QED BY <3>1, <3>3, <3>4
  <2>2. CASE ~(a.size > target)
    <3>1. b = a BY <2>2 DEF SweepRecent
    <3> QED BY <1>3, <2>2, <3>1
  <2> QED BY <2>1, <2>2
<1> HIDE DEF b
<1>5. /\ Shape(sc, b) /\ Exact(b) /\ b.gc /\ cur \in Counting(b) /\ b.limit = c.limit
      /\ b \in Stores(sc) /\ b.limit >= 2 /\ b.limit \in Nat
  <2>1. /\ Shape(sc, b) /\ Exact(b) /\ b.gc /\ cur \in Counting(b) /\ b.limit = c.limit
    BY <1>4 DEF Swept
  <2> QED BY <2>1 DEF Shape, Stores
<1>6. /\ d = [b EXCEPT !.limit = d.limit] /\ d.limit \in Nat
      /\ d.limit >= b.limit /\ b.size <= d.limit
      /\ d.limit # b.limit => b.size > target
  BY <1>2, <1>5, WidenedFields
<1> HIDE DEF d
<1>7. d.limit >= 2 BY <1>5, <1>6
<1>8. /\ Shape(sc, d) /\ d.slots = b.slots /\ d.size = b.size
      /\ d.firstId = b.firstId /\ (d.gc <=> b.gc) /\ Counting(d) = Counting(b) /\ Exact(d)
  BY <1>5, <1>6, <1>7, LimitFields
<1>9. \A j \in DOMAIN d.slots : Alike(c, d, j)
  BY <1>4, <1>8 DEF Swept, Alike, AsBefore, Owner
<1>10. \A j \in DOMAIN c.slots : c.slots[j].refs # 0 \/ j = cur => j \in DOMAIN d.slots
  BY <1>4, <1>8 DEF Swept
<1>11. d.limit # c.limit => \A j \in DOMAIN d.slots : j # cur => d.slots[j].refs # 0
  BY <1>4, <1>5, <1>6, <1>8
<1>12. d.size <= d.limit BY <1>6, <1>8
<1>13. d.gc /\ cur \in Counting(d) BY <1>5, <1>8
<1> QED BY <1>1, <1>8, <1>9, <1>10, <1>11, <1>12, <1>13 DEF Collects

LEMMA CollectedKeeps ==
  ASSUME NEW sc, NEW c, Shape(sc, c), Exact(c), c.gc, NEW cur \in Counting(c)
  PROVE  Collects(sc, c, Collected(c, cur), cur)
<1>1. c.size \in Nat /\ c.limit \in Nat BY DEF Shape, Stores
<1>2. CASE c.size > c.limit
  <2>1. Collected(c, cur) = GC(c, cur) BY <1>2 DEF Collected
  <2> QED BY <2>1, GCKeeps
<1>3. CASE ~(c.size > c.limit)
  <2>1. Collected(c, cur) = c BY <1>3 DEF Collected
  <2>2. c.size <= c.limit BY <1>1, <1>3
  <2> QED BY <2>1, <2>2 DEF Collects, Alike, AsBefore, Counting
<1> QED BY <1>2, <1>3
-----------------------------------------------------------------------------
(* Requesting a state.                                                     *)

\* A slot holds the state it is looked up for.
LEMMA OwnerOfSlot ==
  ASSUME NEW sc, NEW c, Shape(sc, c), NEW s \in Nat
  PROVE  /\ Slot(c, s) \in Nat /\ Owner(c, Slot(c, s)) = s
         /\ \A i \in DOMAIN c.slots : Owner(c, i) = s => Slot(c, s) = i
<1>1. c.firstId \in Nat \cup {kNoStateId} /\ DOMAIN c.slots \in SUBSET Nat
  <2>1. c \in Stores(sc) BY DEF Shape
  <2> QED BY <2>1, SlotsOfStore DEF Stores
<1>2. c.firstId # kNoStateId => c.firstId + 1 \notin DOMAIN c.slots BY DEF Shape
<1>3. Slot(c, s) \in Nat /\ Owner(c, Slot(c, s)) = s
  BY <1>1 DEF Slot, Owner, kNoStateId
<1>4. ASSUME NEW i \in DOMAIN c.slots, Owner(c, i) = s PROVE Slot(c, s) = i
  <2>1. CASE i = 0 BY <1>4, <2>1 DEF Slot, Owner
  <2>2. CASE i # 0
    <3>1. s = i - 1 /\ i \in Nat BY <1>1, <1>4, <2>2 DEF Owner
    <3>2. i = s + 1 BY <3>1
    <3>3. s # c.firstId
      <4> SUFFICES ASSUME s = c.firstId PROVE FALSE OBVIOUS
      <4>1. c.firstId # kNoStateId BY <3>1 DEF kNoStateId
      <4> QED BY <1>2, <1>4, <3>2, <4>1
    <3> QED BY <3>2, <3>3 DEF Slot
  <2> QED BY <2>1, <2>2
<1> QED BY <1>3, <1>4

LEMMA AppendedToList ==
  ASSUME NEW list \in Seq(Nat), NEW i \in Nat
  PROVE  LET more == Append(list, i)
         IN  /\ more \in Seq(Nat) /\ ToSet(more) = ToSet(list) \cup {i}
             /\ Distinct(list) /\ i \notin ToSet(list) => Distinct(more)
<1> DEFINE more == Append(list, i)
           n == Len(list)
<1>1. /\ more \in Seq(Nat) /\ n \in Nat /\ DOMAIN list = 1..n /\ DOMAIN more = 1..n+1
      /\ \A k \in 1..n : more[k] = list[k]
      /\ more[n+1] = i
  OBVIOUS
<1> HIDE DEF more, n
<1>2. ToSet(more) = ToSet(list) \cup {i}
  <2>1. ASSUME NEW e \in ToSet(more) PROVE e \in ToSet(list) \cup {i}
    <3>1. PICK k \in 1..n+1 : e = more[k] BY <1>1 DEF ToSet
    <3>2. k \in 1..n \/ k = n + 1 BY <1>1
    <3> QED BY <1>1, <3>1, <3>2 DEF ToSet
  <2>2. ASSUME NEW e \in ToSet(list) PROVE e \in ToSet(more)
    <3>1. PICK k \in 1..n : e = list[k] BY <1>1 DEF ToSet
    <3>2. k \in 1..n+1 BY <1>1
    <3> QED BY <1>1, <3>1, <3>2 DEF ToSet
  <2>3. i \in ToSet(more)
    <3>1. n + 1 \in 1..n+1 BY <1>1
    <3> QED BY <1>1, <3>1 DEF ToSet
  <2> QED BY <2>1, <2>2, <2>3
<1>3. ASSUME Distinct(list), i \notin ToSet(list) PROVE Distinct(more)
  <2> SUFFICES ASSUME NEW j \in 1..n+1, NEW k \in 1..n+1, more[j] = more[k] PROVE j = k
    BY <1>1 DEF Distinct
  <2>1. \A h \in 1..n : list[h] # i BY <1>1, <1>3 DEF ToSet
  <2>2. (j \in 1..n \/ j = n + 1) /\ (k \in 1..n \/ k = n + 1) BY <1>1
  <2> QED BY <1>1, <1>3, <2>1, <2>2 DEF Distinct
<1> QED BY <1>1, <1>2, <1>3 DEF more

LEMMA NewStateType ==
  ASSUME NEW sc
  PROVE  /\ NewState \in CachedStates(sc)
         /\ NewState.arcs = <<>> /\ NewState.flags = {} /\ NewState.refs = 0
  BY DEF NewState, CachedStates, FinalValues

LEMMA VectorGetFields ==
  ASSUME NEW c \in Stores(scenario), NEW i \in Nat, i \notin DOMAIN c.slots
  PROVE  LET d == VectorGet(c, i)
         IN  /\ DOMAIN d.slots = DOMAIN c.slots \cup {i}
             /\ \A j \in DOMAIN c.slots : d.slots[j] = c.slots[j]
             /\ d.slots[i] = NewState
             /\ d.list = IF scenario.options.gc THEN Append(c.list, i) ELSE c.list
             /\ d.firstGc = c.firstGc /\ d.firstId = c.firstId
             /\ d.gc = c.gc /\ d.size = c.size /\ d.limit = c.limit
             /\ d \in Stores(scenario)
<1> DEFINE d == VectorGet(c, i)
           f == [j \in DOMAIN c.slots \cup {i} |-> IF j = i THEN NewState ELSE c.slots[j]]
           l == IF scenario.options.gc THEN Append(c.list, i) ELSE c.list
<1>1. d = [c EXCEPT !.slots = f, !.list = l] BY DEF VectorGet, KeepsList, options
<1>2. l \in Seq(Nat)
  <2>1. c.list \in Seq(Nat) BY DEF Stores
  <2> QED BY <2>1
<1>3. DOMAIN f = DOMAIN c.slots \cup {i} /\ f[i] = NewState
      /\ \A j \in DOMAIN c.slots : f[j] = c.slots[j]
  OBVIOUS
<1>4. f \in SlotMaps(scenario)
  <2>1. f = [j \in DOMAIN f |-> f[j]] OBVIOUS
  <2>2. NewState \in CachedStates(scenario) BY NewStateType
  <2>3. DOMAIN c.slots \in SUBSET Nat
        /\ \A j \in DOMAIN c.slots : c.slots[j] \in CachedStates(scenario)
    BY SlotsOfStore
  <2>4. DOMAIN f \in SUBSET Nat /\ \A j \in DOMAIN f : f[j] \in CachedStates(scenario)
    BY <1>3, <2>2, <2>3
  <2> HIDE DEF f
  <2> QED BY <2>1, <2>4, MapsOfSlots
<1> HIDE DEF d, f, l
<1>5. d.slots = f /\ d.list = l /\ d.firstId = c.firstId /\ d.firstGc = c.firstGc /\ d.gc = c.gc
      /\ d.size = c.size /\ d.limit = c.limit
  BY <1>1 DEF Stores
<1>6. d \in Stores(scenario) BY <1>1, <1>2, <1>4 DEF Stores
<1> QED BY <1>3, <1>5, <1>6 DEF d, l

\* A new slot, not the first one.
LEMMA VectorGetKeeps ==
  ASSUME NEW c, Shape(scenario, c), ~c.firstGc, NEW s \in Nat, c.firstId # s
  PROVE  LET d == VectorGet(c, s + 1)
         IN  /\ Shape(scenario, d) /\ Counting(d) = Counting(c) /\ (Exact(c) => Exact(d))
             /\ Slot(d, s) = s + 1 /\ DOMAIN d.slots = DOMAIN c.slots \cup {s + 1}
             /\ \A j \in DOMAIN c.slots : Alike(c, d, j)
             /\ s + 1 \notin DOMAIN c.slots => d.slots[s+1] = NewState
             /\ ~d.firstGc /\ (d.gc <=> c.gc) /\ d.size = c.size /\ d.limit = c.limit
<1> DEFINE i == s + 1
           d == VectorGet(c, i)
<1>0. i \in Nat /\ i # 0 /\ c \in Stores(scenario) BY DEF Shape
<1>1. CASE i \in DOMAIN c.slots
  <2>1. d = c BY <1>1 DEF VectorGet
  <2> QED BY <1>1, <2>1 DEF Slot, Alike, AsBefore
<1>2. CASE i \notin DOMAIN c.slots
  <2> HIDE DEF i
  <2>1. /\ DOMAIN d.slots = DOMAIN c.slots \cup {i}
        /\ \A j \in DOMAIN c.slots : d.slots[j] = c.slots[j]
        /\ d.slots[i] = NewState
        /\ d.list = IF scenario.options.gc THEN Append(c.list, i) ELSE c.list
        /\ d.firstGc = c.firstGc /\ d.firstId = c.firstId
        /\ d.gc = c.gc /\ d.size = c.size /\ d.limit = c.limit
        /\ d \in Stores(scenario)
    BY <1>0, <1>2, VectorGetFields
  <2>2. NewState.arcs = <<>> /\ NewState.flags = {} BY NewStateType
  <2> HIDE DEF d
  <2>3. Counting(d) = Counting(c) BY <2>1, <2>2 DEF Counting
  <2>4. Slot(d, s) = s + 1 BY <2>1 DEF Slot
  <2>5. Shape(scenario, d)
    <3>1. IsFiniteSet(DOMAIN d.slots)
      <4>1. IsFiniteSet(DOMAIN c.slots) BY DEF Shape
      <4> QED BY <2>1, <4>1, FS_AddElement
    <3>2. d.firstId # kNoStateId <=> 0 \in DOMAIN d.slots BY <1>0, <2>1 DEF Shape
    <3>3. d.firstId # kNoStateId => d.firstId + 1 \notin DOMAIN d.slots
      <4> SUFFICES ASSUME c.firstId # kNoStateId PROVE c.firstId + 1 \notin DOMAIN d.slots
        BY <2>1
      <4>1. c.firstId \in Nat BY <1>0 DEF Stores
      <4>2. c.firstId + 1 # i BY <4>1 DEF i
      <4>3. c.firstId + 1 \notin DOMAIN c.slots BY DEF Shape
      <4> QED BY <2>1, <4>2, <4>3
    <3>4. IF scenario.options.gc THEN Distinct(d.list) /\ ToSet(d.list) = DOMAIN d.slots
          ELSE d.list = <<>>
      <4>1. CASE scenario.options.gc
        <5>1. Distinct(c.list) /\ ToSet(c.list) = DOMAIN c.slots /\ c.list \in Seq(Nat)
          BY <4>1 DEF Shape, Stores
        <5>2. d.list = Append(c.list, i) BY <2>1, <4>1
        <5> QED BY <1>0, <1>2, <2>1, <4>1, <5>1, <5>2, AppendedToList
      <4>2. CASE ~scenario.options.gc BY <2>1, <4>2 DEF Shape
      <4> QED BY <4>1, <4>2
    <3>6. d.limit >= 2 /\ ~d.firstGc /\ (d.gc => scenario.options.gc) BY <2>1 DEF Shape
    <3> QED BY <2>1, <3>1, <3>2, <3>3, <3>4, <3>6 DEF Shape
  <2>6. ASSUME Exact(c) PROVE Exact(d)
    <3>1. \A j \in Counting(c) : c.slots[j].arcs = d.slots[j].arcs BY <2>1 DEF Counting
    <3>2. SizeOf(c, Counting(c)) = SizeOf(d, Counting(c)) BY <3>1, SizeOfSame
    <3> QED BY <2>1, <2>3, <2>6, <3>2 DEF Exact
  <2>7. \A j \in DOMAIN c.slots : Alike(c, d, j) BY <2>1 DEF Alike, AsBefore, Owner
  <2> QED BY <2>1, <2>3, <2>4, <2>5, <2>6, <2>7 DEF d, i
<1> QED BY <1>1, <1>2
\* A state that nothing was computed of, and that is not in use.
Fresh(d, i, s) ==
  /\ i = Slot(d, s) /\ d.slots[i].arcs = <<>> /\ d.slots[i].refs = 0
  /\ "Final" \notin d.slots[i].flags /\ "Arcs" \notin d.slots[i].flags

\* What a request of the state s makes of the slots: only a slot for s is new, what
\* is in use stays, and the limit is widened only if all else is in use.
Follows(c, d, s) ==
  /\ Slot(d, s) \in DOMAIN d.slots
  /\ \A i \in DOMAIN d.slots :
       \/ AsBefore(c, d, i)
       \/ Fresh(d, i, s) /\ (i \in DOMAIN c.slots => c.slots[i].refs = 0)
  /\ \A i \in DOMAIN c.slots : c.slots[i].refs # 0 => AsBefore(c, d, i)
  /\ d.limit # c.limit => \A i \in DOMAIN d.slots : i # Slot(d, s) => d.slots[i].refs # 0

\* With garbage collection, sizes are counted as soon as slot 0 is not reused.
Settled(sc, c) == sc.options.gc /\ ~c.firstGc => c.gc \/ DOMAIN c.slots = {}
Sized(c) == c.gc => c.size <= c.limit

\* Arcs are there only when all are.
Whole(c, i) == "Arcs" \notin c.slots[i].flags => c.slots[i].arcs = <<>>

StoreOK(sc, c) ==
  /\ Shape(sc, c) /\ Exact(c) /\ Settled(sc, c) /\ Sized(c)
  /\ \A i \in DOMAIN c.slots : Whole(c, i)

\* What FirstCacheStore::GetMutableState leaves to count.
GotFirst(c, d, s) ==
  /\ Shape(scenario, d) /\ Exact(d) /\ Follows(c, d, s)
  /\ d.limit = c.limit /\ d.size = c.size /\ (d.gc <=> c.gc)
  /\ scenario.options.gc /\ ~d.firstGc /\ ~d.gc => Counting(d) = {}

LEMMA OnlyFirst ==
  ASSUME NEW c, NEW s \in Nat, NEW d,
         Shape(scenario, c), Exact(c), c.firstGc,
         d.list = IF scenario.options.gc /\ 0 \notin DOMAIN c.slots THEN Append(c.list, 0)
                  ELSE c.list,
         0 \in DOMAIN c.slots => c.slots[0].refs = 0,
         d \in Stores(scenario), DOMAIN d.slots = {0},
         d.slots[0] = WithFlags(NewState, {"Init"}, {}),
         d.firstId = s, d.firstGc, ~d.gc, d.size = c.size, d.limit = c.limit
  PROVE  GotFirst(c, d, s)
<1>1. /\ DOMAIN c.slots \subseteq {0} /\ ~c.gc /\ c.limit >= 2 /\ c.list \in Seq(Nat)
  BY DEF Shape, Stores
<1>2. /\ d.slots[0].arcs = <<>> /\ d.slots[0].refs = 0 /\ d.slots[0].flags = {"Init"}
  BY DEF WithFlags, NewState
<1>3. Slot(d, s) = 0 BY DEF Slot
<1>4. IF scenario.options.gc THEN Distinct(d.list) /\ ToSet(d.list) = DOMAIN d.slots
      ELSE d.list = <<>>
  <2>1. CASE scenario.options.gc
    <3>1. Distinct(c.list) /\ ToSet(c.list) = DOMAIN c.slots BY <2>1 DEF Shape
    <3>2. CASE 0 \in DOMAIN c.slots
      <4>1. DOMAIN c.slots = {0} BY <1>1, <3>2
      <4> QED BY <2>1, <3>1, <3>2, <4>1
    <3>3. CASE 0 \notin DOMAIN c.slots
      <4>1. ToSet(c.list) = {} /\ d.list = Append(c.list, 0) BY <1>1, <2>1, <3>1, <3>3
      <4>2. /\ ToSet(Append(c.list, 0)) = ToSet(c.list) \cup {0}
            /\ Distinct(c.list) /\ 0 \notin ToSet(c.list) => Distinct(Append(c.list, 0))
        BY <1>1, AppendedToList
      <4> QED BY <2>1, <3>1, <4>1, <4>2
    <3> QED BY <3>2, <3>3
  <2>2. CASE ~scenario.options.gc
    <3>1. c.list = <<>> BY <2>2 DEF Shape
    <3>2. d.list = c.list BY <2>2
    <3> QED BY <2>2, <3>1, <3>2
  <2> QED BY <2>1, <2>2
<1>5. Shape(scenario, d)
  <2>1. IsFiniteSet(DOMAIN d.slots) BY FS_Singleton
  <2>2. d.firstId # kNoStateId /\ d.firstId + 1 \notin DOMAIN d.slots BY DEF kNoStateId
  <2> QED BY <1>1, <1>2, <1>4, <2>1, <2>2 DEF Shape
<1>6. Exact(d) BY <1>1 DEF Exact
<1>7. Fresh(d, 0, s) BY <1>2, <1>3 DEF Fresh
<1>8. Follows(c, d, s) BY <1>1, <1>3, <1>7 DEF Follows
<1>9. d.gc <=> c.gc BY <1>1
<1> QED BY <1>5, <1>6, <1>8, <1>9 DEF GotFirst

LEMMA FirstGetKeeps ==
  ASSUME NEW c, StoreOK(scenario, c), NEW s \in Nat
  PROVE  GotFirst(c, FirstGet(c, s), s)
<1> DEFINE d == FirstGet(c, s)
           first == WithFlags(NewState, {"Init"}, {})
<1>1. /\ Shape(scenario, c) /\ Exact(c) /\ Settled(scenario, c) /\ c \in Stores(scenario)
      /\ (c.firstId # kNoStateId <=> 0 \in DOMAIN c.slots)
      /\ (c.firstGc => DOMAIN c.slots \subseteq {0} /\ ~c.gc)
      /\ kNoStateId = -1
  BY DEF StoreOK, Shape, kNoStateId
<1>2. CASE c.firstId = s
  <2>1. d = c BY <1>2 DEF FirstGet
  <2>2. Slot(c, s) = 0 /\ 0 \in DOMAIN c.slots BY <1>1, <1>2 DEF Slot
  <2>3. Follows(c, c, s) BY <2>2 DEF Follows, AsBefore
  <2>4. ASSUME scenario.options.gc, ~c.firstGc, ~c.gc PROVE Counting(c) = {}
    BY <1>1, <2>4 DEF Settled, Counting
  <2> QED BY <1>1, <2>1, <2>3, <2>4 DEF GotFirst
<1>0. first \in CachedStates(scenario)
  BY NewStateType DEF WithFlags, CachedStates, Flag
<1>3. CASE c.firstId # s /\ c.firstGc /\ c.firstId = kNoStateId
  <2> DEFINE a == VectorGet(c, 0)
  <2>1. d = [a EXCEPT !.firstId = s, !.slots[0] = WithFlags(a.slots[0], {"Init"}, {})]
    BY <1>3 DEF FirstGet
  <2>2. 0 \notin DOMAIN c.slots /\ DOMAIN c.slots = {} BY <1>1, <1>3
  <2>3. /\ DOMAIN a.slots = DOMAIN c.slots \cup {0} /\ a.slots[0] = NewState
        /\ a.list = IF scenario.options.gc THEN Append(c.list, 0) ELSE c.list
        /\ a.firstGc = c.firstGc /\ a.firstId = c.firstId
        /\ a.gc = c.gc /\ a.size = c.size /\ a.limit = c.limit
        /\ a \in Stores(scenario)
    BY <1>1, <2>2, VectorGetFields
  <2> DEFINE b == [a EXCEPT !.firstId = s]
  <2> HIDE DEF a, d, first
  <2>4. /\ b \in Stores(scenario) /\ b.slots = a.slots /\ b.list = a.list /\ b.firstId = s
        /\ b.firstGc /\ ~b.gc /\ b.size = c.size /\ b.limit = c.limit
    BY <1>1, <1>3, <2>3 DEF Stores
  <2>5. d = Put(b, 0, first) BY <2>1, <2>3 DEF Put, first, Stores
  <2> HIDE DEF b
  <2>6. /\ DOMAIN d.slots = DOMAIN b.slots
        /\ \A j \in DOMAIN b.slots : d.slots[j] = IF j = 0 THEN first ELSE b.slots[j]
        /\ d.list = b.list /\ d.firstId = b.firstId /\ d.size = b.size /\ d.limit = b.limit
        /\ d \in Stores(scenario)
    BY <1>0, <2>4, <2>5, PutFields
  <2>7. d.firstGc /\ ~d.gc BY <2>4, <2>5, PutFields
  <2>8. d.slots[0] = first /\ DOMAIN d.slots = {0} BY <2>2, <2>3, <2>4, <2>6
  <2>9. d.firstId = s /\ d.size = c.size /\ d.limit = c.limit BY <2>3, <2>4, <2>6
  <2>11. d.list = IF scenario.options.gc /\ 0 \notin DOMAIN c.slots THEN Append(c.list, 0)
                  ELSE c.list
    BY <2>2, <2>3, <2>4, <2>6
  <2>10. GotFirst(c, d, s)
    BY <1>1, <1>3, <2>2, <2>6, <2>7, <2>8, <2>9, <2>11, OnlyFirst DEF first
  <2> QED BY <2>10 DEF d
<1>4. CASE c.firstId # s /\ c.firstGc /\ c.firstId # kNoStateId /\ Reusable(c)
  <2>1. d = [c EXCEPT !.firstId = s, !.slots[0] = first]
    BY <1>4 DEF FirstGet, Reset
  <2>2. 0 \in DOMAIN c.slots /\ DOMAIN c.slots = {0} BY <1>1, <1>4
  <2> DEFINE b == [c EXCEPT !.firstId = s]
  <2> HIDE DEF d, first
  <2>4. /\ b \in Stores(scenario) /\ b.slots = c.slots /\ b.list = c.list /\ b.firstId = s
        /\ b.firstGc /\ ~b.gc /\ b.size = c.size /\ b.limit = c.limit
    BY <1>1, <1>4 DEF Stores
  <2>5. d = Put(b, 0, first) BY <1>1, <2>1 DEF Put, Stores
  <2> HIDE DEF b
  <2>6. /\ DOMAIN d.slots = DOMAIN b.slots
        /\ \A j \in DOMAIN b.slots : d.slots[j] = IF j = 0 THEN first ELSE b.slots[j]
        /\ d.list = b.list /\ d.firstId = b.firstId /\ d.size = b.size /\ d.limit = b.limit
        /\ d \in Stores(scenario)
    BY <1>0, <2>4, <2>5, PutFields
  <2>7. d.firstGc /\ ~d.gc BY <2>4, <2>5, PutFields
  <2>8. d.slots[0] = first /\ DOMAIN d.slots = {0} BY <2>2, <2>4, <2>6
  <2>9. d.list = c.list /\ d.firstId = s /\ d.size = c.size /\ d.limit = c.limit
    BY <2>4, <2>6
  <2>11. c.slots[0].refs = 0 BY <1>4 DEF Reusable
  <2>10. GotFirst(c, d, s)
    BY <1>1, <1>4, <2>2, <2>6, <2>7, <2>8, <2>9, <2>11, OnlyFirst DEF first
  <2> QED BY <2>10 DEF d
<1>5. CASE c.firstId # s /\ c.firstGc /\ c.firstId # kNoStateId /\ ~Reusable(c)
  <2> DEFINE st == WithFlags(c.slots[0], {}, {"Init"})
             a == Put(c, 0, st)
             b == [a EXCEPT !.firstGc = FALSE]
  <2>1. d = VectorGet(b, s + 1)
    <3>1. d = VectorGet([c EXCEPT !.slots[0] = st, !.firstGc = FALSE], s + 1)
      BY <1>5 DEF FirstGet
    <3>2. [c EXCEPT !.slots[0] = st, !.firstGc = FALSE] = b
      <4> HIDE DEF st
      <4> QED BY <1>1 DEF Put, Stores
    <3> QED BY <3>1, <3>2
  <2>2. 0 \in DOMAIN c.slots /\ DOMAIN c.slots = {0} /\ c.slots[0] \in CachedStates(scenario)
    BY <1>1, <1>5, SlotsOfStore
  <2>3. /\ st \in CachedStates(scenario) /\ "Init" \notin st.flags
        /\ st.final = c.slots[0].final /\ st.arcs = c.slots[0].arcs
        /\ st.refs = c.slots[0].refs
        /\ \A f \in {"Final", "Arcs"} : f \in st.flags <=> f \in c.slots[0].flags
    BY <2>2 DEF WithFlags, CachedStates, Flag
  <2> HIDE DEF st, d
  <2>4. /\ DOMAIN a.slots = DOMAIN c.slots
        /\ \A j \in DOMAIN c.slots : a.slots[j] = IF j = 0 THEN st ELSE c.slots[j]
        /\ a.list = c.list /\ a.firstId = c.firstId /\ a.size = c.size /\ a.limit = c.limit
        /\ a \in Stores(scenario)
    BY <1>1, <2>3, PutFields
  <2>5. ~a.gc BY <1>1, <1>5, PutFields
  <2> HIDE DEF a
  <2>6. /\ b.slots = a.slots /\ b.list = a.list /\ b.firstId = a.firstId /\ b.size = a.size
        /\ b.limit = a.limit /\ b \in Stores(scenario) /\ ~b.firstGc /\ ~b.gc
    BY <2>4, <2>5 DEF Stores
  <2> HIDE DEF b
  <2>7. b.slots[0] = st /\ DOMAIN b.slots = {0} BY <2>2, <2>4, <2>6
  <2>8. AsBefore(c, b, 0) BY <2>2, <2>3, <2>4, <2>6, <2>7 DEF AsBefore, Owner
  <2>9. Shape(scenario, b)
    <3> QED BY <1>1, <2>2, <2>4, <2>6, <2>7 DEF Shape
  <2>10. Exact(b) BY <1>1, <1>5, <2>4, <2>6 DEF Exact
  <2>11. Counting(b) = {} BY <2>3, <2>7 DEF Counting
  <2>12. /\ Shape(scenario, d) /\ Counting(d) = Counting(b) /\ Exact(d)
         /\ Slot(d, s) = s + 1 /\ DOMAIN d.slots = DOMAIN b.slots \cup {s + 1}
         /\ \A j \in DOMAIN b.slots : Alike(b, d, j)
         /\ s + 1 \notin DOMAIN b.slots => d.slots[s+1] = NewState
         /\ (d.gc <=> b.gc) /\ d.size = b.size /\ d.limit = b.limit
    BY <1>5, <2>1, <2>4, <2>6, <2>9, <2>10, VectorGetKeeps
  <2>13. AsBefore(c, d, 0) BY <2>7, <2>8, <2>12, AlikeTwice DEF Alike
  <2>14. Fresh(d, s + 1, s)
    <3>1. d.slots[s+1] = NewState BY <2>7, <2>12
    <3> QED BY <2>12, <3>1, NewStateType DEF Fresh
  <2>15. Follows(c, d, s) BY <2>2, <2>4, <2>6, <2>7, <2>12, <2>13, <2>14 DEF Follows
  <2>16. d.limit = c.limit /\ d.size = c.size /\ (d.gc <=> c.gc)
    BY <1>1, <1>5, <2>4, <2>6, <2>12
  <2>17. GotFirst(c, d, s) BY <2>11, <2>12, <2>15, <2>16 DEF GotFirst
  <2> QED BY <2>17 DEF d
<1>6. CASE c.firstId # s /\ ~c.firstGc
  <2>1. d = VectorGet(c, s + 1) BY <1>6 DEF FirstGet
  <2>2. /\ Shape(scenario, d) /\ Counting(d) = Counting(c) /\ Exact(d)
        /\ Slot(d, s) = s + 1 /\ DOMAIN d.slots = DOMAIN c.slots \cup {s + 1}
        /\ \A j \in DOMAIN c.slots : Alike(c, d, j)
        /\ s + 1 \notin DOMAIN c.slots => d.slots[s+1] = NewState
        /\ (d.gc <=> c.gc) /\ d.size = c.size /\ d.limit = c.limit
    BY <1>1, <1>6, <2>1, VectorGetKeeps
  <2> HIDE DEF d
  <2>3. ASSUME NEW j \in DOMAIN d.slots, j \notin DOMAIN c.slots PROVE Fresh(d, j, s)
    <3>1. j = s + 1 /\ d.slots[j] = NewState BY <2>2, <2>3
    <3> QED BY <2>2, <3>1, NewStateType DEF Fresh
  <2>4. Follows(c, d, s) BY <2>2, <2>3 DEF Follows, Alike
  <2>5. ASSUME scenario.options.gc, ~d.firstGc, ~d.gc PROVE Counting(d) = {}
    BY <1>1, <1>6, <2>2, <2>5 DEF Settled, Counting
  <2>6. GotFirst(c, d, s) BY <2>2, <2>4, <2>5 DEF GotFirst
  <2> QED BY <2>6 DEF d
<1> QED BY <1>2, <1>3, <1>4, <1>5, <1>6
\* The slot that is spared keeps its state.
LEMMA SlotStays ==
  ASSUME NEW sc, NEW c, NEW d, Shape(sc, c), Shape(sc, d), NEW s \in Nat,
         AsBefore(c, d, Slot(c, s))
  PROVE  Slot(d, s) = Slot(c, s)
<1>1. Owner(c, Slot(c, s)) = s BY OwnerOfSlot
<1>2. Owner(d, Slot(c, s)) = s /\ Slot(c, s) \in DOMAIN d.slots BY <1>1 DEF AsBefore
<1> QED BY <1>2, OwnerOfSlot

\* Counting a state in its slot and collecting is no more than requesting it.
LEMMA CollectsFollows ==
  ASSUME NEW sc, NEW c, NEW b, NEW d, NEW e, NEW s \in Nat,
         Shape(sc, b), Shape(sc, d), Follows(c, b, s), b.limit = c.limit,
         DOMAIN d.slots = DOMAIN b.slots, \A j \in DOMAIN b.slots : AsBefore(b, d, j),
         d.limit = b.limit, Collects(sc, d, e, Slot(b, s))
  PROVE  Follows(c, e, s) /\ Slot(e, s) = Slot(b, s)
<1> DEFINE i == Slot(b, s)
<1>1. i \in DOMAIN b.slots BY DEF Follows
<1>2. i \in DOMAIN e.slots /\ Shape(sc, e) BY <1>1 DEF Collects
<1>3. \A j \in DOMAIN e.slots : AsBefore(b, e, j)
  <2> SUFFICES ASSUME NEW j \in DOMAIN e.slots PROVE AsBefore(b, e, j) OBVIOUS
  <2>1. AsBefore(d, e, j) BY DEF Collects, Alike
  <2>2. j \in DOMAIN b.slots BY <2>1 DEF AsBefore
  <2>3. AsBefore(b, d, j) BY <2>2
  <2> QED BY <2>1, <2>3, AlikeTwice
<1>4. Slot(e, s) = i BY <1>2, <1>3, SlotStays
<1> HIDE DEF i
<1>5. \A j \in DOMAIN e.slots : \/ AsBefore(c, e, j)
                                \/ Fresh(e, j, s) /\ (j \in DOMAIN c.slots => c.slots[j].refs = 0)
  <2> SUFFICES ASSUME NEW j \in DOMAIN e.slots
               PROVE  \/ AsBefore(c, e, j)
                      \/ Fresh(e, j, s) /\ (j \in DOMAIN c.slots => c.slots[j].refs = 0)
    OBVIOUS
  <2>1. AsBefore(b, e, j) /\ j \in DOMAIN b.slots BY <1>3 DEF AsBefore
  <2>2. CASE AsBefore(c, b, j) BY <2>1, <2>2, AlikeTwice
  <2>3. CASE Fresh(b, j, s) /\ (j \in DOMAIN c.slots => c.slots[j].refs = 0)
    <3>1. Fresh(e, j, s) BY <1>4, <2>1, <2>3 DEF Fresh, AsBefore, i
    <3> QED BY <2>3, <3>1
  <2> QED BY <2>1, <2>2, <2>3 DEF Follows
<1>6. \A j \in DOMAIN c.slots : c.slots[j].refs # 0 => AsBefore(c, e, j)
  <2> SUFFICES ASSUME NEW j \in DOMAIN c.slots, c.slots[j].refs # 0 PROVE AsBefore(c, e, j)
    OBVIOUS
  <2>1. AsBefore(c, b, j) BY DEF Follows
  <2>2. j \in DOMAIN b.slots /\ b.slots[j].refs # 0 BY <2>1 DEF AsBefore
  <2>3. j \in DOMAIN d.slots /\ d.slots[j].refs # 0 BY <2>2 DEF AsBefore
  <2>4. j \in DOMAIN e.slots BY <2>3 DEF Collects
  <2> QED BY <1>3, <2>1, <2>4, AlikeTwice
<1>7. e.limit # c.limit => \A j \in DOMAIN e.slots : j # Slot(e, s) => e.slots[j].refs # 0
  BY <1>4 DEF Collects, i
<1> QED BY <1>2, <1>4, <1>5, <1>6, <1>7 DEF Follows, i

LEMMA FollowsWhole ==
  ASSUME NEW c, NEW d, NEW s, Follows(c, d, s), \A i \in DOMAIN c.slots : Whole(c, i)
  PROVE  \A i \in DOMAIN d.slots : Whole(d, i)
  BY DEF Follows, AsBefore, Fresh, Whole

\* GCCacheStore::GetMutableState finds or makes the state, counts it if it is new to
\* the store, and collects garbage if there is too much.
LEMMA GetKeeps ==
  ASSUME NEW c, StoreOK(scenario, c), NEW s \in Nat
  PROVE  LET d == GetMutableState(c, s)
         IN  StoreOK(scenario, d) /\ Follows(c, d, s)
<1> DEFINE b == FirstGet(c, s)
           i == Slot(b, s)
           n == Size(b.slots[i])
           st == WithFlags(b.slots[i], {"Init"}, {})
           e == GetMutableState(c, s)
<1>1. GotFirst(c, b, s) BY FirstGetKeeps
<1>2. e = Initialised(b, i) BY DEF GetMutableState, FirstGot
<1> HIDE DEF b, e
<1>3. /\ Shape(scenario, b) /\ Exact(b) /\ Follows(c, b, s) /\ b \in Stores(scenario)
      /\ b.limit = c.limit /\ b.size = c.size /\ (b.gc <=> c.gc)
      /\ i \in DOMAIN b.slots /\ b.slots[i] \in CachedStates(scenario)
  <2>1. Shape(scenario, b) /\ Follows(c, b, s) BY <1>1 DEF GotFirst
  <2>2. b \in Stores(scenario) /\ i \in DOMAIN b.slots BY <2>1 DEF Shape, Follows
  <2> QED BY <1>1, <2>1, <2>2, SlotsOfStore DEF GotFirst
<1>4. CASE scenario.options.gc /\ "Init" \notin b.slots[i].flags
  <2> DEFINE a == Put(b, i, st)
             d == [a EXCEPT !.gc = TRUE, !.size = a.size + n]
  <2>1. e = Collected(d, i)
    <3>1. e = Counted([b EXCEPT !.slots[i] = st, !.gc = TRUE], i, n)
      BY <1>2, <1>4 DEF Initialised, options
    <3> HIDE DEF st, n, i
    <3>2. [[b EXCEPT !.slots[i] = st, !.gc = TRUE] EXCEPT !.size = @ + n] = d
      BY <1>3 DEF Put, Stores
    <3>3. e = Collected([[b EXCEPT !.slots[i] = st, !.gc = TRUE] EXCEPT !.size = @ + n], i)
      BY <3>1 DEF Counted
    <3> QED BY <3>2, <3>3
  <2>2. /\ st \in CachedStates(scenario) /\ "Init" \in st.flags
        /\ st.final = b.slots[i].final /\ st.arcs = b.slots[i].arcs
        /\ st.refs = b.slots[i].refs
        /\ \A f \in {"Final", "Arcs"} : f \in st.flags <=> f \in b.slots[i].flags
    BY <1>3 DEF WithFlags, CachedStates, Flag
  <2>3. n \in Nat /\ b.size \in Nat /\ b.limit >= 2 BY <1>3, SizeType DEF Stores, Shape
  <2> HIDE DEF st, i, n
  <2>4. /\ DOMAIN a.slots = DOMAIN b.slots
        /\ \A j \in DOMAIN b.slots : a.slots[j] = IF j = i THEN st ELSE b.slots[j]
        /\ a.list = b.list /\ a.firstId = b.firstId /\ a.size = b.size /\ a.limit = b.limit
        /\ a.firstGc = b.firstGc /\ a \in Stores(scenario)
    BY <1>3, <2>2, PutFields
  <2> HIDE DEF a
  <2>5. /\ d.slots = a.slots /\ d.list = a.list /\ d.firstId = a.firstId
        /\ d.size = b.size + n /\ d.limit = a.limit /\ d.firstGc = a.firstGc
        /\ d \in Stores(scenario) /\ d.gc
    <3> DEFINE y == a.size + n
    <3>1. y \in Nat /\ y = b.size + n /\ a \in Stores(scenario) BY <2>3, <2>4
    <3> HIDE DEF y
    <3>2. d = [a EXCEPT !.gc = TRUE, !.size = y] BY DEF y
    <3> HIDE DEF d
    <3> QED BY <3>1, <3>2 DEF Stores
  <2> HIDE DEF d
  <2>6. ~b.firstGc BY <1>3, <1>4 DEF Shape
  <2>7. Counting(d) = Counting(b) \cup {i} /\ i \notin Counting(b) /\ i \in Counting(d)
    BY <1>3, <1>4, <2>2, <2>4, <2>5 DEF Counting
  <2>8. \A j \in DOMAIN d.slots : d.slots[j].arcs = b.slots[j].arcs /\ j \in DOMAIN b.slots
    BY <2>2, <2>4, <2>5
  <2>9. Exact(d)
    <3>1. Counting(b) \in SUBSET DOMAIN b.slots BY DEF Counting
    <3>2. IsFiniteSet(Counting(b))
      <4>1. IsFiniteSet(DOMAIN b.slots) BY <1>3 DEF Shape
      <4> QED BY <3>1, <4>1, FS_Subset
    <3>3. SizeOf(b, Counting(b) \cup {i}) = SizeOf(b, Counting(b)) + n
      BY <1>3, <2>7, <3>1, <3>2, SizeOfMore DEF n
    <3>4. b.size = SizeOf(b, Counting(b))
      <4>1. CASE b.gc BY <1>3, <4>1 DEF Exact
      <4>2. CASE ~b.gc
        <5>1. Counting(b) = {} BY <1>1, <1>4, <2>6, <4>2 DEF GotFirst
        <5>2. b.size = 0 BY <1>3, <4>2 DEF Exact
        <5> QED BY <5>1, <5>2, SizeOfNone
      <4> QED BY <4>1, <4>2
    <3>5. SizeOf(d, Counting(d)) = SizeOf(b, Counting(d))
      <4>1. \A j \in Counting(d) : d.slots[j].arcs = b.slots[j].arcs BY <2>8 DEF Counting
      <4> QED BY <4>1, SizeOfSame
    <3>6. d.size = SizeOf(d, Counting(d)) BY <2>5, <2>7, <3>3, <3>4, <3>5
    <3> QED BY <2>5, <3>6 DEF Exact
  <2>10. Shape(scenario, d)
    <3> QED BY <1>3, <1>4, <2>3, <2>4, <2>5, <2>6 DEF Shape
  <2>11. Collects(scenario, d, e, i) BY <2>1, <2>5, <2>7, <2>9, <2>10, CollectedKeeps
  <2>12. \A j \in DOMAIN b.slots : AsBefore(b, d, j) BY <2>2, <2>4, <2>5 DEF AsBefore, Owner
  <2>13. Follows(c, e, s)
    <3>1. DOMAIN d.slots = DOMAIN b.slots /\ d.limit = b.limit BY <2>4, <2>5
    <3> QED BY <1>3, <2>10, <2>11, <2>12, <3>1, CollectsFollows DEF i
  <2>14. StoreOK(scenario, e)
    BY <2>11, <2>13, FollowsWhole DEF Collects, StoreOK, Settled, Sized
  <2> QED BY <2>13, <2>14 DEF e
<1>5. CASE ~(scenario.options.gc /\ "Init" \notin b.slots[i].flags)
  <2>1. e = b BY <1>2, <1>5 DEF Initialised, options
  <2>2. Settled(scenario, b)
    <3> SUFFICES ASSUME scenario.options.gc, ~b.firstGc, ~b.gc PROVE FALSE BY DEF Settled
    <3>1. Counting(b) = {} BY <1>1 DEF GotFirst
    <3>2. i \in Counting(b) BY <1>3, <1>5 DEF Counting
    <3> QED BY <3>1, <3>2
  <2>3. Sized(b) BY <1>3 DEF StoreOK, Sized
  <2> QED BY <1>3, <2>1, <2>2, <2>3, FollowsWhole DEF StoreOK, e
<1> QED BY <1>4, <1>5

-----------------------------------------------------------------------------
(* What the cached states mean, and what a call may change.                *)

Ids(tab) == 0..Len(tab)-1

\* What slot i holds is what would be computed of its state.
Means(sc, c, tab, i) ==
  LET st == c.slots[i] IN
  /\ Owner(c, i) \in Ids(tab)
  /\ "Final" \in st.flags => st.final = sc.fst.final[tab[Owner(c, i) + 1]]
  /\ "Arcs" \in st.flags =>
       sc.fst.next[tab[Owner(c, i) + 1]] = [k \in DOMAIN st.arcs |-> tab[st.arcs[k] + 1]]
  /\ \A k \in DOMAIN st.arcs : st.arcs[k] \in Ids(tab)

Content(sc, c, tab) == \A i \in DOMAIN c.slots : Means(sc, c, tab, i)

Moves(c, d, s) ==
  /\ Slot(d, s) \in DOMAIN d.slots
  /\ DOMAIN d.slots \subseteq DOMAIN c.slots \cup {Slot(d, s)}
  /\ \A i \in DOMAIN d.slots :
       d.slots[i].refs = IF i \in DOMAIN c.slots THEN c.slots[i].refs ELSE 0
  /\ \A i \in DOMAIN c.slots : c.slots[i].refs # 0 =>
       /\ i \in DOMAIN d.slots /\ Owner(d, i) = Owner(c, i)
       /\ "Arcs" \in c.slots[i].flags => "Arcs" \in d.slots[i].flags
  /\ d.limit # c.limit => \A i \in DOMAIN d.slots : i # Slot(d, s) => d.slots[i].refs # 0

LEMMA FollowsMoves ==
  ASSUME NEW c, NEW d, NEW s, Follows(c, d, s)
  PROVE  Moves(c, d, s)
<1>1. ASSUME NEW i \in DOMAIN d.slots
      PROVE  /\ i \in DOMAIN c.slots \cup {Slot(d, s)}
             /\ d.slots[i].refs = IF i \in DOMAIN c.slots THEN c.slots[i].refs ELSE 0
  <2>1. CASE AsBefore(c, d, i) BY <2>1 DEF AsBefore
  <2>2. CASE Fresh(d, i, s) /\ (i \in DOMAIN c.slots => c.slots[i].refs = 0)
    BY <2>2 DEF Fresh
  <2> QED BY <2>1, <2>2 DEF Follows
<1>2. ASSUME NEW i \in DOMAIN c.slots, c.slots[i].refs # 0
      PROVE  /\ i \in DOMAIN d.slots /\ Owner(d, i) = Owner(c, i)
             /\ "Arcs" \in c.slots[i].flags => "Arcs" \in d.slots[i].flags
  BY <1>2 DEF Follows, AsBefore
<1> QED BY <1>1, <1>2 DEF Follows, Moves

LEMMA MovesTwice ==
  ASSUME NEW sc, NEW c \in Stores(sc), NEW d, NEW e, NEW s,
         Moves(c, d, s), Moves(d, e, s), Slot(e, s) = Slot(d, s)
  PROVE  Moves(c, e, s)
<1>1. ASSUME NEW i \in DOMAIN e.slots
      PROVE  /\ i \in DOMAIN c.slots \cup {Slot(e, s)} /\ i \in DOMAIN d.slots
             /\ e.slots[i].refs = d.slots[i].refs
             /\ e.slots[i].refs = IF i \in DOMAIN c.slots THEN c.slots[i].refs ELSE 0
  BY DEF Moves
<1>2. ASSUME NEW i \in DOMAIN c.slots, c.slots[i].refs # 0
      PROVE  /\ i \in DOMAIN e.slots /\ Owner(e, i) = Owner(c, i)
             /\ "Arcs" \in c.slots[i].flags => "Arcs" \in e.slots[i].flags
  <2>1. /\ i \in DOMAIN d.slots /\ Owner(d, i) = Owner(c, i) /\ d.slots[i].refs # 0
        /\ "Arcs" \in c.slots[i].flags => "Arcs" \in d.slots[i].flags
    BY <1>2 DEF Moves
  <2> QED BY <2>1 DEF Moves
<1>3. ASSUME e.limit # c.limit, NEW i \in DOMAIN e.slots, i # Slot(e, s)
      PROVE  e.slots[i].refs # 0
  <2>1. CASE e.limit # d.limit BY <1>3, <2>1 DEF Moves
  <2>2. CASE d.limit # c.limit BY <1>1, <1>3, <2>2 DEF Moves
  <2> QED BY <1>3, <2>1, <2>2
<1>4. Slot(e, s) \in DOMAIN e.slots BY DEF Moves
<1> QED BY <1>1, <1>2, <1>3, <1>4 DEF Moves

LEMMA ContentFollows ==
  ASSUME NEW sc, NEW c, NEW d, NEW tab, NEW s \in Ids(tab), Len(tab) \in Nat,
         Shape(sc, d), Content(sc, c, tab), Follows(c, d, s)
  PROVE  Content(sc, d, tab)
<1> SUFFICES ASSUME NEW i \in DOMAIN d.slots PROVE Means(sc, d, tab, i) BY DEF Content
<1>1. CASE AsBefore(c, d, i)
  <2>1. Means(sc, c, tab, i) BY <1>1 DEF Content, AsBefore
  <2> QED BY <1>1, <2>1 DEF Means, AsBefore
<1>2. CASE Fresh(d, i, s)
  <2>1. s \in Nat BY DEF Ids
  <2>2. Owner(d, i) = s BY <1>2, <2>1, OwnerOfSlot DEF Fresh
  <2> QED BY <1>2, <2>2 DEF Means, Fresh
<1> QED BY <1>1, <1>2 DEF Follows

\* Is a state that is found by name in d found in c as well?
LEMMA FollowsHas ==
  ASSUME NEW sc, NEW c, NEW d, NEW s \in Nat, Shape(sc, c), Shape(sc, d), Follows(c, d, s),
         NEW f \in {"Final", "Arcs"}, f \in d.slots[Slot(d, s)].flags
  PROVE  Has(c, f, s)
<1> DEFINE i == Slot(d, s)
<1>1. i \in DOMAIN d.slots BY DEF Follows
<1>2. AsBefore(c, d, i) BY <1>1 DEF Follows, Fresh
<1>3. Owner(c, i) = s /\ i \in DOMAIN c.slots BY <1>2, OwnerOfSlot DEF AsBefore
<1>4. Slot(c, s) = i BY <1>3, OwnerOfSlot
<1>5. f \in c.slots[i].flags BY <1>2 DEF AsBefore
<1> QED BY <1>3, <1>4, <1>5 DEF Has, Stored, StateOf

\* A state in its slot is changed, but not its references: st may have a final weight
\* and flags more, and other arcs.
LEMMA PutKeeps ==
  ASSUME NEW c, StoreOK(scenario, c), NEW tab, Content(scenario, c, tab),
         NEW s \in Nat, Stored(c, s), NEW st \in CachedStates(scenario),
         "Init" \in st.flags <=> "Init" \in StateOf(c, s).flags,
         "Arcs" \in StateOf(c, s).flags => "Arcs" \in st.flags,
         "Arcs" \notin st.flags => st.arcs = <<>>,
         st.arcs = StateOf(c, s).arcs, st.refs = StateOf(c, s).refs,
         "Final" \in st.flags => st.final = scenario.fst.final[tab[s + 1]],
         "Arcs" \in st.flags =>
           scenario.fst.next[tab[s + 1]] = [k \in DOMAIN st.arcs |-> tab[st.arcs[k] + 1]]
  PROVE  LET d == Put(c, Slot(c, s), st)
         IN  /\ StoreOK(scenario, d) /\ Content(scenario, d, tab) /\ Moves(c, d, s)
             /\ Slot(d, s) = Slot(c, s) /\ d.slots[Slot(d, s)] = st
<1> DEFINE i == Slot(c, s)
           d == Put(c, i, st)
<1>1. /\ Shape(scenario, c) /\ Exact(c) /\ c \in Stores(scenario) /\ i \in DOMAIN c.slots
      /\ Settled(scenario, c) /\ Sized(c)
  BY DEF StoreOK, Shape, Stored
<1>2. Owner(c, i) = s BY <1>1, OwnerOfSlot
<1>3. StateOf(c, s) = c.slots[i] BY DEF StateOf
<1> HIDE DEF i
<1>4. /\ Shape(scenario, d) /\ Exact(d)
      /\ \A j \in DOMAIN c.slots : Owner(d, j) = Owner(c, j)
      /\ \A j \in DOMAIN c.slots : j # i => Alike(c, d, j)
  BY <1>1, <1>3, PutAlike
<1>5. /\ DOMAIN d.slots = DOMAIN c.slots
      /\ \A j \in DOMAIN c.slots : d.slots[j] = IF j = i THEN st ELSE c.slots[j]
      /\ d.firstGc = c.firstGc /\ d.gc = c.gc /\ d.size = c.size /\ d.limit = c.limit
  BY <1>1, PutFields
<1> HIDE DEF d
<1>6. Slot(d, s) = i BY <1>1, <1>2, <1>4, <1>5, OwnerOfSlot
<1>7. StoreOK(scenario, d)
  <2>1. \A j \in DOMAIN d.slots : Whole(d, j) BY <1>5 DEF StoreOK, Whole
  <2> QED BY <1>1, <1>4, <1>5, <2>1 DEF StoreOK, Settled, Sized
<1>8. Content(scenario, d, tab)
  <2> SUFFICES ASSUME NEW j \in DOMAIN d.slots PROVE Means(scenario, d, tab, j)
    BY DEF Content
  <2>1. Means(scenario, c, tab, j) /\ Owner(d, j) = Owner(c, j) BY <1>4, <1>5 DEF Content
  <2>2. CASE j # i
    <3>1. d.slots[j] = c.slots[j] BY <1>5, <2>2
    <3> QED BY <2>1, <3>1 DEF Means
  <2>3. CASE j = i
    <3>1. d.slots[j] = st BY <1>5, <2>3
    <3> QED BY <1>2, <1>3, <2>1, <2>3, <3>1 DEF Means
  <2> QED BY <2>2, <2>3
<1>9. Moves(c, d, s) BY <1>1, <1>3, <1>4, <1>5, <1>6 DEF Moves
<1> QED BY <1>1, <1>5, <1>6, <1>7, <1>8, <1>9 DEF d, i

-----------------------------------------------------------------------------
(* Caching final weights and arcs.                                         *)

\* Storing or using what is stored of a state s.
Keeps(c, d, tab, s) ==
  StoreOK(scenario, d) /\ Content(scenario, d, tab) /\ Moves(c, d, s)

LEMMA GetHolds ==
  ASSUME NEW c, StoreOK(scenario, c), NEW tab, Len(tab) \in Nat, NEW s \in Ids(tab),
         Content(scenario, c, tab)
  PROVE  LET d == GetMutableState(c, s)
         IN  Keeps(c, d, tab, s) /\ Stored(d, s) /\ Follows(c, d, s)
<1> DEFINE d == GetMutableState(c, s)
<1>1. s \in Nat BY DEF Ids
<1>2. StoreOK(scenario, d) /\ Follows(c, d, s) BY <1>1, GetKeeps
<1> HIDE DEF d
<1>3. Content(scenario, d, tab) BY <1>2, ContentFollows DEF StoreOK
<1>4. Moves(c, d, s) BY <1>2, FollowsMoves
<1>5. Stored(d, s) BY <1>2 DEF Follows, Stored
<1> QED BY <1>2, <1>3, <1>4, <1>5 DEF Keeps, d

LEMMA StateStored ==
  ASSUME NEW c, StoreOK(scenario, c), NEW tab, Content(scenario, c, tab),
         NEW s \in Nat, Stored(c, s)
  PROVE  LET st == StateOf(c, s) IN
         /\ c \in Stores(scenario) /\ Slot(c, s) \in DOMAIN c.slots /\ s \in Ids(tab)
         /\ st = c.slots[Slot(c, s)] /\ st \in CachedStates(scenario)
         /\ "Arcs" \notin st.flags => st.arcs = <<>>
         /\ "Final" \in st.flags => st.final = scenario.fst.final[tab[s + 1]]
         /\ "Arcs" \in st.flags =>
              scenario.fst.next[tab[s + 1]] = [k \in DOMAIN st.arcs |-> tab[st.arcs[k] + 1]]
         /\ \A k \in DOMAIN st.arcs : st.arcs[k] \in Ids(tab)
<1> DEFINE i == Slot(c, s)
<1>1. /\ Shape(scenario, c) /\ c \in Stores(scenario) /\ i \in DOMAIN c.slots
      /\ StateOf(c, s) = c.slots[i]
  BY DEF StoreOK, Shape, Stored, StateOf
<1>2. Owner(c, i) = s BY <1>1, OwnerOfSlot
<1>3. c.slots[i] \in CachedStates(scenario) BY <1>1, SlotsOfStore
<1>4. Whole(c, i) /\ Means(scenario, c, tab, i) BY <1>1 DEF StoreOK, Content
<1> HIDE DEF i
<1> QED BY <1>1, <1>2, <1>3, <1>4 DEF Whole, Means, i

LEMMA TouchedKeeps ==
  ASSUME NEW c, StoreOK(scenario, c), NEW tab, Content(scenario, c, tab),
         NEW s \in Nat, Stored(c, s)
  PROVE  LET d == Touched(c, s)
         IN  /\ Keeps(c, d, tab, s) /\ Slot(d, s) = Slot(c, s)
             /\ \A f \in {"Final", "Arcs"} : Has(c, f, s) => Has(d, f, s)
             /\ StateOf(d, s).arcs = StateOf(c, s).arcs
<1> DEFINE st == StateOf(c, s)
           new == WithFlags(st, {"Recent"}, {})
           d == Put(c, Slot(c, s), new)
<1>1. Touched(c, s) = d BY DEF Touched, Put, StateOf
<1>2. /\ st = c.slots[Slot(c, s)] /\ st \in CachedStates(scenario)
      /\ "Arcs" \notin st.flags => st.arcs = <<>>
      /\ "Final" \in st.flags => st.final = scenario.fst.final[tab[s + 1]]
      /\ "Arcs" \in st.flags =>
           scenario.fst.next[tab[s + 1]] = [k \in DOMAIN st.arcs |-> tab[st.arcs[k] + 1]]
  BY StateStored
<1> HIDE DEF st
<1>3. /\ new \in CachedStates(scenario) /\ new.final = st.final /\ new.arcs = st.arcs
      /\ new.refs = st.refs
      /\ \A f \in {"Final", "Arcs", "Init"} : f \in new.flags <=> f \in st.flags
  BY <1>2 DEF WithFlags, CachedStates, Flag
<1> HIDE DEF new
<1>4. /\ StoreOK(scenario, d) /\ Content(scenario, d, tab) /\ Moves(c, d, s)
      /\ Slot(d, s) = Slot(c, s) /\ d.slots[Slot(d, s)] = new
  BY <1>2, <1>3, PutKeeps DEF st
<1>5. StateOf(d, s) = new /\ Stored(d, s) BY <1>4 DEF StateOf, Stored, Moves
<1>6. ASSUME NEW f \in {"Final", "Arcs"}, Has(c, f, s) PROVE Has(d, f, s)
  BY <1>3, <1>5, <1>6 DEF Has, st
<1> HIDE DEF d
<1> QED BY <1>1, <1>3, <1>4, <1>5, <1>6 DEF Keeps, st

\* SetFinal.
LEMMA SetFinalKeeps ==
  ASSUME NEW c, StoreOK(scenario, c), NEW tab, Len(tab) \in Nat, NEW s \in Ids(tab),
         Content(scenario, c, tab), NEW w \in FinalValues(scenario),
         w = scenario.fst.final[tab[s + 1]]
  PROVE  LET d == SetFinal(c, s, w) IN Keeps(c, d, tab, s) /\ Has(d, "Final", s)
<1> DEFINE b == GetMutableState(c, s)
           st == StateOf(b, s)
           new == WithFlags([st EXCEPT !.final = w], {"Final", "Recent"}, {})
           d == Put(b, Slot(b, s), new)
<1>0. s \in Nat /\ c \in Stores(scenario) BY DEF Ids, StoreOK, Shape
<1>1. SetFinal(c, s, w) = d BY DEF SetFinal, PutFinal, WithFinal, Put, StateOf
<1>2. Keeps(c, b, tab, s) /\ Stored(b, s) BY GetHolds
<1> HIDE DEF b
<1>3. /\ st = b.slots[Slot(b, s)] /\ st \in CachedStates(scenario)
      /\ "Arcs" \notin st.flags => st.arcs = <<>>
      /\ "Arcs" \in st.flags =>
           scenario.fst.next[tab[s + 1]] = [k \in DOMAIN st.arcs |-> tab[st.arcs[k] + 1]]
  BY <1>0, <1>2, StateStored DEF Keeps
<1> HIDE DEF st
<1>4. /\ new \in CachedStates(scenario) /\ new.final = w /\ new.arcs = st.arcs
      /\ new.refs = st.refs /\ "Final" \in new.flags
      /\ \A f \in {"Arcs", "Init"} : f \in new.flags <=> f \in st.flags
  BY <1>3 DEF WithFlags, CachedStates, Flag
<1> HIDE DEF new
<1>5. /\ StoreOK(scenario, d) /\ Content(scenario, d, tab) /\ Moves(b, d, s)
      /\ Slot(d, s) = Slot(b, s) /\ d.slots[Slot(d, s)] = new
  <2>1. /\ new.arcs = StateOf(b, s).arcs /\ new.refs = StateOf(b, s).refs
        /\ "Init" \in new.flags <=> "Init" \in StateOf(b, s).flags
        /\ "Arcs" \in StateOf(b, s).flags => "Arcs" \in new.flags
        /\ "Arcs" \notin new.flags => new.arcs = <<>>
        /\ "Final" \in new.flags => new.final = scenario.fst.final[tab[s + 1]]
        /\ "Arcs" \in new.flags =>
             scenario.fst.next[tab[s + 1]] = [k \in DOMAIN new.arcs |-> tab[new.arcs[k] + 1]]
    BY <1>3, <1>4 DEF st
  <2>2. StoreOK(scenario, b) /\ Content(scenario, b, tab) BY <1>2 DEF Keeps
  <2> QED BY <1>0, <1>2, <1>4, <2>1, <2>2, PutKeeps
<1>6. Has(d, "Final", s) BY <1>4, <1>5 DEF Has, StateOf, Stored, Moves
<1> HIDE DEF d
<1>7. Moves(c, d, s) BY <1>0, <1>2, <1>5, MovesTwice DEF Keeps
<1> QED BY <1>1, <1>5, <1>6, <1>7 DEF Keeps

\* What counting the arcs of slot i leaves of a.
Counts(a, d, i) ==
  /\ Shape(scenario, d) /\ Exact(d) /\ Settled(scenario, d) /\ Sized(d)
  /\ \A j \in DOMAIN d.slots : AsBefore(a, d, j)
  /\ \A j \in DOMAIN a.slots : a.slots[j].refs # 0 \/ j = i => j \in DOMAIN d.slots
  /\ d.limit # a.limit => \A j \in DOMAIN d.slots : j # i => d.slots[j].refs # 0

LEMMA SizeFields ==
  ASSUME NEW sc, NEW c, Shape(sc, c), NEW n \in Nat, NEW d, d = [c EXCEPT !.size = n]
  PROVE  /\ Shape(sc, d) /\ d.slots = c.slots /\ d.size = n /\ d.limit = c.limit
         /\ d.firstId = c.firstId /\ (d.gc <=> c.gc) /\ Counting(d) = Counting(c)
<1>1. c \in Stores(sc) BY DEF Shape
<1>2. /\ d.slots = c.slots /\ d.size = n /\ d.limit = c.limit /\ d.list = c.list
      /\ d.firstId = c.firstId /\ d.gc = c.gc /\ d.firstGc = c.firstGc /\ d \in Stores(sc)
  BY <1>1 DEF Stores
<1>3. Counting(d) = Counting(c) BY <1>2 DEF Counting
<1>4. Shape(sc, d) BY <1>2 DEF Shape
<1> QED BY <1>2, <1>3, <1>4

\* GCCacheStore::SetArcs, for a state that had no arcs.
LEMMA CountArcsKeeps ==
  ASSUME NEW c, StoreOK(scenario, c), NEW i \in DOMAIN c.slots, c.slots[i].arcs = <<>>,
         NEW arcs \in Seq(Nat)
  PROVE  LET a == Put(c, i, [c.slots[i] EXCEPT !.arcs = arcs])
         IN  Counts(a, CountArcs(a, i), i)
<1> DEFINE st == [c.slots[i] EXCEPT !.arcs = arcs]
           a == Put(c, i, st)
           d == CountArcs(a, i)
           n == Len(arcs) * ArcSize
<1>1. /\ Shape(scenario, c) /\ Exact(c) /\ Settled(scenario, c) /\ Sized(c)
      /\ c \in Stores(scenario) /\ c.slots[i] \in CachedStates(scenario)
  BY SlotsOfStore DEF StoreOK, Shape
<1>2. /\ st \in CachedStates(scenario) /\ st.arcs = arcs /\ st.flags = c.slots[i].flags
  BY <1>1 DEF CachedStates
<1>3. n \in Nat
  <2>1. Len(arcs) \in Nat /\ ArcSize \in Nat BY CacheAssumption
  <2> QED BY <2>1
<1>4. d = IF a.gc /\ "Init" \in a.slots[i].flags THEN Counted(a, i, n) ELSE a
  <2>1. a.slots[i].arcs = arcs
    <3> HIDE DEF st
    <3> QED BY <1>1, <1>2, PutFields
  <2> HIDE DEF a
  <2> QED BY <2>1 DEF CountArcs
<1> HIDE DEF st, n, d
<1>5. /\ Shape(scenario, a) /\ Counting(a) = Counting(c)
      /\ \A j \in DOMAIN c.slots : j # i => Alike(c, a, j)
  BY <1>1, <1>2, PutAlike
<1>6. /\ DOMAIN a.slots = DOMAIN c.slots
      /\ \A j \in DOMAIN c.slots : a.slots[j] = IF j = i THEN st ELSE c.slots[j]
      /\ a.firstGc = c.firstGc /\ a.gc = c.gc /\ a.size = c.size /\ a.limit = c.limit
  BY <1>1, PutFields
<1> HIDE DEF a
<1>7. a.size \in Nat /\ a \in Stores(scenario) BY <1>5 DEF Shape, Stores
<1>8. CASE a.gc /\ "Init" \in a.slots[i].flags
  <2> DEFINE b == [a EXCEPT !.size = a.size + n]
  <2>1. d = Collected(b, i) BY <1>4, <1>8 DEF Counted
  <2>2. a.size + n \in Nat BY <1>3, <1>7
  <2>3. /\ Shape(scenario, b) /\ b.slots = a.slots /\ b.size = a.size + n /\ b.limit = a.limit
        /\ b.firstId = a.firstId /\ (b.gc <=> a.gc) /\ Counting(b) = Counting(a)
    BY <1>5, <2>2, SizeFields
  <2> HIDE DEF b
  <2>4. i \in Counting(b) BY <1>6, <1>8, <2>3 DEF Counting
  <2>5. Exact(b)
    <3> DEFINE S == Counting(c)
    <3>1. S \in SUBSET DOMAIN c.slots /\ i \in S BY <1>5, <2>3, <2>4 DEF Counting
    <3>2. IsFiniteSet(S)
      <4>1. IsFiniteSet(DOMAIN c.slots) BY <1>1 DEF Shape
      <4> QED BY <3>1, <4>1, FS_Subset
    <3> HIDE DEF S
    <3>3. /\ SizeOf(c, S) = SizeOf(c, S \ {i}) + Size(c.slots[i])
          /\ SizeOf(c, S \ {i}) \in Nat
      BY <1>1, <3>1, <3>2, SizeOfLess
    <3>4. SizeOf(a, S) = SizeOf(a, S \ {i}) + Size(a.slots[i])
      BY <1>6, <1>7, <3>1, <3>2, SizeOfLess
    <3>5. SizeOf(a, S \ {i}) = SizeOf(c, S \ {i})
      <4> DEFINE T == S \ {i}
      <4>1. \A j \in T : a.slots[j].arcs = c.slots[j].arcs BY <1>6, <3>1
      <4> HIDE DEF T
      <4>2. SizeOf(a, T) = SizeOf(c, T) BY <4>1, SizeOfSame
      <4> QED BY <4>2 DEF T
    <3>6. Size(c.slots[i]) = StateSize /\ StateSize \in Nat
      <4>1. StateSize \in Nat /\ ArcSize \in Nat BY CacheAssumption
      <4>2. StateSize + 0 * ArcSize = StateSize BY <4>1
      <4>3. Len(c.slots[i].arcs) = 0 OBVIOUS
      <4> QED BY <4>1, <4>2, <4>3 DEF Size
    <3>7. Size(a.slots[i]) = StateSize + n
      <4>1. a.slots[i].arcs = arcs BY <1>2, <1>6
      <4> QED BY <4>1 DEF Size, n
    <3>8. c.size = SizeOf(c, S) BY <1>1, <1>6, <1>8 DEF Exact, S
    <3>9. b.size = SizeOf(a, S) BY <1>3, <1>6, <2>3, <3>3, <3>4, <3>5, <3>6, <3>7, <3>8
    <3>10. SizeOf(b, S) = SizeOf(a, S)
      <4>1. \A j \in S : b.slots[j].arcs = a.slots[j].arcs BY <2>3
      <4> QED BY <4>1, SizeOfSame
    <3> QED BY <1>5, <1>8, <2>3, <3>9, <3>10 DEF Exact, S
  <2>6. Collects(scenario, b, d, i) BY <1>8, <2>1, <2>3, <2>4, <2>5, CollectedKeeps
  <2>7. \A j \in DOMAIN d.slots : AsBefore(a, d, j)
    BY <2>3, <2>6 DEF Collects, Alike, AsBefore, Owner
  <2>8. Counts(a, d, i) BY <2>3, <2>6, <2>7 DEF Collects, Counts, Settled, Sized
  <2> QED BY <2>8 DEF d, a, st
<1>9. CASE ~(a.gc /\ "Init" \in a.slots[i].flags)
  <2>1. d = a BY <1>4, <1>9
  <2>2. Exact(a)
    <3>1. CASE a.gc
      <4>1. i \notin Counting(c) BY <1>5, <1>9, <3>1 DEF Counting
      <4>2. \A j \in Counting(c) : c.slots[j].arcs = a.slots[j].arcs
        BY <1>6, <4>1 DEF Counting
      <4>3. SizeOf(c, Counting(c)) = SizeOf(a, Counting(c)) BY <4>2, SizeOfSame
      <4> QED BY <1>1, <1>5, <1>6, <3>1, <4>3 DEF Exact
    <3>2. CASE ~a.gc BY <1>1, <1>6, <3>2 DEF Exact
    <3> QED BY <3>1, <3>2
  <2>3. Settled(scenario, a) /\ Sized(a) BY <1>1, <1>6 DEF Settled, Sized
  <2>4. Counts(a, d, i) BY <1>5, <2>1, <2>2, <2>3 DEF Counts, AsBefore
  <2> QED BY <2>4 DEF d, a, st
<1> QED BY <1>8, <1>9

\* PushArc for each arc, and SetArcs.
LEMMA PushAndSetArcsKeeps ==
  ASSUME NEW c, StoreOK(scenario, c), NEW tab, Len(tab) \in Nat, NEW s \in Ids(tab),
         Content(scenario, c, tab), ~Has(c, "Arcs", s),
         NEW arcs \in Seq(Nat), \A k \in DOMAIN arcs : arcs[k] \in Ids(tab),
         scenario.fst.next[tab[s + 1]] = [k \in DOMAIN arcs |-> tab[arcs[k] + 1]]
  PROVE  LET d == PushAndSetArcs(c, s, arcs)
         IN  Keeps(c, d, tab, s) /\ Has(d, "Arcs", s) /\ StateOf(d, s).arcs = arcs
<1> DEFINE b == GetMutableState(c, s)
           i == Slot(b, s)
           st == [b.slots[i] EXCEPT !.arcs = arcs]
           a == Put(b, i, st)
           d == CountArcs(a, i)
           new == WithFlags(d.slots[i], {"Arcs", "Recent"}, {})
           e == Put(d, i, new)
<1>0. s \in Nat /\ c \in Stores(scenario) /\ Shape(scenario, c) BY DEF Ids, StoreOK, Shape
<1>1. Keeps(c, b, tab, s) /\ Stored(b, s) /\ Follows(c, b, s) BY GetHolds
<1>2. /\ StoreOK(scenario, b) /\ Shape(scenario, b) /\ b \in Stores(scenario)
      /\ i \in DOMAIN b.slots /\ Content(scenario, b, tab) /\ Moves(c, b, s)
  BY <1>1 DEF Keeps, StoreOK, Shape, Stored
<1>3. "Arcs" \notin b.slots[i].flags BY <1>0, <1>1, <1>2, FollowsHas
<1>4. b.slots[i].arcs = <<>> /\ b.slots[i] \in CachedStates(scenario)
  BY <1>2, <1>3, SlotsOfStore DEF StoreOK, Whole
<1>5. PushAndSetArcs(c, s, arcs) = e
  <2>1. PushAndSetArcs(c, s, arcs) = WithArcs(b, i, arcs) BY DEF PushAndSetArcs, PutArcs
  <2> HIDE DEF b, i
  <2>2. <<>> \o arcs = arcs OBVIOUS
  <2>3. [b.slots[i] EXCEPT !.arcs = @ \o arcs] = st BY <1>4, <2>2
  <2>4. WithArcs(b, i, arcs) =
          [CountArcs([b EXCEPT !.slots[i].arcs = @ \o arcs], i)
             EXCEPT !.slots[i] = WithFlags(@, {"Arcs", "Recent"}, {})]
    BY DEF WithArcs
  <2>5. [b EXCEPT !.slots[i].arcs = @ \o arcs] = a BY <2>3 DEF Put
  <2>6. WithArcs(b, i, arcs) = [d EXCEPT !.slots[i] = WithFlags(@, {"Arcs", "Recent"}, {})]
    BY <2>4, <2>5
  <2> HIDE DEF d
  <2> QED BY <2>1, <2>6 DEF Put
<1> HIDE DEF b
<1>6. Owner(b, i) = s BY <1>0, <1>2, OwnerOfSlot
<1> HIDE DEF i
<1>7. /\ st \in CachedStates(scenario) /\ st.arcs = arcs /\ st.flags = b.slots[i].flags
      /\ st.refs = b.slots[i].refs /\ st.final = b.slots[i].final
  BY <1>4 DEF CachedStates
<1>8. Counts(a, d, i) BY <1>2, <1>4, CountArcsKeeps
<1> HIDE DEF st, d
<1>9. /\ Shape(scenario, a)
      /\ \A j \in DOMAIN b.slots : Owner(a, j) = Owner(b, j)
      /\ \A j \in DOMAIN b.slots : j # i => Alike(b, a, j)
  <2>1. "Init" \in st.flags <=> "Init" \in b.slots[i].flags BY <1>7
  <2>2. st \in CachedStates(scenario) BY <1>7
  <2> HIDE DEF a
  <2>3. /\ Shape(scenario, Put(b, i, st))
        /\ \A j \in DOMAIN b.slots : Owner(Put(b, i, st), j) = Owner(b, j)
        /\ \A j \in DOMAIN b.slots : j # i => Alike(b, Put(b, i, st), j)
    BY <1>2, <2>1, <2>2, PutAlike
  <2> QED BY <2>3 DEF a
<1>10. /\ DOMAIN a.slots = DOMAIN b.slots /\ a.limit = b.limit
       /\ \A j \in DOMAIN b.slots : a.slots[j] = IF j = i THEN st ELSE b.slots[j]
  BY <1>2, PutFields
<1> HIDE DEF a
<1>11. /\ Shape(scenario, d) /\ d \in Stores(scenario) /\ i \in DOMAIN d.slots
       /\ AsBefore(a, d, i) /\ d.slots[i] \in CachedStates(scenario)
  <2>1. Shape(scenario, d) /\ i \in DOMAIN d.slots BY <1>2, <1>8, <1>10 DEF Counts
  <2>2. d \in Stores(scenario) BY <2>1 DEF Shape
  <2> QED BY <1>8, <2>1, <2>2, SlotsOfStore DEF Counts
<1>12. /\ d.slots[i].arcs = arcs /\ d.slots[i].refs = b.slots[i].refs
       /\ d.slots[i].final = b.slots[i].final /\ Owner(d, i) = s
       /\ ("Final" \in d.slots[i].flags <=> "Final" \in b.slots[i].flags)
  BY <1>2, <1>6, <1>7, <1>9, <1>10, <1>11 DEF AsBefore
<1>13. /\ new \in CachedStates(scenario) /\ new.arcs = arcs /\ new.refs = b.slots[i].refs
       /\ new.final = b.slots[i].final /\ "Arcs" \in new.flags
       /\ \A f \in {"Final", "Init"} : f \in new.flags <=> f \in d.slots[i].flags
  BY <1>11, <1>12 DEF WithFlags, CachedStates, Flag
<1> HIDE DEF new
<1>14. /\ Shape(scenario, e) /\ Exact(e)
       /\ \A j \in DOMAIN d.slots : Owner(e, j) = Owner(d, j)
       /\ \A j \in DOMAIN d.slots : j # i => Alike(d, e, j)
  BY <1>8, <1>11, <1>12, <1>13, PutAlike DEF Counts
<1>15. /\ DOMAIN e.slots = DOMAIN d.slots /\ e.limit = d.limit
       /\ \A j \in DOMAIN d.slots : e.slots[j] = IF j = i THEN new ELSE d.slots[j]
       /\ e.firstGc = d.firstGc /\ e.gc = d.gc /\ e.size = d.size
  BY <1>11, PutFields
<1> HIDE DEF e
<1>16. Slot(e, s) = i /\ Owner(e, i) = s BY <1>0, <1>11, <1>12, <1>14, <1>15, OwnerOfSlot
<1>17. ASSUME NEW j \in DOMAIN e.slots, j # i PROVE AsBefore(b, e, j)
  <2>1. j \in DOMAIN d.slots /\ AsBefore(d, e, j) BY <1>14, <1>15, <1>17 DEF Alike
  <2>2. AsBefore(a, d, j) /\ j \in DOMAIN b.slots BY <1>8, <1>10, <2>1 DEF Counts, AsBefore
  <2>3. AsBefore(b, a, j) BY <1>9, <1>17, <2>2 DEF Alike
  <2> QED BY <2>1, <2>2, <2>3, AlikeTwice
<1>18. StoreOK(scenario, e)
  <2>1. Settled(scenario, e) /\ Sized(e) BY <1>8, <1>15 DEF Counts, Settled, Sized
  <2>2. ASSUME NEW j \in DOMAIN e.slots PROVE Whole(e, j)
    <3>1. CASE j = i BY <1>13, <1>15, <2>2, <3>1 DEF Whole
    <3>2. CASE j # i BY <1>2, <1>17, <2>2, <3>2 DEF StoreOK, Whole, AsBefore
    <3> QED BY <3>1, <3>2
  <2> QED BY <1>14, <2>1, <2>2 DEF StoreOK
<1>19. Content(scenario, e, tab)
  <2> SUFFICES ASSUME NEW j \in DOMAIN e.slots PROVE Means(scenario, e, tab, j)
    BY DEF Content
  <2>1. CASE j = i
    <3>1. e.slots[j] = new BY <1>11, <1>15, <2>1
    <3>2. Means(scenario, b, tab, i) BY <1>2 DEF Content
    <3>3. "Final" \in new.flags => new.final = scenario.fst.final[tab[s + 1]]
      BY <1>6, <1>12, <1>13, <3>2 DEF Means
    <3> QED BY <1>13, <1>16, <2>1, <3>1, <3>3 DEF Means
  <2>2. CASE j # i
    <3>1. AsBefore(b, e, j) BY <1>17, <2>2
    <3>2. Means(scenario, b, tab, j) BY <1>2, <3>1 DEF Content, AsBefore
    <3> QED BY <3>1, <3>2 DEF Means, AsBefore
  <2> QED BY <2>1, <2>2
<1>20. Moves(b, e, s)
  <2>1. i \in DOMAIN e.slots BY <1>11, <1>15
  <2>2. ASSUME NEW j \in DOMAIN e.slots
        PROVE  j \in DOMAIN b.slots /\ e.slots[j].refs = b.slots[j].refs
    <3>1. CASE j = i BY <1>2, <1>11, <1>13, <1>15, <3>1
    <3>2. CASE j # i BY <1>17, <2>2, <3>2 DEF AsBefore
    <3> QED BY <3>1, <3>2
  <2>3. ASSUME NEW j \in DOMAIN b.slots, b.slots[j].refs # 0
        PROVE  /\ j \in DOMAIN e.slots /\ Owner(e, j) = Owner(b, j)
               /\ "Arcs" \in b.slots[j].flags => "Arcs" \in e.slots[j].flags
    <3>1. CASE j = i BY <1>3, <1>6, <1>16, <2>1, <3>1
    <3>2. CASE j # i
      <4>1. a.slots[j].refs # 0 /\ j \in DOMAIN a.slots BY <1>10, <2>3, <3>2
      <4>2. j \in DOMAIN e.slots BY <1>8, <1>15, <4>1 DEF Counts
      <4> QED BY <1>17, <3>2, <4>2 DEF AsBefore
    <3> QED BY <3>1, <3>2
  <2>4. ASSUME e.limit # b.limit, NEW j \in DOMAIN e.slots, j # i PROVE e.slots[j].refs # 0
    BY <1>8, <1>10, <1>15, <2>4 DEF Counts
  <2> QED BY <1>16, <2>1, <2>2, <2>3, <2>4 DEF Moves
<1>21. Moves(c, e, s) BY <1>0, <1>2, <1>16, <1>20, MovesTwice DEF i
<1>22. Has(e, "Arcs", s) /\ StateOf(e, s).arcs = arcs
  BY <1>11, <1>13, <1>15, <1>16 DEF Has, Stored, StateOf
<1> QED BY <1>5, <1>18, <1>19, <1>21, <1>22 DEF Keeps

-----------------------------------------------------------------------------
(* The table of the states discovered.                                     *)

TableOK(sc, tab) == tab \in Seq(DOMAIN sc.fst.next) /\ Distinct(tab)

Extends(tab, more) ==
  /\ Len(tab) \in Nat /\ Len(more) \in Nat /\ Len(tab) <= Len(more)
  /\ \A i \in 1..Len(tab) : more[i] = tab[i]

LEMMA ExtendsTwice ==
  ASSUME NEW tab, NEW more, NEW most, Extends(tab, more), Extends(more, most)
  PROVE  Extends(tab, most)
  BY DEF Extends

LEMMA ContentExtends ==
  ASSUME NEW sc, NEW c, NEW tab, NEW more, Content(sc, c, tab), Extends(tab, more)
  PROVE  Content(sc, c, more)
<1> SUFFICES ASSUME NEW i \in DOMAIN c.slots PROVE Means(sc, c, more, i) BY DEF Content
<1>1. Means(sc, c, tab, i) BY DEF Content
<1>2. ASSUME NEW s \in Ids(tab) PROVE s \in Ids(more) /\ more[s+1] = tab[s+1]
  <2>1. s + 1 \in 1..Len(tab) /\ s \in 0..Len(more)-1 BY DEF Ids, Extends
  <2> QED BY <2>1 DEF Ids, Extends
<1>3. \A k \in DOMAIN c.slots[i].arcs :
        /\ c.slots[i].arcs[k] \in Ids(more)
        /\ more[c.slots[i].arcs[k] + 1] = tab[c.slots[i].arcs[k] + 1]
  BY <1>1, <1>2 DEF Means
<1>4. Owner(c, i) \in Ids(more) /\ more[Owner(c, i) + 1] = tab[Owner(c, i) + 1]
  BY <1>1, <1>2 DEF Means
<1> QED BY <1>1, <1>3, <1>4 DEF Means

LEMMA FindStateKeeps ==
  ASSUME NEW tab, TableOK(scenario, tab), NEW node \in DOMAIN scenario.fst.next
  PROVE  LET more == FindState(tab, node)
         IN  TableOK(scenario, more) /\ Extends(tab, more) /\ node \in ToSet(more)
<1> DEFINE more == FindState(tab, node)
           N == DOMAIN scenario.fst.next
<1>1. tab \in Seq(N) /\ Distinct(tab) /\ Len(tab) \in Nat /\ DOMAIN tab = 1..Len(tab)
  BY DEF TableOK
<1> HIDE DEF N
<1>2. CASE Contains(tab, node)
  <2>1. more = tab BY <1>2 DEF FindState
  <2>2. node \in ToSet(tab) BY <1>1, <1>2 DEF Contains, ToSet
  <2>3. Extends(tab, tab) BY <1>1 DEF Extends
  <2> QED BY <1>1, <2>1, <2>2, <2>3 DEF TableOK, N
<1>3. CASE ~Contains(tab, node)
  <2> DEFINE n == Len(tab)
             a == Append(tab, node)
  <2>1. more = a BY <1>3 DEF FindState
  <2>2. node \in N BY DEF N
  <2>3. /\ a \in Seq(N) /\ Len(a) = n + 1 /\ DOMAIN a = 1..n+1
        /\ \A k \in 1..n : a[k] = tab[k]
        /\ a[n+1] = node
    BY <1>1, <2>2
  <2>4. \A k \in 1..n : tab[k] # node BY <1>1, <1>3 DEF Contains
  <2> HIDE DEF a, more
  <2>5. ASSUME NEW j \in 1..n+1, NEW k \in 1..n+1, a[j] = a[k] PROVE j = k
    <3>1. CASE j \in 1..n /\ k \in 1..n BY <1>1, <2>3, <2>5, <3>1 DEF Distinct
    <3>2. CASE j = n + 1 /\ k \in 1..n BY <2>3, <2>4, <2>5, <3>2
    <3>3. CASE j \in 1..n /\ k = n + 1 BY <2>3, <2>4, <2>5, <3>3
    <3> QED BY <1>1, <3>1, <3>2, <3>3
  <2>6. Distinct(a) BY <2>3, <2>5 DEF Distinct
  <2>7. Extends(tab, a) BY <1>1, <2>3 DEF Extends
  <2>8. node \in ToSet(a)
    <3>1. n + 1 \in DOMAIN a BY <1>1, <2>3
    <3> QED BY <2>3, <3>1 DEF ToSet
  <2> QED BY <2>1, <2>3, <2>6, <2>7, <2>8 DEF TableOK, N, more
<1> QED BY <1>2, <1>3

LEMMA IdOfNode ==
  ASSUME NEW tab, Len(tab) \in Nat, DOMAIN tab = 1..Len(tab), NEW node \in ToSet(tab)
  PROVE  IdOf(tab, node) \in Ids(tab) /\ IdOf(tab, node) \in Nat
         /\ tab[IdOf(tab, node) + 1] = node
<1> DEFINE i == CHOOSE i \in 1..Len(tab) : tab[i] = node
<1>1. \E j \in 1..Len(tab) : tab[j] = node BY DEF ToSet
<1>2. i \in 1..Len(tab) /\ tab[i] = node BY <1>1
<1>3. IdOf(tab, node) = i - 1 BY DEF IdOf
<1> HIDE DEF i
<1>4. i - 1 \in 0..Len(tab)-1 /\ (i - 1) + 1 = i /\ i - 1 \in Nat BY <1>2
<1> QED BY <1>2, <1>3, <1>4 DEF Ids

LEMMA StaysInTable ==
  ASSUME NEW sc, NEW tab, NEW more, TableOK(sc, tab), TableOK(sc, more), Extends(tab, more)
  PROVE  ToSet(tab) \subseteq ToSet(more)
<1> SUFFICES ASSUME NEW e \in ToSet(tab) PROVE e \in ToSet(more) OBVIOUS
<1>1. DOMAIN tab = 1..Len(tab) /\ DOMAIN more = 1..Len(more) BY DEF TableOK
<1>2. PICK i \in 1..Len(tab) : e = tab[i] BY <1>1 DEF ToSet
<1>3. i \in DOMAIN more /\ more[i] = e BY <1>1, <1>2 DEF Extends
<1> QED BY <1>3 DEF ToSet

Finding == INSTANCE NumberTheorems WITH Step <- FindState

LEMMA FindAllKeeps ==
  ASSUME NEW tab, TableOK(scenario, tab), NEW list \in Seq(DOMAIN scenario.fst.next)
  PROVE  LET more == FoldLeft(FindState, tab, list)
         IN  /\ TableOK(scenario, more) /\ Extends(tab, more)
             /\ \A k \in DOMAIN list : list[k] \in ToSet(more)
<1> DEFINE n == Len(list)
           N == DOMAIN scenario.fst.next
           more == FoldLeft(FindState, tab, list)
<1>1. n \in Nat /\ DOMAIN list = 1..n /\ \A k \in 1..n : list[k] \in N OBVIOUS
<1> HIDE DEF n, more, N
<1>2. PICK g : Finding!IsChain(g, tab, list) /\ Finding!Folded(tab, list) = g[n]
  <2>1. Len(list) \in Nat /\ DOMAIN list = 1..Len(list) OBVIOUS
  <2> QED BY <2>1, Finding!FoldIsChain, Zenon DEF n
<1>3. g[0] = tab /\ \A k \in 1..n : g[k] = FindState(g[k-1], list[k])
  BY <1>2 DEF Finding!IsChain, n
<1>4. more = g[n]
  <2>1. more = Finding!Folded(tab, list)
    BY DEF more, Finding!Folded, FoldLeft, MapThenFoldSet, Finding!FoldLeft,
           Finding!MapThenFoldSet, Max, Finding!Max
  <2> QED BY <1>2, <2>1
<1> DEFINE Found(k) == /\ TableOK(scenario, g[k]) /\ Extends(tab, g[k])
                       /\ \A j \in 1..k : list[j] \in ToSet(g[k])
           K == {k \in Nat : k <= n => Found(k)}
<1>5. 0 \in K
  <2>1. Extends(tab, tab) BY DEF Extends, TableOK
  <2>2. \A j \in 1..0 : list[j] \in ToSet(g[0]) OBVIOUS
  <2> QED BY <1>3, <2>1, <2>2
<1>6. ASSUME NEW k \in Nat, k \in K PROVE k + 1 \in K
  <2> SUFFICES ASSUME k + 1 <= n PROVE Found(k + 1) BY <1>6
  <2> DEFINE a == g[k]
             b == g[k+1]
             x == list[k+1]
  <2>0. k + 1 \in 1..n /\ k <= n /\ (k + 1) - 1 = k BY <1>1, <1>6
  <2>1. TableOK(scenario, a) /\ Extends(tab, a) /\ \A j \in 1..k : list[j] \in ToSet(a)
    BY <1>6, <2>0
  <2>2. b = FindState(a, x) /\ x \in N BY <1>1, <1>3, <2>0
  <2> HIDE DEF a, b, x
  <2>3. TableOK(scenario, b) /\ Extends(a, b) /\ x \in ToSet(b)
    BY <2>1, <2>2, FindStateKeeps DEF N
  <2>4. Extends(tab, b) BY <2>1, <2>3, ExtendsTwice
  <2>5. ToSet(a) \subseteq ToSet(b) BY <2>1, <2>3, StaysInTable
  <2>6. ASSUME NEW j \in 1..k+1 PROVE list[j] \in ToSet(b)
    <3>1. CASE j = k + 1 BY <2>3, <3>1 DEF x
    <3>2. CASE j # k + 1
      <4>1. j \in 1..k BY <1>6, <2>6, <3>2
      <4> QED BY <2>1, <2>5, <4>1
    <3> QED BY <3>1, <3>2
  <2> QED BY <2>3, <2>4, <2>6 DEF b
<1>7. Found(n)
  <2> HIDE DEF Found
  <2>1. n \in K
    <3> HIDE DEF K
    <3> QED BY <1>1, <1>5, <1>6, SetInduction
  <2> QED BY <1>1, <2>1
<1> QED BY <1>1, <1>4, <1>7 DEF more

-----------------------------------------------------------------------------
(* The book-keeping.                                                       *)

\* A set of numbers of which one is the greatest.
LEMMA MaxBounds ==
  ASSUME NEW n \in Nat, NEW S \in SUBSET (0..n), S # {}
  PROVE  Max(S) \in S /\ \A x \in S : x <= Max(S)
<1> DEFINE T == {n - x : x \in S}
<1>1. T \in SUBSET Nat /\ T # {}
  <2>1. \A x \in S : n - x \in Nat OBVIOUS
  <2> QED BY <2>1
<1>2. PICK t \in T : \A u \in T : t <= u BY <1>1, SmallestExists
<1>3. PICK m \in S : t = n - m BY <1>2
<1>4. \A x \in S : m >= x
  <2> SUFFICES ASSUME NEW x \in S PROVE m >= x OBVIOUS
  <2>1. n - x \in T OBVIOUS
  <2>2. n - m <= n - x BY <1>2, <1>3, <2>1
  <2> QED BY <2>2
<1>5. \A x \in S : x \in Int OBVIOUS
<1>6. Max(S) \in S /\ \A x \in S : Max(S) >= x BY <1>4 DEF Max
<1> QED BY <1>5, <1>6

LEMMA MinBounds ==
  ASSUME NEW S \in SUBSET Nat, S # {}
  PROVE  Min(S) \in S /\ \A x \in S : Min(S) <= x
<1>1. PICK m \in S : \A x \in S : m <= x BY SmallestExists
<1> QED BY <1>1 DEF Min

\* The numbers are those of the n states in the table.
BaseOK(b, n) ==
  /\ b \in [hasStart : BOOLEAN, nknown : Nat, expanded : SUBSET Nat, minUnexpanded : Nat,
            maxExpanded : Nat \cup {-1}]
  /\ n \in Nat /\ b.nknown <= n /\ b.minUnexpanded <= n /\ b.maxExpanded < n
  /\ b.expanded \subseteq 0..n-1

LEMMA BaseGrows ==
  ASSUME NEW b, NEW n, NEW m \in Nat, BaseOK(b, n), n <= m
  PROVE  BaseOK(b, m)
<1>1. 0..n-1 \subseteq 0..m-1 BY DEF BaseOK
<1> QED BY <1>1 DEF BaseOK

LEMMA UpdateKeeps ==
  ASSUME NEW b, NEW n, BaseOK(b, n), NEW ids \in SUBSET (0..n-1)
  PROVE  LET d == UpdateNumKnownStates(b, ids)
         IN  /\ BaseOK(d, n) /\ d.nknown >= b.nknown
             /\ \A s \in ids : s < d.nknown
<1> DEFINE S == {b.nknown} \cup {s + 1 : s \in ids}
           k == Max(S)
           d == UpdateNumKnownStates(b, ids)
<1>1. n \in Nat /\ b.nknown \in 0..n BY DEF BaseOK
<1>2. S \in SUBSET (0..n) /\ S # {} /\ b.nknown \in S BY <1>1
<1>3. k \in S /\ \A x \in S : x <= k
  <2> HIDE DEF S
  <2> QED BY <1>1, <1>2, MaxBounds
<1>4. \A s \in ids : s + 1 <= k BY <1>3
<1>5. k \in Nat /\ k <= n /\ b.nknown <= k BY <1>1, <1>2, <1>3
<1>6. d = [b EXCEPT !.nknown = k] BY DEF UpdateNumKnownStates
<1> HIDE DEF S, k, d
<1>7. BaseOK(d, n) /\ d.nknown = k BY <1>5, <1>6 DEF BaseOK
<1>8. \A s \in ids : s < k BY <1>1, <1>4, <1>5
<1> QED BY <1>5, <1>7, <1>8 DEF d

LEMMA SetExpandedKeeps ==
  ASSUME NEW b, NEW n, BaseOK(b, n), NEW s \in 0..n-1
  PROVE  LET d == SetExpandedState(b, s)
         IN  BaseOK(d, n) /\ d.nknown = b.nknown
<1> DEFINE top == [b EXCEPT !.maxExpanded = IF s > @ THEN s ELSE @]
           x == IF s = top.minUnexpanded THEN top.minUnexpanded + 1 ELSE top.minUnexpanded
           e == IF TracksExpanded THEN top.expanded \cup {s} ELSE top.expanded
           d == SetExpandedState(b, s)
<1>1. BaseOK(top, n) /\ top.nknown = b.nknown BY DEF BaseOK
<1>2. d = IF s < b.minUnexpanded THEN top
          ELSE [top EXCEPT !.minUnexpanded = x, !.expanded = e]
  BY DEF SetExpandedState
<1> HIDE DEF top, d
<1>3. /\ x \in Nat /\ x <= n /\ e \in SUBSET Nat /\ e \subseteq 0..n-1
  BY <1>1 DEF BaseOK
<1> HIDE DEF x, e
<1>4. BaseOK([top EXCEPT !.minUnexpanded = x, !.expanded = e], n) BY <1>1, <1>3 DEF BaseOK
<1>5. [top EXCEPT !.minUnexpanded = x, !.expanded = e].nknown = b.nknown
  BY <1>1 DEF BaseOK
<1> QED BY <1>1, <1>2, <1>4, <1>5 DEF d

LEMMA MinUnexpandedBounds ==
  ASSUME NEW b, NEW n, NEW c, BaseOK(b, n)
  PROVE  MinUnexpandedState(b, c) \in 0..n
<1> DEFINE S == {s \in b.minUnexpanded..b.maxExpanded : ~ExpandedState(b, c, s)}
           T == {b.minUnexpanded, b.maxExpanded + 1}
<1>1. /\ n \in Nat /\ b.minUnexpanded \in 0..n /\ b.maxExpanded \in -1..n-1
  BY DEF BaseOK
<1>2. S \in SUBSET Nat /\ S \subseteq 0..n BY <1>1
<1>3. T \in SUBSET (0..n) /\ T # {} BY <1>1
<1>4. MinUnexpandedState(b, c) = IF S # {} THEN Min(S) ELSE Max(T) BY DEF MinUnexpandedState
<1> HIDE DEF S, T
<1>5. Max(T) \in T BY <1>1, <1>3, MaxBounds
<1>6. S # {} => Min(S) \in S BY <1>2, MinBounds
<1> QED BY <1>2, <1>3, <1>4, <1>5, <1>6

LEMMA MinUnexpandedKeeps ==
  ASSUME NEW b, NEW n, BaseOK(b, n), NEW u \in 0..n
  PROVE  BaseOK([b EXCEPT !.minUnexpanded = u], n)
         /\ [b EXCEPT !.minUnexpanded = u].nknown = b.nknown
  BY DEF BaseOK

-----------------------------------------------------------------------------
(* The lazy machine.                                                       *)

MachineOK(sc, m) ==
  /\ sc \in Scenarios /\ m = [table |-> m.table, store |-> m.store, base |-> m.base]
  /\ TableOK(sc, m.table) /\ StoreOK(sc, m.store) /\ Content(sc, m.store, m.table)
  /\ BaseOK(m.base, Len(m.table))

Grows(m, n) == Extends(m.table, n.table) /\ m.base.nknown <= n.base.nknown

LEMMA MachineParts ==
  ASSUME NEW sc, NEW m, MachineOK(sc, m)
  PROVE  /\ Len(m.table) \in Nat /\ DOMAIN m.table = 1..Len(m.table)
         /\ \A s \in Ids(m.table) : /\ s \in Nat /\ s + 1 \in 1..Len(m.table)
                                    /\ m.table[s+1] \in DOMAIN sc.fst.next
         /\ Ids(m.table) = 0..Len(m.table)-1
         /\ Extends(m.table, m.table) /\ m.base.nknown \in Nat /\ Grows(m, m)
         /\ m.store \in Stores(sc)
<1> DEFINE N == DOMAIN sc.fst.next
<1>1. m.table \in Seq(N) BY DEF MachineOK, TableOK
<1> HIDE DEF N
<1>2. /\ Len(m.table) \in Nat /\ DOMAIN m.table = 1..Len(m.table)
      /\ \A i \in 1..Len(m.table) : m.table[i] \in N
  BY <1>1
<1>3. \A s \in Ids(m.table) : s \in Nat /\ s + 1 \in 1..Len(m.table) BY <1>2 DEF Ids
<1>4. Extends(m.table, m.table) /\ m.base.nknown \in Nat
  BY <1>2 DEF Extends, MachineOK, BaseOK
<1>5. Grows(m, m) BY <1>4 DEF Grows
<1>6. m.store \in Stores(sc) BY DEF MachineOK, StoreOK, Shape
<1> QED BY <1>2, <1>3, <1>4, <1>5, <1>6 DEF N, Ids

LEMMA MachineWith ==
  ASSUME NEW sc, NEW m, MachineOK(sc, m), NEW x
  PROVE  /\ LET n == [m EXCEPT !.store = x]
            IN  /\ n = [table |-> m.table, store |-> x, base |-> m.base]
                /\ n.table = m.table /\ n.store = x /\ n.base = m.base
         /\ LET n == [m EXCEPT !.base = x]
            IN  /\ n = [table |-> m.table, store |-> m.store, base |-> x]
                /\ n.table = m.table /\ n.store = m.store /\ n.base = x
<1> DEFINE k == [table |-> m.table, store |-> m.store, base |-> m.base]
           r == [table |-> m.table, store |-> x, base |-> m.base]
           s == [table |-> m.table, store |-> m.store, base |-> x]
<1>1. m = k BY DEF MachineOK
<1>2. [k EXCEPT !.store = x] = r /\ [k EXCEPT !.base = x] = s OBVIOUS
<1>3. r.table = m.table /\ r.store = x /\ r.base = m.base OBVIOUS
<1>4. s.table = m.table /\ s.store = m.store /\ s.base = x OBVIOUS
<1> HIDE DEF r, s, k
<1>5. [m EXCEPT !.store = x] = r /\ [m EXCEPT !.base = x] = s BY <1>1, <1>2
<1> QED BY <1>3, <1>4, <1>5 DEF r, s

LEMMA StartKeeps ==
  ASSUME NEW m, MachineOK(scenario, m)
  PROVE  LET n == Start(m)
         IN  MachineOK(scenario, n) /\ Grows(m, n) /\ n.store = m.store
<1>1. CASE m.base.hasStart
  <2>1. Start(m) = m BY <1>1 DEF Start
  <2> QED BY <2>1, MachineParts
<1>2. CASE ~m.base.hasStart
  <2> DEFINE node == scenario.fst.start
             tab == FindState(m.table, node)
             a == [m.base EXCEPT !.hasStart = TRUE]
             b == UpdateNumKnownStates(a, {IdOf(tab, node)})
             n == [table |-> tab, store |-> m.store, base |-> b]
             k == Len(tab)
  <2>1. Start(m) = [m EXCEPT !.table = tab, !.base = b] BY <1>2 DEF Start, fst
  <2> HIDE DEF tab, b
  <2>2. [m EXCEPT !.table = tab, !.base = b] = n
    <3> DEFINE r == [table |-> m.table, store |-> m.store, base |-> m.base]
    <3>1. m = r BY DEF MachineOK
    <3>2. [r EXCEPT !.table = tab, !.base = b] = [[r EXCEPT !.table = tab] EXCEPT !.base = b]
      OBVIOUS
    <3>3. [r EXCEPT !.table = tab] = [table |-> tab, store |-> m.store, base |-> m.base]
      OBVIOUS
    <3>4. [[table |-> tab, store |-> m.store, base |-> m.base] EXCEPT !.base = b] = n
      OBVIOUS
    <3> HIDE DEF r, n
    <3> QED BY <3>1, <3>2, <3>3, <3>4
  <2>3. Start(m) = n BY <2>1, <2>2
  <2> HIDE DEF a, node
  <2>4. TableOK(scenario, tab) /\ Extends(m.table, tab) /\ node \in ToSet(tab)
    <3>1. node \in DOMAIN scenario.fst.next
      BY CacheAssumption DEF MachineOK, node
    <3> QED BY <3>1, FindStateKeeps DEF MachineOK, tab
  <2>5. k \in Nat /\ DOMAIN tab = 1..k /\ Len(m.table) <= k
    BY <2>4 DEF TableOK, Extends
  <2>6. IdOf(tab, node) \in 0..k-1 BY <2>4, <2>5, IdOfNode DEF Ids
  <2> HIDE DEF k
  <2>7. BaseOK(m.base, k) BY <2>5, BaseGrows DEF MachineOK
  <2>8. BaseOK(a, k) /\ a.nknown = m.base.nknown BY <2>7 DEF BaseOK, a
  <2>9. BaseOK(b, k) /\ b.nknown >= m.base.nknown
    <3>1. {IdOf(tab, node)} \in SUBSET (0..k-1) BY <2>6
    <3> QED BY <2>8, <3>1, UpdateKeeps DEF b
  <2>10. Content(scenario, m.store, tab) BY <2>4, ContentExtends DEF MachineOK
  <2>11. m.base.nknown \in Nat /\ b.nknown \in Nat BY <2>7, <2>9 DEF BaseOK
  <2>12. MachineOK(scenario, n) BY <2>4, <2>9, <2>10 DEF MachineOK, k
  <2>13. Grows(m, n) BY <2>4, <2>9, <2>11 DEF Grows
  <2> QED BY <2>3, <2>12, <2>13
<1> QED BY <1>1, <1>2

LEMMA FinalKeeps ==
  ASSUME NEW m, MachineOK(scenario, m), NEW s \in Ids(m.table)
  PROVE  LET n == Final(m, s)
         IN  /\ MachineOK(scenario, n) /\ Grows(m, n) /\ Moves(m.store, n.store, s)
             /\ Has(n.store, "Final", s)
<1> DEFINE w == scenario.fst.final[m.table[s+1]]
           c == IF Has(m.store, "Final", s) THEN Touched(m.store, s)
                ELSE SetFinal(m.store, s, w)
           n == [table |-> m.table, store |-> c, base |-> m.base]
<1>1. Final(m, s) = n
  <2>1. Final(m, s) = [m EXCEPT !.store = c] BY DEF Final, NodeOf, fst
  <2> HIDE DEF c
  <2> QED BY <2>1, MachineWith
<1>2. /\ StoreOK(scenario, m.store) /\ Content(scenario, m.store, m.table)
      /\ Len(m.table) \in Nat /\ s \in Nat /\ m.table[s+1] \in DOMAIN scenario.fst.next
  BY MachineParts DEF MachineOK
<1>3. w \in FinalValues(scenario) BY <1>2 DEF FinalValues
<1> HIDE DEF w
<1>4. Keeps(m.store, c, m.table, s) /\ Has(c, "Final", s)
  <2>1. CASE Has(m.store, "Final", s)
    <3>1. Stored(m.store, s) BY <2>1 DEF Has
    <3>2. c = Touched(m.store, s) BY <2>1
    <3> QED BY <1>2, <2>1, <3>1, <3>2, TouchedKeeps
  <2>2. CASE ~Has(m.store, "Final", s)
    <3>1. c = SetFinal(m.store, s, w) BY <2>2
    <3> HIDE DEF c
    <3> QED BY <1>2, <1>3, <3>1, SetFinalKeeps DEF w
  <2> QED BY <2>1, <2>2
<1> HIDE DEF c
<1>5. MachineOK(scenario, n) BY <1>4 DEF MachineOK, Keeps
<1>6. Grows(m, n) BY MachineParts DEF Grows
<1> QED BY <1>1, <1>4, <1>5, <1>6 DEF Keeps

\* The arcs of a state are computed and cached.
LEMMA ExpandKeeps ==
  ASSUME NEW m, MachineOK(scenario, m), NEW s \in Ids(m.table), ~Has(m.store, "Arcs", s)
  PROVE  LET n == Expand(m, s)
         IN  /\ MachineOK(scenario, n) /\ Grows(m, n) /\ Moves(m.store, n.store, s)
             /\ Has(n.store, "Arcs", s)
<1> DEFINE next == scenario.fst.next[m.table[s+1]]
           tab == FoldLeft(FindState, m.table, next)
           arcs == [i \in 1..Len(next) |-> IdOf(tab, next[i])]
           c == PushAndSetArcs(m.store, s, arcs)
           a == UpdateNumKnownStates(m.base, ToSet(arcs))
           b == SetExpandedState(a, s)
           n == [table |-> tab, store |-> c, base |-> b]
           N == DOMAIN scenario.fst.next
           k == Len(tab)
<1>1. Expand(m, s) = [table |-> tab, store |-> c,
                      base |-> SetExpandedState(
                        UpdateNumKnownStates(m.base, ToSet(StateOf(c, s).arcs)), s)]
  BY DEF Expand, ExpandWith, Expanded, Known, NodeOf, fst
<1> HIDE DEF c, tab, next
<1>2. /\ StoreOK(scenario, m.store) /\ Content(scenario, m.store, m.table)
      /\ TableOK(scenario, m.table) /\ Len(m.table) \in Nat /\ s \in Nat
      /\ s + 1 \in 1..Len(m.table) /\ m.table[s+1] \in N
  BY MachineParts DEF MachineOK
<1>3. next \in Seq(N)
  BY <1>2, CacheAssumption DEF MachineOK, next
<1>4. /\ TableOK(scenario, tab) /\ Extends(m.table, tab)
      /\ \A i \in DOMAIN next : next[i] \in ToSet(tab)
  BY <1>2, <1>3, FindAllKeeps DEF tab
<1>5. k \in Nat /\ DOMAIN tab = 1..k /\ Len(m.table) <= k /\ tab[s+1] = m.table[s+1]
  BY <1>2, <1>4 DEF TableOK, Extends
<1>6. s \in Ids(tab) BY <1>2, <1>5 DEF Ids
<1>7. Content(scenario, m.store, tab) BY <1>2, <1>4, ContentExtends
<1> DEFINE l == Len(next)
<1>8. l \in Nat /\ DOMAIN next = 1..l /\ next = [i \in 1..l |-> next[i]]
  <2> HIDE DEF N
  <2> QED BY <1>3
<1>9. \A i \in 1..l : IdOf(tab, next[i]) \in Ids(tab) /\ IdOf(tab, next[i]) \in Nat
                      /\ tab[IdOf(tab, next[i]) + 1] = next[i]
  BY <1>4, <1>5, <1>8, IdOfNode
<1>10. arcs \in Seq(Nat) /\ DOMAIN arcs = 1..l /\ \A i \in 1..l : arcs[i] = IdOf(tab, next[i])
  <2>1. arcs = [i \in 1..l |-> IdOf(tab, next[i])] OBVIOUS
  <2> HIDE DEF l, arcs
  <2> QED BY <1>8, <1>9, <2>1
<1> HIDE DEF arcs, l
<1>11. \A i \in DOMAIN arcs : arcs[i] \in Ids(tab) BY <1>9, <1>10
<1>12. scenario.fst.next[tab[s + 1]] = [i \in DOMAIN arcs |-> tab[arcs[i] + 1]]
  <2>1. \A i \in 1..l : tab[arcs[i] + 1] = next[i] BY <1>9, <1>10
  <2>2. [i \in DOMAIN arcs |-> tab[arcs[i] + 1]] = [i \in 1..l |-> next[i]] BY <1>10, <2>1
  <2>3. scenario.fst.next[tab[s + 1]] = next BY <1>5 DEF next
  <2> QED BY <1>8, <2>2, <2>3
<1>13. Keeps(m.store, c, tab, s) /\ Has(c, "Arcs", s) /\ StateOf(c, s).arcs = arcs
  BY <1>2, <1>5, <1>6, <1>7, <1>10, <1>11, <1>12, PushAndSetArcsKeeps DEF c
<1>14. Expand(m, s) = n BY <1>1, <1>13
<1>15. BaseOK(b, k) /\ m.base.nknown <= b.nknown
  <2>1. BaseOK(m.base, k) BY <1>5, BaseGrows DEF MachineOK
  <2>2. ToSet(arcs) \in SUBSET (0..k-1) BY <1>11 DEF ToSet, Ids
  <2> HIDE DEF k, a, b
  <2>3. BaseOK(a, k) /\ a.nknown >= m.base.nknown BY <2>1, <2>2, UpdateKeeps DEF a
  <2>4. s \in 0..k-1 BY <1>6 DEF Ids, k
  <2>5. BaseOK(b, k) /\ b.nknown = a.nknown BY <2>3, <2>4, SetExpandedKeeps DEF b
  <2>6. m.base.nknown \in Nat /\ a.nknown \in Nat BY <2>1, <2>3 DEF BaseOK
  <2> QED BY <2>3, <2>5, <2>6
<1> HIDE DEF b
<1>16. MachineOK(scenario, n) BY <1>4, <1>13, <1>15 DEF MachineOK, Keeps
<1>17. Grows(m, n) BY <1>4, <1>15 DEF Grows
<1> QED BY <1>13, <1>14, <1>16, <1>17 DEF Keeps

LEMMA ArcsKeeps ==
  ASSUME NEW m, MachineOK(scenario, m), NEW s \in Ids(m.table)
  PROVE  LET n == Arcs(m, s)
         IN  /\ MachineOK(scenario, n) /\ Grows(m, n) /\ Moves(m.store, n.store, s)
             /\ Has(n.store, "Arcs", s)
<1>1. CASE Has(m.store, "Arcs", s)
  <2> DEFINE c == Touched(m.store, s)
             n == [table |-> m.table, store |-> c, base |-> m.base]
  <2>1. Arcs(m, s) = n
    <3>1. Arcs(m, s) = [m EXCEPT !.store = c] BY <1>1 DEF Arcs
    <3> HIDE DEF c
    <3> QED BY <3>1, MachineWith
  <2>2. /\ StoreOK(scenario, m.store) /\ Content(scenario, m.store, m.table)
        /\ s \in Nat /\ Stored(m.store, s)
    BY <1>1, MachineParts DEF MachineOK, Has
  <2>3. Keeps(m.store, c, m.table, s) /\ Has(c, "Arcs", s) BY <1>1, <2>2, TouchedKeeps
  <2> HIDE DEF c
  <2>4. MachineOK(scenario, n) BY <2>3 DEF MachineOK, Keeps
  <2>5. Grows(m, n) BY MachineParts DEF Grows
  <2> QED BY <2>1, <2>3, <2>4, <2>5 DEF Keeps
<1>2. CASE ~Has(m.store, "Arcs", s)
  <2>1. Arcs(m, s) = Expand(m, s) BY <1>2 DEF Arcs
  <2> QED BY <1>2, <2>1, ExpandKeeps
<1> QED BY <1>1, <1>2

-----------------------------------------------------------------------------
(* Reference counts.                                                       *)

LEMMA PinKeeps ==
  ASSUME NEW c, StoreOK(scenario, c), NEW tab, Content(scenario, c, tab),
         NEW i \in DOMAIN c.slots, NEW n \in Int, c.slots[i].refs + n \in Nat,
         NEW d, d = [c EXCEPT !.slots[i].refs = @ + n]
  PROVE  /\ StoreOK(scenario, d) /\ Content(scenario, d, tab)
         /\ DOMAIN d.slots = DOMAIN c.slots /\ d.firstId = c.firstId /\ d.limit = c.limit
         /\ \A j \in DOMAIN c.slots :
              /\ d.slots[j].refs = IF j = i THEN c.slots[j].refs + n ELSE c.slots[j].refs
              /\ d.slots[j].flags = c.slots[j].flags /\ d.slots[j].arcs = c.slots[j].arcs
              /\ Owner(d, j) = Owner(c, j)
         /\ \A s \in Nat : Slot(d, s) = Slot(c, s)
<1> DEFINE st == [c.slots[i] EXCEPT !.refs = c.slots[i].refs + n]
<1>1. /\ Shape(scenario, c) /\ Exact(c) /\ c \in Stores(scenario)
      /\ Settled(scenario, c) /\ Sized(c) /\ c.slots[i] \in CachedStates(scenario)
  BY SlotsOfStore DEF StoreOK, Shape
<1>2. d = Put(c, i, st) BY DEF Put
<1>3. /\ st \in CachedStates(scenario) /\ st.refs = c.slots[i].refs + n
      /\ st.flags = c.slots[i].flags /\ st.arcs = c.slots[i].arcs
      /\ st.final = c.slots[i].final
  BY <1>1 DEF CachedStates
<1> HIDE DEF st
<1>4. Shape(scenario, d) /\ Exact(d) BY <1>1, <1>2, <1>3, PutAlike
<1>5. /\ DOMAIN d.slots = DOMAIN c.slots /\ d.firstId = c.firstId
      /\ \A j \in DOMAIN c.slots : d.slots[j] = IF j = i THEN st ELSE c.slots[j]
      /\ d.firstGc = c.firstGc /\ d.gc = c.gc /\ d.size = c.size /\ d.limit = c.limit
  <2> DEFINE e == Put(c, i, st)
  <2>1. /\ DOMAIN e.slots = DOMAIN c.slots /\ e.firstId = c.firstId
        /\ \A j \in DOMAIN c.slots : e.slots[j] = IF j = i THEN st ELSE c.slots[j]
        /\ e.firstGc = c.firstGc /\ e.gc = c.gc /\ e.size = c.size /\ e.limit = c.limit
    BY <1>1, PutFields
  <2>2. d = e BY <1>2
  <2> HIDE DEF e
  <2> QED BY <2>1, <2>2, Zenon
<1>6. \A j \in DOMAIN c.slots :
        /\ d.slots[j].refs = IF j = i THEN c.slots[j].refs + n ELSE c.slots[j].refs
        /\ d.slots[j].flags = c.slots[j].flags /\ d.slots[j].arcs = c.slots[j].arcs
        /\ d.slots[j].final = c.slots[j].final /\ Owner(d, j) = Owner(c, j)
  BY <1>3, <1>5 DEF Owner
<1>7. \A s \in Nat : Slot(d, s) = Slot(c, s) BY <1>5 DEF Slot
<1>8. \A j \in DOMAIN d.slots : Whole(d, j) BY <1>5, <1>6 DEF StoreOK, Whole
<1>9. StoreOK(scenario, d) BY <1>1, <1>4, <1>5, <1>8 DEF StoreOK, Settled, Sized
<1>10. Content(scenario, d, tab)
  <2> SUFFICES ASSUME NEW j \in DOMAIN d.slots PROVE Means(scenario, d, tab, j)
    BY DEF Content
  <2>1. Means(scenario, c, tab, j) BY <1>5 DEF Content
  <2> QED BY <1>5, <1>6, <2>1 DEF Means
<1> QED BY <1>2, <1>5, <1>6, <1>7, <1>9, <1>10

\* What calls that leave no new iterator change: slots that are new are not in use,
\* those in use stay.
Steady(c, d) ==
  /\ \A i \in DOMAIN d.slots :
       d.slots[i].refs = IF i \in DOMAIN c.slots THEN c.slots[i].refs ELSE 0
  /\ \A i \in DOMAIN c.slots : c.slots[i].refs # 0 =>
       /\ i \in DOMAIN d.slots /\ Owner(d, i) = Owner(c, i)
       /\ "Arcs" \in c.slots[i].flags => "Arcs" \in d.slots[i].flags

\* An iterator is opened on the state s.
Opens(c, d, s) ==
  /\ Slot(d, s) \in DOMAIN d.slots
  /\ \A i \in DOMAIN d.slots :
       d.slots[i].refs = (IF i \in DOMAIN c.slots THEN c.slots[i].refs ELSE 0)
                         + (IF i = Slot(d, s) THEN 1 ELSE 0)
  /\ \A i \in DOMAIN c.slots : c.slots[i].refs # 0 =>
       /\ i \in DOMAIN d.slots /\ Owner(d, i) = Owner(c, i)
       /\ "Arcs" \in c.slots[i].flags => "Arcs" \in d.slots[i].flags
  /\ d.limit # c.limit => \A i \in DOMAIN d.slots : i # Slot(d, s) => d.slots[i].refs # 0

LEMMA MovesSteady ==
  ASSUME NEW c, NEW d, NEW s, Moves(c, d, s)
  PROVE  Steady(c, d)
  BY DEF Moves, Steady

LEMMA SteadyTwice ==
  ASSUME NEW c, NEW d, NEW e, Steady(c, d), Steady(d, e)
  PROVE  Steady(c, e)
<1>1. ASSUME NEW i \in DOMAIN e.slots
      PROVE  e.slots[i].refs = IF i \in DOMAIN c.slots THEN c.slots[i].refs ELSE 0
  <2>1. CASE i \in DOMAIN d.slots BY <2>1 DEF Steady
  <2>2. CASE i \notin DOMAIN d.slots BY <2>2 DEF Steady
  <2> QED BY <2>1, <2>2
<1>2. ASSUME NEW i \in DOMAIN c.slots, c.slots[i].refs # 0
      PROVE  /\ i \in DOMAIN e.slots /\ Owner(e, i) = Owner(c, i)
             /\ "Arcs" \in c.slots[i].flags => "Arcs" \in e.slots[i].flags
  <2>1. /\ i \in DOMAIN d.slots /\ Owner(d, i) = Owner(c, i) /\ d.slots[i].refs # 0
        /\ "Arcs" \in c.slots[i].flags => "Arcs" \in d.slots[i].flags
    BY <1>2 DEF Steady
  <2> QED BY <2>1 DEF Steady
<1> QED BY <1>1, <1>2 DEF Steady

\* A state is requested and pinned, and its arcs are looked up or computed.
LEMMA MovesOpens ==
  ASSUME NEW sc, NEW c, NEW b, NEW p, NEW e, NEW s \in Nat, Shape(sc, b), Shape(sc, p),
         Shape(sc, e), Shape(sc, c), Moves(c, b, s), Moves(p, e, s),
         DOMAIN p.slots = DOMAIN b.slots, p.limit = b.limit, Slot(p, s) = Slot(b, s),
         \A j \in DOMAIN b.slots :
           /\ p.slots[j].refs = IF j = Slot(b, s) THEN b.slots[j].refs + 1 ELSE b.slots[j].refs
           /\ p.slots[j].flags = b.slots[j].flags /\ Owner(p, j) = Owner(b, j)
  PROVE  Opens(c, e, s)
<1> DEFINE i == Slot(b, s)
<1>0. /\ \A j \in DOMAIN b.slots : b.slots[j].refs \in Nat
      /\ \A j \in DOMAIN c.slots : c.slots[j].refs \in Nat
  BY SlotsOfStore DEF Shape
<1>1. i \in DOMAIN p.slots /\ p.slots[i].refs # 0 BY <1>0 DEF Moves
<1>2. i \in DOMAIN e.slots /\ Owner(e, i) = s
  <2>1. i \in DOMAIN e.slots /\ Owner(e, i) = Owner(p, i) BY <1>1 DEF Moves
  <2>2. Owner(p, i) = s BY OwnerOfSlot
  <2> QED BY <2>1, <2>2
<1>3. Slot(e, s) = i BY <1>2, OwnerOfSlot
<1> HIDE DEF i
<1>4. ASSUME NEW j \in DOMAIN e.slots
      PROVE  e.slots[j].refs = (IF j \in DOMAIN c.slots THEN c.slots[j].refs ELSE 0)
                               + (IF j = i THEN 1 ELSE 0)
  <2>1. CASE j \in DOMAIN b.slots
    <3>1. /\ e.slots[j].refs = p.slots[j].refs
          /\ b.slots[j].refs = IF j \in DOMAIN c.slots THEN c.slots[j].refs ELSE 0
      BY <2>1 DEF Moves
    <3>2. p.slots[j].refs = IF j = i THEN b.slots[j].refs + 1 ELSE b.slots[j].refs
      BY <2>1 DEF i
    <3> QED BY <1>0, <2>1, <3>1, <3>2
  <2>2. CASE j \notin DOMAIN b.slots
    <3>1. e.slots[j].refs = 0 /\ j # i BY <1>1, <2>2 DEF Moves
    <3>2. j \in DOMAIN c.slots => c.slots[j].refs = 0 BY <2>2 DEF Moves
    <3> QED BY <3>1, <3>2
  <2> QED BY <2>1, <2>2
<1>5. ASSUME NEW j \in DOMAIN c.slots, c.slots[j].refs # 0
      PROVE  /\ j \in DOMAIN e.slots /\ Owner(e, j) = Owner(c, j)
             /\ "Arcs" \in c.slots[j].flags => "Arcs" \in e.slots[j].flags
  <2>1. /\ j \in DOMAIN b.slots /\ Owner(b, j) = Owner(c, j) /\ b.slots[j].refs = c.slots[j].refs
        /\ "Arcs" \in c.slots[j].flags => "Arcs" \in b.slots[j].flags
    BY <1>5 DEF Moves
  <2>2. /\ p.slots[j].refs # 0 /\ Owner(p, j) = Owner(c, j)
        /\ "Arcs" \in c.slots[j].flags => "Arcs" \in p.slots[j].flags
    BY <1>0, <1>5, <2>1
  <2> QED BY <2>1, <2>2 DEF Moves
<1>6. ASSUME e.limit # c.limit, NEW j \in DOMAIN e.slots, j # i PROVE e.slots[j].refs # 0
  <2>1. CASE e.limit # p.limit BY <1>3, <1>6, <2>1 DEF Moves
  <2>2. CASE b.limit # c.limit
    <3>1. \A k \in DOMAIN b.slots : k # i => b.slots[k].refs # 0 BY <2>2 DEF Moves, i
    <3>2. j \in DOMAIN p.slots BY <1>3, <1>6 DEF Moves
    <3>3. p.slots[j].refs # 0 BY <1>6, <3>1, <3>2 DEF i
    <3> QED BY <3>2, <3>3 DEF Moves
  <2> QED BY <1>6, <2>1, <2>2
<1> QED BY <1>2, <1>3, <1>4, <1>5, <1>6 DEF Opens

LEMMA PinnedParts ==
  ASSUME NEW m, MachineOK(scenario, m), NEW s \in Ids(m.table), Stored(m.store, s),
         NEW n \in Int, StateOf(m.store, s).refs + n \in Nat
  PROVE  LET c == m.store
             p == Pinned(m, s, n)
             d == p.store
         IN  /\ MachineOK(scenario, p) /\ p.table = m.table /\ p.base = m.base
             /\ DOMAIN d.slots = DOMAIN c.slots /\ d.limit = c.limit /\ d.firstId = c.firstId
             /\ \A j \in DOMAIN c.slots :
                  /\ d.slots[j].refs = IF j = Slot(c, s) THEN c.slots[j].refs + n
                                       ELSE c.slots[j].refs
                  /\ d.slots[j].flags = c.slots[j].flags /\ d.slots[j].arcs = c.slots[j].arcs
                  /\ Owner(d, j) = Owner(c, j)
             /\ \A t \in Nat : Slot(d, t) = Slot(c, t)
<1> DEFINE c == m.store
           i == Slot(c, s)
           d == [c EXCEPT !.slots[i].refs = @ + n]
           p == [table |-> m.table, store |-> d, base |-> m.base]
<1>1. Pinned(m, s, n) = p
  <2> DEFINE k == [table |-> m.table, store |-> c, base |-> m.base]
  <2>1. m = k BY DEF MachineOK
  <2>2. Pinned(m, s, n) = [m EXCEPT !.store.slots[i].refs = @ + n] BY DEF Pinned
  <2>3. [k EXCEPT !.store.slots[i].refs = @ + n] = p OBVIOUS
  <2> HIDE DEF k, p, c, i, d
  <2> QED BY <2>1, <2>2, <2>3
<1>2. i \in DOMAIN c.slots /\ c.slots[i].refs + n \in Nat BY DEF Stored, StateOf
<1>3. StoreOK(scenario, c) /\ Content(scenario, c, m.table) BY DEF MachineOK
<1>d. d = [c EXCEPT !.slots[i].refs = @ + n] OBVIOUS
<1> HIDE DEF c, i, d
<1>4. /\ StoreOK(scenario, d) /\ Content(scenario, d, m.table)
      /\ DOMAIN d.slots = DOMAIN c.slots /\ d.firstId = c.firstId /\ d.limit = c.limit
      /\ \A j \in DOMAIN c.slots :
           /\ d.slots[j].refs = IF j = i THEN c.slots[j].refs + n ELSE c.slots[j].refs
           /\ d.slots[j].flags = c.slots[j].flags /\ d.slots[j].arcs = c.slots[j].arcs
           /\ Owner(d, j) = Owner(c, j)
      /\ \A t \in Nat : Slot(d, t) = Slot(c, t)
  BY <1>2, <1>3, <1>d, PinKeeps
<1>5. MachineOK(scenario, p) BY <1>4 DEF MachineOK
<1> QED BY <1>1, <1>4, <1>5 DEF c, i

-----------------------------------------------------------------------------
(* Arc iterators, and the loop of the state iterator.                      *)

\* What opening an iterator on s makes of the machine.
Opened(m, n, s) ==
  /\ MachineOK(scenario, n) /\ Grows(m, n) /\ Opens(m.store, n.store, s)
  /\ Has(n.store, "Arcs", s)

LEMMA MachineStores ==
  ASSUME NEW sc, NEW m, MachineOK(sc, m)
  PROVE  /\ Shape(sc, m.store) /\ StoreOK(sc, m.store) /\ m.store \in Stores(sc)
         /\ Content(sc, m.store, m.table)
         /\ \A i \in DOMAIN m.store.slots : m.store.slots[i].refs \in Nat
<1>1. Shape(sc, m.store) /\ StoreOK(sc, m.store) /\ m.store \in Stores(sc)
  BY DEF MachineOK, StoreOK, Shape
<1> QED BY <1>1, SlotsOfStore DEF MachineOK

\* The machine's own iterator.
LEMMA ArcIteratorKeeps ==
  ASSUME NEW m, MachineOK(scenario, m), NEW s \in Ids(m.table)
  PROVE  Opened(m, ArcIterator(m, s), s)
<1> DEFINE b == GetMutableState(m.store, s)
           a == [table |-> m.table, store |-> b, base |-> m.base]
           p == Pinned(a, s, 1)
           n == Arcs(p, s)
<1>1. s \in Nat /\ Len(m.table) \in Nat BY MachineParts
<1>2. Keeps(m.store, b, m.table, s) /\ Stored(b, s)
  BY <1>1, GetHolds DEF MachineOK
<1>3. ArcIterator(m, s) = n
  <2>1. ArcIterator(m, s) = Arcs(Pinned([m EXCEPT !.store = b], s, 1), s) BY DEF ArcIterator
  <2>2. [m EXCEPT !.store = b] = a
    <3> HIDE DEF b
    <3> QED BY MachineWith
  <2> HIDE DEF a, b
  <2> QED BY <2>1, <2>2
<1> HIDE DEF b
<1>4. MachineOK(scenario, a) /\ a.table = m.table /\ a.store = b /\ a.base = m.base
  BY <1>2 DEF MachineOK, Keeps
<1> HIDE DEF a
<1>5. b.slots[Slot(b, s)].refs \in Nat /\ StateOf(a.store, s).refs + 1 \in Nat
  BY <1>2, <1>4, MachineStores DEF Stored, StateOf
<1>6. /\ MachineOK(scenario, p) /\ p.table = m.table /\ p.base = m.base
      /\ DOMAIN p.store.slots = DOMAIN b.slots /\ p.store.limit = b.limit
      /\ \A j \in DOMAIN b.slots :
           /\ p.store.slots[j].refs = IF j = Slot(b, s) THEN b.slots[j].refs + 1
                                      ELSE b.slots[j].refs
           /\ p.store.slots[j].flags = b.slots[j].flags
           /\ Owner(p.store, j) = Owner(b, j)
      /\ Slot(p.store, s) = Slot(b, s)
  <2>1. 1 \in Int OBVIOUS
  <2>2. s \in Ids(a.table) BY <1>4
  <2> HIDE DEF p
  <2> QED BY <1>1, <1>2, <1>4, <1>5, <2>1, <2>2, PinnedParts DEF p
<1> HIDE DEF p
<1>7. /\ MachineOK(scenario, n) /\ Grows(p, n) /\ Moves(p.store, n.store, s)
      /\ Has(n.store, "Arcs", s)
  BY <1>6, ArcsKeeps
<1> HIDE DEF n
<1>8. Grows(m, n) BY <1>6, <1>7 DEF Grows
<1>9. Opens(m.store, n.store, s)
  <2>1. Moves(m.store, b, s) BY <1>2 DEF Keeps
  <2>2. Shape(scenario, b) /\ Shape(scenario, p.store) /\ Shape(scenario, n.store)
        /\ Shape(scenario, m.store)
    BY <1>4, <1>6, <1>7, MachineStores
  <2> QED BY <1>1, <1>6, <1>7, <2>1, <2>2, MovesOpens
<1> QED BY <1>3, <1>7, <1>8, <1>9 DEF Opened

\* The iterator of Fst.
LEMMA ArcsPinnedKeeps ==
  ASSUME NEW m, MachineOK(scenario, m), NEW s \in Ids(m.table)
  PROVE  Opened(m, Pinned(Arcs(m, s), s, 1), s)
<1> DEFINE a == Arcs(m, s)
           b == a.store
           n == Pinned(a, s, 1)
           c == m.store
<1>1. s \in Nat BY MachineParts
<1>2. /\ MachineOK(scenario, a) /\ Grows(m, a) /\ Moves(c, b, s) /\ Has(b, "Arcs", s)
  BY ArcsKeeps
<1> HIDE DEF a
<1>3. s \in Ids(a.table)
  <2>1. s \in 0..Len(m.table)-1 /\ Len(m.table) <= Len(a.table) /\ Len(m.table) \in Nat
        /\ Len(a.table) \in Nat
    BY <1>2, MachineParts DEF Grows, Extends
  <2> QED BY <2>1 DEF Ids
<1>4. Stored(b, s) /\ StateOf(b, s).refs \in Nat
  BY <1>2, MachineStores DEF Has, Stored, StateOf
<1>5. /\ MachineOK(scenario, n) /\ n.table = a.table /\ n.base = a.base
      /\ DOMAIN n.store.slots = DOMAIN b.slots /\ n.store.limit = b.limit
      /\ \A j \in DOMAIN b.slots :
           /\ n.store.slots[j].refs = IF j = Slot(b, s) THEN b.slots[j].refs + 1
                                      ELSE b.slots[j].refs
           /\ n.store.slots[j].flags = b.slots[j].flags
           /\ Owner(n.store, j) = Owner(b, j)
      /\ Slot(n.store, s) = Slot(b, s)
  <2>1. 1 \in Int /\ StateOf(b, s).refs + 1 \in Nat BY <1>4
  <2> HIDE DEF n
  <2> QED BY <1>1, <1>2, <1>3, <1>4, <2>1, PinnedParts DEF n
<1> HIDE DEF n
<1>6. Grows(m, n) BY <1>2, <1>5 DEF Grows
<1>7. Has(n.store, "Arcs", s) BY <1>2, <1>5 DEF Has, Stored, StateOf
<1>8. Opens(c, n.store, s)
  <2> DEFINE e == n.store
  <2>0. /\ \A j \in DOMAIN b.slots : b.slots[j].refs \in Nat
        /\ \A j \in DOMAIN c.slots : c.slots[j].refs \in Nat
    BY <1>2, MachineStores
  <2>1. ASSUME NEW j \in DOMAIN e.slots
        PROVE  e.slots[j].refs = (IF j \in DOMAIN c.slots THEN c.slots[j].refs ELSE 0)
                                 + (IF j = Slot(e, s) THEN 1 ELSE 0)
    <3>1. j \in DOMAIN b.slots BY <1>5
    <3>2. b.slots[j].refs = IF j \in DOMAIN c.slots THEN c.slots[j].refs ELSE 0
      BY <1>2, <3>1 DEF Moves
    <3>3. e.slots[j].refs = IF j = Slot(e, s) THEN b.slots[j].refs + 1 ELSE b.slots[j].refs
      BY <1>5, <3>1
    <3> QED BY <2>0, <3>1, <3>2, <3>3
  <2>2. ASSUME NEW j \in DOMAIN c.slots, c.slots[j].refs # 0
        PROVE  /\ j \in DOMAIN e.slots /\ Owner(e, j) = Owner(c, j)
               /\ "Arcs" \in c.slots[j].flags => "Arcs" \in e.slots[j].flags
    BY <1>2, <1>5, <2>2 DEF Moves
  <2>3. ASSUME e.limit # c.limit, NEW j \in DOMAIN e.slots, j # Slot(e, s)
        PROVE  e.slots[j].refs # 0
    BY <1>2, <1>5, <2>3 DEF Moves
  <2>4. Slot(e, s) \in DOMAIN e.slots BY <1>5, <1>2 DEF Moves
  <2> HIDE DEF e
  <2> QED BY <2>1, <2>2, <2>3, <2>4 DEF Opens, e
<1> QED BY <1>5, <1>6, <1>7, <1>8 DEF Opened, n, a

\* What a loop of Done makes of the machine.
Walks(m, n) == MachineOK(scenario, n) /\ Grows(m, n) /\ Steady(m.store, n.store)

LEMMA ClosedKeeps ==
  ASSUME NEW m, MachineOK(scenario, m), NEW s \in Ids(m.table), NEW o, Opened(m, o, s)
  PROVE  Walks(m, Closed(o, s))
<1> DEFINE c == m.store
           e == o.store
           p == Pinned(o, s, -1)
           k == Known(o.base, e, s)
           b == SetExpandedState(k, s)
           n == [table |-> o.table, store |-> p.store, base |-> b]
<1>1. s \in Nat BY MachineParts
<1>2. MachineOK(scenario, o) /\ Grows(m, o) /\ Opens(c, e, s) /\ Has(e, "Arcs", s)
  BY DEF Opened
<1>3. s \in Ids(o.table)
  <2>1. s \in 0..Len(m.table)-1 /\ Len(m.table) <= Len(o.table) /\ Len(m.table) \in Nat
        /\ Len(o.table) \in Nat
    BY <1>2, MachineParts DEF Grows, Extends
  <2> QED BY <2>1 DEF Ids
<1>4. Stored(e, s) /\ StateOf(e, s) = e.slots[Slot(e, s)] BY <1>2 DEF Has, StateOf
<1>0. /\ \A j \in DOMAIN e.slots : e.slots[j].refs \in Nat
      /\ \A j \in DOMAIN c.slots : c.slots[j].refs \in Nat
  BY <1>2, MachineStores
<1>5. e.slots[Slot(e, s)].refs >= 1
  <2> DEFINE i == Slot(e, s)
  <2>1. i \in DOMAIN e.slots BY <1>2 DEF Opens
  <2>2. e.slots[i].refs = (IF i \in DOMAIN c.slots THEN c.slots[i].refs ELSE 0) + 1
    BY <1>2, <2>1 DEF Opens
  <2> HIDE DEF i
  <2>3. e.slots[i].refs >= 1 BY <1>0, <2>1, <2>2
  <2> QED BY <2>3 DEF i
<1>6. /\ MachineOK(scenario, p) /\ p.table = o.table /\ p.base = o.base
      /\ DOMAIN p.store.slots = DOMAIN e.slots
      /\ \A j \in DOMAIN e.slots :
           /\ p.store.slots[j].refs = IF j = Slot(e, s) THEN e.slots[j].refs + (-1)
                                      ELSE e.slots[j].refs
           /\ p.store.slots[j].flags = e.slots[j].flags
           /\ Owner(p.store, j) = Owner(e, j)
  <2>1. -1 \in Int /\ StateOf(e, s).refs + (-1) \in Nat
    <3>1. StateOf(e, s).refs \in Nat /\ StateOf(e, s).refs >= 1 BY <1>0, <1>4, <1>5 DEF Stored
    <3> QED BY <3>1
  <2> HIDE DEF p
  <2> QED BY <1>1, <1>2, <1>3, <1>4, <2>1, PinnedParts DEF p
<1>7. Closed(o, s) = n
  <2>1. Closed(o, s) = [p EXCEPT !.base = b] BY DEF Closed
  <2> HIDE DEF p, b
  <2>2. [p EXCEPT !.base = b] = [table |-> p.table, store |-> p.store, base |-> b]
    BY <1>6, MachineWith
  <2> QED BY <1>6, <2>1, <2>2
<1> HIDE DEF p
<1>8. BaseOK(b, Len(o.table)) /\ o.base.nknown <= b.nknown
  <2> DEFINE l == Len(o.table)
             ids == ToSet(StateOf(e, s).arcs)
  <2>1. BaseOK(o.base, l) BY <1>2 DEF MachineOK
  <2>2. ids \in SUBSET (0..l-1)
    <3>1. \A j \in DOMAIN StateOf(e, s).arcs : StateOf(e, s).arcs[j] \in Ids(o.table)
      BY <1>1, <1>2, <1>4, MachineStores, StateStored
    <3> QED BY <3>1 DEF ToSet, Ids
  <2>3. k = UpdateNumKnownStates(o.base, ids) BY DEF Known
  <2>4. s \in 0..l-1 BY <1>3 DEF Ids
  <2> HIDE DEF k, b, l, ids
  <2>5. BaseOK(k, l) /\ k.nknown >= o.base.nknown BY <2>1, <2>2, <2>3, UpdateKeeps
  <2>6. BaseOK(b, l) /\ b.nknown = k.nknown BY <2>4, <2>5, SetExpandedKeeps DEF b
  <2>7. o.base.nknown \in Nat /\ k.nknown \in Nat BY <2>1, <2>5 DEF BaseOK
  <2> QED BY <2>5, <2>6, <2>7 DEF l
<1> HIDE DEF b, k
<1>9. MachineOK(scenario, n) BY <1>6, <1>8 DEF MachineOK
<1>10. Grows(m, n)
  <2>1. /\ m.base.nknown \in Nat /\ o.base.nknown \in Nat /\ b.nknown \in Nat
        /\ m.base.nknown <= o.base.nknown
    BY <1>2, <1>8 DEF MachineOK, BaseOK, Grows
  <2> QED BY <1>2, <1>8, <2>1 DEF Grows
<1>11. Steady(c, p.store)
  <2> DEFINE q == p.store
  <2>1. ASSUME NEW j \in DOMAIN q.slots
        PROVE  q.slots[j].refs = IF j \in DOMAIN c.slots THEN c.slots[j].refs ELSE 0
    <3>1. j \in DOMAIN e.slots BY <1>6
    <3>2. e.slots[j].refs = (IF j \in DOMAIN c.slots THEN c.slots[j].refs ELSE 0)
                            + (IF j = Slot(e, s) THEN 1 ELSE 0)
      BY <1>2, <3>1 DEF Opens
    <3>3. q.slots[j].refs = IF j = Slot(e, s) THEN e.slots[j].refs + (-1) ELSE e.slots[j].refs
      BY <1>6, <3>1
    <3> QED BY <1>0, <3>1, <3>2, <3>3
  <2>2. ASSUME NEW j \in DOMAIN c.slots, c.slots[j].refs # 0
        PROVE  /\ j \in DOMAIN q.slots /\ Owner(q, j) = Owner(c, j)
               /\ "Arcs" \in c.slots[j].flags => "Arcs" \in q.slots[j].flags
    BY <1>2, <1>6, <2>2 DEF Opens
  <2> HIDE DEF q
  <2> QED BY <2>1, <2>2 DEF Steady, q
<1> QED BY <1>7, <1>9, <1>10, <1>11 DEF Walks

LEMMA NoWalks ==
  ASSUME NEW m, MachineOK(scenario, m)
  PROVE  Walks(m, m)
  BY MachineParts DEF Walks, Steady

LEMMA WalksTwice ==
  ASSUME NEW m, NEW n, NEW o, MachineOK(scenario, m), Walks(m, n), Walks(n, o)
  PROVE  Walks(m, o)
<1>1. Extends(m.table, o.table) BY ExtendsTwice DEF Walks, Grows
<1>2. m.base.nknown <= o.base.nknown
  <2>1. m.base.nknown \in Nat /\ n.base.nknown \in Nat /\ o.base.nknown \in Nat
    BY DEF Walks, MachineOK, BaseOK
  <2> QED BY <2>1 DEF Walks, Grows
<1>3. Steady(m.store, o.store) BY SteadyTwice DEF Walks
<1> QED BY <1>1, <1>2, <1>3 DEF Walks, Grows

LEMMA DoneRoundKeeps ==
  ASSUME NEW m, MachineOK(scenario, m), NEW at
  PROVE  Walks(m, DoneRound(m, at))
<1>1. CASE at < m.base.nknown
  <2>1. DoneRound(m, at) = m BY <1>1 DEF DoneRound
  <2> QED BY <2>1, NoWalks
<1>2. CASE ~(at < m.base.nknown)
  <2> DEFINE u == MinUnexpandedState(m.base, m.store)
             b == [m.base EXCEPT !.minUnexpanded = u]
             n == [table |-> m.table, store |-> m.store, base |-> b]
             l == Len(m.table)
  <2>1. BaseOK(m.base, l) BY DEF MachineOK
  <2>2. u \in 0..l BY <2>1, MinUnexpandedBounds
  <2> HIDE DEF u
  <2>3. BaseOK(b, l) /\ b.nknown = m.base.nknown BY <2>1, <2>2, MinUnexpandedKeeps
  <2>4. DoneRound(m, at) = OpenFound(n, u)
    <3>1. DoneRound(m, at) = OpenFound([m EXCEPT !.base.minUnexpanded = u], u)
      BY <1>2 DEF DoneRound, OpenUnexpanded, u
    <3>2. [m EXCEPT !.base.minUnexpanded = u] = n
      <4> DEFINE r == [table |-> m.table, store |-> m.store, base |-> m.base]
      <4>1. m = r BY DEF MachineOK
      <4>2. [r EXCEPT !.base.minUnexpanded = u] = n OBVIOUS
      <4> HIDE DEF r, n
      <4> QED BY <4>1, <4>2
    <3> HIDE DEF n
    <3> QED BY <3>1, <3>2
  <2> HIDE DEF b
  <2>5. MachineOK(scenario, n) BY <2>3 DEF MachineOK
  <2>6. n.table = m.table /\ n.store = m.store /\ n.base = b OBVIOUS
  <2> HIDE DEF n
  <2>7. Walks(m, n)
    <3>1. Grows(m, n)
      <4>1. m.base.nknown \in Nat /\ Extends(m.table, m.table) BY MachineParts
      <4> QED BY <2>3, <2>6, <4>1 DEF Grows
    <3>2. Steady(m.store, n.store) BY <2>6 DEF Steady
    <3> QED BY <2>5, <3>1, <3>2 DEF Walks
  <2>8. CASE u >= n.base.nknown
    <3>1. DoneRound(m, at) = n BY <2>4, <2>8 DEF OpenFound
    <3> QED BY <2>7, <3>1
  <2>9. CASE ~(u >= n.base.nknown)
    <3> DEFINE o == ArcIterator(n, u)
    <3>1. DoneRound(m, at) = Closed(o, u) BY <2>4, <2>9 DEF OpenFound
    <3>2. u \in Ids(n.table)
      <4>1. u \in Nat /\ n.base.nknown \in Nat /\ n.base.nknown <= l /\ l \in Nat
        BY <2>2, <2>3, <2>6 DEF BaseOK
      <4>2. u \in 0..l-1 BY <2>9, <4>1
      <4> QED BY <2>6, <4>2 DEF Ids, l
    <3>3. Opened(n, o, u) BY <2>5, <3>2, ArcIteratorKeeps
    <3> HIDE DEF o
    <3>4. Walks(n, Closed(o, u)) BY <2>5, <3>2, <3>3, ClosedKeeps
    <3> QED BY <2>7, <3>1, <3>4, WalksTwice
  <2> QED BY <2>8, <2>9
<1> QED BY <1>1, <1>2

Walking == INSTANCE NumberTheorems WITH Step <- DoneRound

LEMMA DoneLoopKeeps ==
  ASSUME NEW m, MachineOK(scenario, m), NEW at
  PROVE  Walks(m, DoneLoop(m, at))
<1> DEFINE n == Cardinality(DOMAIN scenario.fst.next) + 1
           L == [i \in 1..n |-> at]
           e == DoneLoop(m, at)
<1>1. n \in Nat
  <2>1. IsFiniteSet(DOMAIN scenario.fst.next) BY CacheAssumption DEF MachineOK
  <2>2. Cardinality(DOMAIN scenario.fst.next) \in Nat BY <2>1, FS_CardinalityType
  <2> QED BY <2>2
<1>2. e = FoldLeft(DoneRound, m, L) BY DEF DoneLoop, fst
<1> HIDE DEF n, e
<1>3. Len(L) = n /\ DOMAIN L = 1..n /\ \A k \in 1..n : L[k] = at BY <1>1
<1> HIDE DEF L
<1>4. PICK g : Walking!IsChain(g, m, L) /\ Walking!Folded(m, L) = g[n]
  <2>1. Len(L) \in Nat /\ DOMAIN L = 1..Len(L) BY <1>1, <1>3
  <2>2. \E g : Walking!IsChain(g, m, L) /\ Walking!Folded(m, L) = g[Len(L)]
    BY <2>1, Walking!FoldIsChain, Zenon
  <2> QED BY <1>3, <2>2
<1>5. g[0] = m /\ \A k \in 1..n : g[k] = DoneRound(g[k-1], at)
  BY <1>3, <1>4 DEF Walking!IsChain
<1>6. e = g[n]
  <2>1. e = Walking!Folded(m, L)
    BY <1>2 DEF Walking!Folded, FoldLeft, MapThenFoldSet, Walking!FoldLeft,
           Walking!MapThenFoldSet, Max, Walking!Max
  <2> QED BY <1>4, <2>1
<1> DEFINE K == {k \in Nat : k <= n => Walks(m, g[k])}
<1>7. 0 \in K BY <1>5, NoWalks
<1>8. ASSUME NEW k \in Nat, k \in K PROVE k + 1 \in K
  <2> SUFFICES ASSUME k + 1 <= n PROVE Walks(m, g[k+1]) BY <1>8
  <2>1. k + 1 \in 1..n /\ k <= n /\ (k + 1) - 1 = k BY <1>1, <1>8
  <2>2. Walks(m, g[k]) BY <1>8, <2>1
  <2>3. g[k+1] = DoneRound(g[k], at) BY <1>5, <2>1
  <2>4. Walks(g[k], g[k+1]) BY <2>2, <2>3, DoneRoundKeeps DEF Walks
  <2> QED BY <2>2, <2>4, WalksTwice
<1>9. Walks(m, g[n])
  <2>1. n \in K
    <3> HIDE DEF K
    <3> QED BY <1>1, <1>7, <1>8, SetInduction
  <2> QED BY <1>1, <2>1
<1> QED BY <1>6, <1>9 DEF e

-----------------------------------------------------------------------------
(* The arc iterators the client holds.                                     *)

Holders(its, k) == {j \in Iterators : its[j].slot = k}

\* A slot counts the iterators that point to it, and these find their state there.
IteratorsOK(c, its) ==
  /\ its \in [Iterators -> [id : Nat \cup {kNoStateId}, slot : Nat \cup {kNoStateId}]]
  /\ \A j \in Iterators : its[j] # None =>
       /\ its[j].slot \in DOMAIN c.slots /\ Owner(c, its[j].slot) = its[j].id
       /\ "Arcs" \in c.slots[its[j].slot].flags
  /\ \A k \in DOMAIN c.slots : c.slots[k].refs = Cardinality(Holders(its, k))

LEMMA HoldersFinite ==
  ASSUME NEW its, NEW k
  PROVE  /\ IsFiniteSet(Holders(its, k)) /\ Cardinality(Holders(its, k)) \in Nat
         /\ Cardinality(Holders(its, k)) = 0 <=> Holders(its, k) = {}
<1>1. Holders(its, k) \subseteq Iterators /\ IsFiniteSet(Iterators)
  BY CacheAssumption DEF Holders
<1>2. IsFiniteSet(Holders(its, k)) BY <1>1, FS_Subset
<1> QED BY <1>2, FS_CardinalityType, FS_EmptySet

LEMMA HeldSlots ==
  ASSUME NEW sc, NEW c, Shape(sc, c), NEW its, IteratorsOK(c, its)
  PROVE  /\ \A j \in Iterators : its[j] # None => c.slots[its[j].slot].refs # 0
         /\ \A j \in Iterators, k \in Nat : its[j].slot = k => its[j] # None
         /\ \A k \in Nat : k \notin DOMAIN c.slots => Holders(its, k) = {}
<1>1. ASSUME NEW j \in Iterators, its[j] # None PROVE c.slots[its[j].slot].refs # 0
  <2> DEFINE k == its[j].slot
  <2>1. k \in DOMAIN c.slots BY <1>1 DEF IteratorsOK
  <2>2. c.slots[k].refs = Cardinality(Holders(its, k)) BY <2>1 DEF IteratorsOK
  <2>3. j \in Holders(its, k) BY DEF Holders
  <2> HIDE DEF k
  <2>4. c.slots[k].refs # 0 BY <2>2, <2>3, HoldersFinite
  <2> QED BY <2>4 DEF k
<1>2. ASSUME NEW j \in Iterators, NEW k \in Nat, its[j].slot = k PROVE its[j] # None
  BY <1>2 DEF None, kNoStateId
<1>3. ASSUME NEW k \in Nat, k \notin DOMAIN c.slots PROVE Holders(its, k) = {}
  BY <1>2, <1>3 DEF Holders, IteratorsOK
<1> QED BY <1>1, <1>2, <1>3

LEMMA IteratorsSteady ==
  ASSUME NEW sc, NEW c, NEW d, Shape(sc, c), Shape(sc, d), Steady(c, d),
         NEW its, IteratorsOK(c, its)
  PROVE  IteratorsOK(d, its)
<1>1. ASSUME NEW j \in Iterators, its[j] # None
      PROVE  /\ its[j].slot \in DOMAIN d.slots /\ Owner(d, its[j].slot) = its[j].id
             /\ "Arcs" \in d.slots[its[j].slot].flags
  <2>1. /\ its[j].slot \in DOMAIN c.slots /\ Owner(c, its[j].slot) = its[j].id
        /\ "Arcs" \in c.slots[its[j].slot].flags /\ c.slots[its[j].slot].refs # 0
    BY <1>1, HeldSlots DEF IteratorsOK
  <2> QED BY <2>1 DEF Steady
<1>2. ASSUME NEW k \in DOMAIN d.slots PROVE d.slots[k].refs = Cardinality(Holders(its, k))
  <2>1. CASE k \in DOMAIN c.slots BY <2>1 DEF Steady, IteratorsOK
  <2>2. CASE k \notin DOMAIN c.slots
    <3>1. k \in Nat BY SlotsOfStore DEF Shape
    <3>2. Holders(its, k) = {} BY <2>2, <3>1, HeldSlots
    <3>3. d.slots[k].refs = 0 BY <2>2 DEF Steady
    <3> QED BY <3>2, <3>3, FS_EmptySet
  <2> QED BY <2>1, <2>2
<1> QED BY <1>1, <1>2 DEF IteratorsOK

LEMMA IteratorOpened ==
  ASSUME NEW sc, NEW c, NEW d, Shape(sc, c), Shape(sc, d), NEW s \in Nat, Opens(c, d, s),
         Has(d, "Arcs", s), NEW its, IteratorsOK(c, its), NEW i \in Iterators, its[i] = None
  PROVE  IteratorsOK(d, [its EXCEPT ![i] = [id |-> s, slot |-> Slot(d, s)]])
<1> DEFINE x == Slot(d, s)
           at == [id |-> s, slot |-> x]
           new == [its EXCEPT ![i] = at]
<1>1. x \in DOMAIN d.slots /\ x \in Nat /\ Owner(d, x) = s /\ "Arcs" \in d.slots[x].flags
  BY OwnerOfSlot DEF Has, Stored, StateOf
<1> HIDE DEF x
<1>2. at \in [id : Nat \cup {kNoStateId}, slot : Nat \cup {kNoStateId}] BY <1>1
<1>3. at.id = s /\ at.slot = x OBVIOUS
<1> HIDE DEF at
<1>4. /\ new \in [Iterators -> [id : Nat \cup {kNoStateId}, slot : Nat \cup {kNoStateId}]]
      /\ \A j \in Iterators : new[j] = IF j = i THEN at ELSE its[j]
  BY <1>2 DEF IteratorsOK
<1> HIDE DEF new
<1>5. ASSUME NEW j \in Iterators, new[j] # None
      PROVE  /\ new[j].slot \in DOMAIN d.slots /\ Owner(d, new[j].slot) = new[j].id
             /\ "Arcs" \in d.slots[new[j].slot].flags
  <2>1. CASE j = i BY <1>1, <1>3, <1>4, <2>1
  <2>2. CASE j # i
    <3>0. new[j] = its[j] BY <1>4, <2>2
    <3>1. /\ its[j].slot \in DOMAIN c.slots /\ Owner(c, its[j].slot) = its[j].id
          /\ "Arcs" \in c.slots[its[j].slot].flags /\ c.slots[its[j].slot].refs # 0
      BY <1>5, <3>0, HeldSlots DEF IteratorsOK
    <3> QED BY <3>0, <3>1 DEF Opens
  <2> QED BY <2>1, <2>2
<1>6. ASSUME NEW k \in DOMAIN d.slots PROVE d.slots[k].refs = Cardinality(Holders(new, k))
  <2> DEFINE H == Holders(its, k)
             old == IF k \in DOMAIN c.slots THEN c.slots[k].refs ELSE 0
  <2>0. k \in Nat /\ kNoStateId = -1 BY SlotsOfStore DEF Shape, kNoStateId
  <2>1. old = Cardinality(H)
    <3>1. CASE k \in DOMAIN c.slots BY <3>1 DEF IteratorsOK
    <3>2. CASE k \notin DOMAIN c.slots
      <4>1. H = {} BY <2>0, <3>2, HeldSlots
      <4> QED BY <3>2, <4>1, FS_EmptySet
    <3> QED BY <3>1, <3>2
  <2>2. d.slots[k].refs = old + (IF k = x THEN 1 ELSE 0) BY DEF Opens, x
  <2> HIDE DEF old
  <2>3. i \notin H BY <2>0 DEF Holders, None
  <2>4. IsFiniteSet(H) /\ Cardinality(H) \in Nat BY HoldersFinite
  <2>5. CASE k = x
    <3>1. Holders(new, k) = H \cup {i} BY <1>3, <1>4, <2>5 DEF Holders
    <3>2. Cardinality(H \cup {i}) = Cardinality(H) + 1 BY <2>3, <2>4, FS_AddElement
    <3> QED BY <2>1, <2>2, <2>5, <3>1, <3>2
  <2>6. CASE k # x
    <3>1. Holders(new, k) = H BY <1>3, <1>4, <2>3, <2>6 DEF Holders
    <3> HIDE DEF H
    <3> QED BY <2>1, <2>2, <2>4, <2>6, <3>1
  <2> QED BY <2>5, <2>6
<1> QED BY <1>4, <1>5, <1>6 DEF IteratorsOK, new, at, x

LEMMA IteratorClosed ==
  ASSUME NEW sc, NEW c, NEW d, Shape(sc, c), NEW its, IteratorsOK(c, its),
         NEW i \in Iterators, its[i] # None,
         DOMAIN d.slots = DOMAIN c.slots,
         \A j \in DOMAIN c.slots :
           /\ d.slots[j].refs = IF j = its[i].slot THEN c.slots[j].refs + (-1) ELSE c.slots[j].refs
           /\ d.slots[j].flags = c.slots[j].flags /\ Owner(d, j) = Owner(c, j)
  PROVE  IteratorsOK(d, [its EXCEPT ![i] = None])
<1> DEFINE new == [its EXCEPT ![i] = None]
<1>1. /\ new \in [Iterators -> [id : Nat \cup {kNoStateId}, slot : Nat \cup {kNoStateId}]]
      /\ \A j \in Iterators : new[j] = IF j = i THEN None ELSE its[j]
  <2>1. None \in [id : Nat \cup {kNoStateId}, slot : Nat \cup {kNoStateId}] BY DEF None
  <2> QED BY <2>1 DEF IteratorsOK
<1> HIDE DEF new
<1>2. ASSUME NEW j \in Iterators, new[j] # None
      PROVE  /\ new[j].slot \in DOMAIN d.slots /\ Owner(d, new[j].slot) = new[j].id
             /\ "Arcs" \in d.slots[new[j].slot].flags
  <2>1. new[j] = its[j] BY <1>1, <1>2
  <2> QED BY <1>2, <2>1 DEF IteratorsOK
<1>3. ASSUME NEW k \in DOMAIN d.slots PROVE d.slots[k].refs = Cardinality(Holders(new, k))
  <2> DEFINE H == Holders(its, k)
  <2>0. k \in Nat /\ kNoStateId = -1 /\ k \in DOMAIN c.slots
    BY SlotsOfStore DEF Shape, kNoStateId
  <2>1. c.slots[k].refs = Cardinality(H) BY <2>0 DEF IteratorsOK
  <2>2. IsFiniteSet(H) /\ Cardinality(H) \in Nat BY HoldersFinite
  <2>3. None.slot = -1 BY DEF None, kNoStateId
  <2>4. CASE k = its[i].slot
    <3>1. i \in H /\ Holders(new, k) = H \ {i} BY <1>1, <2>0, <2>3, <2>4 DEF Holders
    <3>2. Cardinality(H \ {i}) = Cardinality(H) - 1 BY <2>2, <3>1, FS_RemoveElement
    <3> HIDE DEF H
    <3> QED BY <2>0, <2>1, <2>2, <2>4, <3>1, <3>2
  <2>5. CASE k # its[i].slot
    <3>1. Holders(new, k) = H BY <1>1, <2>0, <2>3, <2>5 DEF Holders
    <3> QED BY <2>0, <2>1, <2>5, <3>1
  <2> QED BY <2>4, <2>5
<1> QED BY <1>1, <1>2, <1>3 DEF IteratorsOK, new

-----------------------------------------------------------------------------
(* The inductive invariant.                                                *)

WalkOK(w, b) ==
  /\ w \in [at : Nat, status : {"none", "unknown", "at", "done"}]
  /\ w.at <= b.nknown /\ (w.status = "at" => w.at < b.nknown)

CacheInv(sc, m, its, w) ==
  MachineOK(sc, m) /\ IteratorsOK(m.store, its) /\ WalkOK(w, m.base)

IInv == CacheInv(scenario, Machine, arcIterators, walk) /\ RequestedStateStays

LEMMA NewMachine ==
  ASSUME NEW sc \in Scenarios
  PROVE  LET m == [table |-> <<>>, store |-> NewStore(sc.options), base |-> NewBase]
         IN  MachineOK(sc, m) /\ m.store.slots = <<>> /\ m.base.nknown = 0
<1> DEFINE c == NewStore(sc.options)
           m == [table |-> <<>>, store |-> c, base |-> NewBase]
<1>1. sc.options.gc \in BOOLEAN /\ sc.options.gc_limit \in Nat /\ kMinCacheLimit \in Nat
      /\ kMinCacheLimit >= 2
  BY CacheAssumption
<1>2. /\ c.slots = <<>> /\ c.list = <<>> /\ c.firstGc \in BOOLEAN /\ c.firstId = kNoStateId
      /\ c.gc = FALSE /\ c.size = 0 /\ c.limit \in Nat /\ c.limit >= 2
  BY <1>1 DEF NewStore
<1>3. <<>> \in SlotMaps(sc)
  <2>1. <<>> \in [{} -> CachedStates(sc)] OBVIOUS
  <2>2. {} \in SUBSET Nat OBVIOUS
  <2> QED BY <2>1, <2>2 DEF SlotMaps
<1>4. c \in Stores(sc)
  <2>1. c = [slots |-> c.slots, list |-> c.list, firstGc |-> c.firstGc, firstId |-> c.firstId,
             gc |-> c.gc, size |-> c.size, limit |-> c.limit]
    BY DEF NewStore
  <2>2. <<>> \in Seq(Nat) OBVIOUS
  <2> HIDE DEF c
  <2>3. /\ c.slots \in SlotMaps(sc) /\ c.list \in Seq(Nat) /\ c.firstGc \in BOOLEAN
        /\ c.firstId \in Nat \cup {kNoStateId} /\ c.gc \in BOOLEAN /\ c.size \in Nat
        /\ c.limit \in Nat
    <3>1. c.slots \in SlotMaps(sc) BY <1>2, <1>3, Zenon
    <3>2. c.list \in Seq(Nat) BY <1>2, <2>2, Zenon
    <3>3. c.firstId \in Nat \cup {kNoStateId} BY <1>2, Zenon
    <3>4. c.gc \in BOOLEAN BY <1>2, Zenon
    <3>5. c.size \in Nat
      <4>1. c.size = 0 BY <1>2
      <4> QED BY <4>1
    <3> QED BY <1>2, <3>1, <3>2, <3>3, <3>4, <3>5, Zenon
  <2> QED BY <2>1, <2>3 DEF Stores
<1> HIDE DEF c
<1>5. DOMAIN c.slots = {} /\ DOMAIN c.list = {} /\ ToSet(c.list) = {} BY <1>2 DEF ToSet
<1>6. Shape(sc, c)
  <2>1. IsFiniteSet(DOMAIN c.slots) BY <1>5, FS_EmptySet
  <2>2. Distinct(c.list) BY <1>5 DEF Distinct
  <2> QED BY <1>2, <1>4, <1>5, <2>1, <2>2 DEF Shape
<1>7. StoreOK(sc, c) BY <1>2, <1>5, <1>6 DEF StoreOK, Exact, Settled, Sized
<1>8. TableOK(sc, <<>>) BY DEF TableOK, Distinct
<1>9. BaseOK(NewBase, 0) /\ NewBase.nknown = 0 BY DEF BaseOK, NewBase
<1>10. Content(sc, c, <<>>) BY <1>5 DEF Content
<1>11. Len(<<>>) = 0 OBVIOUS
<1>12. MachineOK(sc, m)
  <2>1. m.table = <<>> /\ m.store = c /\ m.base = NewBase OBVIOUS
  <2>2. m = [table |-> m.table, store |-> m.store, base |-> m.base] OBVIOUS
  <2> HIDE DEF m
  <2> QED BY <1>7, <1>8, <1>9, <1>10, <1>11, <2>1, <2>2 DEF MachineOK
<1> QED BY <1>2, <1>9, <1>12 DEF c

LEMMA NoIterators ==
  ASSUME NEW sc, NEW c, Shape(sc, c), NEW its, its = [i \in Iterators |-> None],
         \A k \in DOMAIN c.slots : c.slots[k].refs = 0
  PROVE  IteratorsOK(c, its)
<1>1. None \in [id : Nat \cup {kNoStateId}, slot : Nat \cup {kNoStateId}] BY DEF None
<1>2. \A j \in Iterators : its[j] = None OBVIOUS
<1>3. ASSUME NEW k \in DOMAIN c.slots PROVE c.slots[k].refs = Cardinality(Holders(its, k))
  <2>1. k \in Nat /\ None.slot = -1 BY SlotsOfStore DEF Shape, None, kNoStateId
  <2>2. Holders(its, k) = {} BY <1>2, <2>1 DEF Holders
  <2> QED BY <2>2, FS_EmptySet
<1> QED BY <1>1, <1>2, <1>3 DEF IteratorsOK

LEMMA Initially ==
  Init => IInv
<1> SUFFICES ASSUME Init PROVE IInv OBVIOUS
<1>1. MachineOK(scenario, Machine) /\ store.slots = <<>> /\ base.nknown = 0
  BY NewMachine DEF Init, Machine, options
<1>2. Machine.store = store /\ Machine.base = base BY DEF Machine
<1>3. IteratorsOK(store, arcIterators)
  <2>1. Shape(scenario, store) BY <1>1, <1>2, MachineStores
  <2>2. DOMAIN store.slots = {} BY <1>1
  <2> QED BY <2>1, <2>2, NoIterators DEF Init
<1>4. WalkOK(walk, base) BY <1>1 DEF Init, WalkOK, NoWalk
<1>5. RequestedStateStays BY DEF Init, RequestedStateStays
<1> QED BY <1>1, <1>2, <1>3, <1>4, <1>5 DEF IInv, CacheInv

\* What a step keeps.
Widening ==
  store'.limit > store.limit /\ request' # NoRequest =>
    \A i \in DOMAIN store'.slots : i # Slot(store', request'[2]) => store'.slots[i].refs > 0

Preserved == IInv' /\ Widening

LEMMA BecomesMachine ==
  ASSUME NEW n, n = [table |-> n.table, store |-> n.store, base |-> n.base], Becomes(n)
  PROVE  Machine' = n
  BY DEF Becomes, Machine

LEMMA MachineNow ==
  ASSUME IInv
  PROVE  /\ MachineOK(scenario, Machine) /\ IteratorsOK(store, arcIterators)
         /\ WalkOK(walk, base) /\ Machine.table = table /\ Machine.store = store
         /\ Machine.base = base /\ Shape(scenario, store) /\ StoreOK(scenario, store)
         /\ Content(scenario, store, table) /\ Ids(Machine.table) = KnownIds
<1>1. Machine.table = table /\ Machine.store = store /\ Machine.base = base BY DEF Machine
<1>2. MachineOK(scenario, Machine) BY DEF IInv, CacheInv
<1>3. Ids(Machine.table) = KnownIds BY <1>1 DEF Ids, KnownIds
<1> QED BY <1>1, <1>2, <1>3, MachineStores DEF IInv, CacheInv

LEMMA WalkGrows ==
  ASSUME NEW m, NEW n, Grows(m, n), NEW w, WalkOK(w, m.base), m.base.nknown \in Nat,
         n.base.nknown \in Nat
  PROVE  WalkOK(w, n.base)
  BY DEF WalkOK, Grows

\* A step that leaves iterators and walk alone, and its request r on the state s.
LEMMA CallKeeps ==
  ASSUME IInv, NEW n, MachineOK(scenario, n), Grows(Machine, n), Becomes(n),
         Steady(store, n.store), UNCHANGED <<scenario, arcIterators, walk>>,
         RequestedStateStays', Widening
  PROVE  Preserved
<1>1. Machine' = n BY BecomesMachine DEF MachineOK
<1>2. n.store = store' /\ n.base = base' BY DEF Becomes
<1>3. MachineOK(scenario, n) OBVIOUS
<1>4. Shape(scenario, n.store) BY MachineStores
<1>5. IteratorsOK(n.store, arcIterators) BY <1>4, MachineNow, IteratorsSteady
<1>6. WalkOK(walk, n.base)
  <2>1. Machine.base.nknown \in Nat /\ n.base.nknown \in Nat BY MachineNow, MachineParts
  <2>2. WalkOK(walk, Machine.base) BY MachineNow
  <2> QED BY <2>1, <2>2, WalkGrows
<1>7. CacheInv(scenario, n, arcIterators, walk) BY <1>5, <1>6 DEF CacheInv
<1>8. CacheInv(scenario', Machine', arcIterators', walk') BY <1>1, <1>7
<1>9. IInv' BY <1>8 DEF IInv
<1> QED BY <1>9 DEF Preserved

\* A step with no request.
LEMMA NoRequestKeeps ==
  ASSUME request' = NoRequest
  PROVE  RequestedStateStays' /\ Widening
  BY DEF RequestedStateStays, Widening

LEMMA RequestKeeps ==
  ASSUME IInv, NEW n, MachineOK(scenario, n), NEW s, Becomes(n), NEW f, request' = <<f, s>>,
         Has(n.store, f, s),
         n.store.limit # store.limit =>
           \A i \in DOMAIN n.store.slots : i # Slot(n.store, s) => n.store.slots[i].refs # 0
  PROVE  RequestedStateStays' /\ Widening
<1>1. n.store = store' BY DEF Becomes
<1>2. request'[1] = f /\ request'[2] = s OBVIOUS
<1>3. RequestedStateStays' BY <1>1, <1>2 DEF RequestedStateStays
<1>4. Widening
  <2> SUFFICES ASSUME store'.limit > store.limit, NEW i \in DOMAIN store'.slots,
                      i # Slot(store', request'[2])
      PROVE  store'.slots[i].refs > 0
    BY DEF Widening
  <2>1. store'.limit \in Nat /\ store.limit \in Nat
    BY <1>1, MachineStores, MachineNow DEF Shape, Stores
  <2>2. store'.slots[i].refs # 0 BY <1>1, <1>2, <2>1
  <2>3. store'.slots[i].refs \in Nat BY <1>1, MachineStores
  <2> QED BY <2>2, <2>3
<1> QED BY <1>3, <1>4

LEMMA CallStartKeeps ==
  ASSUME IInv, CallStart
  PROVE  Preserved
<1> DEFINE n == Start(Machine)
<1>1. MachineOK(scenario, n) /\ Grows(Machine, n) /\ n.store = store
  BY MachineNow, StartKeeps
<1> HIDE DEF n
<1>2. Becomes(n) /\ request' = NoRequest /\ UNCHANGED <<scenario, arcIterators, walk>>
  BY DEF CallStart, n
<1>3. Steady(store, n.store) BY <1>1 DEF Steady
<1> QED BY <1>1, <1>2, <1>3, NoRequestKeeps, CallKeeps

LEMMA CallFinalKeeps ==
  ASSUME IInv, NEW s \in KnownIds, CallFinal(s)
  PROVE  Preserved
<1> DEFINE n == Final(Machine, s)
<1>1. /\ MachineOK(scenario, n) /\ Grows(Machine, n) /\ Moves(store, n.store, s)
      /\ Has(n.store, "Final", s)
  BY MachineNow, FinalKeeps
<1> HIDE DEF n
<1>2. Becomes(n) /\ request' = <<"Final", s>> /\ UNCHANGED <<scenario, arcIterators, walk>>
  BY DEF CallFinal, n
<1>3. RequestedStateStays' /\ Widening BY <1>1, <1>2, RequestKeeps DEF Moves
<1>4. Steady(store, n.store) BY <1>1, MovesSteady
<1> QED BY <1>1, <1>2, <1>3, <1>4, CallKeeps

LEMMA CallNumArcsKeeps ==
  ASSUME IInv, NEW s \in KnownIds, CallNumArcs(s)
  PROVE  Preserved
<1> DEFINE n == Arcs(Machine, s)
<1>1. /\ MachineOK(scenario, n) /\ Grows(Machine, n) /\ Moves(store, n.store, s)
      /\ Has(n.store, "Arcs", s)
  BY MachineNow, ArcsKeeps
<1> HIDE DEF n
<1>2. Becomes(n) /\ request' = <<"Arcs", s>> /\ UNCHANGED <<scenario, arcIterators, walk>>
  BY DEF CallNumArcs, n
<1>3. RequestedStateStays' /\ Widening BY <1>1, <1>2, RequestKeeps DEF Moves
<1>4. Steady(store, n.store) BY <1>1, MovesSteady
<1> QED BY <1>1, <1>2, <1>3, <1>4, CallKeeps

LEMMA OpenArcIteratorKeeps ==
  ASSUME IInv, NEW s \in KnownIds, NEW i \in Iterators, NEW specialised \in BOOLEAN,
         OpenArcIterator(i, s, specialised)
  PROVE  Preserved
<1> DEFINE n == IF specialised THEN ArcIterator(Machine, s)
                ELSE Pinned(Arcs(Machine, s), s, 1)
<1>0. MachineOK(scenario, Machine) /\ s \in Ids(Machine.table) BY MachineNow
<1>1. Opened(Machine, n, s)
  <2>1. CASE specialised BY <1>0, <2>1, ArcIteratorKeeps
  <2>2. CASE ~specialised BY <1>0, <2>2, ArcsPinnedKeeps
  <2> QED BY <2>1, <2>2
<1>2. /\ Becomes(n) /\ request' = <<"Arcs", s>> /\ UNCHANGED <<scenario, walk>>
      /\ arcIterators[i] = None
      /\ arcIterators' = [arcIterators EXCEPT ![i] = [id |-> s, slot |-> Slot(store', s)]]
  BY DEF OpenArcIterator
<1> HIDE DEF n
<1>3. /\ MachineOK(scenario, n) /\ Grows(Machine, n) /\ Opens(store, n.store, s)
      /\ Has(n.store, "Arcs", s)
  BY <1>1, MachineNow DEF Opened
<1>4. n.store = store' BY <1>2 DEF Becomes
<1>5. RequestedStateStays' /\ Widening BY <1>2, <1>3, RequestKeeps DEF Opens
<1>6. IteratorsOK(n.store, arcIterators')
  <2>1. s \in Nat BY <1>0, MachineParts
  <2>2. Shape(scenario, store) /\ Shape(scenario, n.store) /\ IteratorsOK(store, arcIterators)
    BY <1>3, MachineNow, MachineStores
  <2> QED BY <1>2, <1>3, <1>4, <2>1, <2>2, IteratorOpened
<1>7. WalkOK(walk, n.base)
  <2>1. Machine.base.nknown \in Nat /\ n.base.nknown \in Nat BY <1>0, <1>3, MachineParts
  <2>2. WalkOK(walk, Machine.base) BY MachineNow
  <2> QED BY <1>3, <2>1, <2>2, WalkGrows
<1>8. Machine' = n BY <1>2, <1>3, BecomesMachine DEF MachineOK
<1>9. CacheInv(scenario', Machine', arcIterators', walk')
  BY <1>2, <1>3, <1>6, <1>7, <1>8 DEF CacheInv
<1>10. IInv' BY <1>5, <1>9 DEF IInv
<1> QED BY <1>5, <1>10 DEF Preserved

LEMMA CloseArcIteratorKeeps ==
  ASSUME IInv, NEW i \in Iterators, CloseArcIterator(i)
  PROVE  Preserved
<1> DEFINE k == arcIterators[i].slot
           n == [table |-> table, store |-> store', base |-> base]
<1>1. /\ arcIterators[i] # None /\ store' = [store EXCEPT !.slots[k].refs = @ - 1]
      /\ arcIterators' = [arcIterators EXCEPT ![i] = None] /\ request' = NoRequest
      /\ UNCHANGED <<scenario, table, base, walk>>
  BY DEF CloseArcIterator
<1>2. /\ StoreOK(scenario, store) /\ Content(scenario, store, table) /\ Shape(scenario, store)
      /\ IteratorsOK(store, arcIterators) /\ MachineOK(scenario, Machine)
      /\ Machine.table = table /\ Machine.store = store /\ Machine.base = base
  BY MachineNow
<1>3. k \in DOMAIN store.slots /\ store.slots[k].refs # 0 /\ store.slots[k].refs \in Nat
  BY <1>1, <1>2, HeldSlots, SlotsOfStore DEF IteratorsOK, Shape
<1>4. store' = [store EXCEPT !.slots[k].refs = @ + (-1)]
  <2>1. store.slots[k].refs - 1 = store.slots[k].refs + (-1) BY <1>3
  <2> QED BY <1>1, <2>1
<1> HIDE DEF k
<1>5. /\ StoreOK(scenario, store') /\ Content(scenario, store', table)
      /\ DOMAIN store'.slots = DOMAIN store.slots
      /\ \A j \in DOMAIN store.slots :
           /\ store'.slots[j].refs = IF j = k THEN store.slots[j].refs + (-1)
                                     ELSE store.slots[j].refs
           /\ store'.slots[j].flags = store.slots[j].flags
           /\ Owner(store', j) = Owner(store, j)
  <2>1. -1 \in Int /\ store.slots[k].refs + (-1) \in Nat BY <1>3
  <2> QED BY <1>2, <1>3, <1>4, <2>1, PinKeeps
<1>6. MachineOK(scenario, n) BY <1>2, <1>5 DEF MachineOK
<1>7. Machine' = n BY <1>1 DEF Machine
<1>8. IteratorsOK(store', arcIterators')
  <2> DEFINE d == store'
             its == arcIterators
  <2>1. \A j \in DOMAIN store.slots :
          /\ d.slots[j].refs = IF j = its[i].slot THEN store.slots[j].refs + (-1)
                               ELSE store.slots[j].refs
          /\ d.slots[j].flags = store.slots[j].flags /\ Owner(d, j) = Owner(store, j)
    BY <1>5 DEF k
  <2>2. its[i] # None /\ DOMAIN d.slots = DOMAIN store.slots BY <1>1, <1>5
  <2>3. arcIterators' = [its EXCEPT ![i] = None] BY <1>1
  <2>4. Shape(scenario, store) /\ IteratorsOK(store, its) BY <1>2
  <2> HIDE DEF d, its
  <2>5. IteratorsOK(d, [its EXCEPT ![i] = None]) BY <2>1, <2>2, <2>4, IteratorClosed
  <2> QED BY <2>3, <2>5 DEF d
<1>9. WalkOK(walk, base) BY MachineNow
<1>10. CacheInv(scenario', Machine', arcIterators', walk')
  BY <1>1, <1>6, <1>7, <1>8, <1>9 DEF CacheInv
<1>11. RequestedStateStays' /\ Widening BY <1>1, NoRequestKeeps
<1>12. IInv' BY <1>10, <1>11 DEF IInv
<1> QED BY <1>11, <1>12 DEF Preserved

LEMMA WalkStepKeeps ==
  ASSUME IInv, NEW n, MachineOK(scenario, n), Steady(store, n.store), Becomes(n),
         WalkOK(walk', n.base), request' = NoRequest, UNCHANGED <<scenario, arcIterators>>
  PROVE  Preserved
<1>1. Machine' = n BY BecomesMachine DEF MachineOK
<1>2. Shape(scenario, n.store) BY MachineStores
<1>3. IteratorsOK(n.store, arcIterators) BY <1>2, MachineNow, IteratorsSteady
<1>4. CacheInv(scenario', Machine', arcIterators', walk') BY <1>1, <1>3 DEF CacheInv
<1>5. RequestedStateStays' /\ Widening BY NoRequestKeeps
<1>6. IInv' BY <1>4, <1>5 DEF IInv
<1> QED BY <1>5, <1>6 DEF Preserved

LEMMA BeginWalkKeeps ==
  ASSUME IInv, BeginWalk
  PROVE  Preserved
<1> DEFINE n == Start(Machine)
<1>1. MachineOK(scenario, n) /\ Grows(Machine, n) /\ n.store = store
  BY MachineNow, StartKeeps
<1> HIDE DEF n
<1>2. /\ Becomes(n) /\ request' = NoRequest /\ UNCHANGED <<scenario, arcIterators>>
      /\ walk' = [at |-> 0, status |-> "unknown"]
  BY DEF BeginWalk, n
<1>3. Steady(store, n.store) BY <1>1 DEF Steady
<1>4. n.base.nknown \in Nat BY <1>1, MachineParts
<1>5. WalkOK(walk', n.base) BY <1>2, <1>4 DEF WalkOK
<1> QED BY <1>1, <1>2, <1>3, <1>5, WalkStepKeeps

LEMMA CallDoneKeeps ==
  ASSUME IInv, CallDone
  PROVE  Preserved
<1> DEFINE n == DoneLoop(Machine, walk.at)
<1>1. MachineOK(scenario, n) /\ Grows(Machine, n) /\ Steady(store, n.store)
  BY MachineNow, DoneLoopKeeps DEF Walks
<1> HIDE DEF n
<1>2. /\ Becomes(n) /\ request' = NoRequest /\ UNCHANGED <<scenario, arcIterators>>
      /\ walk' = [walk EXCEPT !.status = IF walk.at < base'.nknown THEN "at" ELSE "done"]
  BY DEF CallDone, n
<1>3. base' = n.base BY <1>2 DEF Becomes
<1>4. n.base.nknown \in Nat /\ base.nknown \in Nat /\ base.nknown <= n.base.nknown
  BY <1>1, MachineNow, MachineParts DEF Grows
<1>5. WalkOK(walk, base) BY MachineNow
<1>6. WalkOK(walk', n.base) BY <1>2, <1>3, <1>4, <1>5 DEF WalkOK
<1> QED BY <1>1, <1>2, <1>6, WalkStepKeeps

LEMMA CallNextKeeps ==
  ASSUME IInv, CallNext
  PROVE  Preserved
<1>1. /\ walk.status = "at" /\ walk' = [at |-> walk.at + 1, status |-> "unknown"]
      /\ request' = NoRequest /\ UNCHANGED <<scenario, table, store, base, arcIterators>>
  BY DEF CallNext
<1>2. MachineOK(scenario, Machine) /\ Machine.store = store /\ Machine.base = base
      /\ WalkOK(walk, base)
  BY MachineNow
<1>3. base.nknown \in Nat BY <1>2, MachineParts
<1>4. WalkOK(walk', base) BY <1>1, <1>2, <1>3 DEF WalkOK
<1>5. Becomes(Machine) BY <1>1 DEF Becomes, Machine
<1>6. Steady(store, store) BY DEF Steady
<1> DEFINE n == Machine
<1>7. MachineOK(scenario, n) /\ n.store = store /\ n.base = base /\ Becomes(n) BY <1>2, <1>5
<1> HIDE DEF n
<1> QED BY <1>1, <1>4, <1>6, <1>7, WalkStepKeeps

-----------------------------------------------------------------------------
(* The copy of a machine.                                                  *)

Listing == INSTANCE NumberTheorems WITH Step <- Listed

\* The copied states are listed in the order of their slots, each once.
LEMMA ListedSlots ==
  ASSUME NEW n \in Nat, NEW D \in SUBSET (0..n-1)
  PROVE  LET l == FoldLeft(Listed, <<>>,
                           [k \in 1..n |-> [index |-> k - 1, stored |-> k - 1 \in D]])
         IN  l \in Seq(Nat) /\ Distinct(l) /\ ToSet(l) = D
<1> DEFINE L == [k \in 1..n |-> [index |-> k - 1, stored |-> k - 1 \in D]]
           l == FoldLeft(Listed, <<>>, L)
<1>1. Len(L) = n /\ DOMAIN L = 1..n OBVIOUS
<1>2. \A k \in 1..n : L[k].index = k - 1 /\ (L[k].stored <=> k - 1 \in D) OBVIOUS
<1> HIDE DEF L, l
<1>3. PICK g : Listing!IsChain(g, <<>>, L) /\ Listing!Folded(<<>>, L) = g[n]
  <2>1. Len(L) \in Nat /\ DOMAIN L = 1..Len(L) BY <1>1
  <2>2. \E g : Listing!IsChain(g, <<>>, L) /\ Listing!Folded(<<>>, L) = g[Len(L)]
    BY <2>1, Listing!FoldIsChain, Zenon
  <2> QED BY <1>1, <2>2
<1>4. g[0] = <<>> /\ \A k \in 1..n : g[k] = Listed(g[k-1], L[k])
  BY <1>1, <1>3 DEF Listing!IsChain
<1>5. l = g[n]
  <2>1. l = Listing!Folded(<<>>, L)
    BY DEF l, Listing!Folded, FoldLeft, MapThenFoldSet, Listing!FoldLeft,
           Listing!MapThenFoldSet, Max, Listing!Max
  <2> QED BY <1>3, <2>1
<1>d. \A i \in D : i \in Nat /\ i < n OBVIOUS
<1> DEFINE Passed(k) == g[k] \in Seq(Nat) /\ Distinct(g[k]) /\ ToSet(g[k]) = {i \in D : i < k}
           K == {k \in Nat : k <= n => Passed(k)}
<1>6. 0 \in K
  <2>1. <<>> \in Seq(Nat) /\ Distinct(<<>>) /\ ToSet(<<>>) = {} BY DEF Distinct, ToSet
  <2>2. {i \in D : i < 0} = {}
    <3>1. ASSUME NEW i \in D PROVE ~(i < 0)
      <4>1. i \in Nat BY <1>d
      <4> QED BY <4>1
    <3> QED BY <3>1
  <2> QED BY <1>4, <2>1, <2>2
<1>7. ASSUME NEW k \in Nat, k \in K PROVE k + 1 \in K
  <2> SUFFICES ASSUME k + 1 <= n PROVE Passed(k + 1) BY <1>7
  <2> DEFINE a == g[k]
             b == g[k+1]
  <2>1. k + 1 \in 1..n /\ k <= n /\ (k + 1) - 1 = k BY <1>7
  <2>2. a \in Seq(Nat) /\ Distinct(a) /\ ToSet(a) = {i \in D : i < k} BY <1>7, <2>1
  <2>3. b = Listed(a, L[k+1]) BY <1>4, <2>1
  <2> HIDE DEF a, b
  <2>4. b = IF k \in D THEN Append(a, k) ELSE a BY <1>2, <2>1, <2>3 DEF Listed
  <2>5. CASE k \in D
    <3>1. k \notin ToSet(a) BY <2>2
    <3>2. b \in Seq(Nat) /\ ToSet(b) = ToSet(a) \cup {k} /\ Distinct(b)
      BY <2>2, <2>4, <2>5, <3>1, AppendedToList
    <3>3. {i \in D : i < k + 1} = {i \in D : i < k} \cup {k}
      <4>1. ASSUME NEW i \in D PROVE i < k + 1 <=> i < k \/ i = k
        <5>1. i \in Nat BY <1>d
        <5> QED BY <5>1
      <4> QED BY <2>5, <4>1
    <3> QED BY <2>2, <3>2, <3>3 DEF b
  <2>6. CASE k \notin D
    <3>1. {i \in D : i < k} = {i \in D : i < k + 1}
      <4>1. ASSUME NEW i \in D PROVE i < k + 1 <=> i < k
        <5>1. i \in Nat /\ i # k BY <1>d, <2>6
        <5> QED BY <5>1
      <4> QED BY <4>1
    <3> QED BY <2>2, <2>4, <2>6, <3>1 DEF b
  <2> QED BY <2>5, <2>6
<1>8. Passed(n)
  <2> HIDE DEF Passed
  <2>1. n \in K
    <3> HIDE DEF K
    <3> QED BY <1>6, <1>7, SetInduction
  <2> QED BY <2>1
<1>9. {i \in D : i < n} = D BY <1>d
<1> QED BY <1>5, <1>8, <1>9 DEF l, L

LEMMA CopiedKeeps ==
  ASSUME NEW c, StoreOK(scenario, c), NEW tab, Len(tab) \in Nat, Content(scenario, c, tab),
         \A i \in DOMAIN c.slots : c.slots[i].refs = 0,
         NEW d, d = Copied(c, Len(tab) + 1)
  PROVE  StoreOK(scenario, d) /\ Content(scenario, d, tab) /\ d.slots = c.slots
<1> DEFINE n == Len(tab) + 1
           f == [i \in DOMAIN c.slots |-> [c.slots[i] EXCEPT !.refs = 0]]
           l == IF scenario.options.gc
                  THEN FoldLeft(Listed, <<>>, [k \in 1..n |->
                         [index |-> k - 1, stored |-> k - 1 \in DOMAIN c.slots]])
                  ELSE c.list
<1>1. /\ Shape(scenario, c) /\ c \in Stores(scenario) /\ c.slots \in SlotMaps(scenario)
      /\ DOMAIN c.slots \in SUBSET Nat
  BY SlotsOfStore DEF StoreOK, Shape, Stores
<1>2. d = [c EXCEPT !.slots = f, !.list = l] BY DEF Copied, KeepsList, options
<1>3. f = c.slots
  <2>1. c.slots = [i \in DOMAIN c.slots |-> c.slots[i]] BY <1>1, MapsOfSlots
  <2>2. ASSUME NEW i \in DOMAIN c.slots PROVE [c.slots[i] EXCEPT !.refs = 0] = c.slots[i]
    <3> DEFINE st == c.slots[i]
    <3>1. st \in CachedStates(scenario) /\ st.refs = 0 BY <1>1, SlotsOfStore
    <3> HIDE DEF st
    <3>2. [st EXCEPT !.refs = 0] = st BY <3>1 DEF CachedStates
    <3> QED BY <3>2 DEF st
  <2> QED BY <2>1, <2>2
<1>4. DOMAIN c.slots \in SUBSET (0..n-1)
  <2> SUFFICES ASSUME NEW i \in DOMAIN c.slots PROVE i \in 0..n-1 OBVIOUS
  <2>1. i \in Nat BY <1>1
  <2>2. Owner(c, i) \in 0..Len(tab)-1 BY DEF Content, Means, Ids
  <2> QED BY <2>1, <2>2 DEF Owner
<1>5. /\ l \in Seq(Nat)
      /\ scenario.options.gc => Distinct(l) /\ ToSet(l) = DOMAIN c.slots
      /\ ~scenario.options.gc => l = <<>>
  <2>1. CASE scenario.options.gc
    <3> DEFINE D == DOMAIN c.slots
               k == FoldLeft(Listed, <<>>,
                             [h \in 1..n |-> [index |-> h - 1, stored |-> h - 1 \in D]])
    <3>1. l = k BY <2>1
    <3>2. n \in Nat /\ D \in SUBSET (0..n-1) BY <1>4
    <3> HIDE DEF n, D, l
    <3>3. k \in Seq(Nat) /\ Distinct(k) /\ ToSet(k) = D BY <3>2, ListedSlots
    <3> HIDE DEF k
    <3> QED BY <2>1, <3>1, <3>3 DEF D
  <2>2. CASE ~scenario.options.gc
    <3>1. c.list \in Seq(Nat) /\ c.list = <<>> BY <1>1, <2>2 DEF Shape, Stores
    <3>2. l = c.list BY <2>2
    <3> HIDE DEF l
    <3> QED BY <2>2, <3>1, <3>2
  <2> QED BY <2>1, <2>2
<1> HIDE DEF f, l
<1>6. /\ d.slots = c.slots /\ d.list = l /\ d.firstId = c.firstId /\ d.firstGc = c.firstGc
      /\ d.gc = c.gc /\ d.size = c.size /\ d.limit = c.limit /\ d \in Stores(scenario)
  BY <1>1, <1>2, <1>3, <1>5 DEF Stores
<1>7. Shape(scenario, d) BY <1>1, <1>5, <1>6 DEF Shape
<1>8. Counting(d) = Counting(c) BY <1>6 DEF Counting
<1>9. SizeOf(d, Counting(d)) = SizeOf(c, Counting(c))
  <2>1. \A i \in Counting(c) : d.slots[i].arcs = c.slots[i].arcs BY <1>6
  <2> QED BY <1>8, <2>1, SizeOfSame
<1>10. StoreOK(scenario, d)
  BY <1>6, <1>7, <1>9 DEF StoreOK, Exact, Settled, Sized, Whole
<1>11. Content(scenario, d, tab)
  <2> SUFFICES ASSUME NEW i \in DOMAIN d.slots PROVE Means(scenario, d, tab, i)
    BY DEF Content
  <2>1. Means(scenario, c, tab, i) BY <1>6 DEF Content
  <2>2. d.slots[i] = c.slots[i] /\ Owner(d, i) = Owner(c, i) BY <1>6 DEF Owner
  <2> QED BY <2>1, <2>2 DEF Means
<1> QED BY <1>6, <1>10, <1>11

LEMMA CopyKeeps ==
  ASSUME IInv, NEW preserve \in BOOLEAN, Copy(preserve)
  PROVE  Preserved
<1>1. /\ \A i \in Iterators : arcIterators[i] = None
      /\ walk' = NoWalk /\ request' = NoRequest /\ UNCHANGED <<scenario, arcIterators>>
  BY DEF Copy
<1>2. /\ MachineOK(scenario, Machine) /\ IteratorsOK(store, arcIterators)
      /\ StoreOK(scenario, store) /\ Content(scenario, store, table) /\ Shape(scenario, store)
      /\ Machine.table = table /\ Machine.store = store /\ Machine.base = base
  BY MachineNow
<1> DEFINE n == Machine'
<1>3. n = [table |-> table', store |-> store', base |-> base'] BY DEF Machine
<1>4. n.table = table' /\ n.store = store' /\ n.base = base' BY DEF Machine
<1>5. \A k \in DOMAIN store.slots : store.slots[k].refs = 0
  <2> SUFFICES ASSUME NEW k \in DOMAIN store.slots PROVE store.slots[k].refs = 0 OBVIOUS
  <2>1. k \in Nat /\ None.slot = -1 BY <1>2, SlotsOfStore DEF Shape, None, kNoStateId
  <2>2. Holders(arcIterators, k) = {} BY <1>1, <2>1 DEF Holders
  <2>3. store.slots[k].refs = Cardinality(Holders(arcIterators, k)) BY <1>2 DEF IteratorsOK
  <2> QED BY <2>2, <2>3, FS_EmptySet
<1>6. MachineOK(scenario, n) /\ Steady(store, n.store)
  <2>1. CASE preserve
    <3>1. store' = Copied(store, Len(table) + 1) /\ UNCHANGED <<table, base>>
      BY <2>1 DEF Copy
    <3>2. Len(table) \in Nat BY <1>2, MachineParts
    <3>3. /\ StoreOK(scenario, store') /\ Content(scenario, store', table)
          /\ store'.slots = store.slots
      BY <1>2, <1>5, <3>1, <3>2, CopiedKeeps
    <3>4. MachineOK(scenario, n)
      <4>1. n.table = table /\ n.base = base BY <1>4, <3>1
      <4>2. n = [table |-> n.table, store |-> n.store, base |-> n.base] BY <1>3, <1>4
      <4> HIDE DEF n
      <4> QED BY <1>2, <1>4, <3>3, <4>1, <4>2 DEF MachineOK
    <3>5. Steady(store, store') BY <1>5, <3>3 DEF Steady
    <3> QED BY <1>4, <3>4, <3>5
  <2>2. CASE ~preserve
    <3>1. table' = <<>> /\ store' = NewStore(scenario.options) /\ base' = NewBase
      BY <2>2 DEF Copy, options
    <3>2. n = [table |-> <<>>, store |-> NewStore(scenario.options), base |-> NewBase]
      BY <1>3, <3>1
    <3>3. scenario \in Scenarios BY <1>2 DEF MachineOK
    <3> HIDE DEF n
    <3>4. MachineOK(scenario, n) /\ n.store.slots = <<>> BY <3>2, <3>3, NewMachine
    <3>5. DOMAIN n.store.slots = {} BY <3>4
    <3>6. Steady(store, n.store) BY <1>5, <3>5 DEF Steady
    <3> QED BY <3>4, <3>6
  <2> QED BY <2>1, <2>2
<1> HIDE DEF n
<1>7. Becomes(n) BY <1>4 DEF Becomes
<1>8. WalkOK(walk', n.base)
  <2>1. n.base.nknown \in Nat BY <1>6, MachineParts
  <2> QED BY <1>1, <2>1 DEF WalkOK, NoWalk
<1> QED BY <1>1, <1>6, <1>7, <1>8, WalkStepKeeps

-----------------------------------------------------------------------------
(* The properties.                                                         *)

LEMMA NextKeeps ==
  ASSUME IInv, Next
  PROVE  Preserved
  BY CallStartKeeps, CallFinalKeeps, CallNumArcsKeeps, OpenArcIteratorKeeps,
     CloseArcIteratorKeeps, BeginWalkKeeps, CallDoneKeeps, CallNextKeeps, CopyKeeps, Zenon DEF Next

LEMMA StutterKeeps ==
  ASSUME IInv, UNCHANGED vars
  PROVE  IInv'
<1>1. UNCHANGED <<scenario, table, store, base, arcIterators, walk, request>> BY DEF vars
<1> QED BY <1>1 DEF IInv, Machine, RequestedStateStays

LEMMA TypesHold ==
  ASSUME IInv
  PROVE  TypeOK
<1>1. /\ MachineOK(scenario, Machine) /\ Machine.table = table /\ Machine.store = store
      /\ Machine.base = base /\ Shape(scenario, store) /\ Content(scenario, store, table)
      /\ IteratorsOK(store, arcIterators) /\ WalkOK(walk, base)
  BY MachineNow
<1>2. /\ scenario \in Scenarios /\ TableOK(scenario, table) /\ BaseOK(base, Len(table))
      /\ Len(table) \in Nat /\ KnownIds = Ids(table)
  BY <1>1, MachineParts DEF MachineOK, KnownIds, Ids
<1>3. table \in Seq(Nodes) /\ IsInjective(table)
  BY <1>2 DEF TableOK, Distinct, IsInjective, Nodes, fst
<1>4. ASSUME NEW i \in DOMAIN store.slots
      PROVE  /\ i \in 0..Len(table)
             /\ store.slots[i].flags \subseteq Flag /\ store.slots[i].refs \in Nat
             /\ ToSet(store.slots[i].arcs) \subseteq KnownIds
             /\ Owner(store, i) \in Ids(table)
  <2>1. /\ i \in Nat /\ store.slots[i].flags \subseteq Flag /\ store.slots[i].refs \in Nat
    BY <1>1, SlotsOfStore DEF Shape
  <2>2. /\ Owner(store, i) \in Ids(table)
        /\ \A k \in DOMAIN store.slots[i].arcs : store.slots[i].arcs[k] \in Ids(table)
    BY <1>1 DEF Content, Means
  <2>3. ToSet(store.slots[i].arcs) \subseteq KnownIds BY <1>2, <2>2 DEF ToSet
  <2>4. i \in 0..Len(table) BY <1>2, <2>1, <2>2 DEF Owner, Ids
  <2> QED BY <2>1, <2>2, <2>3, <2>4
<1>5. ToSet(store.list) = IF options.gc THEN DOMAIN store.slots ELSE {}
  <2>1. CASE options.gc BY <1>1, <2>1 DEF Shape, options
  <2>2. CASE ~options.gc
    <3>1. store.list = <<>> BY <1>1, <2>2 DEF Shape, options
    <3>2. ToSet(<<>>) = {} BY DEF ToSet
    <3> QED BY <2>2, <3>1, <3>2
  <2> QED BY <2>1, <2>2
<1>6. store.firstId \in KnownIds \cup {kNoStateId} /\ store.size \in Nat
  <2>1. CASE store.firstId # kNoStateId
    <3>1. 0 \in DOMAIN store.slots BY <1>1, <2>1 DEF Shape
    <3>2. Owner(store, 0) \in Ids(table) BY <1>4, <3>1
    <3> QED BY <1>1, <1>2, <3>2 DEF Owner, Shape, Stores
  <2>2. CASE store.firstId = kNoStateId BY <1>1, <2>2 DEF Shape, Stores
  <2> QED BY <2>1, <2>2
<1>7. /\ base.nknown \in 0..Len(table) /\ base.minUnexpanded \in 0..Len(table)
      /\ base.maxExpanded \in -1..Len(table)-1 /\ base.expanded \subseteq KnownIds
  BY <1>2 DEF BaseOK, KnownIds
<1>8. arcIterators \in [Iterators -> [id : KnownIds \cup {kNoStateId}, slot : -1..Len(table)]]
  <2>1. ASSUME NEW j \in Iterators
        PROVE  arcIterators[j] \in [id : KnownIds \cup {kNoStateId}, slot : -1..Len(table)]
    <3>1. arcIterators[j] \in [id : Nat \cup {kNoStateId}, slot : Nat \cup {kNoStateId}]
      BY <1>1 DEF IteratorsOK
    <3>2. CASE arcIterators[j] = None
      <4>1. -1 \in -1..Len(table) BY <1>2
      <4> QED BY <3>2, <4>1 DEF None, kNoStateId
    <3>3. CASE arcIterators[j] # None
      <4>1. /\ arcIterators[j].slot \in DOMAIN store.slots
            /\ Owner(store, arcIterators[j].slot) = arcIterators[j].id
        BY <1>1, <3>3 DEF IteratorsOK
      <4>2. arcIterators[j].slot \in 0..Len(table) /\ arcIterators[j].id \in KnownIds
        BY <1>2, <1>4, <4>1
      <4>3. arcIterators[j].slot \in -1..Len(table) BY <1>2, <4>2
      <4> QED BY <3>1, <4>2, <4>3
    <3> QED BY <3>2, <3>3
  <2>2. arcIterators = [j \in Iterators |-> arcIterators[j]] BY <1>1 DEF IteratorsOK
  <2> QED BY <2>1, <2>2
<1>9. walk.at \in 0..Len(table) BY <1>1, <1>2 DEF WalkOK, BaseOK
<1> QED BY <1>2, <1>3, <1>4, <1>5, <1>6, <1>7, <1>8, <1>9 DEF TypeOK

LEMMA ContentHolds ==
  ASSUME IInv
  PROVE  CachedMeansComputed
<1> SUFFICES ASSUME NEW s \in KnownIds
    PROVE  LET node == table[s + 1] IN
           /\ Has(store, "Final", s) => StateOf(store, s).final = fst.final[node]
           /\ Has(store, "Arcs", s) =>
                LET arcs == StateOf(store, s).arcs
                IN  fst.next[node] = [i \in DOMAIN arcs |-> table[arcs[i] + 1]]
  BY DEF CachedMeansComputed
<1>1. StoreOK(scenario, store) /\ Content(scenario, store, table) /\ s \in Nat
  BY MachineNow, MachineParts
<1> DEFINE st == StateOf(store, s)
<1>2. ASSUME Stored(store, s)
      PROVE  /\ "Final" \in st.flags => st.final = scenario.fst.final[table[s + 1]]
             /\ "Arcs" \in st.flags => scenario.fst.next[table[s + 1]] =
                                         [k \in DOMAIN st.arcs |-> table[st.arcs[k] + 1]]
  BY <1>1, <1>2, StateStored
<1> HIDE DEF st
<1>3. Has(store, "Final", s) => st.final = fst.final[table[s + 1]]
  BY <1>2 DEF Has, st, fst
<1>4. Has(store, "Arcs", s) =>
        fst.next[table[s + 1]] = [i \in DOMAIN st.arcs |-> table[st.arcs[i] + 1]]
  BY <1>2 DEF Has, st, fst
<1> QED BY <1>3, <1>4 DEF st

LEMMA IteratorsHold ==
  ASSUME IInv
  PROVE  StatesInUseStay
<1> SUFFICES ASSUME NEW i \in Iterators, arcIterators[i] # None
    PROVE  LET at == arcIterators[i] IN
           /\ Stored(store, at.id) /\ Slot(store, at.id) = at.slot /\ Has(store, "Arcs", at.id)
           /\ StateOf(store, at.id).refs = Cardinality({j \in Iterators : arcIterators[j] = at})
  BY DEF StatesInUseStay
<1> DEFINE at == arcIterators[i]
           k == at.slot
<1>1. Shape(scenario, store) /\ IteratorsOK(store, arcIterators) BY MachineNow
<1>2. /\ k \in DOMAIN store.slots /\ Owner(store, k) = at.id /\ "Arcs" \in store.slots[k].flags
      /\ k \in Nat
  BY <1>1, SlotsOfStore DEF IteratorsOK, Shape
<1>3. at.id \in Nat
  <2>1. store.firstId \in Nat \cup {-1} BY <1>1 DEF Shape, Stores, kNoStateId
  <2>2. k = 0 => store.firstId # -1 BY <1>1, <1>2 DEF Shape, kNoStateId
  <2> HIDE DEF k
  <2> QED BY <1>2, <2>1, <2>2 DEF Owner
<1>4. Slot(store, at.id) = k BY <1>1, <1>2, <1>3, OwnerOfSlot
<1>5. Stored(store, at.id) /\ Has(store, "Arcs", at.id) /\ StateOf(store, at.id) = store.slots[k]
  BY <1>2, <1>4 DEF Stored, Has, StateOf
<1>6. {j \in Iterators : arcIterators[j] = at} = Holders(arcIterators, k)
  <2>1. ASSUME NEW j \in Iterators, arcIterators[j].slot = k PROVE arcIterators[j] = at
    <3>1. arcIterators[j] # None BY <1>1, <1>2, <2>1, HeldSlots
    <3>2. arcIterators[j].id = at.id BY <1>1, <1>2, <2>1, <3>1 DEF IteratorsOK
    <3>3. /\ arcIterators[j] \in [id : Nat \cup {kNoStateId}, slot : Nat \cup {kNoStateId}]
          /\ at \in [id : Nat \cup {kNoStateId}, slot : Nat \cup {kNoStateId}]
      BY <1>1 DEF IteratorsOK
    <3> QED BY <2>1, <3>2, <3>3
  <2> QED BY <2>1 DEF Holders
<1>7. store.slots[k].refs = Cardinality(Holders(arcIterators, k))
  BY <1>1, <1>2 DEF IteratorsOK
<1> QED BY <1>4, <1>5, <1>6, <1>7

LEMMA Sound ==
  IInv => CacheIsSound
<1> SUFFICES ASSUME IInv PROVE CacheIsSound OBVIOUS
<1>1. StoreOK(scenario, store) BY MachineNow
<1>2. SizeIsExact /\ LimitIsKept BY <1>1 DEF StoreOK, Exact, Sized, SizeIsExact, LimitIsKept
<1>3. RequestedStateStays BY DEF IInv
<1> QED BY <1>2, <1>3, TypesHold, ContentHolds, IteratorsHold DEF CacheIsSound

\* Whatever is cached, collected, used again or copied, a cached state is what would
\* be computed, it stays while an iterator points to it and until its request was
\* read, and the size the limit is compared with is the true one.
THEOREM Caching == Spec => []CacheIsSound
<1>1. IInv /\ [Next]_vars => IInv'
  BY NextKeeps, StutterKeeps DEF Preserved
<1> QED BY <1>1, Initially, Sound, PTL DEF Spec

\* Garbage collection raises its limit only when all states but the one requested
\* are in use.
THEOREM Limits == Spec => WidensOnlyWhenInUse
<1>1. IInv /\ [Next]_vars => IInv'
  BY NextKeeps, StutterKeeps DEF Preserved
<1>2. IInv /\ [Next]_vars =>
        [store'.limit > store.limit /\ request' # NoRequest =>
           \A i \in DOMAIN store'.slots :
             i # Slot(store', request'[2]) => store'.slots[i].refs > 0]_vars
  BY NextKeeps DEF Preserved, Widening
<1> QED BY <1>1, <1>2, Initially, PTL DEF Spec, WidensOnlyWhenInUse

=============================================================================
