------------------------ MODULE FstSymbolTableProofs ------------------------
(***************************************************************************)
(* Proofs about symbol tables (FstSymbolTable), for every set of threads   *)
(* and symbols, every hash function, bound and scenario: the open-         *)
(* addressing hash table, the dense range and the two containers outside   *)
(* it always describe one one-to-one mapping, and a handle behaves as the  *)
(* list of FstSymbolMap however implementations are shared and copied.     *)
(*                                                                         *)
(* The proof goes from the bottom up.  Holds says of a hash table that     *)
(* each symbol's index is reached from the symbol's own bucket on without  *)
(* passing an empty one; HashOK adds that enough buckets are empty;        *)
(* TableOK that the containers are inverse to each other and the next key  *)
(* is above all; TableInv that all implementations are so and that a       *)
(* change a thread is about to make of its copy still fits.  Written(t),   *)
(* the list of pairs, is what a reader of the lemmas should follow.        *)
(* CheckInv adds what holds of the threads that compute and read           *)
(* checksums; that MergeSymbolTable merges needs no more than TableOK.     *)
(***************************************************************************)
EXTENDS FstSymbolTable, NumberTheorems, FiniteSetTheorems

-----------------------------------------------------------------------------
(* Hash table: buckets and the way a search takes through them.           *)

\* Rehash is a fold of PutIndex, AddAll one of AddEntry, AddTable one of AddNext.
Rehashing == INSTANCE NumberTheorems WITH Step <- PutIndex

\* The bucket where the search for a symbol with hash h looks after i others.
At(h, i, n) == (h + i) % n

\* A search stays among the buckets.
LEMMA AtBucket ==
  ASSUME NEW n \in Nat \ {0}, NEW h \in Nat, NEW i \in Nat
  PROVE  At(h, i, n) \in 0..n-1
<1>1. h + i \in Int OBVIOUS
<1> QED BY <1>1, DivMod DEF At

\* A search that does not stop looks at every bucket.
LEMMA AllBucketsAreVisited ==
  ASSUME NEW n \in Nat \ {0}, NEW h \in Nat, NEW x \in 0..n-1
  PROVE  \E i \in 0..n-1 : At(h, i, n) = x
<1> DEFINE i == (x - h) % n
<1>1. x - h \in Int /\ h \in Int OBVIOUS
<1>2. i \in 0..n-1 BY <1>1, DivMod
<1>3. (i + h) % n = ((x - h) + h) % n BY <1>1, ModSum
<1> HIDE DEF i
<1>4. ((x - h) + h) % n = x
  <2>1. (n * 0 + x) % n = x BY ModUnique
  <2>2. n * 0 + x = (x - h) + h OBVIOUS
  <2> QED BY <2>1, <2>2
<1>5. i + h = h + i BY <1>2
<1> QED BY <1>2, <1>3, <1>4, <1>5 DEF At

\* A symbol with hash h is found at a bucket that holds v: none before it is empty.
Reaches(buckets, h, n, v) ==
  \E i \in 0..n-1 : /\ buckets[At(h, i, n)] = v
                    /\ \A j \in 0..i-1 : buckets[At(h, j, n)] # empty_

\* The first k symbols are in n buckets and found there.
Holds(buckets, symbols, n, k) ==
  /\ buckets \in [0..n-1 -> Int]
  /\ \A x \in 0..n-1 : buckets[x] = empty_ \/ buckets[x] \in 0..k-1
  /\ \A i \in 1..k : Reaches(buckets, Hash[symbols[i]], n, i - 1)
  /\ Cardinality({x \in 0..n-1 : buckets[x] # empty_}) <= k

\* The buckets are counted by their array.
LEMMA CountBuckets ==
  ASSUME NEW n \in Nat, NEW buckets, DOMAIN buckets = 0..n-1
  PROVE  Cardinality(DOMAIN buckets) = n
<1>1. 0 \in Int /\ n - 1 \in Int OBVIOUS
<1>2. Cardinality(0..n-1) = IF 0 > n - 1 THEN 0 ELSE (n - 1) - 0 + 1 BY <1>1, FS_Interval
<1> QED BY <1>2

\* A table with fewer symbols than buckets has an empty bucket.
LEMMA SomeBucketIsEmpty ==
  ASSUME NEW n \in Nat, NEW k \in Nat, k < n, NEW buckets,
         Cardinality({x \in 0..n-1 : buckets[x] # empty_}) <= k
  PROVE  \E x \in 0..n-1 : buckets[x] = empty_
<1> SUFFICES ASSUME \A x \in 0..n-1 : buckets[x] # empty_ PROVE FALSE OBVIOUS
<1> DEFINE taken == {x \in 0..n-1 : buckets[x] # empty_}
<1>1. taken = 0..n-1 OBVIOUS
<1>0. Cardinality(taken) <= k OBVIOUS
<1> HIDE DEF taken
<1>2. 0 \in Int /\ n - 1 \in Int OBVIOUS
<1>3. Cardinality(0..n-1) = IF 0 > n - 1 THEN 0 ELSE (n - 1) - 0 + 1 BY <1>2, FS_Interval
<1> QED BY <1>0, <1>1, <1>3

\* Putting an index into the first empty bucket on the way of its symbol.
LEMMA PutHolds ==
  ASSUME NEW n \in Nat \ {0}, NEW k \in Nat, NEW symbols, NEW buckets,
         Holds(buckets, symbols, n, k),
         \A i \in 1..k+1 : Hash[symbols[i]] \in Nat,
         NEW i \in 0..n-1,
         buckets[At(Hash[symbols[k+1]], i, n)] = empty_,
         \A j \in 0..i-1 : buckets[At(Hash[symbols[k+1]], j, n)] # empty_
  PROVE  Holds([buckets EXCEPT ![At(Hash[symbols[k+1]], i, n)] = k], symbols, n, k + 1)
<1> DEFINE h == Hash[symbols[k+1]]
           f == At(h, i, n)
           new == [buckets EXCEPT ![f] = k]
           taken == {x \in 0..n-1 : buckets[x] # empty_}
<1>h. h \in Nat OBVIOUS
<1> HIDE DEF h
<1>1. f \in 0..n-1
  <2>1. i \in Nat OBVIOUS
  <2> QED BY <1>h, <2>1, AtBucket, Zenon
<1>2. buckets[f] = empty_ /\ \A j \in 0..i-1 : buckets[At(h, j, n)] # empty_ BY DEF h
<1> HIDE DEF f
<1>3. buckets \in [0..n-1 -> Int] BY DEF Holds
<1>4. new \in [0..n-1 -> Int] /\ new[f] = k /\ \A x \in 0..n-1 : x # f => new[x] = buckets[x]
  BY <1>1, <1>3
<1>5. \A x \in 0..n-1 : new[x] = empty_ \/ new[x] \in 0..k+1-1
  <2>1. \A x \in 0..n-1 : buckets[x] = empty_ \/ buckets[x] \in 0..k-1 BY DEF Holds
  <2> HIDE DEF new
  <2>2. ASSUME NEW x \in 0..n-1 PROVE new[x] = empty_ \/ new[x] \in 0..k
    <3>1. CASE x = f BY <1>4, <3>1
    <3>2. CASE x # f
      <4>1. new[x] = buckets[x] BY <1>4, <3>2, Zenon
      <4>2. buckets[x] = empty_ \/ buckets[x] \in 0..k-1 BY <2>1, Zenon
      <4> QED BY <4>1, <4>2
    <3> QED BY <3>1, <3>2, Zenon
  <2>3. k + 1 - 1 = k OBVIOUS
  <2> QED BY <2>2, <2>3
<1> HIDE DEF new
<1>6. \A x \in 0..n-1 : buckets[x] # empty_ => new[x] # empty_ /\ new[x] = buckets[x]
  BY <1>2, <1>4
<1>7. ASSUME NEW g \in Nat, NEW v \in Int, v # empty_, Reaches(buckets, g, n, v) PROVE Reaches(new, g, n, v)
  <2>1. PICK p \in 0..n-1 : /\ buckets[At(g, p, n)] = v
                            /\ \A j \in 0..p-1 : buckets[At(g, j, n)] # empty_
    BY <1>7 DEF Reaches
  <2>2. \A j \in 0..n-1 : At(g, j, n) \in 0..n-1
    <3> SUFFICES ASSUME NEW j \in 0..n-1 PROVE At(g, j, n) \in 0..n-1 OBVIOUS
    <3>1. j \in Nat OBVIOUS
    <3> QED BY <3>1, AtBucket
  <2>3. new[At(g, p, n)] = v BY <1>6, <1>7, <2>1, <2>2
  <2>4. \A j \in 0..p-1 : new[At(g, j, n)] # empty_
    <3> SUFFICES ASSUME NEW j \in 0..p-1 PROVE new[At(g, j, n)] # empty_ OBVIOUS
    <3>1. j \in 0..n-1 OBVIOUS
    <3> QED BY <1>6, <2>1, <2>2, <3>1
  <2> QED BY <2>3, <2>4 DEF Reaches
<1>8. \A q \in 1..k+1 : Reaches(new, Hash[symbols[q]], n, q - 1)
  <2>1. ASSUME NEW q \in 1..k PROVE Reaches(new, Hash[symbols[q]], n, q - 1)
    <3>1. Hash[symbols[q]] \in Nat /\ q - 1 \in Int /\ q - 1 # empty_ BY DEF empty_
    <3>2. Reaches(buckets, Hash[symbols[q]], n, q - 1) BY DEF Holds
    <3> QED BY <1>7, <3>1, <3>2
  <2>2. Reaches(new, h, n, k)
    <3>1. \A j \in 0..i-1 : new[At(h, j, n)] # empty_
      <4> SUFFICES ASSUME NEW j \in 0..i-1 PROVE new[At(h, j, n)] # empty_ OBVIOUS
      <4>0. j \in Nat OBVIOUS
      <4>1. At(h, j, n) \in 0..n-1 BY <1>h, <4>0, AtBucket
      <4> QED BY <1>2, <1>6, <4>1
    <3> QED BY <1>4, <3>1 DEF Reaches, f
  <2> QED BY <2>1, <2>2 DEF h
<1>9. Cardinality({x \in 0..n-1 : new[x] # empty_}) <= k + 1
  <2>1. {x \in 0..n-1 : new[x] # empty_} = taken \cup {f}
    <3>1. new[f] # empty_ BY <1>4 DEF empty_
    <3> QED BY <1>1, <1>4, <3>1
  <2>2. IsFiniteSet(0..n-1)
    <3>1. 0 \in Int /\ n - 1 \in Int OBVIOUS
    <3> QED BY <3>1, FS_Interval
  <2>3. IsFiniteSet(taken) BY <2>2, FS_Subset
  <2>4. Cardinality(taken) <= k /\ Cardinality(taken) \in Nat
    BY <2>3, FS_CardinalityType DEF Holds
  <2>5. f \notin taken BY <1>2
  <2>6. Cardinality(taken \cup {f}) = Cardinality(taken) + 1 BY <2>3, <2>5, FS_AddElement
  <2> QED BY <2>1, <2>4, <2>6
<1>10. Holds(new, symbols, n, k + 1) BY <1>4, <1>5, <1>8, <1>9 DEF Holds
<1> QED BY <1>10 DEF new, f, h

-----------------------------------------------------------------------------
(* Rehash.                                                                 *)

\* The first i for which a predicate, given as a set, holds.
LEMMA FirstOfAll ==
  ASSUME NEW n \in Nat, NEW P, \E i \in 0..n-1 : i \in P
  PROVE  \E i \in 0..n-1 : i \in P /\ \A j \in 0..i-1 : j \notin P
<1> DEFINE S == {i \in 0..n-1 : i \in P}
<1>1. S \in SUBSET Nat /\ S # {} OBVIOUS
<1>2. PICK i \in S : \A j \in S : i <= j BY <1>1, SmallestExists
<1>3. ASSUME NEW j \in 0..i-1 PROVE j \notin P
  <2>1. j \in 0..n-1 /\ ~(i <= j) BY <1>2
  <2> QED BY <1>2, <2>1
<1> QED BY <1>2, <1>3

\* FreeBucket is the first empty bucket from the symbol's own one on.
LEMMA FreeBucketIsFirst ==
  ASSUME NEW n \in Nat \ {0}, NEW buckets \in [0..n-1 -> Int], NEW s, Hash[s] \in Nat,
         \E x \in 0..n-1 : buckets[x] = empty_
  PROVE  \E i \in 0..n-1 : /\ FreeBucket(buckets, s) = At(Hash[s], i, n)
                           /\ buckets[At(Hash[s], i, n)] = empty_
                           /\ \A j \in 0..i-1 : buckets[At(Hash[s], j, n)] # empty_
<1> DEFINE c == Cardinality(DOMAIN buckets)
           h == Hash[s]
           First(i) == /\ buckets[(h + i) % c] = empty_
                       /\ \A j \in 0..i-1 : ~(buckets[(h + j) % c] = empty_)
           i0 == CHOOSE i \in 0..c-1 : First(i)
<1>1. c = n BY CountBuckets
<1>2. FreeBucket(buckets, s) = (h + i0) % c BY DEF FreeBucket, Probe
<1> HIDE DEF c
<1>3. \E i \in 0..c-1 : First(i)
  <2> DEFINE P == {i \in 0..c-1 : buckets[(h + i) % c] = empty_}
  <2>1. PICK x \in 0..n-1 : buckets[x] = empty_ OBVIOUS
  <2>2. PICK i \in 0..n-1 : At(h, i, n) = x BY AllBucketsAreVisited
  <2>3. \E j \in 0..c-1 : j \in P BY <1>1, <2>1, <2>2 DEF At
  <2>c. c \in Nat BY <1>1
  <2>4. \E f \in 0..c-1 : f \in P /\ \A j \in 0..f-1 : j \notin P
    <3> HIDE DEF P
    <3> QED BY <2>3, <2>c, FirstOfAll, Zenon
  <2>5. PICK f \in 0..c-1 : f \in P /\ \A j \in 0..f-1 : j \notin P BY <2>4, Zenon
  <2>6. \A j \in 0..f-1 : j \in 0..c-1 BY <2>c
  <2> QED BY <2>5, <2>6
<1>4. i0 \in 0..c-1 /\ First(i0) BY <1>3
<1> HIDE DEF i0
<1> QED BY <1>1, <1>2, <1>4 DEF At

\* Rehash puts all symbols into enough buckets.
LEMMA RehashHolds ==
  ASSUME NEW n \in Nat \ {0}, NEW m, m = [symbols |-> m.symbols, buckets |-> m.buckets],
         m.symbols \in Seq(Symbols), Len(m.symbols) < n
  PROVE  LET r == Rehash(m, n)
         IN  /\ r = [symbols |-> m.symbols, buckets |-> r.buckets]
             /\ Holds(r.buckets, m.symbols, n, Len(m.symbols))
<1> DEFINE list == Indexed(m.symbols)
           b == Rehashing!Folded(NoBuckets(n), list)
           symbols == m.symbols
           size == Len(m.symbols)
<1>1. Rehash(m, n) = [m EXCEPT !.buckets = b]
  BY DEF Rehash, Rehashing!Folded, FoldLeft, MapThenFoldSet, Rehashing!FoldLeft,
         Rehashing!MapThenFoldSet, Max, Rehashing!Max
<1>2. Rehash(m, n) = [symbols |-> m.symbols, buckets |-> b]
  <2> HIDE DEF b
  <2> QED BY <1>1
<1>0. size \in Nat /\ \A i \in 1..size : symbols[i] \in Symbols OBVIOUS
<1>3. Len(list) = size /\ DOMAIN list = 1..size
      /\ \A i \in 1..size : list[i] = <<symbols[i], i - 1>>
  BY DEF Indexed
<1> HIDE DEF list
<1>4. PICK g : Rehashing!IsChain(g, NoBuckets(n), list) /\ b = g[Len(list)]
  BY <1>0, <1>3, Rehashing!FoldIsChain, Zenon
<1>5. /\ g[0] = NoBuckets(n)
      /\ \A k \in 1..size : g[k] = PutIndex(g[k-1], list[k])
  BY <1>3, <1>4 DEF Rehashing!IsChain
<1> HIDE DEF b
<1>6. \A i \in 1..size : Hash[symbols[i]] \in Nat BY <1>0, HashAssumption
<1> HIDE DEF symbols, size
<1> DEFINE K == {k \in Nat : k <= size => Holds(g[k], symbols, n, k)}
<1>7. 0 \in K
  <2>1. g[0] = [x \in 0..n-1 |-> empty_] BY <1>5 DEF NoBuckets
  <2>2. {x \in 0..n-1 : g[0][x] # empty_} = {} BY <2>1
  <2>3. Cardinality({x \in 0..n-1 : g[0][x] # empty_}) <= 0
    <3> DEFINE taken == {x \in 0..n-1 : g[0][x] # empty_}
    <3>1. taken = {} BY <2>2
    <3> HIDE DEF taken
    <3>2. Cardinality(taken) = 0 BY <3>1, FS_EmptySet
    <3> QED BY <3>2 DEF taken
  <2>4. g[0] \in [0..n-1 -> Int] BY <2>1 DEF empty_
  <2>5. \A x \in 0..n-1 : g[0][x] = empty_ BY <2>1
  <2> QED BY <2>3, <2>4, <2>5 DEF Holds
<1>8. ASSUME NEW k \in Nat, k \in K PROVE k + 1 \in K
  <2> SUFFICES ASSUME k + 1 <= size PROVE Holds(g[k+1], symbols, n, k + 1) OBVIOUS
  <2>1. Holds(g[k], symbols, n, k) BY <1>0, <1>8
  <2>2. k + 1 \in 1..size /\ (k + 1) - 1 = k BY <1>0
  <2>3. g[k+1] = [g[k] EXCEPT ![FreeBucket(g[k], symbols[k+1])] = k]
    <3>1. g[k+1] = PutIndex(g[k], list[k+1]) BY <1>5, <2>2
    <3>2. list[k+1] = <<symbols[k+1], k>> BY <1>3, <2>2
    <3> QED BY <3>1, <3>2 DEF PutIndex
  <2>4. k < n BY <1>0 DEF size
  <2>5. \E x \in 0..n-1 : g[k][x] = empty_ BY <2>1, <2>4, SomeBucketIsEmpty DEF Holds
  <2>6. Hash[symbols[k+1]] \in Nat BY <1>6, <2>2
  <2>7. g[k] \in [0..n-1 -> Int] BY <2>1 DEF Holds
  <2>8. PICK i \in 0..n-1 :
          /\ FreeBucket(g[k], symbols[k+1]) = At(Hash[symbols[k+1]], i, n)
          /\ g[k][At(Hash[symbols[k+1]], i, n)] = empty_
          /\ \A j \in 0..i-1 : g[k][At(Hash[symbols[k+1]], j, n)] # empty_
    BY <2>5, <2>6, <2>7, FreeBucketIsFirst
  <2>9. \A q \in 1..k+1 : Hash[symbols[q]] \in Nat BY <1>0, <1>6
  <2> QED BY <2>1, <2>3, <2>8, <2>9, PutHolds
<1>9. size \in K
  <2> HIDE DEF K
  <2> QED BY <1>0, <1>7, <1>8, SetInduction
<1>10. Holds(b, symbols, n, size) BY <1>0, <1>3, <1>4, <1>9
<1> QED BY <1>2, <1>10 DEF symbols, size

-----------------------------------------------------------------------------
(* Find, and the growth of the table.                                      *)

\* Every symbol is in a hash table with free buckets left.
HashOK(m) ==
  /\ m = [symbols |-> m.symbols, buckets |-> m.buckets]
  /\ m.symbols \in Seq(Symbols)
  /\ \A i, j \in 1..Len(m.symbols) : m.symbols[i] = m.symbols[j] => i = j
  /\ \E n \in Nat : /\ n >= 4 /\ 4 * Len(m.symbols) <= 3 * n + 3
                    /\ Holds(m.buckets, m.symbols, n, Len(m.symbols))

\* A search ends at the symbol or, if it is not there, at an empty bucket.
SearchEnds(m, s, n, b) ==
  /\ b \in 0..n-1
  /\ \A q \in 1..Len(m.symbols) : m.symbols[q] = s => m.buckets[b] = q - 1
  /\ (\A q \in 1..Len(m.symbols) : m.symbols[q] # s) =>
       \E i \in 0..n-1 : /\ b = At(Hash[s], i, n) /\ m.buckets[b] = empty_
                         /\ \A j \in 0..i-1 : m.buckets[At(Hash[s], j, n)] # empty_

\* BucketOf ends a search as promised, as long as there are more buckets than
\* symbols.
LEMMA SearchLemma ==
  ASSUME NEW m, NEW n \in Nat \ {0}, NEW s \in Symbols,
         m.symbols \in Seq(Symbols), Len(m.symbols) < n,
         \A i, j \in 1..Len(m.symbols) : m.symbols[i] = m.symbols[j] => i = j,
         Holds(m.buckets, m.symbols, n, Len(m.symbols))
  PROVE  SearchEnds(m, s, n, BucketOf(m, s))
<1> DEFINE c == Cardinality(DOMAIN m.buckets)
           h == Hash[s]
           k == Len(m.symbols)
           stops == {b \in 0..n-1 : m.buckets[b] = empty_ \/ GetSymbol(m, m.buckets[b]) = s}
           Stop(b) == m.buckets[b] = empty_ \/ GetSymbol(m, m.buckets[b]) = s
           First(i) == Stop((h + i) % c) /\ \A j \in 0..i-1 : ~Stop((h + j) % c)
           i0 == CHOOSE i \in 0..c-1 : First(i)
<1>b. m.buckets \in [0..n-1 -> Int] BY DEF Holds
<1>1. c = n BY <1>b, CountBuckets
<1>2. BucketOf(m, s) = (h + i0) % c BY DEF BucketOf, Probe
<1>h. h \in Nat BY HashAssumption
<1>k. k \in Nat /\ k < n OBVIOUS
<1>v. \A x \in 0..n-1 : m.buckets[x] = empty_ \/ m.buckets[x] \in 0..k-1 BY DEF Holds
<1>d. \A i, j \in 1..k : m.symbols[i] = m.symbols[j] => i = j OBVIOUS
<1>r. \A i \in 1..k : Reaches(m.buckets, Hash[m.symbols[i]], n, i - 1) BY DEF Holds
<1>e. \E x \in 0..n-1 : m.buckets[x] = empty_ BY <1>k, SomeBucketIsEmpty DEF Holds
<1> HIDE DEF c, k, h
<1>at. \A i \in 0..n-1 : (h + i) % n \in 0..n-1
  <2> SUFFICES ASSUME NEW i \in 0..n-1 PROVE (h + i) % n \in 0..n-1 OBVIOUS
  <2>1. i \in Nat OBVIOUS
  <2> QED BY <1>h, <2>1, AtBucket DEF At
<1>3. \E i \in 0..c-1 : First(i)
  <2> DEFINE P == {i \in 0..c-1 : Stop((h + i) % c)}
  <2>1. PICK x \in 0..n-1 : m.buckets[x] = empty_ BY <1>e
  <2>2. PICK i \in 0..n-1 : At(h, i, n) = x BY <1>h, AllBucketsAreVisited
  <2>3. \E j \in 0..c-1 : j \in P BY <1>1, <2>1, <2>2 DEF At
  <2>c. c \in Nat BY <1>1
  <2>4. \E f \in 0..c-1 : f \in P /\ \A j \in 0..f-1 : j \notin P
    <3> HIDE DEF P
    <3> QED BY <2>3, <2>c, FirstOfAll, Zenon
  <2>5. PICK f \in 0..c-1 : f \in P /\ \A j \in 0..f-1 : j \notin P BY <2>4, Zenon
  <2>6. \A j \in 0..f-1 : j \in 0..c-1 BY <2>c
  <2> QED BY <2>5, <2>6
<1>4. i0 \in 0..c-1 /\ First(i0) BY <1>3
<1> HIDE DEF i0
<1> DEFINE b == At(h, i0, n)
<1>5. BucketOf(m, s) = b /\ i0 \in 0..n-1 /\ b \in 0..n-1 BY <1>1, <1>2, <1>4, <1>at DEF At
<1>6. Stop(b) /\ \A j \in 0..i0-1 : ~Stop(At(h, j, n)) BY <1>1, <1>4 DEF At
<1>7. ASSUME NEW q \in 1..k, m.symbols[q] = s PROVE m.buckets[b] = q - 1
  <2>1. Reaches(m.buckets, h, n, q - 1) BY <1>r, <1>7 DEF h
  <2>2. PICK p \in 0..n-1 : /\ m.buckets[At(h, p, n)] = q - 1
                            /\ \A j \in 0..p-1 : m.buckets[At(h, j, n)] # empty_
    BY <2>1 DEF Reaches
  <2>3. Stop(At(h, p, n))
    <3>1. (q - 1) + 1 = q BY <1>k
    <3> QED BY <1>7, <2>2, <3>1 DEF GetSymbol
  <2>4. ~(p \in 0..i0-1) BY <1>6, <2>3
  <2>5. CASE p = i0 BY <2>2, <2>5
  <2>6. CASE i0 \in 0..p-1
    <3>1. m.buckets[b] # empty_ BY <2>2, <2>6
    <3>2. m.buckets[b] \in 0..k-1 BY <1>5, <1>v, <3>1
    <3>3. m.symbols[m.buckets[b] + 1] = s BY <1>6, <3>1 DEF GetSymbol
    <3> HIDE DEF b
    <3>4. m.buckets[b] + 1 \in 1..k BY <1>k, <3>2
    <3>5. m.buckets[b] + 1 = q BY <1>d, <1>7, <3>3, <3>4
    <3> QED BY <1>k, <3>2, <3>5
  <2> QED BY <1>5, <2>4, <2>5, <2>6
<1>8. ASSUME \A q \in 1..k : m.symbols[q] # s
      PROVE  /\ m.buckets[b] = empty_
             /\ \A j \in 0..i0-1 : m.buckets[At(h, j, n)] # empty_
  <2>1. ASSUME m.buckets[b] # empty_ PROVE FALSE
    <3>1. m.symbols[m.buckets[b] + 1] = s BY <1>6, <2>1 DEF GetSymbol
    <3>2. m.buckets[b] \in 0..k-1 BY <1>5, <1>v, <2>1
    <3> HIDE DEF b
    <3>3. m.buckets[b] + 1 \in 1..k BY <1>k, <3>2
    <3> QED BY <1>8, <3>1, <3>3
  <2> QED BY <1>6, <2>1
<1> QED BY <1>5, <1>7, <1>8 DEF SearchEnds, h, k

\* Find answers with the index of a symbol, or -1.
LEMMA FindIndexLemma ==
  ASSUME NEW m, HashOK(m), NEW s \in Symbols
  PROVE  /\ \A q \in 1..Len(m.symbols) : m.symbols[q] = s => FindIndex(m, s) = q - 1
         /\ (\A q \in 1..Len(m.symbols) : m.symbols[q] # s) => FindIndex(m, s) = -1
<1>1. PICK n \in Nat : /\ n >= 4 /\ 4 * Len(m.symbols) <= 3 * n + 3
                       /\ Holds(m.buckets, m.symbols, n, Len(m.symbols))
  BY DEF HashOK
<1>2. /\ m.symbols \in Seq(Symbols)
      /\ \A i, j \in 1..Len(m.symbols) : m.symbols[i] = m.symbols[j] => i = j
  BY DEF HashOK
<1>3. Len(m.symbols) < n /\ n \in Nat \ {0} BY <1>1, <1>2
<1>4. SearchEnds(m, s, n, BucketOf(m, s)) BY <1>1, <1>2, <1>3, SearchLemma
<1> QED BY <1>4 DEF SearchEnds, FindIndex, empty_

\* A hash table has an empty bucket.
LEMMA NoneTaken ==
  ASSUME NEW m, HashOK(m)
  PROVE  \E b \in DOMAIN m.buckets : m.buckets[b] = empty_
<1>1. PICK n \in Nat : /\ n >= 4 /\ 4 * Len(m.symbols) <= 3 * n + 3
                       /\ Holds(m.buckets, m.symbols, n, Len(m.symbols))
  BY DEF HashOK
<1>2. Len(m.symbols) \in Nat /\ Len(m.symbols) < n BY <1>1 DEF HashOK
<1>3. \E x \in 0..n-1 : m.buckets[x] = empty_ BY <1>1, <1>2, SomeBucketIsEmpty DEF Holds
<1> QED BY <1>1, <1>3 DEF Holds

\* InsertOrFind first makes room for one more symbol and forgets none.
LEMMA GrownLemma ==
  ASSUME NEW m, HashOK(m)
  PROVE  /\ Grown(m).symbols = m.symbols
         /\ Grown(m) = [symbols |-> m.symbols, buckets |-> Grown(m).buckets]
         /\ \E n \in Nat : /\ n >= 4 /\ 4 * Len(m.symbols) < 3 * n
                           /\ Holds(Grown(m).buckets, m.symbols, n, Len(m.symbols))
<1>1. PICK n \in Nat : /\ n >= 4 /\ 4 * Len(m.symbols) <= 3 * n + 3
                       /\ Holds(m.buckets, m.symbols, n, Len(m.symbols))
  BY DEF HashOK
<1>2. m = [symbols |-> m.symbols, buckets |-> m.buckets] /\ m.symbols \in Seq(Symbols)
  BY DEF HashOK
<1>3. NumBuckets(m) = n BY <1>1, CountBuckets DEF NumBuckets, Holds
<1>4. Len(m.symbols) \in Nat /\ Len(m.symbols) < 2 * n /\ 2 * n \in Nat \ {0} BY <1>1, <1>2
<1>5. CASE MustGrow(m)
  <2>1. Grown(m) = Rehash(m, 2 * n) BY <1>3, <1>5 DEF Grown
  <2> DEFINE r == Rehash(m, 2 * n)
  <2>2. r = [symbols |-> m.symbols, buckets |-> r.buckets]
        /\ Holds(r.buckets, m.symbols, 2 * n, Len(m.symbols))
    <3>1. LET q == Rehash(m, 2 * n)
          IN  /\ q = [symbols |-> m.symbols, buckets |-> q.buckets]
              /\ Holds(q.buckets, m.symbols, 2 * n, Len(m.symbols))
      BY <1>2, <1>4, RehashHolds
    <3> QED BY <3>1
  <2> HIDE DEF r
  <2>3. r.symbols = m.symbols BY <2>2
  <2>4. 4 * Len(m.symbols) < 3 * (2 * n) /\ 2 * n >= 4 BY <1>1, <1>4
  <2>5. Grown(m) = r BY <2>1 DEF r
  <2> QED BY <1>4, <2>2, <2>3, <2>4, <2>5
<1>6. CASE ~MustGrow(m)
  <2>1. Grown(m) = m BY <1>6 DEF Grown
  <2>2. 4 * Len(m.symbols) < 3 * n BY <1>3, <1>4, <1>6 DEF MustGrow, Size
  <2> QED BY <1>1, <1>2, <2>1, <2>2
<1> QED BY <1>5, <1>6

-----------------------------------------------------------------------------
(* InsertOrFind and RemoveSymbol of the hash table.                        *)

\* An element is added at the end.
LEMMA AppendLemma ==
  ASSUME NEW S, NEW s \in Seq(S), NEW e \in S
  PROVE  /\ Append(s, e) \in Seq(S) /\ Len(Append(s, e)) = Len(s) + 1
         /\ \A j \in 1..Len(s) : Append(s, e)[j] = s[j]
         /\ Append(s, e)[Len(s) + 1] = e
OBVIOUS

\* An element goes, the later ones move up.
LEMMA RemoveAtLemma ==
  ASSUME NEW S, NEW s \in Seq(S), NEW i \in 1..Len(s)
  PROVE  /\ RemoveAt(s, i) \in Seq(S) /\ Len(RemoveAt(s, i)) = Len(s) - 1
         /\ \A j \in 1..Len(s)-1 : RemoveAt(s, i)[j] = IF j < i THEN s[j] ELSE s[j+1]
<1> DEFINE u == SubSeq(s, 1, i-1)
           v == SubSeq(s, i+1, Len(s))
<1>1. u \in Seq(S) /\ Len(u) = i - 1 /\ \A j \in 1..i-1 : u[j] = s[j] OBVIOUS
<1>2. v \in Seq(S) /\ Len(v) = Len(s) - i /\ \A j \in 1..Len(s)-i : v[j] = s[i+j] OBVIOUS
<1>3. RemoveAt(s, i) = u \o v BY DEF RemoveAt
<1>4. Len(s) \in Nat /\ i \in Nat /\ i <= Len(s) OBVIOUS
<1> HIDE DEF u, v
<1>5. u \o v \in Seq(S) /\ Len(u \o v) = Len(s) - 1 BY <1>1, <1>2, <1>4
<1>6. ASSUME NEW j \in 1..Len(s)-1 PROVE (u \o v)[j] = IF j < i THEN s[j] ELSE s[j+1]
  <2>1. CASE j < i BY <1>1, <1>2, <1>4, <2>1
  <2>2. CASE j >= i
    <3>1. (u \o v)[j] = v[j - (i - 1)] BY <1>1, <1>2, <1>4, <2>2
    <3>2. j - (i - 1) \in 1..Len(s)-i BY <1>4, <2>2
    <3>3. i + (j - (i - 1)) = j + 1 BY <1>4
    <3> QED BY <1>2, <1>4, <2>2, <3>1, <3>2, <3>3
  <2>3. j < i \/ j >= i BY <1>4
  <2> QED BY <2>1, <2>2, <2>3, Zenon
<1> QED BY <1>3, <1>5, <1>6

\* Holds looks at the first k symbols only.
LEMMA HoldsPrefix ==
  ASSUME NEW buckets, NEW n, NEW k \in Nat, NEW symbols, NEW longer,
         Holds(buckets, symbols, n, k), \A i \in 1..k : longer[i] = symbols[i]
  PROVE  Holds(buckets, longer, n, k)
BY DEF Holds

\* What InsertOrFind leaves and answers.
Inserts(m, s, r) ==
  /\ HashOK(r.map)
  /\ (\E q \in 1..Len(m.symbols) : m.symbols[q] = s) =>
       r.new = FALSE /\ r.map.symbols = m.symbols
  /\ (\A q \in 1..Len(m.symbols) : m.symbols[q] # s) =>
       r.new = TRUE /\ r.map.symbols = Append(m.symbols, s)

\* A symbol is found, or added and found from then on.
LEMMA InsertOrFindLemma ==
  ASSUME NEW m, HashOK(m), NEW s \in Symbols
  PROVE  Inserts(m, s, InsertOrFind(m, s))
<1> DEFINE g == Grown(m)
           at == BucketOf(g, s)
           symbols == m.symbols
           k == Len(m.symbols)
           r == InsertOrFind(m, s)
<1>1. /\ g.symbols = symbols /\ g = [symbols |-> symbols, buckets |-> g.buckets]
      /\ \E n \in Nat : n >= 4 /\ 4 * k < 3 * n /\ Holds(g.buckets, symbols, n, k)
  BY GrownLemma
<1>2. symbols \in Seq(Symbols) /\ \A i, j \in 1..k : symbols[i] = symbols[j] => i = j
  BY DEF HashOK
<1>3. r = StoreAt(g, s, at) BY DEF InsertOrFind, InsertInto
<1>4. k \in Nat /\ k = Len(symbols) BY <1>2
<1> HIDE DEF g, at, r
<1>5. PICK n \in Nat : n >= 4 /\ 4 * k < 3 * n /\ Holds(g.buckets, symbols, n, k) BY <1>1
<1>6. n \in Nat \ {0} /\ k < n BY <1>4, <1>5
<1>7. SearchEnds(g, s, n, at) BY <1>1, <1>2, <1>4, <1>5, <1>6, SearchLemma DEF at
<1> HIDE DEF symbols, k
<1>8. CASE \E q \in 1..k : symbols[q] = s
  <2>1. PICK q \in 1..k : symbols[q] = s BY <1>8
  <2>2. g.buckets[at] = q - 1 BY <1>1, <1>4, <1>7, <2>1 DEF SearchEnds
  <2>3. g.buckets[at] # empty_ BY <1>4, <2>2 DEF empty_
  <2>4. r = [map |-> g, new |-> FALSE] BY <1>3, <2>3 DEF StoreAt
  <2>5. HashOK(g)
    <3>1. 4 * k <= 3 * n + 3 BY <1>4, <1>5
    <3> QED BY <1>1, <1>2, <1>4, <1>5, <3>1 DEF HashOK
  <2> QED BY <1>1, <1>8, <2>4, <2>5 DEF symbols, k, r, Inserts
<1>9. CASE \A q \in 1..k : symbols[q] # s
  <2> DEFINE longer == Append(symbols, s)
             buckets == [g.buckets EXCEPT ![at] = k]
  <2>1. PICK i \in 0..n-1 : /\ at = At(Hash[s], i, n) /\ g.buckets[at] = empty_
                            /\ \A j \in 0..i-1 : g.buckets[At(Hash[s], j, n)] # empty_
    BY <1>1, <1>4, <1>7, <1>9 DEF SearchEnds
  <2>2. r = [map |-> [symbols |-> longer, buckets |-> buckets], new |-> TRUE]
    BY <1>1, <1>3, <1>4, <2>1 DEF StoreAt, Size
  <2>3. /\ longer \in Seq(Symbols) /\ Len(longer) = k + 1
        /\ \A j \in 1..k : longer[j] = symbols[j]
        /\ longer[k + 1] = s
    BY <1>2, <1>4
  <2> HIDE DEF longer
  <2>4. Holds(g.buckets, longer, n, k) BY <1>4, <1>5, <2>3, HoldsPrefix
  <2>5. \A j \in 1..k+1 : Hash[longer[j]] \in Nat BY <2>3, HashAssumption
  <2>6. Holds(buckets, longer, n, k + 1) BY <1>4, <1>6, <2>1, <2>3, <2>4, <2>5, PutHolds
  <2>7. ASSUME NEW p \in 1..k+1, NEW q \in 1..k+1, longer[p] = longer[q] PROVE p = q
    <3>1. CASE p \in 1..k /\ q \in 1..k BY <1>2, <2>3, <2>7, <3>1
    <3>2. CASE p = k + 1 /\ q \in 1..k BY <1>9, <2>3, <2>7, <3>2
    <3>3. CASE q = k + 1 /\ p \in 1..k BY <1>9, <2>3, <2>7, <3>3
    <3> QED BY <1>4, <3>1, <3>2, <3>3
  <2> HIDE DEF buckets
  <2>8. 4 * (k + 1) <= 3 * n + 3 BY <1>4, <1>5
  <2>9. r.map.symbols = longer /\ r.map.buckets = buckets /\ r.new = TRUE
        /\ r.map = [symbols |-> r.map.symbols, buckets |-> r.map.buckets] BY <2>2
  <2>10. HashOK(r.map) BY <1>5, <2>3, <2>6, <2>7, <2>8, <2>9, SMTT(20) DEF HashOK
  <2> QED BY <1>9, <2>9, <2>10 DEF symbols, k, longer, r, Inserts
<1> QED BY <1>8, <1>9 DEF symbols, k, r, Inserts

\* The hash table is right again after a symbol was removed.
LEMMA RemoveIndexLemma ==
  ASSUME NEW m, HashOK(m), NEW idx \in 0..Len(m.symbols)-1
  PROVE  /\ HashOK(RemoveIndex(m, idx))
         /\ RemoveIndex(m, idx).symbols = RemoveAt(m.symbols, idx + 1)
<1> DEFINE symbols == m.symbols
           left == RemoveAt(symbols, idx + 1)
           shorter == [symbols |-> left, buckets |-> m.buckets]
<1>1. PICK n \in Nat : /\ n >= 4 /\ 4 * Len(symbols) <= 3 * n + 3
                       /\ Holds(m.buckets, symbols, n, Len(symbols))
  BY DEF HashOK
<1>2. /\ m = [symbols |-> symbols, buckets |-> m.buckets]
      /\ symbols \in Seq(Symbols)
      /\ \A i, j \in 1..Len(symbols) : symbols[i] = symbols[j] => i = j
  BY DEF HashOK
<1>3. NumBuckets([m EXCEPT !.symbols = left]) = n /\ NumBuckets(m) = n
  BY <1>1, <1>2, CountBuckets DEF NumBuckets, Holds
<1>4. [m EXCEPT !.symbols = RemoveAt(@, idx + 1)] = shorter BY <1>2
<1>5. RemoveIndex(m, idx) = Rehash(shorter, n) BY <1>3, <1>4 DEF RemoveIndex
<1>6. idx + 1 \in 1..Len(symbols) /\ Len(symbols) \in Nat BY <1>2
<1> HIDE DEF symbols
<1>7. /\ left \in Seq(Symbols) /\ Len(left) = Len(symbols) - 1
      /\ \A j \in 1..Len(symbols)-1 :
            left[j] = IF j < idx + 1 THEN symbols[j] ELSE symbols[j+1]
  BY <1>2, <1>6, RemoveAtLemma
<1> HIDE DEF left
<1>8. \A i, j \in 1..Len(left) : left[i] = left[j] => i = j
  <2> SUFFICES ASSUME NEW i \in 1..Len(left), NEW j \in 1..Len(left), left[i] = left[j]
               PROVE  i = j
    OBVIOUS
  <2> DEFINE o(x) == IF x < idx + 1 THEN x ELSE x + 1
  <2>1. \A x \in 1..Len(left) : o(x) \in 1..Len(symbols) /\ left[x] = symbols[o(x)]
    BY <1>6, <1>7
  <2>2. o(i) = o(j) BY <1>2, <2>1
  <2> QED BY <1>6, <1>7, <2>2
<1>9. shorter = [symbols |-> shorter.symbols, buckets |-> shorter.buckets]
      /\ shorter.symbols = left OBVIOUS
<1>10. Len(left) < n /\ n \in Nat \ {0} /\ 4 * Len(left) <= 3 * n + 3 BY <1>1, <1>6, <1>7
<1> HIDE DEF shorter
<1> DEFINE r == Rehash(shorter, n)
<1>11. LET q == Rehash(shorter, n)
       IN  /\ q = [symbols |-> shorter.symbols, buckets |-> q.buckets]
           /\ Holds(q.buckets, shorter.symbols, n, Len(shorter.symbols))
  BY <1>7, <1>9, <1>10, RehashHolds
<1>12. r = [symbols |-> left, buckets |-> r.buckets] /\ Holds(r.buckets, left, n, Len(left))
  BY <1>9, <1>11
<1> HIDE DEF r
<1>13. r.symbols = left BY <1>12
<1>14. HashOK(r) BY <1>1, <1>7, <1>8, <1>10, <1>12, <1>13 DEF HashOK
<1> QED BY <1>5, <1>13, <1>14 DEF r, left, symbols

\* The hash table of a new implementation.
LEMMA NewMapLemma == HashOK(NewImpl.map) /\ NewImpl.map.symbols = <<>>
<1> DEFINE m == [symbols |-> <<>>, buckets |-> NoBuckets(InitialBuckets)]
           n == InitialBuckets
           taken == {x \in 0..n-1 : m.buckets[x] # empty_}
<1>1. NewImpl.map = m BY DEF NewImpl
<1>2. n \in Nat /\ n >= 4 BY BucketsAssumption
<1>3. m.buckets = [x \in 0..n-1 |-> empty_] /\ m.symbols = <<>> BY DEF NoBuckets
<1> HIDE DEF m, n
<1>4. taken = {} BY <1>3
<1> HIDE DEF taken
<1>5. Cardinality(taken) = 0 BY <1>4, FS_EmptySet
<1> USE DEF taken
<1>6. Len(<<>>) = 0 /\ <<>> \in Seq(Symbols) /\ 1..0 = {} OBVIOUS
<1>7. m.buckets \in [0..n-1 -> Int] BY <1>3 DEF empty_
<1>8. Holds(m.buckets, m.symbols, n, 0) BY <1>2, <1>3, <1>5, <1>6, <1>7 DEF Holds
<1>9. m = [symbols |-> m.symbols, buckets |-> m.buckets] BY DEF m
<1>10. 4 * 0 <= 3 * n + 3 BY <1>2
<1>11. HashOK(m) BY <1>2, <1>3, <1>6, <1>8, <1>9, <1>10 DEF HashOK
<1> QED BY <1>1, <1>3, <1>11

-----------------------------------------------------------------------------
(* An implementation: dense range, two containers, next key.               *)

\* The fields of an implementation.
IsRecord(t) ==
  t = [available |-> t.available, dense |-> t.dense, idxKey |-> t.idxKey,
       keyMap |-> t.keyMap, map |-> t.map, finalized |-> t.finalized,
       checkSum |-> t.checkSum, labeled |-> t.labeled]

\* The key of the i-th symbol.
KeyAt(t, i) == IF i <= t.dense THEN i - 1 ELSE t.idxKey[i - t.dense]

\* The two containers outside the dense range are inverse to each other.
ContainersOK(t) ==
  /\ \A i \in 1..Len(t.idxKey) :
       /\ t.idxKey[i] \notin 0..t.dense-1 /\ t.idxKey[i] # kNoSymbol
       /\ t.idxKey[i] < t.available
       /\ t.idxKey[i] \in DOMAIN t.keyMap /\ t.keyMap[t.idxKey[i]] = t.dense + i - 1
  /\ \A k \in DOMAIN t.keyMap : \E i \in 1..Len(t.idxKey) : t.idxKey[i] = k

\* An implementation in order.
TableOK(t) ==
  /\ IsRecord(t)
  /\ t.available \in Nat /\ t.finalized \in BOOLEAN
  /\ HashOK(t.map)
  /\ t.dense \in 0..Size(t.map) /\ t.dense <= t.available
  /\ t.idxKey \in Seq(Int) /\ Len(t.idxKey) = Size(t.map) - t.dense
  /\ ContainersOK(t)

\* Sizes and positions of an implementation's containers.
LEMMA SizeLemma ==
  ASSUME NEW t, TableOK(t)
  PROVE  /\ Size(t.map) \in Nat /\ t.dense \in Nat /\ t.dense <= Size(t.map)
         /\ Size(t.map) = Len(t.map.symbols)
         /\ \A i \in 1..Size(t.map) : t.map.symbols[i] \in Symbols
         /\ \A i \in 1..Size(t.map) : i > t.dense => i - t.dense \in 1..Len(t.idxKey)
<1>1. t.map.symbols \in Seq(Symbols) BY DEF TableOK, HashOK
<1>2. Size(t.map) = Len(t.map.symbols) /\ Len(t.map.symbols) \in Nat BY <1>1 DEF Size
<1>3. t.dense \in 0..Size(t.map) /\ Len(t.idxKey) = Size(t.map) - t.dense BY DEF TableOK
<1> QED BY <1>1, <1>2, <1>3

\* No two symbols have one key, and none has kNoSymbol.
LEMMA KeysLemma ==
  ASSUME NEW t, TableOK(t)
  PROVE  /\ \A i \in 1..Size(t.map) : /\ KeyAt(t, i) \in Int /\ KeyAt(t, i) # kNoSymbol
                                      /\ KeyAt(t, i) < t.available
         /\ \A i, j \in 1..Size(t.map) : KeyAt(t, i) = KeyAt(t, j) => i = j
<1> DEFINE n == Size(t.map)
           d == t.dense
<1>1. n \in Nat /\ d \in Nat /\ d <= n
      /\ \A i \in 1..n : i > d => i - d \in 1..Len(t.idxKey) BY SizeLemma
<1>2. t.idxKey \in Seq(Int) /\ t.available \in Nat /\ d <= t.available
      /\ Len(t.idxKey) = n - d BY DEF TableOK
<1>3. \A i \in 1..Len(t.idxKey) :
        /\ t.idxKey[i] \notin 0..d-1 /\ t.idxKey[i] # kNoSymbol /\ t.idxKey[i] < t.available
        /\ t.keyMap[t.idxKey[i]] = d + i - 1
  BY DEF TableOK, ContainersOK
<1> HIDE DEF n, d
<1>4. ASSUME NEW i \in 1..n
      PROVE  /\ KeyAt(t, i) \in Int /\ KeyAt(t, i) # kNoSymbol /\ KeyAt(t, i) < t.available
             /\ KeyAt(t, i) \in 0..d-1 <=> i <= d
  <2>1. CASE i <= d
    <3>1. KeyAt(t, i) = i - 1 BY <2>1 DEF KeyAt, d
    <3> QED BY <1>1, <1>2, <2>1, <3>1 DEF kNoSymbol
  <2>2. CASE ~(i <= d)
    <3>1. KeyAt(t, i) = t.idxKey[i - d] BY <2>2 DEF KeyAt, d
    <3>2. i - d \in 1..Len(t.idxKey) BY <1>1, <2>2
    <3>3. t.idxKey[i - d] \in Int BY <1>2, <3>2
    <3> QED BY <1>3, <2>2, <3>1, <3>2, <3>3
  <2> QED BY <2>1, <2>2
<1>5. ASSUME NEW i \in 1..n, NEW j \in 1..n, KeyAt(t, i) = KeyAt(t, j) PROVE i = j
  <2>1. i <= d <=> j <= d BY <1>4, <1>5
  <2>2. CASE i <= d BY <1>1, <1>5, <2>1, <2>2 DEF KeyAt, d
  <2>3. CASE ~(i <= d)
    <3>1. t.idxKey[i - d] = t.idxKey[j - d] BY <1>5, <2>1, <2>3 DEF KeyAt, d
    <3>2. i - d \in 1..Len(t.idxKey) /\ j - d \in 1..Len(t.idxKey) BY <1>1, <2>1, <2>3
    <3>3. d + (i - d) - 1 = d + (j - d) - 1 BY <1>3, <3>1, <3>2
    <3> QED BY <1>1, <3>3
  <2> QED BY <2>2, <2>3
<1> QED BY <1>4, <1>5 DEF n

\* Find(symbol) answers with the key of a symbol, or kNoSymbol.
LEMMA FindKeyLemma ==
  ASSUME NEW t, TableOK(t), NEW s \in Symbols
  PROVE  /\ \A q \in 1..Size(t.map) : t.map.symbols[q] = s => FindKey(t, s) = KeyAt(t, q)
         /\ (\A q \in 1..Size(t.map) : t.map.symbols[q] # s) => FindKey(t, s) = kNoSymbol
<1> DEFINE idx == FindIndex(t.map, s)
<1>0. HashOK(t.map) BY DEF TableOK
<1>1. /\ \A q \in 1..Len(t.map.symbols) : t.map.symbols[q] = s => idx = q - 1
      /\ (\A q \in 1..Len(t.map.symbols) : t.map.symbols[q] # s) => idx = -1
  BY <1>0, FindIndexLemma
<1>2. FindKey(t, s) = IF idx = kNoSymbol \/ idx < t.dense THEN idx
                      ELSE t.idxKey[idx - t.dense + 1]
  BY DEF FindKey
<1> HIDE DEF idx
<1>3. Size(t.map) \in Nat /\ t.dense \in Nat /\ Size(t.map) = Len(t.map.symbols) BY SizeLemma
<1>4. ASSUME NEW q \in 1..Size(t.map), t.map.symbols[q] = s PROVE FindKey(t, s) = KeyAt(t, q)
  <2>1. idx = q - 1 BY <1>1, <1>3, <1>4
  <2>2. q \in Nat /\ q >= 1 BY <1>3
  <2>3. q - 1 - t.dense + 1 = q - t.dense BY <1>3, <2>2
  <2> QED BY <1>2, <1>3, <2>1, <2>2, <2>3 DEF KeyAt, kNoSymbol
<1>5. ASSUME \A q \in 1..Size(t.map) : t.map.symbols[q] # s PROVE FindKey(t, s) = kNoSymbol
  BY <1>1, <1>2, <1>3, <1>5 DEF kNoSymbol
<1> QED BY <1>4, <1>5

\* GetNthKey answers with the key at a position.
LEMMA NthKeyLemma ==
  ASSUME NEW t, TableOK(t)
  PROVE  /\ \A i \in 1..Size(t.map) : GetNthKey(t, i - 1) = KeyAt(t, i)
         /\ KeysIn(t) = {KeyAt(t, i) : i \in 1..Size(t.map)}
<1>1. /\ Size(t.map) \in Nat /\ t.dense \in Nat /\ t.dense <= Size(t.map)
      /\ \A i \in 1..Size(t.map) : t.map.symbols[i] \in Symbols
  BY SizeLemma
<1>2. ASSUME NEW i \in 1..Size(t.map) PROVE GetNthKey(t, i - 1) = KeyAt(t, i)
  <2>1. ~(i - 1 < 0) /\ ~(i - 1 >= Size(t.map)) /\ (i - 1 < t.dense <=> i <= t.dense)
        /\ (i - 1) + 1 = i
    BY <1>1
  <2>2. FindKey(t, t.map.symbols[i]) = KeyAt(t, i) BY <1>1, FindKeyLemma
  <2> QED BY <2>1, <2>2 DEF GetNthKey, GetSymbol, KeyAt
<1>3. ASSUME NEW i \in 0..Size(t.map)-1
      PROVE  i + 1 \in 1..Size(t.map) /\ GetNthKey(t, i) = KeyAt(t, i + 1)
  <2>1. i + 1 \in 1..Size(t.map) /\ (i + 1) - 1 = i BY <1>1
  <2> QED BY <1>2, <2>1
<1>4. ASSUME NEW i \in 1..Size(t.map)
      PROVE  i - 1 \in 0..Size(t.map)-1 BY <1>1
<1> QED BY <1>2, <1>3, <1>4 DEF KeysIn

\* Find(key) answers with the symbol of a key, or the empty string.
LEMMA FindSymbolLemma ==
  ASSUME NEW t, TableOK(t)
  PROVE  /\ \A i \in 1..Size(t.map) : FindSymbol(t, KeyAt(t, i)) = t.map.symbols[i]
         /\ \A k \in Int : (\A i \in 1..Size(t.map) : KeyAt(t, i) # k) => FindSymbol(t, k) = ""
<1>1. /\ Size(t.map) \in Nat /\ t.dense \in Nat /\ t.dense <= Size(t.map)
      /\ \A i \in 1..Size(t.map) : i > t.dense => i - t.dense \in 1..Len(t.idxKey)
  BY SizeLemma
<1>2. Len(t.idxKey) = Size(t.map) - t.dense BY DEF TableOK
<1>3. /\ \A i \in 1..Len(t.idxKey) :
           /\ t.idxKey[i] \notin 0..t.dense-1
           /\ t.idxKey[i] \in DOMAIN t.keyMap /\ t.keyMap[t.idxKey[i]] = t.dense + i - 1
      /\ \A k \in DOMAIN t.keyMap : \E i \in 1..Len(t.idxKey) : t.idxKey[i] = k
  BY DEF TableOK, ContainersOK
<1>k. \A i \in 1..Size(t.map) : KeyAt(t, i) \in Int BY KeysLemma
<1> DEFINE idx(k) == IF IsDense(t, k) THEN k
                     ELSE IF k \in DOMAIN t.keyMap THEN t.keyMap[k] ELSE -1
<1>4. \A k : FindSymbol(t, k) = IF idx(k) < 0 \/ idx(k) >= Size(t.map) THEN ""
                                ELSE t.map.symbols[idx(k) + 1]
  BY DEF FindSymbol, GetSymbol
<1>5. ASSUME NEW i \in 1..Size(t.map) PROVE idx(KeyAt(t, i)) = i - 1
  <2>1. CASE i <= t.dense BY <1>1, <2>1 DEF KeyAt, IsDense
  <2>2. CASE ~(i <= t.dense)
    <3>1. i - t.dense \in 1..Len(t.idxKey) /\ KeyAt(t, i) = t.idxKey[i - t.dense]
      BY <1>1, <2>2 DEF KeyAt
    <3>2. ~IsDense(t, KeyAt(t, i)) BY <1>1, <1>3, <1>k, <3>1 DEF IsDense
    <3>3. KeyAt(t, i) \in DOMAIN t.keyMap
          /\ t.keyMap[KeyAt(t, i)] = t.dense + (i - t.dense) - 1 BY <1>3, <3>1
    <3>4. t.dense + (i - t.dense) - 1 = i - 1 BY <1>1
    <3> QED BY <3>2, <3>3, <3>4
  <2> QED BY <2>1, <2>2
<1>6. ASSUME NEW k \in Int, \A i \in 1..Size(t.map) : KeyAt(t, i) # k PROVE idx(k) = -1
  <2>1. ~IsDense(t, k)
    <3> SUFFICES ASSUME k >= 0, k < t.dense PROVE FALSE BY DEF IsDense
    <3>1. k + 1 \in 1..Size(t.map) /\ k + 1 <= t.dense /\ (k + 1) - 1 = k BY <1>1
    <3> QED BY <1>6, <3>1 DEF KeyAt
  <2>2. k \notin DOMAIN t.keyMap
    <3> SUFFICES ASSUME k \in DOMAIN t.keyMap PROVE FALSE OBVIOUS
    <3>1. PICK i \in 1..Len(t.idxKey) : t.idxKey[i] = k BY <1>3
    <3>2. /\ i + t.dense \in 1..Size(t.map) /\ ~(i + t.dense <= t.dense)
          /\ (i + t.dense) - t.dense = i BY <1>1, <1>2
    <3> QED BY <1>6, <3>1, <3>2 DEF KeyAt
  <2> QED BY <2>1, <2>2
<1> HIDE DEF idx
<1>7. ASSUME NEW i \in 1..Size(t.map) PROVE FindSymbol(t, KeyAt(t, i)) = t.map.symbols[i]
  <2>1. ~(i - 1 < 0) /\ ~(i - 1 >= Size(t.map)) /\ (i - 1) + 1 = i BY <1>1
  <2> QED BY <1>4, <1>5, <2>1
<1>8. ASSUME NEW k \in Int, \A i \in 1..Size(t.map) : KeyAt(t, i) # k
      PROVE  FindSymbol(t, k) = ""
  <2>1. idx(k) = -1 /\ -1 < 0 BY <1>6, <1>8
  <2> QED BY <1>4, <2>1
<1> QED BY <1>7, <1>8

\* The list of pairs a table stands for.
LEMMA WrittenLemma ==
  ASSUME NEW t, TableOK(t)
  PROVE  /\ Written(t) = [i \in 1..Size(t.map) |-> <<t.map.symbols[i], KeyAt(t, i)>>]
         /\ Entries(t) = Written(t)
         /\ Len(Written(t)) = Size(t.map) /\ DOMAIN Written(t) = 1..Size(t.map)
<1>1. Size(t.map) \in Nat BY SizeLemma
<1>2. Written(t) = [i \in 1..Size(t.map) |-> <<t.map.symbols[i], KeyAt(t, i)>>]
  <2>1. \A i \in 1..Size(t.map) : (i - 1) + 1 = i BY <1>1
  <2> QED BY <2>1 DEF Written, GetSymbol, KeyAt
<1>3. ASSUME NEW i \in 1..Size(t.map)
      PROVE  <<FindSymbol(t, GetNthKey(t, i - 1)), GetNthKey(t, i - 1)>>
               = <<t.map.symbols[i], KeyAt(t, i)>>
  BY NthKeyLemma, FindSymbolLemma
<1>4. Entries(t) = Written(t) BY <1>2, <1>3 DEF Entries
<1> QED BY <1>1, <1>2, <1>4

-----------------------------------------------------------------------------
(* AddSymbol.                                                              *)

\* Two tables with the same list of pairs.
LEMMA SameWritten ==
  ASSUME NEW t, TableOK(t), NEW r, TableOK(r), r.map.symbols = t.map.symbols,
         r.dense = t.dense, r.idxKey = t.idxKey
  PROVE  Written(r) = Written(t)
<1>1. Size(r.map) = Size(t.map) BY DEF Size
<1>2. \A i : KeyAt(r, i) = KeyAt(t, i) BY DEF KeyAt
<1> QED BY <1>1, <1>2, WrittenLemma

\* A key no symbol of an implementation has.
Fresh(t, key) == \A i \in 1..Size(t.map) : KeyAt(t, i) # key

\* The last symbol, which had no key yet, gets one.
Enters(t, s, key, r) ==
  /\ TableOK(r)
  /\ r.map.symbols = Append(t.map.symbols, s)
  /\ r.available = NextAvailable(t.available, key)
  /\ \A i \in 1..Size(t.map) : KeyAt(r, i) = KeyAt(t, i)
  /\ KeyAt(r, Size(t.map) + 1) = key

\* Entering a new symbol with a key nobody has keeps all containers in step.
LEMMA EnteredLemma ==
  ASSUME NEW t, TableOK(t), NEW s \in Symbols, NEW key \in Int, key # kNoSymbol, Fresh(t, key),
         NEW ins, HashOK(ins.map), ins.new = TRUE, ins.map.symbols = Append(t.map.symbols, s)
  PROVE  Enters(t, s, key, Entered(t, ins, key))
<1> DEFINE n == Size(t.map)
           d == t.dense
           av == NextAvailable(t.available, key)
           r == Entered(t, ins, key)
           inDense == key = n /\ key = d
           dense == IF inDense THEN d + 1 ELSE d
           idxKey == IF inDense THEN t.idxKey ELSE Append(t.idxKey, key)
           keyMap == IF inDense THEN t.keyMap ELSE Over([k \in {key} |-> n], t.keyMap)
<1>1. n \in Nat /\ d \in Nat /\ d <= n /\ n = Len(t.map.symbols)
      /\ \A i \in 1..n : i > d => i - d \in 1..Len(t.idxKey)
  BY SizeLemma
<1>2. /\ IsRecord(t) /\ t.available \in Nat /\ t.finalized \in BOOLEAN
      /\ t.idxKey \in Seq(Int) /\ Len(t.idxKey) = n - d /\ d <= t.available
  BY DEF TableOK
<1>3. /\ \A i \in 1..Len(t.idxKey) :
           /\ t.idxKey[i] \notin 0..d-1 /\ t.idxKey[i] # kNoSymbol /\ t.idxKey[i] < t.available
           /\ t.idxKey[i] \in DOMAIN t.keyMap /\ t.keyMap[t.idxKey[i]] = d + i - 1
      /\ \A k \in DOMAIN t.keyMap : \E i \in 1..Len(t.idxKey) : t.idxKey[i] = k
  BY DEF TableOK, ContainersOK
<1>4. t.map.symbols \in Seq(Symbols) BY DEF TableOK, HashOK
<1>5. Size(ins.map) = n + 1 BY <1>1, <1>4 DEF Size
<1>6. r = [available |-> av, dense |-> dense, idxKey |-> idxKey, keyMap |-> keyMap,
           map |-> ins.map, finalized |-> FALSE,
           checkSum |-> t.checkSum, labeled |-> t.labeled]
  <2> DEFINE u == [available |-> t.available, dense |-> d, idxKey |-> t.idxKey,
                   keyMap |-> t.keyMap, map |-> ins.map, finalized |-> t.finalized,
                   checkSum |-> t.checkSum, labeled |-> t.labeled]
             w == WithKey(u, key)
  <2>1. [t EXCEPT !.map = ins.map] = u BY <1>2 DEF IsRecord
  <2>2. r = Invalidated([w EXCEPT !.available = NextAvailable(@, key)])
    BY <2>1 DEF Entered
  <2>3. u.map = ins.map /\ u.dense = d OBVIOUS
  <2>4. (key + 1 = Size(u.map) /\ key = u.dense) <=> inDense BY <1>1, <1>5, <2>3
  <2>5. w = [available |-> t.available, dense |-> dense, idxKey |-> idxKey,
             keyMap |-> keyMap, map |-> ins.map, finalized |-> t.finalized,
             checkSum |-> t.checkSum, labeled |-> t.labeled]
    <3>1. CASE inDense
      <4>1. w = [u EXCEPT !.dense = @ + 1] BY <2>4, <3>1 DEF WithKey
      <4> QED BY <3>1, <4>1
    <3>2. CASE ~inDense
      <4>1. Size(u.map) - 1 = n BY <1>1, <1>5, <2>3
      <4>2. w = [u EXCEPT !.idxKey = Append(@, key),
                          !.keyMap = Over([k \in {key} |-> Size(u.map) - 1], @)]
        BY <2>4, <3>2 DEF WithKey
      <4>3. u.idxKey = t.idxKey /\ u.keyMap = t.keyMap OBVIOUS
      <4>4. w = [u EXCEPT !.idxKey = Append(t.idxKey, key), !.keyMap = Over([k \in {key} |-> n], t.keyMap)]
        <5> HIDE DEF u, n, w
        <5> QED BY <4>1, <4>2, <4>3
      <4> QED BY <3>2, <4>4
    <3> QED BY <3>1, <3>2
  <2> HIDE DEF w, av, dense, idxKey, keyMap, u
  <2>6. w.available = t.available BY <2>5
  <2>7. [w EXCEPT !.available = NextAvailable(@, key)]
          = [available |-> av, dense |-> dense, idxKey |-> idxKey,
             keyMap |-> keyMap, map |-> ins.map, finalized |-> t.finalized,
             checkSum |-> t.checkSum, labeled |-> t.labeled]
    BY <2>5, <2>6 DEF av
  <2> QED BY <2>2, <2>7, ZenonT(30) DEF Invalidated
<1>7. av \in Nat /\ av >= t.available /\ key < av /\ (key = d => d + 1 <= av)
  BY <1>1, <1>2 DEF NextAvailable
<1>8. \A i \in 1..d : i - 1 # key
  <2> SUFFICES ASSUME NEW i \in 1..d PROVE i - 1 # key OBVIOUS
  <2>1. i \in 1..n /\ i <= d BY <1>1
  <2> QED BY <2>1 DEF Fresh, KeyAt
<1>9. key \notin 0..d-1
  <2> SUFFICES ASSUME key \in 0..d-1 PROVE FALSE OBVIOUS
  <2>1. key + 1 \in 1..d /\ (key + 1) - 1 = key BY <1>1
  <2> QED BY <1>8, <2>1
<1>10. \A i \in 1..Len(t.idxKey) : t.idxKey[i] # key
  <2> SUFFICES ASSUME NEW i \in 1..Len(t.idxKey) PROVE t.idxKey[i] # key OBVIOUS
  <2> HIDE DEF n, d
  <2>1. i + d \in 1..n /\ ~(i + d <= d) /\ (i + d) - d = i BY <1>1, <1>2
  <2> USE DEF n, d
  <2> QED BY <2>1 DEF Fresh, KeyAt
<1> HIDE DEF av, n, d, r
<1>11. /\ r.map = ins.map /\ r.available = av /\ r.dense = dense /\ r.idxKey = idxKey
       /\ r.keyMap = keyMap /\ r.finalized = FALSE /\ IsRecord(r)
  BY <1>6 DEF IsRecord
<1>12. CASE inDense
  <2>1. Len(t.idxKey) = 0 /\ 1..0 = {} /\ n = d BY <1>1, <1>2, <1>12
  <2>2. r.dense = d + 1 /\ r.idxKey = t.idxKey /\ r.keyMap = t.keyMap BY <1>11, <1>12
  <2>3. ContainersOK(r)
    <3>1. \A i \in 1..Len(r.idxKey) : FALSE BY <2>1, <2>2
    <3>2. \A k \in DOMAIN r.keyMap : FALSE BY <1>3, <2>1, <2>2
    <3> QED BY <3>1, <3>2 DEF ContainersOK
  <2>4. r.dense \in 0..Size(r.map) /\ Len(r.idxKey) = Size(r.map) - r.dense
        /\ r.dense <= r.available
    BY <1>1, <1>5, <1>7, <1>11, <1>12, <2>1, <2>2
  <2>5. TableOK(r) BY <1>2, <1>7, <1>11, <2>2, <2>3, <2>4 DEF TableOK
  <2>6. \A i \in 1..n : KeyAt(r, i) = KeyAt(t, i) BY <1>1, <2>1, <2>2 DEF KeyAt, d
  <2>7. KeyAt(r, n + 1) = key BY <1>1, <1>12, <2>1, <2>2 DEF KeyAt
  <2> QED BY <1>11, <2>5, <2>6, <2>7 DEF n, av, r, Enters
<1>13. CASE ~inDense
  <2>1. r.dense = d /\ r.idxKey = Append(t.idxKey, key) /\ r.keyMap = Over([k \in {key} |-> n], t.keyMap)
    BY <1>11, <1>13
  <2> HIDE DEF inDense
  <2>2. /\ r.idxKey \in Seq(Int) /\ Len(r.idxKey) = Len(t.idxKey) + 1
        /\ \A j \in 1..Len(t.idxKey) : r.idxKey[j] = t.idxKey[j]
        /\ r.idxKey[Len(t.idxKey) + 1] = key
    BY <1>2, <2>1
  <2>3. /\ DOMAIN r.keyMap = {key} \cup DOMAIN t.keyMap /\ r.keyMap[key] = n
        /\ \A k \in DOMAIN t.keyMap : k # key => r.keyMap[k] = t.keyMap[k]
    BY <2>1 DEF Over
  <2>4. ContainersOK(r)
    <3>1. ASSUME NEW i \in 1..Len(r.idxKey)
          PROVE  /\ r.idxKey[i] \notin 0..d-1 /\ r.idxKey[i] # kNoSymbol
                 /\ r.idxKey[i] < av
                 /\ r.idxKey[i] \in DOMAIN r.keyMap /\ r.keyMap[r.idxKey[i]] = d + i - 1
      <4>1. CASE i \in 1..Len(t.idxKey)
        <5>1. r.idxKey[i] = t.idxKey[i] /\ t.idxKey[i] \in Int
          <6>1. r.idxKey[i] = t.idxKey[i] BY <2>2, <4>1
          <6>2. t.idxKey \in Seq(Int) BY <1>2
          <6> QED BY <4>1, <6>1, <6>2
        <5>2. /\ t.idxKey[i] \notin 0..d-1 /\ t.idxKey[i] # kNoSymbol
              /\ t.idxKey[i] < t.available
              /\ t.idxKey[i] \in DOMAIN t.keyMap /\ t.keyMap[t.idxKey[i]] = d + i - 1
              /\ t.idxKey[i] # key
          BY <1>3, <1>10, <4>1
        <5>3. t.idxKey[i] < av BY <1>2, <1>7, <5>1, <5>2
        <5> QED BY <2>3, <5>1, <5>2, <5>3
      <4>2. CASE i = Len(t.idxKey) + 1
        <5>1. d + i - 1 = n BY <1>1, <1>2, <4>2
        <5> QED BY <1>7, <1>9, <2>2, <2>3, <4>2, <5>1
      <4>3. i \in 1..Len(t.idxKey) \/ i = Len(t.idxKey) + 1
        <5>1. Len(t.idxKey) \in Nat /\ Len(r.idxKey) = Len(t.idxKey) + 1 BY <1>2, <2>2
        <5> QED BY <5>1
      <4> QED BY <4>1, <4>2, <4>3, Zenon
    <3>2. ASSUME NEW k \in DOMAIN r.keyMap PROVE \E i \in 1..Len(r.idxKey) : r.idxKey[i] = k
      <4>1. CASE k = key
        <5>1. Len(t.idxKey) + 1 \in 1..Len(r.idxKey) BY <1>1, <1>2, <2>2
        <5> QED BY <2>2, <4>1, <5>1
      <4>2. CASE k \in DOMAIN t.keyMap
        <5>1. PICK i \in 1..Len(t.idxKey) : t.idxKey[i] = k BY <1>3, <4>2
        <5>2. i \in 1..Len(r.idxKey) BY <1>1, <1>2, <2>2
        <5> QED BY <2>2, <5>1, <5>2
      <4> QED BY <2>3, <4>1, <4>2
    <3> QED BY <1>11, <2>1, <3>1, <3>2 DEF ContainersOK
  <2>5. r.dense \in 0..Size(r.map) /\ Len(r.idxKey) = Size(r.map) - r.dense
        /\ r.dense <= r.available
    <3>1. Size(r.map) = n + 1 /\ r.available = av BY <1>5, <1>11
    <3>2. Len(r.idxKey) = n - d + 1 BY <1>2, <2>2
    <3> QED BY <1>1, <1>2, <1>7, <2>1, <3>1, <3>2
  <2>6. TableOK(r) BY <1>7, <1>11, <2>2, <2>4, <2>5 DEF TableOK
  <2>7. ASSUME NEW i \in 1..n PROVE KeyAt(r, i) = KeyAt(t, i)
    <3>1. CASE i <= d BY <2>1, <3>1 DEF KeyAt, d
    <3>2. CASE ~(i <= d)
      <4>1. i - d \in 1..Len(t.idxKey) BY <1>1, <3>2
      <4> QED BY <2>1, <2>2, <3>2, <4>1 DEF KeyAt, d
    <3> QED BY <3>1, <3>2
  <2>8. KeyAt(r, n + 1) = key
    <3>1. ~(n + 1 <= d) /\ (n + 1) - d = Len(t.idxKey) + 1 BY <1>1, <1>2
    <3> QED BY <2>1, <2>2, <3>1 DEF KeyAt
  <2> QED BY <1>11, <2>6, <2>7, <2>8 DEF n, av, r, Enters
<1> QED BY <1>12, <1>13

\* A symbol of an implementation.
Known(t, s) == \E i \in 1..Size(t.map) : t.map.symbols[i] = s

\* A symbol is looked up or added at the end.
Adds(t, s, key, r) ==
  /\ TableOK(r)
  /\ Known(t, s) \/ key = kNoSymbol =>
       Written(r) = Written(t) /\ r.available = t.available
  /\ ~Known(t, s) /\ key # kNoSymbol =>
       /\ Written(r) = Append(Written(t), <<s, key>>)
       /\ r.available = NextAvailable(t.available, key)

\* AddSymbol adds a symbol at the end of the list, or leaves the list alone.
LEMMA AddSymbolLemma ==
  ASSUME NEW t, TableOK(t), NEW s \in Symbols, NEW key \in Int, Fresh(t, key)
  PROVE  Adds(t, s, key, AddSymbol(t, s, key))
<1> DEFINE r == AddSymbol(t, s, key)
           ins == InsertOrFind(t.map, s)
           n == Size(t.map)
<1>1. CASE key = kNoSymbol
  <2>1. r = t BY <1>1 DEF AddSymbol
  <2> QED BY <1>1, <2>1 DEF Adds
<1>2. ASSUME key # kNoSymbol PROVE r = Entered(t, ins, key) BY <1>2 DEF AddSymbol
<1>0. HashOK(t.map) BY DEF TableOK
<1>3. /\ HashOK(ins.map)
      /\ (\E q \in 1..Len(t.map.symbols) : t.map.symbols[q] = s) =>
           ins.new = FALSE /\ ins.map.symbols = t.map.symbols
      /\ (\A q \in 1..Len(t.map.symbols) : t.map.symbols[q] # s) =>
           ins.new = TRUE /\ ins.map.symbols = Append(t.map.symbols, s)
  <2>1. Inserts(t.map, s, ins) BY <1>0, InsertOrFindLemma
  <2> HIDE DEF ins
  <2> QED BY <2>1 DEF Inserts
<1> HIDE DEF ins
<1>4. n = Len(t.map.symbols) /\ n \in Nat BY SizeLemma
<1> HIDE DEF n, r
<1>5. CASE key # kNoSymbol /\ Known(t, s)
  <2>1. ins.new = FALSE /\ ins.map.symbols = t.map.symbols BY <1>3, <1>4, <1>5 DEF Known, n
  <2>2. r = [t EXCEPT !.map = ins.map] BY <1>2, <1>5, <2>1 DEF Entered
  <2>3. IsRecord(t) BY DEF TableOK
  <2>4. r = [available |-> t.available, dense |-> t.dense, idxKey |-> t.idxKey,
             keyMap |-> t.keyMap, map |-> ins.map, finalized |-> t.finalized,
             checkSum |-> t.checkSum, labeled |-> t.labeled]
    BY <2>2, <2>3 DEF IsRecord
  <2>5. /\ r.map = ins.map /\ r.available = t.available /\ r.dense = t.dense
        /\ r.idxKey = t.idxKey /\ r.keyMap = t.keyMap /\ r.finalized = t.finalized
        /\ IsRecord(r)
    BY <2>4 DEF IsRecord
  <2>6. Size(r.map) = Size(t.map) BY <2>1, <2>5 DEF Size
  <2>7. ContainersOK(r)
    <3>1. ContainersOK(t) BY DEF TableOK
    <3> QED BY <2>5, <3>1 DEF ContainersOK
  <2>8. TableOK(r) BY <1>3, <2>5, <2>6, <2>7 DEF TableOK
  <2>9. Written(r) = Written(t) BY <2>1, <2>5, <2>8, SameWritten
  <2> QED BY <1>5, <2>5, <2>8, <2>9 DEF Adds, r
<1>6. CASE key # kNoSymbol /\ ~Known(t, s)
  <2>1. ins.new = TRUE /\ ins.map.symbols = Append(t.map.symbols, s)
    BY <1>3, <1>4, <1>6 DEF Known, n
  <2>2. r = Entered(t, ins, key) BY <1>2, <1>6
  <2>3. /\ TableOK(r)
        /\ r.map.symbols = Append(t.map.symbols, s)
        /\ r.available = NextAvailable(t.available, key)
        /\ \A i \in 1..n : KeyAt(r, i) = KeyAt(t, i)
        /\ KeyAt(r, n + 1) = key
    <3>1. HashOK(ins.map) /\ key # kNoSymbol BY <1>3, <1>6
    <3>2. Enters(t, s, key, r) BY <2>1, <2>2, <3>1, EnteredLemma
    <3> QED BY <3>2 DEF Enters, n
  <2>4. t.map.symbols \in Seq(Symbols) BY DEF TableOK, HashOK
  <2>5. /\ Len(r.map.symbols) = n + 1 /\ r.map.symbols[n + 1] = s
        /\ \A i \in 1..n : r.map.symbols[i] = t.map.symbols[i]
    BY <1>4, <2>3, <2>4
  <2>6. Written(r) = [i \in 1..n+1 |-> <<r.map.symbols[i], KeyAt(r, i)>>]
    BY <2>3, <2>5, WrittenLemma DEF Size
  <2>7. Written(t) = [i \in 1..n |-> <<t.map.symbols[i], KeyAt(t, i)>>] /\ Len(Written(t)) = n
    BY WrittenLemma DEF n
  <2>8. Append(Written(t), <<s, key>>)
          = [i \in 1..n+1 |-> IF i \in 1..n THEN Written(t)[i] ELSE <<s, key>>]
    <3> DEFINE W == Written(t)
    <3> DEFINE S == {W[i] : i \in 1..n} \cup {<<s, key>>}
    <3>0. W = [i \in 1..n |-> W[i]] /\ \A i \in 1..n : W[i] \in S BY <2>7
    <3> HIDE DEF S, W
    <3>1. W \in Seq(S) /\ <<s, key>> \in S BY <1>4, <3>0 DEF S
    <3> HIDE DEF W
    <3>2. Append(W, <<s, key>>) = [i \in 1..n+1 |-> IF i \in 1..n THEN W[i] ELSE <<s, key>>]
      BY <1>4, <2>7, <3>1, SMTT(20) DEF W
    <3> QED BY <3>2 DEF W
  <2>9. Written(r) = Append(Written(t), <<s, key>>)
    <3>1. ASSUME NEW i \in 1..n+1
          PROVE  <<r.map.symbols[i], KeyAt(r, i)>>
                   = IF i \in 1..n THEN Written(t)[i] ELSE <<s, key>>
      <4>1. CASE i \in 1..n BY <2>3, <2>5, <2>7, <4>1
      <4>2. CASE i = n + 1 BY <1>4, <2>3, <2>5, <4>2
      <4> QED BY <1>4, <4>1, <4>2
    <3> QED BY <2>6, <2>8, <3>1
  <2> QED BY <1>6, <2>3, <2>9 DEF Adds, r
<1> QED BY <1>1, <1>5, <1>6 DEF r

-----------------------------------------------------------------------------
(* What a removal leaves of the containers.                                *)

\* One sequence is put behind another.
LEMMA ConcatLemma ==
  ASSUME NEW S, NEW u \in Seq(S), NEW v \in Seq(S)
  PROVE  /\ u \o v \in Seq(S) /\ Len(u \o v) = Len(u) + Len(v)
         /\ \A i \in 1..Len(u) : (u \o v)[i] = u[i]
         /\ \A i \in 1..Len(v) : (u \o v)[Len(u) + i] = v[i]
OBVIOUS

\* The q-th symbol goes, the others keep their keys.
Leaves(t, q, r) ==
  /\ TableOK(r)
  /\ r.map.symbols = RemoveAt(t.map.symbols, q)
  /\ r.available = t.available
  /\ \A i \in 1..Size(t.map)-1 : KeyAt(r, i) = KeyAt(t, IF i < q THEN i ELSE i + 1)

\* A symbol of the dense range goes: the later dense keys move to the containers.
LEMMA LeaveDenseLemma ==
  ASSUME NEW t, TableOK(t), NEW q \in 1..Size(t.map), q <= t.dense
  PROVE  Leaves(t, q, LeaveDenseRange(t, q - 1))
<1> DEFINE n == Size(t.map)
           d == t.dense
           key == q - 1
           r == LeaveDenseRange(t, key)
           m == d - 1 - key
           moved == key+1 .. d-1
           gone == [i \in 1..m |-> key + i]
           keyMap == Over([k \in moved |-> k - 1], Shifted(t.keyMap, key))
<1>1. n \in Nat /\ d \in Nat /\ d <= n /\ n = Len(t.map.symbols)
      /\ \A i \in 1..n : i > d => i - d \in 1..Len(t.idxKey)
  BY SizeLemma
<1>2. /\ IsRecord(t) /\ t.available \in Nat /\ t.finalized \in BOOLEAN /\ HashOK(t.map)
      /\ t.idxKey \in Seq(Int) /\ Len(t.idxKey) = n - d /\ d <= t.available
  BY DEF TableOK
<1>3. /\ \A i \in 1..Len(t.idxKey) :
           /\ t.idxKey[i] \notin 0..d-1 /\ t.idxKey[i] # kNoSymbol /\ t.idxKey[i] < t.available
           /\ t.idxKey[i] \in DOMAIN t.keyMap /\ t.keyMap[t.idxKey[i]] = d + i - 1
      /\ \A k \in DOMAIN t.keyMap : \E i \in 1..Len(t.idxKey) : t.idxKey[i] = k
  BY DEF TableOK, ContainersOK
<1>4. r = [available |-> t.available, dense |-> key, idxKey |-> gone \o t.idxKey,
           keyMap |-> keyMap, map |-> RemoveIndex(t.map, key), finalized |-> t.finalized,
           checkSum |-> t.checkSum, labeled |-> t.labeled]
  <2>1. r = [t EXCEPT !.map = RemoveIndex(@, key), !.dense = key,
                      !.keyMap = Over([k \in moved |-> k - 1], Shifted(@, key)),
                      !.idxKey = gone \o @]
    BY DEF LeaveDenseRange, NewDenseLimit
  <2> HIDE DEF moved, gone, key, d, r
  <2> QED BY <1>2, <2>1 DEF IsRecord
<1> HIDE DEF r
<1>5. /\ r.map = RemoveIndex(t.map, key) /\ r.available = t.available /\ r.dense = key
      /\ r.idxKey = gone \o t.idxKey /\ r.keyMap = keyMap /\ r.finalized = t.finalized
      /\ IsRecord(r)
  BY <1>4 DEF IsRecord
<1>q. q \in Nat /\ q >= 1 /\ q <= n /\ q <= d BY <1>1
<1>6. key \in 0..d-1 /\ key \in 0..Len(t.map.symbols)-1 /\ key + 1 = q /\ m \in Nat
  BY <1>1, <1>q
<1>7. HashOK(r.map) /\ r.map.symbols = RemoveAt(t.map.symbols, q)
  BY <1>2, <1>5, <1>6, RemoveIndexLemma
<1>8. t.map.symbols \in Seq(Symbols) BY DEF TableOK, HashOK
<1>9. Size(r.map) = n - 1
  <2>1. q \in 1..Len(t.map.symbols) BY <1>1
  <2>2. Len(RemoveAt(t.map.symbols, q)) = Len(t.map.symbols) - 1 BY <1>8, <2>1, RemoveAtLemma
  <2> QED BY <1>1, <1>7, <2>2 DEF Size
<1>10. /\ gone \in Seq(Int) /\ Len(gone) = m /\ \A i \in 1..m : gone[i] = key + i
  BY <1>6
<1>11. /\ DOMAIN keyMap = moved \cup DOMAIN t.keyMap
       /\ \A k \in moved : keyMap[k] = k - 1
       /\ \A k \in DOMAIN t.keyMap : k \notin moved =>
            keyMap[k] = IF t.keyMap[k] > key THEN t.keyMap[k] - 1 ELSE t.keyMap[k]
  BY DEF Over, Shifted
<1>12. \A x : x \in moved <=> x \in Int /\ key < x /\ x < d BY <1>1, <1>6
<1>m. m = d - 1 - key OBVIOUS
<1> HIDE DEF n, d, keyMap, gone, key, m, moved
<1>13. /\ r.idxKey \in Seq(Int) /\ Len(r.idxKey) = m + Len(t.idxKey)
       /\ \A i \in 1..m : r.idxKey[i] = key + i
       /\ \A i \in 1..Len(t.idxKey) : r.idxKey[m + i] = t.idxKey[i]
  <2>1. t.idxKey \in Seq(Int) BY <1>2
  <2>2. /\ gone \o t.idxKey \in Seq(Int) /\ Len(gone \o t.idxKey) = m + Len(t.idxKey)
        /\ \A i \in 1..m : (gone \o t.idxKey)[i] = gone[i]
        /\ \A i \in 1..Len(t.idxKey) : (gone \o t.idxKey)[m + i] = t.idxKey[i]
    <3> DEFINE u == t.idxKey
               w == gone \o u
    <3> HIDE DEF u
    <3>1. gone \in Seq(Int) /\ u \in Seq(Int) BY <1>10, <2>1 DEF u
    <3>2. /\ w \in Seq(Int) /\ Len(w) = Len(gone) + Len(u)
          /\ \A i \in 1..Len(gone) : w[i] = gone[i]
          /\ \A i \in 1..Len(u) : w[Len(gone) + i] = u[i]
      BY <3>1, ConcatLemma
    <3> HIDE DEF w
    <3>3. /\ w \in Seq(Int) /\ Len(w) = m + Len(u)
          /\ \A i \in 1..m : w[i] = gone[i]
          /\ \A i \in 1..Len(u) : w[m + i] = u[i]
      BY <1>10, <3>2
    <3> QED BY <3>3 DEF u, w
  <2> QED BY <1>5, <1>10, <2>2
<1>14. Len(t.idxKey) \in Nat /\ \A i \in 1..Len(t.idxKey) : t.idxKey[i] \in Int BY <1>2
<1>15. ContainersOK(r)
  <2>1. ASSUME NEW i \in 1..Len(r.idxKey)
        PROVE  /\ r.idxKey[i] \notin 0..key-1 /\ r.idxKey[i] # kNoSymbol
               /\ r.idxKey[i] < t.available
               /\ r.idxKey[i] \in DOMAIN keyMap /\ keyMap[r.idxKey[i]] = key + i - 1
    <3>1. CASE i \in 1..m
      <4>1. r.idxKey[i] = key + i BY <1>13, <3>1
      <4>2. key + i \in moved BY <1>1, <1>6, <1>12, <1>m, <3>1
      <4>3. key + i \notin 0..key-1 /\ key + i # kNoSymbol /\ key + i < t.available
        BY <1>1, <1>2, <1>6, <1>m, <3>1 DEF kNoSymbol
      <4>4. keyMap[key + i] = key + i - 1 /\ key + i \in DOMAIN keyMap
        <5> DEFINE k == key + i
        <5>1. k \in moved BY <4>2
        <5> HIDE DEF k
        <5>2. keyMap[k] = k - 1 /\ k \in DOMAIN keyMap BY <1>11, <5>1
        <5> QED BY <1>1, <1>6, <3>1, <5>2 DEF k
      <4> QED BY <4>1, <4>3, <4>4
    <3>2. CASE i \notin 1..m
      <4> DEFINE j == i - m
      <4>1. j \in 1..Len(t.idxKey) /\ i = m + j /\ j \in Int
        BY <1>6, <1>13, <1>14, <3>2, SMTT(20)
      <4> HIDE DEF j
      <4>2. r.idxKey[i] = t.idxKey[j] BY <1>13, <4>1
      <4> DEFINE k == t.idxKey[j]
      <4>3. /\ k \in Int /\ k \notin 0..d-1 /\ k # kNoSymbol /\ k < t.available
            /\ k \in DOMAIN t.keyMap /\ t.keyMap[k] = d + j - 1
        BY <1>3, <1>14, <4>1
      <4> HIDE DEF k
      <4>4. k \notin moved /\ k \notin 0..key-1 BY <1>1, <1>6, <1>12, <4>3
      <4>5. d + j - 1 > key BY <1>1, <1>6, <4>1
      <4>6. keyMap[k] = d + j - 1 - 1
        <5>1. keyMap[k] = IF t.keyMap[k] > key THEN t.keyMap[k] - 1 ELSE t.keyMap[k]
          BY <1>11, <4>3, <4>4
        <5> QED BY <1>1, <1>6, <4>1, <4>3, <4>5, <5>1
      <4>7. d + j - 1 - 1 = key + i - 1 BY <1>1, <1>6, <1>m, <4>1
      <4> QED BY <1>11, <4>2, <4>3, <4>4, <4>6, <4>7 DEF k
    <3> QED BY <3>1, <3>2
  <2>2. ASSUME NEW k \in DOMAIN keyMap PROVE \E i \in 1..Len(r.idxKey) : r.idxKey[i] = k
    <3>1. CASE k \in moved
      <4>1. k - key \in 1..m /\ key + (k - key) = k BY <1>1, <1>6, <1>12, <1>m, <3>1
      <4>2. k - key \in 1..Len(r.idxKey) BY <1>6, <1>13, <1>14, <4>1
      <4> QED BY <1>13, <4>1, <4>2
    <3>2. CASE k \in DOMAIN t.keyMap
      <4>1. PICK i \in 1..Len(t.idxKey) : t.idxKey[i] = k BY <1>3, <3>2
      <4>2. m + i \in 1..Len(r.idxKey) BY <1>6, <1>13, <1>14
      <4> QED BY <1>13, <4>1, <4>2
    <3> QED BY <1>11, <3>1, <3>2
  <2> QED BY <1>5, <2>1, <2>2 DEF ContainersOK
<1>16. r.dense \in 0..Size(r.map) /\ Len(r.idxKey) = Size(r.map) - r.dense
       /\ r.dense <= r.available
  BY <1>1, <1>2, <1>5, <1>6, <1>9, <1>m, <1>13
<1>17. TableOK(r) BY <1>2, <1>5, <1>7, <1>13, <1>15, <1>16 DEF TableOK
<1>18. ASSUME NEW i \in 1..n-1 PROVE KeyAt(r, i) = KeyAt(t, IF i < q THEN i ELSE i + 1)
  <2>1. CASE i < q
    <3>1. i <= key /\ i <= d BY <1>1, <1>6, <1>q, <2>1
    <3> QED BY <1>5, <2>1, <3>1 DEF KeyAt, d
  <2>2. CASE ~(i < q) /\ i + 1 <= d
    <3>1. ~(i <= key) /\ i - key \in 1..m /\ key + (i - key) = (i + 1) - 1
      BY <1>1, <1>6, <1>m, <1>q, <2>2
    <3>2. r.idxKey[i - key] = (i + 1) - 1 BY <1>13, <3>1
    <3> QED BY <1>5, <2>2, <3>1, <3>2 DEF KeyAt, d
  <2>3. CASE ~(i < q) /\ ~(i + 1 <= d)
    <3>1. /\ ~(i <= key) /\ i + 1 - d \in 1..Len(t.idxKey)
          /\ i - key = m + (i + 1 - d)
      BY <1>1, <1>2, <1>6, <1>m, <1>q, <2>3
    <3>2. r.idxKey[i - key] = t.idxKey[i + 1 - d] BY <1>13, <3>1
    <3>3. KeyAt(r, i) = r.idxKey[i - key] BY <1>5, <3>1 DEF KeyAt
    <3>4. KeyAt(t, i + 1) = t.idxKey[i + 1 - d] BY <1>1, <2>3, SMTT(20) DEF KeyAt, d
    <3> QED BY <2>3, <3>2, <3>3, <3>4
  <2> QED BY <2>1, <2>2, <2>3
<1> QED BY <1>5, <1>7, <1>17, <1>18 DEF Leaves, n, r, key

\* A symbol outside the dense range goes.
LEMMA LeaveSparseLemma ==
  ASSUME NEW t, TableOK(t), NEW q \in 1..Size(t.map), q > t.dense
  PROVE  Leaves(t, q, LeaveSparseRange(t, KeyAt(t, q), q - 1))
<1> DEFINE n == Size(t.map)
           d == t.dense
           key == KeyAt(t, q)
           r == LeaveSparseRange(t, key, q - 1)
           j == q - d
           keyMap == Shifted(Without(t.keyMap, key), q - 1)
<1>1. n \in Nat /\ d \in Nat /\ d <= n /\ n = Len(t.map.symbols)
      /\ \A i \in 1..n : i > d => i - d \in 1..Len(t.idxKey)
  BY SizeLemma
<1>2. /\ IsRecord(t) /\ t.available \in Nat /\ t.finalized \in BOOLEAN /\ HashOK(t.map)
      /\ t.idxKey \in Seq(Int) /\ Len(t.idxKey) = n - d /\ d <= t.available
  BY DEF TableOK
<1>3. /\ \A i \in 1..Len(t.idxKey) :
           /\ t.idxKey[i] \notin 0..d-1 /\ t.idxKey[i] # kNoSymbol /\ t.idxKey[i] < t.available
           /\ t.idxKey[i] \in DOMAIN t.keyMap /\ t.keyMap[t.idxKey[i]] = d + i - 1
      /\ \A k \in DOMAIN t.keyMap : \E i \in 1..Len(t.idxKey) : t.idxKey[i] = k
  BY DEF TableOK, ContainersOK
<1>q. q \in Int /\ q <= n /\ q > d /\ j \in 1..Len(t.idxKey) /\ q - 1 - d + 1 = j
  BY <1>1
<1>k. key = t.idxKey[j] BY <1>1, <1>q DEF KeyAt
<1>4. r = [available |-> t.available, dense |-> d, idxKey |-> RemoveAt(t.idxKey, j),
           keyMap |-> keyMap, map |-> RemoveIndex(t.map, q - 1), finalized |-> t.finalized,
           checkSum |-> t.checkSum, labeled |-> t.labeled]
  <2>1. r = [t EXCEPT !.map = RemoveIndex(@, q - 1),
                      !.keyMap = Shifted(Without(@, key), q - 1),
                      !.idxKey = RemoveAt(@, j)]
    BY <1>q DEF LeaveSparseRange
  <2> HIDE DEF key, d, j, r
  <2> QED BY <1>2, <2>1 DEF IsRecord, d
<1> HIDE DEF r, key
<1>5. /\ r.map = RemoveIndex(t.map, q - 1) /\ r.available = t.available /\ r.dense = d
      /\ r.idxKey = RemoveAt(t.idxKey, j) /\ r.keyMap = keyMap /\ r.finalized = t.finalized
      /\ IsRecord(r)
  BY <1>4 DEF IsRecord
<1>6. q - 1 \in 0..Len(t.map.symbols)-1 /\ (q - 1) + 1 = q BY <1>1
<1>7. HashOK(r.map) /\ r.map.symbols = RemoveAt(t.map.symbols, q)
  BY <1>2, <1>5, <1>6, RemoveIndexLemma
<1>8. t.map.symbols \in Seq(Symbols) BY DEF TableOK, HashOK
<1>9. Size(r.map) = n - 1
  <2>1. q \in 1..Len(t.map.symbols) BY <1>1
  <2>2. Len(RemoveAt(t.map.symbols, q)) = Len(t.map.symbols) - 1 BY <1>8, <2>1, RemoveAtLemma
  <2> QED BY <1>1, <1>7, <2>2 DEF Size
<1>11. /\ DOMAIN keyMap = DOMAIN t.keyMap \ {key}
       /\ \A k \in DOMAIN keyMap :
            keyMap[k] = IF t.keyMap[k] > q - 1 THEN t.keyMap[k] - 1 ELSE t.keyMap[k]
  BY DEF Without, Shifted
<1>j. q = d + j /\ j \in Int BY <1>1, <1>q
<1> HIDE DEF n, d, keyMap, j
<1> DEFINE L == Len(t.idxKey)
           o(i) == IF i < j THEN i ELSE i + 1
<1>13. /\ r.idxKey \in Seq(Int) /\ Len(r.idxKey) = L - 1
       /\ \A i \in 1..L-1 : r.idxKey[i] = t.idxKey[o(i)]
  <2>1. /\ RemoveAt(t.idxKey, j) \in Seq(Int) /\ Len(RemoveAt(t.idxKey, j)) = L - 1
        /\ \A i \in 1..L-1 :
             RemoveAt(t.idxKey, j)[i] = IF i < j THEN t.idxKey[i] ELSE t.idxKey[i + 1]
    BY <1>2, <1>q, RemoveAtLemma
  <2> QED BY <1>5, <2>1
<1>14. L \in Nat /\ \A i \in 1..L : t.idxKey[i] \in Int BY <1>2
<1>o. \A i \in 1..L-1 : o(i) \in 1..L /\ o(i) # j BY <1>14, <1>q
<1> HIDE DEF L
<1>15. ContainersOK(r)
  <2>1. ASSUME NEW i \in 1..Len(r.idxKey)
        PROVE  /\ r.idxKey[i] \notin 0..d-1 /\ r.idxKey[i] # kNoSymbol
               /\ r.idxKey[i] < t.available
               /\ r.idxKey[i] \in DOMAIN keyMap /\ keyMap[r.idxKey[i]] = d + i - 1
    <3> DEFINE k == t.idxKey[o(i)]
    <3>0. i \in 1..L-1 BY <1>13
    <3>1. r.idxKey[i] = k /\ o(i) \in 1..L /\ o(i) # j BY <1>13, <1>o, <3>0
    <3>2. /\ k \notin 0..d-1 /\ k # kNoSymbol /\ k < t.available
          /\ k \in DOMAIN t.keyMap /\ t.keyMap[k] = d + o(i) - 1
      BY <1>3, <3>1 DEF L
    <3>3. t.keyMap[key] = d + j - 1 BY <1>3, <1>k, <1>q DEF L
    <3> HIDE DEF k
    <3>4. k # key BY <1>1, <1>j, <3>1, <3>2, <3>3
    <3>5. keyMap[k] = IF t.keyMap[k] > q - 1 THEN t.keyMap[k] - 1 ELSE t.keyMap[k]
      BY <1>11, <3>2, <3>4
    <3>6. keyMap[k] = d + i - 1
      <4>1. CASE i < j
        <5>1. t.keyMap[k] = d + i - 1 /\ ~(d + i - 1 > q - 1)
          BY <1>1, <1>14, <1>j, <3>0, <3>2, <4>1
        <5> QED BY <3>5, <5>1
      <4>2. CASE ~(i < j)
        <5>1. t.keyMap[k] = d + (i + 1) - 1 BY <3>2, <4>2
        <5>2. d + (i + 1) - 1 > q - 1 /\ d + (i + 1) - 1 - 1 = d + i - 1
          BY <1>1, <1>14, <1>j, <3>0, <4>2
        <5>3. t.keyMap[k] > q - 1 /\ t.keyMap[k] - 1 = d + i - 1
          BY <1>1, <1>14, <3>0, <5>1, <5>2
        <5> QED BY <3>5, <5>3
      <4> QED BY <4>1, <4>2
    <3> QED BY <1>11, <3>1, <3>2, <3>4, <3>6
  <2>2. ASSUME NEW k \in DOMAIN keyMap PROVE \E i \in 1..Len(r.idxKey) : r.idxKey[i] = k
    <3>1. k \in DOMAIN t.keyMap /\ k # key BY <1>11
    <3>2. PICK i \in 1..L : t.idxKey[i] = k BY <1>3, <3>1 DEF L
    <3>3. i # j BY <1>k, <3>1, <3>2
    <3>4. CASE i < j
      <4>1. i \in 1..L-1 /\ o(i) = i BY <1>14, <1>q, <3>4 DEF L
      <4> QED BY <1>13, <3>2, <4>1
    <3>5. CASE i > j
      <4>1. i - 1 \in 1..L-1 /\ o(i - 1) = i BY <1>14, <1>q, <3>5 DEF L
      <4>2. i - 1 \in 1..Len(r.idxKey) BY <1>13, <4>1
      <4>3. r.idxKey[i - 1] = t.idxKey[o(i - 1)] BY <1>13, <4>1
      <4> QED BY <3>2, <4>1, <4>2, <4>3
    <3> QED BY <1>14, <1>j, <3>3, <3>4, <3>5
  <2> QED BY <1>5, <2>1, <2>2 DEF ContainersOK
<1>16. r.dense \in 0..Size(r.map) /\ Len(r.idxKey) = Size(r.map) - r.dense
       /\ r.dense <= r.available
  BY <1>1, <1>2, <1>5, <1>q, <1>9, <1>13 DEF L
<1>17. TableOK(r) BY <1>2, <1>5, <1>7, <1>13, <1>15, <1>16 DEF TableOK
<1>18. ASSUME NEW i \in 1..n-1 PROVE KeyAt(r, i) = KeyAt(t, IF i < q THEN i ELSE i + 1)
  <2>1. CASE i <= d
    <3>1. i < q BY <1>1, <1>q, <2>1
    <3> QED BY <1>5, <2>1, <3>1 DEF KeyAt, d
  <2>2. CASE ~(i <= d)
    <3>1. i - d \in 1..L-1 /\ ~(i + 1 <= d) /\ (i < q <=> i - d < j) /\ (i + 1) - d = (i - d) + 1
      BY <1>1, <1>2, <1>j, <2>2 DEF L
    <3>2. r.idxKey[i - d] = t.idxKey[o(i - d)] BY <1>13, <3>1
    <3>3. CASE i < q BY <1>5, <2>2, <3>1, <3>2, <3>3 DEF KeyAt, d
    <3>4. CASE ~(i < q) BY <1>5, <2>2, <3>1, <3>2, <3>4 DEF KeyAt, d
    <3> QED BY <3>3, <3>4
  <2> QED BY <2>1, <2>2
<1> QED BY <1>5, <1>7, <1>17, <1>18 DEF Leaves, n, r, key

-----------------------------------------------------------------------------
(* RemoveSymbol, copies and checksums.                                     *)

Adding == INSTANCE NumberTheorems WITH Step <- AddEntry
Merging == INSTANCE NumberTheorems WITH Step <- AddNext

\* A new implementation is in order and empty.
LEMMA NewImplLemma == TableOK(NewImpl) /\ Size(NewImpl.map) = 0
<1>1. HashOK(NewImpl.map) /\ NewImpl.map.symbols = <<>> BY NewMapLemma
<1>2. Size(NewImpl.map) = 0 BY <1>1 DEF Size
<1>3. /\ IsRecord(NewImpl) /\ NewImpl.available = 0 /\ NewImpl.finalized = FALSE
      /\ NewImpl.dense = 0 /\ NewImpl.idxKey = <<>> /\ NewImpl.keyMap = <<>>
  BY DEF NewImpl, IsRecord
<1>4. Len(<<>>) = 0 /\ <<>> \in Seq(Int) /\ 1..0 = {} /\ DOMAIN <<>> = {} OBVIOUS
<1>5. ContainersOK(NewImpl) BY <1>3, <1>4 DEF ContainersOK
<1>6. NewImpl.idxKey \in Seq(Int) /\ Len(NewImpl.idxKey) = 0 BY <1>3, <1>4
<1> DEFINE t == NewImpl
<1> HIDE DEF t
<1>7. /\ IsRecord(t) /\ t.available \in Nat /\ t.finalized \in BOOLEAN /\ HashOK(t.map)
      /\ t.idxKey \in Seq(Int) /\ ContainersOK(t)
  <2>1. NewImpl.available \in Nat BY <1>3
  <2>2. NewImpl.finalized \in BOOLEAN BY <1>3
  <2> QED BY <1>1, <1>3, <1>5, <1>6, <2>1, <2>2, Zenon DEF t
<1>8. t.available = 0 /\ t.dense = 0 /\ Size(t.map) = 0 /\ Len(t.idxKey) = 0
  BY <1>2, <1>3, <1>6 DEF t
<1>9. t.dense \in 0..Size(t.map) /\ t.dense <= t.available /\ Len(t.idxKey) = Size(t.map) - t.dense
  BY <1>8
<1>10. TableOK(t) BY <1>7, <1>9 DEF TableOK
<1> QED BY <1>2, <1>10 DEF t

\* Fields the mapping does not depend on may change.
LEMMA SameTable ==
  ASSUME NEW t, TableOK(t), NEW r, IsRecord(r), r.finalized \in BOOLEAN,
         r.available = t.available, r.dense = t.dense, r.idxKey = t.idxKey,
         r.keyMap = t.keyMap, r.map = t.map
  PROVE  TableOK(r) /\ Written(r) = Written(t)
<1>1. ContainersOK(t) BY DEF TableOK
<1>2. ContainersOK(r) BY <1>1 DEF ContainersOK
<1>3. TableOK(r) BY <1>2 DEF TableOK
<1>4. r.map.symbols = t.map.symbols OBVIOUS
<1> QED BY <1>3, <1>4, SameWritten

\* A copy stands for the same list.
LEMMA CopyLemma ==
  ASSUME NEW t, TableOK(t)
  PROVE  TableOK(CopyOf(t)) /\ Written(CopyOf(t)) = Written(t)
         /\ CopyOf(t).available = t.available
<1> DEFINE r == CopyOf(t)
<1>1. IsRecord(t) BY DEF TableOK
<1>2. r = [available |-> t.available, dense |-> t.dense, idxKey |-> t.idxKey,
           keyMap |-> t.keyMap, map |-> t.map, finalized |-> FALSE,
           checkSum |-> <<>>, labeled |-> <<>>]
  <2>1. r = [t EXCEPT !.finalized = FALSE, !.checkSum = <<>>, !.labeled = <<>>] BY DEF CopyOf
  <2> HIDE DEF r
  <2> QED BY <1>1, <2>1 DEF IsRecord
<1> HIDE DEF r
<1>3. /\ r.map = t.map /\ r.available = t.available /\ r.dense = t.dense
      /\ r.idxKey = t.idxKey /\ r.keyMap = t.keyMap /\ r.finalized = FALSE /\ IsRecord(r)
  BY <1>2 DEF IsRecord
<1>4. r.finalized \in BOOLEAN BY <1>3
<1>5. TableOK(r) /\ Written(r) = Written(t) BY <1>3, <1>4, SameTable
<1> QED BY <1>3, <1>5 DEF r

\* Computing the checksums changes nothing of the list.
LEMMA WithCheckSumsLemma ==
  ASSUME NEW t, TableOK(t)
  PROVE  TableOK(WithCheckSums(t)) /\ Written(WithCheckSums(t)) = Written(t)
         /\ WithCheckSums(t).available = t.available
<1> DEFINE r == WithCheckSums(t)
<1>1. IsRecord(t) BY DEF TableOK
<1>2. r = [available |-> t.available, dense |-> t.dense, idxKey |-> t.idxKey,
           keyMap |-> t.keyMap, map |-> t.map, finalized |-> TRUE,
           checkSum |-> CheckSumOf(t), labeled |-> LabeledCheckSumOf(t)]
  <2>1. r = [t EXCEPT !.checkSum = CheckSumOf(t), !.labeled = LabeledCheckSumOf(t),
                      !.finalized = TRUE]
    BY DEF WithCheckSums
  <2> HIDE DEF r
  <2> QED BY <1>1, <2>1 DEF IsRecord
<1> HIDE DEF r
<1>3. /\ r.map = t.map /\ r.available = t.available /\ r.dense = t.dense
      /\ r.idxKey = t.idxKey /\ r.keyMap = t.keyMap /\ r.finalized = TRUE /\ IsRecord(r)
  BY <1>2 DEF IsRecord
<1>4. r.finalized \in BOOLEAN BY <1>3
<1>5. TableOK(r) /\ Written(r) = Written(t) BY <1>3, <1>4, SameTable
<1> QED BY <1>3, <1>5 DEF r

\* The highest key may become the next one once nobody has it.
LEMMA LowerAvailable ==
  ASSUME NEW t, TableOK(t), NEW key \in Int, key = t.available - 1, key # kNoSymbol,
         Fresh(t, key)
  PROVE  LET r == [t EXCEPT !.available = key]
         IN  TableOK(r) /\ Written(r) = Written(t)
<1> DEFINE r == [t EXCEPT !.available = key]
<1>1. IsRecord(t) /\ t.available \in Nat /\ t.dense \in Nat /\ t.dense <= t.available
      /\ t.dense <= Size(t.map) /\ Size(t.map) \in Nat /\ Len(t.idxKey) = Size(t.map) - t.dense
      /\ t.idxKey \in Seq(Int)
  BY SizeLemma DEF TableOK
<1>2. r = [available |-> key, dense |-> t.dense, idxKey |-> t.idxKey,
           keyMap |-> t.keyMap, map |-> t.map, finalized |-> t.finalized,
           checkSum |-> t.checkSum, labeled |-> t.labeled]
  BY <1>1 DEF IsRecord
<1> HIDE DEF r
<1>3. /\ r.map = t.map /\ r.available = key /\ r.dense = t.dense
      /\ r.idxKey = t.idxKey /\ r.keyMap = t.keyMap /\ r.finalized = t.finalized /\ IsRecord(r)
  BY <1>2 DEF IsRecord
<1>4. key \in Nat BY <1>1 DEF kNoSymbol
<1>5. t.dense <= key
  <2> SUFFICES ASSUME ~(t.dense <= key) PROVE FALSE OBVIOUS
  <2>1. t.dense \in 1..Size(t.map) /\ t.dense - 1 = key BY <1>1, <1>4
  <2> QED BY <1>1, <2>1 DEF Fresh, KeyAt
<1>6. ASSUME NEW i \in 1..Len(t.idxKey) PROVE t.idxKey[i] < key
  <2>1. t.idxKey[i] \in Int BY <1>1
  <2>2. t.idxKey[i] < t.available BY DEF TableOK, ContainersOK
  <2>3. i + t.dense \in 1..Size(t.map) /\ ~(i + t.dense <= t.dense) /\ (i + t.dense) - t.dense = i
    BY <1>1
  <2>4. t.idxKey[i] # key BY <2>3 DEF Fresh, KeyAt
  <2> QED BY <1>1, <2>1, <2>2, <2>4
<1>7. ContainersOK(t) BY DEF TableOK
<1>8. ContainersOK(r) BY <1>3, <1>6, <1>7 DEF ContainersOK
<1>9. TableOK(r) BY <1>3, <1>4, <1>5, <1>8 DEF TableOK
<1>10. r.map.symbols = t.map.symbols BY <1>3
<1>11. Written(r) = Written(t) BY <1>3, <1>9, <1>10, SameWritten
<1> QED BY <1>9, <1>11 DEF r

\* What RemoveSymbol leaves.
Removes(t, key, r) ==
  /\ TableOK(r)
  /\ key = kNoSymbol => r = t
  /\ \A q \in 1..Size(t.map) : KeyAt(t, q) = key =>
       /\ Written(r) = RemoveAt(Written(t), q)
       /\ r.available = IF key = t.available - 1 THEN key ELSE t.available

\* What is left is the list without the symbol, whose key is free.
LEMMA LeavesWritten ==
  ASSUME NEW t, TableOK(t), NEW q \in 1..Size(t.map), NEW r, Leaves(t, q, r)
  PROVE  /\ Written(r) = RemoveAt(Written(t), q)
         /\ Fresh(r, KeyAt(t, q))
<1> DEFINE n == Size(t.map)
           W == Written(t)
           S == {W[i] : i \in 1..n}
           o(i) == IF i < q THEN i ELSE i + 1
<1>1. n \in Nat /\ n = Len(t.map.symbols) BY SizeLemma
<1>2. t.map.symbols \in Seq(Symbols) BY DEF TableOK, HashOK
<1>q. q \in 1..n OBVIOUS
<1>3. /\ TableOK(r) /\ r.map.symbols = RemoveAt(t.map.symbols, q)
      /\ \A i \in 1..n-1 : KeyAt(r, i) = KeyAt(t, o(i))
  BY DEF Leaves
<1>4. W = [i \in 1..n |-> <<t.map.symbols[i], KeyAt(t, i)>>] /\ DOMAIN W = 1..n
  BY WrittenLemma
<1> HIDE DEF n
<1>5. /\ Len(r.map.symbols) = n - 1
      /\ \A i \in 1..n-1 : r.map.symbols[i] = t.map.symbols[o(i)]
  <2>1. q \in 1..Len(t.map.symbols) BY <1>1, <1>q
  <2>2. /\ Len(RemoveAt(t.map.symbols, q)) = n - 1
        /\ \A j \in 1..n-1 : RemoveAt(t.map.symbols, q)[j]
                               = IF j < q THEN t.map.symbols[j] ELSE t.map.symbols[j + 1]
    BY <1>1, <1>2, <2>1, RemoveAtLemma
  <2> QED BY <1>3, <2>2
<1>6. \A i \in 1..n-1 : o(i) \in 1..n /\ o(i) # q BY <1>1, <1>q
<1>7. Written(r) = [i \in 1..n-1 |-> <<r.map.symbols[i], KeyAt(r, i)>>] /\ Size(r.map) = n - 1
  BY <1>3, <1>5, WrittenLemma DEF Size
<1> HIDE DEF W, o
<1>8. \A i \in 1..n-1 : Written(r)[i] = W[o(i)] BY <1>3, <1>4, <1>5, <1>6, <1>7
<1>9. W \in Seq(S) /\ Len(W) = n
  <2>1. \A i \in 1..n : W[i] \in S OBVIOUS
  <2> HIDE DEF S
  <2>2. W = [i \in 1..n |-> W[i]] BY <1>4
  <2> QED BY <1>1, <2>1, <2>2
<1>10. /\ RemoveAt(W, q) \in Seq(S) /\ Len(RemoveAt(W, q)) = n - 1
       /\ \A i \in 1..n-1 : RemoveAt(W, q)[i] = W[o(i)]
  <2> HIDE DEF S
  <2>1. q \in 1..Len(W) BY <1>9, <1>q
  <2>2. /\ RemoveAt(W, q) \in Seq(S) /\ Len(RemoveAt(W, q)) = Len(W) - 1
        /\ \A j \in 1..Len(W)-1 : RemoveAt(W, q)[j] = IF j < q THEN W[j] ELSE W[j+1]
    BY <1>9, <2>1, RemoveAtLemma
  <2> QED BY <1>9, <2>2 DEF o
<1>11. Written(r) = RemoveAt(W, q)
  <2> DEFINE u == RemoveAt(W, q)
             w == Written(r)
  <2>1. u = [i \in 1..n-1 |-> u[i]]
    <3> HIDE DEF u, S
    <3> QED BY <1>10 DEF u
  <2>2. w = [i \in 1..n-1 |-> w[i]] BY <1>7
  <2>3. \A i \in 1..n-1 : u[i] = w[i] BY <1>8, <1>10
  <2> HIDE DEF u, w
  <2>4. u = w BY <2>1, <2>2, <2>3
  <2> QED BY <2>4 DEF u, w
<1>12. Fresh(r, KeyAt(t, q))
  <2> SUFFICES ASSUME NEW i \in 1..n-1 PROVE KeyAt(r, i) # KeyAt(t, q) BY <1>7 DEF Fresh
  <2>1. KeyAt(r, i) = KeyAt(t, o(i)) /\ o(i) \in 1..n /\ o(i) # q BY <1>3, <1>6 DEF o
  <2>2. \A i1, j1 \in 1..n : KeyAt(t, i1) = KeyAt(t, j1) => i1 = j1 BY KeysLemma DEF n
  <2> QED BY <1>q, <2>1, <2>2
<1> QED BY <1>11, <1>12 DEF W

\* RemoveSymbol removes one pair of the list, or nothing for an unknown key.
LEMMA RemoveSymbolLemma ==
  ASSUME NEW t, TableOK(t), NEW key \in KeysIn(t) \cup {kNoSymbol}
  PROVE  Removes(t, key, RemoveSymbol(t, key))
<1>1. /\ KeysIn(t) = {KeyAt(t, i) : i \in 1..Size(t.map)}
      /\ \A i \in 1..Size(t.map) : KeyAt(t, i) \in Int /\ KeyAt(t, i) # kNoSymbol
      /\ \A i, j \in 1..Size(t.map) : KeyAt(t, i) = KeyAt(t, j) => i = j
  BY NthKeyLemma, KeysLemma
<1>2. /\ Size(t.map) \in Nat /\ t.dense \in Nat /\ t.dense <= Size(t.map)
      /\ \A i \in 1..Size(t.map) : i > t.dense => i - t.dense \in 1..Len(t.idxKey)
  BY SizeLemma
<1>3. /\ \A i \in 1..Len(t.idxKey) :
           /\ t.idxKey[i] \in Int
           /\ t.idxKey[i] \notin 0..t.dense-1 /\ t.idxKey[i] # kNoSymbol
           /\ t.idxKey[i] \in DOMAIN t.keyMap /\ t.keyMap[t.idxKey[i]] = t.dense + i - 1
      /\ \A k \in DOMAIN t.keyMap : \E i \in 1..Len(t.idxKey) : t.idxKey[i] = k
  <2>1. t.idxKey \in Seq(Int) /\ ContainersOK(t) BY DEF TableOK
  <2>2. \A i \in 1..Len(t.idxKey) : t.idxKey[i] \in Int BY <2>1
  <2> QED BY <2>1, <2>2 DEF ContainersOK
<1>4. CASE key = kNoSymbol
  <2>1. ~IsDense(t, key) BY <1>2, <1>4 DEF IsDense, kNoSymbol
  <2>2. key \notin DOMAIN t.keyMap BY <1>3, <1>4
  <2>3. RemoveSymbol(t, key) = t BY <2>1, <2>2 DEF RemoveSymbol
  <2> QED BY <1>1, <1>4, <2>3 DEF Removes
<1>5. CASE key # kNoSymbol
  <2>1. PICK q \in 1..Size(t.map) : KeyAt(t, q) = key BY <1>1, <1>5
  <2> DEFINE left == IF IsDense(t, key) THEN LeaveDenseRange(t, key)
                                        ELSE LeaveSparseRange(t, key, t.keyMap[key])
             r == [left EXCEPT !.available = IF key = @ - 1 THEN key ELSE @]
  <2>2. RemoveSymbol(t, key) = r /\ Leaves(t, q, left)
    <3>1. CASE q <= t.dense
      <4>1. key = q - 1 /\ IsDense(t, key) BY <1>2, <2>1, <3>1 DEF KeyAt, IsDense
      <4>2. Leaves(t, q, LeaveDenseRange(t, q - 1)) BY <3>1, LeaveDenseLemma
      <4> QED BY <4>1, <4>2 DEF RemoveSymbol
    <3>2. CASE ~(q <= t.dense)
      <4>1. q - t.dense \in 1..Len(t.idxKey) /\ key = t.idxKey[q - t.dense] /\ q > t.dense
        BY <1>2, <2>1, <3>2 DEF KeyAt
      <4>2. ~IsDense(t, key) BY <1>2, <1>3, <4>1, SMTT(20) DEF IsDense
      <4>3. key \in DOMAIN t.keyMap /\ t.keyMap[key] = t.dense + (q - t.dense) - 1
        BY <1>3, <4>1
      <4>4. t.keyMap[key] = q - 1 BY <1>2, <4>3
      <4>5. Leaves(t, q, LeaveSparseRange(t, KeyAt(t, q), q - 1)) BY <4>1, LeaveSparseLemma
      <4>6. left = LeaveSparseRange(t, key, q - 1) BY <4>2, <4>4
      <4>7. RemoveSymbol(t, key) = r BY <4>2, <4>3 DEF RemoveSymbol
      <4> HIDE DEF left
      <4> QED BY <2>1, <4>5, <4>6, <4>7
    <3> QED BY <3>1, <3>2
  <2> HIDE DEF left
  <2>3. Written(left) = RemoveAt(Written(t), q) /\ Fresh(left, key)
    BY <2>1, <2>2, LeavesWritten
  <2>4. TableOK(left) /\ left.available = t.available BY <2>2 DEF Leaves
  <2>5. IsRecord(left) BY <2>4 DEF TableOK
  <2>k. key \in Int BY <1>1, <2>1
  <2>6. CASE key = t.available - 1
    <3>1. r = [left EXCEPT !.available = key]
      BY <2>4, <2>5, <2>6 DEF IsRecord
    <3>2. TableOK(r) /\ Written(r) = Written(left)
      BY <1>5, <2>k, <2>3, <2>4, <2>6, <3>1, LowerAvailable
    <3>3. r.available = key BY <2>5, <3>1 DEF IsRecord
    <3> HIDE DEF r
    <3> QED BY <1>1, <1>5, <2>1, <2>2, <2>3, <2>6, <3>2, <3>3 DEF Removes
  <2>7. CASE key # t.available - 1
    <3>1. r = left BY <2>4, <2>5, <2>7 DEF IsRecord
    <3> HIDE DEF r
    <3> QED BY <1>1, <1>5, <2>1, <2>2, <2>3, <2>4, <2>7, <3>1 DEF Removes
  <2> QED BY <2>6, <2>7
<1> QED BY <1>4, <1>5

-----------------------------------------------------------------------------
(* Reading what was written, and adding a table.                           *)

\* The entries of a list, read as pairs of distinct symbols and keys.
Pairs(list, n) ==
  /\ DOMAIN list = 1..n /\ Len(list) = n
  /\ \A i \in 1..n : /\ list[i] = <<list[i][1], list[i][2]>> /\ list[i][1] \in Symbols
                     /\ list[i][2] \in Int /\ list[i][2] # kNoSymbol
  /\ \A i, j \in 1..n : list[i][1] = list[j][1] \/ list[i][2] = list[j][2] => i = j

\* The first k entries are what a table holds that had the next key a.
HasPrefix(t, list, k, a) ==
  /\ TableOK(t) /\ Size(t.map) = k
  /\ \A i \in 1..k : t.map.symbols[i] = list[i][1] /\ KeyAt(t, i) = list[i][2]
  /\ t.available >= a
  /\ t.available = a \/ \E i \in 1..k : t.available = list[i][2] + 1

\* Adding a list of pairs to an empty implementation makes that list.
LEMMA AddAllLemma ==
  ASSUME NEW t, TableOK(t), Size(t.map) = 0, NEW list, NEW n \in Nat, Pairs(list, n)
  PROVE  HasPrefix(AddAll(t, list), list, n, t.available)
<1> DEFINE a == t.available
<1>1. AddAll(t, list) = Adding!Folded(t, list)
  BY DEF AddAll, Adding!Folded, FoldLeft, MapThenFoldSet, Adding!FoldLeft,
         Adding!MapThenFoldSet, Max, Adding!Max
<1>2. Len(list) \in Nat /\ DOMAIN list = 1..Len(list) BY DEF Pairs
<1>3. PICK g : Adding!IsChain(g, t, list) /\ Adding!Folded(t, list) = g[Len(list)]
  BY <1>2, Adding!FoldIsChain, Zenon
<1>4. /\ g[0] = t
      /\ \A k \in 1..n : g[k] = AddEntry(g[k-1], list[k])
  BY <1>3 DEF Adding!IsChain, Pairs
<1>5. a \in Nat BY DEF TableOK
<1> HIDE DEF a
<1> DEFINE K == {k \in Nat : k <= n => HasPrefix(g[k], list, k, a)}
<1>6. 0 \in K
  <2>1. 1..0 = {} OBVIOUS
  <2>2. HasPrefix(t, list, 0, a) BY <1>5, <2>1 DEF HasPrefix, a
  <2> QED BY <1>4, <2>2
<1>7. ASSUME NEW k \in Nat, k \in K PROVE k + 1 \in K
  <2> SUFFICES ASSUME k + 1 <= n PROVE HasPrefix(g[k+1], list, k + 1, a) OBVIOUS
  <2> DEFINE u == g[k]
             r == g[k+1]
             s == list[k+1][1]
             key == list[k+1][2]
  <2>1. HasPrefix(u, list, k, a) BY <1>7
  <2>2. k + 1 \in 1..n /\ (k + 1) - 1 = k /\ \A i \in 1..k : i \in 1..n /\ i # k + 1 OBVIOUS
  <2>3. r = AddSymbol(u, s, key) BY <1>4, <2>2 DEF AddEntry
  <2>4. /\ s \in Symbols /\ key \in Int /\ key # kNoSymbol
        /\ \A i \in 1..k : list[i][1] # s /\ list[i][2] # key
    BY <2>2 DEF Pairs
  <2> HIDE DEF u, r, s, key
  <2>5. TableOK(u) /\ Size(u.map) = k BY <2>1 DEF HasPrefix
  <2>6. Fresh(u, key) /\ ~Known(u, s) BY <2>1, <2>4 DEF HasPrefix, Fresh, Known
  <2>7. Adds(u, s, key, r) BY <2>3, <2>4, <2>5, <2>6, AddSymbolLemma
  <2>8. /\ TableOK(r) /\ Written(r) = Append(Written(u), <<s, key>>)
        /\ r.available = NextAvailable(u.available, key)
    BY <2>4, <2>6, <2>7 DEF Adds
  <2>9. /\ Written(u) = [i \in 1..k |-> <<u.map.symbols[i], KeyAt(u, i)>>]
        /\ Len(Written(u)) = k
    BY <2>5, WrittenLemma
  <2>10. /\ Written(r) = [i \in 1..Size(r.map) |-> <<r.map.symbols[i], KeyAt(r, i)>>]
         /\ Len(Written(r)) = Size(r.map) /\ Size(r.map) \in Nat
    BY <2>8, WrittenLemma, SizeLemma
  <2>11. /\ Len(Written(r)) = k + 1 /\ Written(r)[k + 1] = <<s, key>>
         /\ \A i \in 1..k : Written(r)[i] = Written(u)[i]
    <3> DEFINE W == Written(u)
               S == {W[i] : i \in 1..k} \cup {<<s, key>>}
    <3>1. W = [i \in 1..k |-> W[i]] /\ \A i \in 1..k : W[i] \in S BY <2>9
    <3> HIDE DEF S, W
    <3>2. W \in Seq(S) /\ <<s, key>> \in S BY <3>1 DEF S
    <3>3. Len(W) = k BY <2>9 DEF W
    <3>4. /\ Len(Append(W, <<s, key>>)) = k + 1 /\ Append(W, <<s, key>>)[k + 1] = <<s, key>>
          /\ \A i \in 1..k : Append(W, <<s, key>>)[i] = W[i]
      BY <3>2, <3>3, AppendLemma
    <3> QED BY <2>8, <3>4 DEF W
  <2>12. Size(r.map) = k + 1 BY <2>10, <2>11
  <2>13. ASSUME NEW i \in 1..k+1
         PROVE  r.map.symbols[i] = list[i][1] /\ KeyAt(r, i) = list[i][2]
    <3>1. Written(r)[i] = <<r.map.symbols[i], KeyAt(r, i)>> BY <2>10, <2>12
    <3>2. CASE i \in 1..k
      <4>1. Written(r)[i] = <<u.map.symbols[i], KeyAt(u, i)>> BY <2>9, <2>11, <3>2
      <4>2. r.map.symbols[i] = u.map.symbols[i] /\ KeyAt(r, i) = KeyAt(u, i) BY <3>1, <4>1
      <4> QED BY <2>1, <3>2, <4>2 DEF HasPrefix
    <3>3. CASE i = k + 1
      <4>1. r.map.symbols[i] = s /\ KeyAt(r, i) = key BY <2>11, <3>1, <3>3
      <4> QED BY <3>3, <4>1 DEF s, key
    <3> QED BY <3>2, <3>3
  <2>14. /\ r.available >= a
         /\ r.available = a \/ \E i \in 1..k+1 : r.available = list[i][2] + 1
    <3>1. u.available \in Nat /\ u.available >= a
          /\ (u.available = a \/ \E i \in 1..k : u.available = list[i][2] + 1)
      BY <2>1 DEF HasPrefix, TableOK
    <3>2. CASE key >= u.available
      <4>1. r.available = key + 1 BY <2>8, <3>2 DEF NextAvailable
      <4>2. k + 1 \in 1..k+1 OBVIOUS
      <4>3. r.available >= a BY <1>5, <2>4, <3>1, <3>2, <4>1
      <4> QED BY <4>1, <4>2, <4>3 DEF key
    <3>3. CASE ~(key >= u.available)
      <4>1. r.available = u.available BY <2>8, <3>3 DEF NextAvailable
      <4>2. \A i \in 1..k : i \in 1..k+1 OBVIOUS
      <4> QED BY <3>1, <4>1, <4>2
    <3> QED BY <3>2, <3>3
  <2> QED BY <2>8, <2>12, <2>13, <2>14 DEF HasPrefix, r
<1>8. n \in K
  <2> HIDE DEF K
  <2> QED BY <1>6, <1>7, SetInduction
<1>9. HasPrefix(g[n], list, n, a) BY <1>8
<1>10. Len(list) = n BY DEF Pairs
<1> QED BY <1>1, <1>3, <1>9, <1>10 DEF a

\* What a table writes can be read again.
LEMMA WrittenPairs ==
  ASSUME NEW t, TableOK(t)
  PROVE  Pairs(Written(t), Size(t.map))
<1> DEFINE n == Size(t.map)
           W == Written(t)
<1>1. /\ W = [i \in 1..n |-> <<t.map.symbols[i], KeyAt(t, i)>>]
      /\ Len(W) = n /\ DOMAIN W = 1..n
  BY WrittenLemma
<1>2. /\ n = Len(t.map.symbols) /\ \A i \in 1..n : t.map.symbols[i] \in Symbols
  BY SizeLemma
<1>3. \A i, j \in 1..n : t.map.symbols[i] = t.map.symbols[j] => i = j
  BY <1>2 DEF TableOK, HashOK
<1>4. /\ \A i \in 1..n : KeyAt(t, i) \in Int /\ KeyAt(t, i) # kNoSymbol
      /\ \A i, j \in 1..n : KeyAt(t, i) = KeyAt(t, j) => i = j
  BY KeysLemma
<1> HIDE DEF W, n
<1>5. \A i \in 1..n : /\ W[i] = <<t.map.symbols[i], KeyAt(t, i)>>
                      /\ W[i][1] = t.map.symbols[i] /\ W[i][2] = KeyAt(t, i)
  BY <1>1
<1> QED BY <1>1, <1>2, <1>3, <1>4, <1>5 DEF Pairs, W, n

\* Two tables that hold the same prefix of a list to its end are written alike.
LEMMA PrefixWritten ==
  ASSUME NEW t, TableOK(t), NEW r, NEW a, HasPrefix(r, Written(t), Size(t.map), a)
  PROVE  Written(r) = Written(t)
<1> DEFINE n == Size(t.map)
           W == Written(t)
<1>1. W = [i \in 1..n |-> <<t.map.symbols[i], KeyAt(t, i)>>] BY WrittenLemma
<1>2. TableOK(r) /\ Size(r.map) = n
      /\ \A i \in 1..n : r.map.symbols[i] = W[i][1] /\ KeyAt(r, i) = W[i][2]
  BY DEF HasPrefix
<1>3. Written(r) = [i \in 1..n |-> <<r.map.symbols[i], KeyAt(r, i)>>] BY <1>2, WrittenLemma
<1> HIDE DEF W, n
<1>4. \A i \in 1..n : <<r.map.symbols[i], KeyAt(r, i)>> = W[i] BY <1>1, <1>2
<1>5. W = [i \in 1..n |-> W[i]] BY <1>1
<1> QED BY <1>3, <1>4, <1>5 DEF W

\* A table read back from its binary form is the one written.
LEMMA ReadLemma ==
  ASSUME NEW t, TableOK(t)
  PROVE  /\ TableOK(WriteAndRead(t)) /\ Written(WriteAndRead(t)) = Written(t)
         /\ WriteAndRead(t).available = t.available
<1> DEFINE base == [NewImpl EXCEPT !.available = t.available]
           r == WriteAndRead(t)
           n == Size(t.map)
<1>1. t.available \in Nat BY DEF TableOK
<1>2. TableOK(base) /\ Size(base.map) = 0 /\ base.available = t.available
  <2>1. TableOK(NewImpl) /\ Size(NewImpl.map) = 0 BY NewImplLemma
  <2>2. IsRecord(NewImpl) BY <2>1 DEF TableOK
  <2> DEFINE u == NewImpl
  <2> HIDE DEF u
  <2>3. base = [u EXCEPT !.available = t.available] BY DEF u
  <2>4. TableOK(u) /\ Size(u.map) = 0 /\ IsRecord(u) BY <2>1, <2>2 DEF u
  <2> HIDE DEF base
  <2>5. base = [available |-> t.available, dense |-> u.dense, idxKey |-> u.idxKey,
                keyMap |-> u.keyMap, map |-> u.map, finalized |-> u.finalized,
                checkSum |-> u.checkSum, labeled |-> u.labeled]
    BY <2>3, <2>4 DEF IsRecord
  <2>6. /\ base.map = u.map /\ base.available = t.available /\ base.dense = u.dense
        /\ base.idxKey = u.idxKey /\ base.keyMap = u.keyMap /\ base.finalized = u.finalized
        /\ IsRecord(base)
    BY <2>5 DEF IsRecord
  <2>7. u.dense \in 0..0 /\ Len(u.idxKey) = 0 - u.dense BY <2>4 DEF TableOK
  <2>8. u.dense = 0 /\ Len(u.idxKey) = 0 BY <2>7
  <2>9. ContainersOK(base)
    <3>1. \A i \in 1..Len(u.idxKey) : FALSE BY <2>8
    <3>2. ContainersOK(u) BY <2>4 DEF TableOK
    <3> QED BY <2>6, <3>1, <3>2 DEF ContainersOK
  <2>10. base.dense <= base.available BY <1>1, <2>6, <2>8
  <2>11. TableOK(base) BY <1>1, <2>4, <2>6, <2>9, <2>10 DEF TableOK
  <2> QED BY <2>4, <2>6, <2>11
<1>3. n \in Nat /\ Pairs(Written(t), n) BY SizeLemma, WrittenPairs
<1>4. r = AddAll(base, Written(t)) BY DEF WriteAndRead
<1> HIDE DEF base, r, n
<1>5. HasPrefix(r, Written(t), n, t.available) BY <1>2, <1>3, <1>4, AddAllLemma
<1>6. Written(r) = Written(t) BY <1>5, PrefixWritten DEF n
<1>7. r.available = t.available
  <2>1. /\ r.available \in Nat /\ r.available >= t.available
        /\ (r.available = t.available \/ \E i \in 1..n : r.available = Written(t)[i][2] + 1)
    BY <1>5 DEF HasPrefix, TableOK
  <2>2. ASSUME NEW i \in 1..n, r.available = Written(t)[i][2] + 1 PROVE r.available <= t.available
    <3>1. Written(t)[i][2] = KeyAt(t, i) BY WrittenLemma DEF n
    <3>2. KeyAt(t, i) \in Int /\ KeyAt(t, i) < t.available BY KeysLemma DEF n
    <3> QED BY <1>1, <2>2, <3>1, <3>2
  <2> QED BY <1>1, <2>1, <2>2
<1>8. TableOK(r) BY <1>5 DEF HasPrefix
<1> QED BY <1>6, <1>7, <1>8 DEF r

\* The next key is one above the highest key that is not negative.
IsRecalled(t, a) ==
  \/ a = 0
  \/ \E i \in 1..Size(t.map) : a = KeyAt(t, i) + 1

\* A table read back from its text has the same list; the next key follows from it.
LEMMA ReadTextLemma ==
  ASSUME NEW t, TableOK(t)
  PROVE  /\ TableOK(WriteAndReadText(t)) /\ Written(WriteAndReadText(t)) = Written(t)
         /\ IsRecalled(t, WriteAndReadText(t).available)
<1> DEFINE r == WriteAndReadText(t)
           n == Size(t.map)
<1>1. TableOK(NewImpl) /\ Size(NewImpl.map) = 0 BY NewImplLemma
<1>2. NewImpl.available = 0 BY DEF NewImpl
<1>3. n \in Nat /\ Pairs(Written(t), n) BY SizeLemma, WrittenPairs
<1>4. r = AddAll(NewImpl, Written(t)) BY WrittenLemma DEF WriteAndReadText
<1> HIDE DEF r, n
<1>5. HasPrefix(r, Written(t), n, 0)
  <2>1. HasPrefix(r, Written(t), n, NewImpl.available) BY <1>1, <1>3, <1>4, AddAllLemma
  <2> QED BY <1>2, <2>1
<1>6. Written(r) = Written(t) BY <1>5, PrefixWritten DEF n
<1>7. r.available = 0 \/ \E i \in 1..n : r.available = Written(t)[i][2] + 1
  BY <1>5 DEF HasPrefix
<1>8. \A i \in 1..n : Written(t)[i][2] = KeyAt(t, i) BY WrittenLemma DEF n
<1>9. IsRecalled(t, r.available) BY <1>7, <1>8 DEF IsRecalled, n
<1>10. TableOK(r) BY <1>5 DEF HasPrefix
<1> QED BY <1>6, <1>9, <1>10 DEF r

\* The next key is never in use.
LEMMA NextIsFresh ==
  ASSUME NEW t, TableOK(t)
  PROVE  Fresh(t, t.available) /\ t.available \in Int /\ t.available # kNoSymbol
<1>1. t.available \in Nat BY DEF TableOK
<1>2. \A i \in 1..Size(t.map) : KeyAt(t, i) \in Int /\ KeyAt(t, i) < t.available BY KeysLemma
<1> QED BY <1>1, <1>2 DEF Fresh, kNoSymbol

\* AddTable keeps an implementation in order.
LEMMA AddTableLemma ==
  ASSUME NEW t, TableOK(t), NEW other, TableOK(other)
  PROVE  TableOK(AddTable(t, other))
<1> DEFINE list == Entries(other)
           n == Size(other.map)
<1>1. AddTable(t, other) = Merging!Folded(t, list)
  BY DEF AddTable, Merging!Folded, FoldLeft, MapThenFoldSet, Merging!FoldLeft,
         Merging!MapThenFoldSet, Max, Merging!Max
<1>2. n \in Nat /\ Len(list) = n /\ DOMAIN list = 1..n /\ \A i \in 1..n : list[i][1] \in Symbols
  <2>1. Pairs(Written(other), n) /\ list = Written(other) BY WrittenPairs, WrittenLemma
  <2> QED BY <2>1, SizeLemma DEF Pairs
<1> HIDE DEF list, n
<1>3. Len(list) \in Nat /\ DOMAIN list = 1..Len(list) BY <1>2
<1>4. PICK g : Merging!IsChain(g, t, list) /\ Merging!Folded(t, list) = g[Len(list)]
  BY <1>3, Merging!FoldIsChain, Zenon
<1>5. /\ g[0] = t
      /\ \A k \in 1..n : g[k] = AddNext(g[k-1], list[k])
  BY <1>2, <1>4 DEF Merging!IsChain
<1> DEFINE K == {k \in Nat : k <= n => TableOK(g[k])}
<1>6. 0 \in K BY <1>5
<1>7. ASSUME NEW k \in Nat, k \in K PROVE k + 1 \in K
  <2> SUFFICES ASSUME k + 1 <= n PROVE TableOK(g[k+1]) OBVIOUS
  <2>1. TableOK(g[k]) BY <1>2, <1>7
  <2>2. k + 1 \in 1..n /\ (k + 1) - 1 = k BY <1>2
  <2> DEFINE u == g[k]
             s == list[k+1][1]
  <2>3. g[k+1] = AddSymbol(u, s, u.available) BY <1>5, <2>2 DEF AddNext
  <2>4. s \in Symbols BY <1>2, <2>2
  <2> HIDE DEF u, s
  <2>5. Fresh(u, u.available) /\ u.available \in Int BY <2>1, NextIsFresh DEF u
  <2>6. TableOK(u) BY <2>1 DEF u
  <2>7. Adds(u, s, u.available, AddSymbol(u, s, u.available))
    BY <2>4, <2>5, <2>6, AddSymbolLemma
  <2> QED BY <2>3, <2>7 DEF Adds
<1>8. n \in K
  <2> HIDE DEF K
  <2> QED BY <1>2, <1>6, <1>7, SetInduction
<1> QED BY <1>1, <1>2, <1>4, <1>8

-----------------------------------------------------------------------------
(* The inductive invariant: every implementation is in order and a pending *)
(* change fits the implementation it is going to be made of.               *)

\* A change that may be made of a table m.
OpOK(threads, m, o) ==
  \/ \E s \in Symbols, k \in Int : o = <<"add", s, k>> /\ Fresh(m, k)
  \/ \E s \in Symbols : o = <<"addNext", s>>
  \/ \E u \in threads : o = <<"addTable", u>>
  \/ \E k \in KeysIn(m) \cup {kNoSymbol} : o = <<"remove", k>>

\* What a thread may be in the middle of.
States == {"idle", "copying", "exclusive", "computing", "reading"}

\* Types of the variables.
Shape ==
  /\ scenario \in Scenarios
  /\ table \in [Threads -> ImplIds]
  /\ pc \in [Threads -> States]
  /\ mutex \in [ImplIds -> Threads \cup {Free}]
  /\ impl = [i \in ImplIds |-> impl[i]]
  /\ op = [t \in Threads |-> op[t]]

\* All implementations are in order.
Tables == \A i \in ImplIds : TableOK(impl[i])

\* The change a thread is about to make of its copy fits the table it will copy.
Pending == \A t \in Threads : pc[t] = "copying" => OpOK(scenario.threads, impl[table[t]], op[t])

\* Only the scenario's threads do anything.
AtWork == \A t \in Threads : pc[t] # "idle" => t \in scenario.threads

\* The inductive invariant.
TableInv == Shape /\ Tables /\ Pending /\ AtWork

\* What the scenarios say about threads, symbols and keys.
LEMMA ThreadsOf ==
  ASSUME Shape
  PROVE  /\ scenario.threads \subseteq Threads /\ scenario.symbols \subseteq Symbols
         /\ scenario.keys \subseteq Int
BY ScenariosAssumption DEF Shape

\* Implementations with the same list have the same keys.
LEMMA SameKeys ==
  ASSUME NEW t, TableOK(t), NEW r, TableOK(r), Written(r) = Written(t)
  PROVE  /\ Size(r.map) = Size(t.map) /\ \A i \in 1..Size(t.map) : KeyAt(r, i) = KeyAt(t, i)
         /\ KeysIn(r) = KeysIn(t) /\ \A k : Fresh(t, k) => Fresh(r, k)
<1>1. Size(r.map) = Size(t.map) BY WrittenLemma
<1>2. ASSUME NEW i \in 1..Size(t.map) PROVE KeyAt(r, i) = KeyAt(t, i)
  <2>1. Written(r)[i] = <<r.map.symbols[i], KeyAt(r, i)>> BY <1>1, WrittenLemma
  <2>2. Written(t)[i] = <<t.map.symbols[i], KeyAt(t, i)>> BY WrittenLemma
  <2> QED BY <2>1, <2>2
<1>3. KeysIn(r) = {KeyAt(r, i) : i \in 1..Size(t.map)} BY <1>1, NthKeyLemma
<1>4. KeysIn(t) = {KeyAt(t, i) : i \in 1..Size(t.map)} BY NthKeyLemma
<1> QED BY <1>1, <1>2, <1>3, <1>4 DEF Fresh

\* A change that fits an implementation fits one with the same list.
LEMMA SameOps ==
  ASSUME NEW t, TableOK(t), NEW r, TableOK(r), Written(r) = Written(t), NEW threads, NEW o, OpOK(threads, t, o)
  PROVE  OpOK(threads, r, o)
BY SameKeys DEF OpOK

\* What an owner may ask for fits the table.
LEMMA ChangesAreOK ==
  ASSUME Shape, NEW t \in Threads, TableOK(Mine(t)), NEW o \in Changes(t)
  PROVE  OpOK(scenario.threads, Mine(t), o)
<1> DEFINE m == Mine(t)
<1>1. KeysIn(m) = {KeyAt(m, i) : i \in 1..Size(m.map)} BY NthKeyLemma
<1>2. CASE \E s \in scenario.symbols, k \in scenario.keys \ KeysIn(m) : o = <<"add", s, k>>
  <2>1. PICK s \in scenario.symbols, k \in scenario.keys \ KeysIn(m) : o = <<"add", s, k>>
    BY <1>2
  <2>2. s \in Symbols /\ k \in Int BY ThreadsOf
  <2>3. Fresh(m, k) BY <1>1 DEF Fresh
  <2> QED BY <2>1, <2>2, <2>3 DEF OpOK
<1>3. CASE \E s \in scenario.symbols : o = <<"addNext", s>> BY <1>3, ThreadsOf DEF OpOK
<1>4. CASE \E u \in scenario.threads : o = <<"addTable", u>> BY <1>4, ThreadsOf DEF OpOK
<1>5. CASE \E k \in KeysIn(m) \cup {kNoSymbol} : o = <<"remove", k>> BY <1>5 DEF OpOK
<1>6. \/ o \in {"add"} \X scenario.symbols \X (scenario.keys \ KeysIn(m))
      \/ o \in {"addNext"} \X scenario.symbols
      \/ o \in {"addTable"} \X {u \in scenario.threads : pc[u] = "idle"}
      \/ o \in {"remove"} \X (KeysIn(m) \cup {kNoSymbol})
  BY DEF Changes
<1> HIDE DEF m
<1> QED BY <1>2, <1>3, <1>4, <1>5, <1>6

\* A change that fits leaves an implementation in order.
LEMMA ChangedOK ==
  ASSUME TableInv, NEW m, TableOK(m), NEW o, OpOK(scenario.threads, m, o)
  PROVE  TableOK(Changed(m, o))
<1>1. CASE \E s \in Symbols, k \in Int : o = <<"add", s, k>> /\ Fresh(m, k)
  <2>1. PICK s \in Symbols, k \in Int : o = <<"add", s, k>> /\ Fresh(m, k) BY <1>1
  <2>2. Changed(m, o) = AddSymbol(m, s, k) BY <2>1 DEF Changed
  <2>3. Adds(m, s, k, AddSymbol(m, s, k)) BY <2>1, AddSymbolLemma
  <2> QED BY <2>2, <2>3 DEF Adds
<1>2. CASE \E s \in Symbols : o = <<"addNext", s>>
  <2>1. PICK s \in Symbols : o = <<"addNext", s>> BY <1>2
  <2>2. Changed(m, o) = AddSymbol(m, s, m.available) BY <2>1 DEF Changed
  <2>3. Fresh(m, m.available) /\ m.available \in Int BY NextIsFresh
  <2>4. Adds(m, s, m.available, AddSymbol(m, s, m.available)) BY <2>3, AddSymbolLemma
  <2> QED BY <2>2, <2>4 DEF Adds
<1>3. CASE \E u \in scenario.threads : o = <<"addTable", u>>
  <2>1. PICK u \in scenario.threads : o = <<"addTable", u>> BY <1>3
  <2>2. Changed(m, o) = AddTable(m, Mine(u)) BY <2>1 DEF Changed
  <2>3. TableOK(Mine(u)) BY ThreadsOf DEF TableInv, Shape, Tables, Mine
  <2> QED BY <2>2, <2>3, AddTableLemma
<1>4. CASE \E k \in KeysIn(m) \cup {kNoSymbol} : o = <<"remove", k>>
  <2>1. PICK k \in KeysIn(m) \cup {kNoSymbol} : o = <<"remove", k>> BY <1>4
  <2>2. Changed(m, o) = RemoveSymbol(m, k) BY <2>1 DEF Changed
  <2>3. Removes(m, k, RemoveSymbol(m, k)) BY RemoveSymbolLemma
  <2> QED BY <2>2, <2>3 DEF Removes
<1> QED BY <1>1, <1>2, <1>3, <1>4 DEF OpOK

\* There are as many implementations as threads: one is free as long as two
\* threads share one.
LEMMA OneIsUnused ==
  ASSUME Shape, NEW t \in scenario.threads, Users(table[t]) # {t}
  PROVE  Unused # {}
<1> SUFFICES ASSUME Unused = {} PROVE FALSE OBVIOUS
<1>1. t \in Threads /\ table[t] \in ImplIds BY ThreadsOf DEF Shape
<1>2. t \in Users(table[t]) BY DEF Users
<1>3. PICK u \in scenario.threads : u # t /\ table[u] = table[t] BY <1>2 DEF Users
<1> DEFINE S == scenario.threads \ {t}
           f == [v \in S |-> table[v]]
<1>4. f \in [S -> ImplIds] BY ThreadsOf DEF Shape
<1>5. ASSUME NEW i \in ImplIds PROVE \E v \in S : f[v] = i
  <2>1. PICK v \in scenario.threads : table[v] = i BY DEF Unused, Users
  <2>2. CASE v = t BY <1>3, <2>1, <2>2
  <2>3. CASE v # t BY <2>1, <2>3
  <2> QED BY <2>2, <2>3
<1>6. f \in Surjection(S, ImplIds) BY <1>4, <1>5 DEF Surjection
<1>7. IsFiniteSet(Threads) /\ Cardinality(Threads) \in Nat
  BY BoundsAssumption, FS_CardinalityType
<1>8. S \subseteq Threads \ {t} BY ThreadsOf
<1>9. IsFiniteSet(Threads \ {t}) /\ Cardinality(Threads \ {t}) = Cardinality(Threads) - 1
  BY <1>1, <1>7, FS_RemoveElement
<1>10. IsFiniteSet(S) /\ Cardinality(S) <= Cardinality(Threads \ {t})
  <2> HIDE DEF S
  <2> QED BY <1>8, <1>9, FS_Subset
<1>11. Cardinality(ImplIds) <= Cardinality(S)
  <2> HIDE DEF S, f
  <2> QED BY <1>6, <1>10, FS_Surjection
<1>12. Cardinality(ImplIds) = Cardinality(Threads)
  <2> DEFINE n == Cardinality(Threads)
  <2>1. n \in Nat BY <1>7
  <2> HIDE DEF n
  <2>2. 1 \in Int /\ n \in Int BY <2>1
  <2>3. Cardinality(1..n) = IF 1 > n THEN 0 ELSE n - 1 + 1 BY <2>2, FS_Interval
  <2>4. Cardinality(1..n) = n BY <2>1, <2>3
  <2> QED BY <2>4 DEF n, ImplIds
<1>13. Cardinality(S) \in Nat BY <1>10, FS_CardinalityType
<1> QED BY <1>7, <1>9, <1>10, <1>11, <1>12, <1>13

\* A handle gets an implementation no other thread uses.
LEMMA ReplaceLemma ==
  ASSUME Shape, NEW t \in scenario.threads, NEW new, Replace(t, new)
  PROVE  \E id \in ImplIds : /\ table' = [table EXCEPT ![t] = id]
                             /\ impl' = [impl EXCEPT ![id] = new]
                             /\ \A u \in scenario.threads : table[u] = id => u = t
<1>1. t \in Threads /\ table[t] \in ImplIds BY ThreadsOf DEF Shape
<1>2. CASE Users(table[t]) = {t}
  <2>1. \A u \in scenario.threads : table[u] = table[t] => u = t BY <1>2 DEF Users
  <2> QED BY <1>1, <1>2, <2>1 DEF Replace
<1>3. CASE Users(table[t]) # {t}
  <2> DEFINE id == CHOOSE i \in Unused : \A j \in Unused : i <= j
  <2>1. Unused # {} BY <1>3, OneIsUnused
  <2>2. Unused \in SUBSET Nat BY DEF Unused, ImplIds
  <2>3. id \in Unused BY <2>1, <2>2, SmallestExists
  <2>4. table' = [table EXCEPT ![t] = id] /\ impl' = [impl EXCEPT ![id] = new]
    BY <1>3 DEF Replace
  <2> HIDE DEF id
  <2>5. id \in ImplIds /\ \A u \in scenario.threads : table[u] # id
    BY <2>3 DEF Unused, Users
  <2> QED BY <2>4, <2>5
<1> QED BY <1>2, <1>3

\* The invariant holds of an empty table.
LEMMA InitTableInv == Init => TableInv
<1> SUFFICES ASSUME Init PROVE TableInv OBVIOUS
<1>1. Threads # {} => 1 \in ImplIds
  <2> SUFFICES ASSUME Threads # {} PROVE 1 \in ImplIds OBVIOUS
  <2>1. IsFiniteSet(Threads) BY BoundsAssumption
  <2>2. Cardinality(Threads) \in Nat /\ Cardinality(Threads) # 0
    BY <2>1, FS_CardinalityType, FS_EmptySet
  <2> QED BY <2>2 DEF ImplIds
<1>2. Shape
  <2>1. \A t \in Threads : 1 \in ImplIds BY <1>1
  <2> QED BY <2>1 DEF Init, Shape, States
<1>3. Tables BY NewImplLemma DEF Init, Tables
<1>4. Pending /\ AtWork BY DEF Init, Pending, AtWork
<1> QED BY <1>2, <1>3, <1>4 DEF TableInv

\* One implementation is replaced, one that no other thread waits to copy.
LEMMA OneTableChanges ==
  ASSUME TableInv, NEW t \in scenario.threads, NEW id \in ImplIds, NEW new, TableOK(new),
         impl' = [impl EXCEPT ![id] = new], scenario' = scenario,
         \/ table' = table
         \/ table' = [table EXCEPT ![t] = id],
         \A u \in scenario.threads : table[u] = id => u = t,
         mutex' = mutex,
         \/ UNCHANGED <<pc, op>> /\ pc[t] # "copying"
         \/ pc' = [pc EXCEPT ![t] = "idle"] /\ op' = [op EXCEPT ![t] = <<"none">>]
  PROVE  TableInv'
<1>1. t \in Threads BY ThreadsOf DEF TableInv
<1> USE DEF TableInv
<1>2. Shape'
  <2>1. table' \in [Threads -> ImplIds] BY <1>1 DEF Shape
  <2>2. pc' \in [Threads -> States] BY <1>1 DEF Shape, States
  <2>3. impl' = [i \in ImplIds |-> impl'[i]] BY DEF Shape
  <2>4. op' = [u \in Threads |-> op'[u]] BY DEF Shape
  <2> QED BY <2>1, <2>2, <2>3, <2>4 DEF Shape
<1>3. Tables' BY DEF Shape, Tables
<1>4. ASSUME NEW u \in Threads, pc'[u] = "copying"
      PROVE  /\ u # t /\ pc[u] = "copying" /\ op'[u] = op[u]
             /\ impl'[table'[u]] = impl[table[u]]
  <2>1. u # t /\ pc[u] = "copying" /\ op'[u] = op[u] BY <1>1, <1>4 DEF Shape
  <2>2. u \in scenario.threads BY <2>1 DEF AtWork
  <2>3. table[u] # id /\ table'[u] = table[u] BY <2>1, <2>2 DEF Shape
  <2>4. table[u] \in ImplIds BY DEF Shape
  <2> QED BY <2>1, <2>3, <2>4 DEF Shape
<1>5. Pending' BY <1>4 DEF Pending
<1>6. AtWork' BY <1>1 DEF Shape, AtWork
<1> QED BY <1>2, <1>3, <1>5, <1>6

\* Only what a thread is in the middle of changes.
LEMMA OnlyPcChanges ==
  ASSUME TableInv, NEW t \in scenario.threads, NEW s \in States, s # "copying",
         pc' = [pc EXCEPT ![t] = s], mutex' \in [ImplIds -> Threads \cup {Free}],
         UNCHANGED <<scenario, impl, table, op>>
  PROVE  TableInv'
<1> USE DEF TableInv
<1>1. Shape' BY DEF Shape
<1>2. Tables' BY DEF Tables
<1>3. Pending' BY DEF Pending, Shape
<1>4. AtWork' BY DEF AtWork, Shape
<1> QED BY <1>1, <1>2, <1>3, <1>4

-----------------------------------------------------------------------------
(* Every step keeps the invariant, and the invariant is what is promised.  *)

\* Every step of every thread keeps the invariant.
LEMMA NextTableInv == TableInv /\ [Next]_vars => TableInv'
<1> SUFFICES ASSUME TableInv, [Next]_vars PROVE TableInv' OBVIOUS
<1>s. Shape BY DEF TableInv
<1>m. \A t \in Threads : table[t] \in ImplIds /\ TableOK(Mine(t))
  BY DEF TableInv, Shape, Tables, Mine
<1>1. ASSUME NEW t \in Threads, StartChange(t) PROVE TableInv'
  <2>1. t \in scenario.threads /\ pc[t] = "idle" BY <1>1 DEF StartChange, Idle
  <2>2. PICK o \in Changes(t) :
          IF MayMutate(t)
          THEN /\ impl' = [impl EXCEPT ![table[t]] = Changed(@, o)]
               /\ UNCHANGED <<pc, op>>
          ELSE /\ pc' = [pc EXCEPT ![t] = "copying"]
               /\ op' = [op EXCEPT ![t] = o]
               /\ UNCHANGED impl
    BY <1>1 DEF StartChange
  <2>3. UNCHANGED <<scenario, table, mutex>> BY <1>1 DEF StartChange
  <2>4. OpOK(scenario.threads, Mine(t), o) BY <1>m, <1>s, ChangesAreOK
  <2>5. CASE MayMutate(t)
    <3> DEFINE new == Changed(Mine(t), o)
    <3>1. TableOK(new) BY <1>m, <2>4, ChangedOK
    <3>2. impl' = [impl EXCEPT ![table[t]] = new] BY <2>2, <2>5 DEF Mine
    <3>3. \A u \in scenario.threads : table[u] = table[t] => u = t
      BY <2>5 DEF MayMutate, Users
    <3>4. UNCHANGED <<pc, op>> /\ pc[t] # "copying" BY <2>1, <2>2, <2>5
    <3> HIDE DEF new
    <3> QED BY <1>m, <2>1, <2>3, <3>1, <3>2, <3>3, <3>4, OneTableChanges
  <2>6. CASE ~MayMutate(t)
    <3>1. /\ pc' = [pc EXCEPT ![t] = "copying"] /\ op' = [op EXCEPT ![t] = o]
          /\ UNCHANGED <<impl, scenario, table, mutex>>
      BY <2>2, <2>3, <2>6
    <3>2. Shape' BY <3>1, <1>s DEF Shape, States
    <3>3. Tables' BY <3>1 DEF Tables, TableInv
    <3>4. Pending' BY <1>s, <2>4, <3>1 DEF Pending, TableInv, Shape, Mine
    <3>5. AtWork' BY <1>s, <2>1, <3>1 DEF AtWork, TableInv, Shape
    <3> QED BY <3>2, <3>3, <3>4, <3>5 DEF TableInv
  <2> QED BY <2>5, <2>6
<1>2. ASSUME NEW t \in Threads, FinishChange(t) PROVE TableInv'
  <2> DEFINE new == Changed(CopyOf(Mine(t)), op[t])
  <2>1. /\ pc[t] = "copying" /\ Replace(t, new) /\ pc' = [pc EXCEPT ![t] = "idle"]
        /\ op' = [op EXCEPT ![t] = <<"none">>] /\ UNCHANGED <<scenario, mutex>>
    BY <1>2 DEF FinishChange
  <2>2. t \in scenario.threads BY <2>1 DEF TableInv, AtWork
  <2>3. OpOK(scenario.threads, Mine(t), op[t]) BY <2>1 DEF TableInv, Pending, Mine
  <2>4. TableOK(CopyOf(Mine(t))) /\ Written(CopyOf(Mine(t))) = Written(Mine(t))
    BY <1>m, CopyLemma
  <2>5. OpOK(scenario.threads, CopyOf(Mine(t)), op[t]) BY <1>m, <2>3, <2>4, SameOps
  <2>6. TableOK(new) BY <2>4, <2>5, ChangedOK
  <2> HIDE DEF new
  <2>7. PICK id \in ImplIds : /\ table' = [table EXCEPT ![t] = id]
                              /\ impl' = [impl EXCEPT ![id] = new]
                              /\ \A u \in scenario.threads : table[u] = id => u = t
    BY <1>s, <2>1, <2>2, ReplaceLemma
  <2> QED BY <2>1, <2>2, <2>6, <2>7, OneTableChanges
<1>3. ASSUME NEW t \in Threads, Reload(t) PROVE TableInv'
  <2>1. /\ t \in scenario.threads /\ pc[t] = "idle" /\ UNCHANGED <<scenario, pc, op, mutex>>
    BY <1>3 DEF Reload, Idle
  <2>2. PICK new \in {WriteAndRead(Mine(t)), WriteAndReadText(Mine(t))} : Replace(t, new)
    BY <1>3 DEF Reload
  <2>3. TableOK(new)
    <3>1. TableOK(WriteAndRead(Mine(t))) BY <1>m, ReadLemma
    <3>2. TableOK(WriteAndReadText(Mine(t))) BY <1>m, ReadTextLemma
    <3> QED BY <3>1, <3>2
  <2>4. PICK id \in ImplIds : /\ table' = [table EXCEPT ![t] = id]
                              /\ impl' = [impl EXCEPT ![id] = new]
                              /\ \A u \in scenario.threads : table[u] = id => u = t
    BY <1>s, <2>1, <2>2, ReplaceLemma
  <2>5. UNCHANGED <<pc, op>> /\ pc[t] # "copying" BY <2>1
  <2> QED BY <2>1, <2>3, <2>4, <2>5, OneTableChanges
<1>4. ASSUME NEW t \in Threads, AskCheckSum(t) PROVE TableInv'
  <2>1. /\ t \in scenario.threads /\ UNCHANGED <<scenario, impl, table, op, mutex>>
        /\ pc' = [pc EXCEPT ![t] = IF Mine(t).finalized THEN "reading" ELSE "exclusive"]
    BY <1>4 DEF AskCheckSum, Idle
  <2>2. mutex' \in [ImplIds -> Threads \cup {Free}] BY <1>s, <2>1 DEF Shape
  <2> DEFINE s == IF Mine(t).finalized THEN "reading" ELSE "exclusive"
  <2>3. s \in States /\ s # "copying" BY DEF States
  <2>4. pc' = [pc EXCEPT ![t] = s] BY <2>1
  <2> HIDE DEF s
  <2> QED BY <2>1, <2>2, <2>3, <2>4, OnlyPcChanges
<1>5. ASSUME NEW t \in Threads, RecheckCheckSum(t) PROVE TableInv'
  <2>1. pc[t] = "exclusive" /\ UNCHANGED <<scenario, impl, table, op>>
    BY <1>5 DEF RecheckCheckSum
  <2>2. t \in scenario.threads BY <2>1 DEF TableInv, AtWork
  <2>3. mutex' \in [ImplIds -> Threads \cup {Free}]
    BY <1>s, <1>5 DEF RecheckCheckSum, Shape
  <2>4. \E s \in {"reading", "computing"} : pc' = [pc EXCEPT ![t] = s]
    BY <1>5 DEF RecheckCheckSum
  <2>5. \A s \in {"reading", "computing"} : s \in States /\ s # "copying" BY DEF States
  <2> QED BY <2>1, <2>2, <2>3, <2>4, <2>5, OnlyPcChanges
<1>6. ASSUME NEW t \in Threads, ComputeCheckSum(t) PROVE TableInv'
  <2> DEFINE id == table[t]
             new == WithCheckSums(Mine(t))
  <2>1. /\ pc[t] = "computing" /\ UNCHANGED <<scenario, table, op>>
        /\ impl' = [impl EXCEPT ![id] = new]
        /\ pc' = [pc EXCEPT ![t] = "reading"] /\ mutex' = [mutex EXCEPT ![id] = Free]
    BY <1>6 DEF ComputeCheckSum, Mine
  <2>2. t \in scenario.threads /\ id \in ImplIds BY <1>m, <2>1 DEF TableInv, AtWork
  <2>3. TableOK(new) /\ Written(new) = Written(Mine(t)) BY <1>m, WithCheckSumsLemma
  <2> HIDE DEF new, id
  <2>4. Shape' BY <1>s, <2>1, <2>2 DEF Shape, States
  <2>5. Tables' BY <1>s, <2>1, <2>2, <2>3 DEF Tables, TableInv, Shape
  <2>6. Pending'
    <3> SUFFICES ASSUME NEW u \in Threads, pc'[u] = "copying"
                 PROVE  OpOK(scenario'.threads, impl'[table'[u]], op'[u])
      BY DEF Pending
    <3>1. pc[u] = "copying" /\ op'[u] = op[u] /\ table'[u] = table[u] /\ scenario' = scenario
      BY <1>s, <2>1 DEF Shape
    <3>2. OpOK(scenario.threads, impl[table[u]], op[u]) BY <3>1 DEF TableInv, Pending
    <3>3. CASE table[u] = id
      <4>1. impl'[table'[u]] = new BY <1>s, <2>1, <2>2, <3>1, <3>3 DEF Shape
      <4>2. impl[table[u]] = Mine(t) BY <3>3 DEF Mine, id
      <4> QED BY <1>m, <2>3, <3>1, <3>2, <4>1, <4>2, SameOps
    <3>4. CASE table[u] # id
      <4>1. impl'[table'[u]] = impl[table[u]] BY <1>s, <1>m, <2>1, <3>1, <3>4 DEF Shape
      <4> QED BY <3>1, <3>2, <4>1
    <3> QED BY <3>3, <3>4
  <2>7. AtWork' BY <1>s, <2>1, <2>2 DEF AtWork, TableInv, Shape
  <2> QED BY <2>4, <2>5, <2>6, <2>7 DEF TableInv
<1>7. ASSUME NEW t \in Threads, UseCheckSum(t) PROVE TableInv'
  <2>1. /\ pc[t] = "reading" /\ pc' = [pc EXCEPT ![t] = "idle"]
        /\ UNCHANGED <<scenario, impl, table, op, mutex>>
    BY <1>7 DEF UseCheckSum
  <2>2. t \in scenario.threads BY <2>1 DEF TableInv, AtWork
  <2>3. mutex' \in [ImplIds -> Threads \cup {Free}] BY <1>s, <2>1 DEF Shape
  <2>4. "idle" \in States /\ "idle" # "copying" BY DEF States
  <2> QED BY <2>1, <2>2, <2>3, <2>4, OnlyPcChanges
<1>8. ASSUME NEW t \in Threads, NEW u \in Threads, Share(t, u) PROVE TableInv'
  <2>1. /\ t \in scenario.threads /\ u \in scenario.threads /\ pc[t] = "idle" /\ pc[u] = "idle"
        /\ table' = [table EXCEPT ![u] = table[t]] /\ UNCHANGED <<scenario, pc, op, mutex>>
        /\ impl' = IF Users(table[u]) = {u} /\ table[u] # table[t]
                   THEN [impl EXCEPT ![table[u]] = NewImpl] ELSE impl
    BY <1>8 DEF Share, Idle
  <2>2. Shape' BY <1>s, <2>1 DEF Shape
  <2>3. Tables' BY <1>s, <2>1, NewImplLemma DEF Tables, TableInv, Shape
  <2>4. Pending'
    <3> SUFFICES ASSUME NEW v \in Threads, pc'[v] = "copying"
                 PROVE  OpOK(scenario'.threads, impl'[table'[v]], op'[v])
      BY DEF Pending
    <3>1. pc[v] = "copying" /\ op'[v] = op[v] /\ v # u /\ scenario' = scenario BY <2>1
    <3>2. table'[v] = table[v] BY <1>s, <2>1, <3>1 DEF Shape
    <3>3. OpOK(scenario.threads, impl[table[v]], op[v]) /\ v \in scenario.threads
      BY <3>1 DEF TableInv, Pending, AtWork
    <3>4. impl'[table[v]] = impl[table[v]]
      <4>1. CASE Users(table[u]) = {u} /\ table[u] # table[t]
        <5>1. table[v] # table[u] BY <3>1, <3>3, <4>1 DEF Users
        <5> QED BY <1>s, <1>m, <2>1, <4>1, <5>1 DEF Shape
      <4>2. CASE ~(Users(table[u]) = {u} /\ table[u] # table[t]) BY <2>1, <4>2
      <4> QED BY <4>1, <4>2
    <3> QED BY <3>1, <3>2, <3>3, <3>4
  <2>5. AtWork' BY <2>1 DEF AtWork, TableInv
  <2> QED BY <2>2, <2>3, <2>4, <2>5 DEF TableInv
<1>9. CASE UNCHANGED vars
  <2>1. UNCHANGED <<scenario, impl, table, pc, op, mutex>> BY <1>9 DEF vars
  <2> QED BY <2>1 DEF TableInv, Shape, Tables, Pending, AtWork
<1> QED BY <1>1, <1>2, <1>3, <1>4, <1>5, <1>6, <1>7, <1>8, <1>9 DEF Next

\* The invariant holds always.
LEMMA TableInvHolds == Spec => []TableInv
BY InitTableInv, NextTableInv, PTL DEF Spec

\* The invariant says more than that a table is a mapping.
LEMMA InvIsMapping == TableInv => TableIsAMapping
<1> SUFFICES ASSUME TableInv PROVE TableIsAMapping OBVIOUS
<1>1. ASSUME NEW i \in ImplIds PROVE TableOK(impl[i]) BY DEF TableInv, Tables
<1>2. TypeOK
  <2>1. \A i \in ImplIds :
          /\ impl[i].available \in Nat /\ impl[i].finalized \in BOOLEAN
          /\ impl[i].dense \in 0..Size(impl[i].map)
          /\ Len(impl[i].idxKey) = Size(impl[i].map) - impl[i].dense
    BY <1>1 DEF TableOK
  <2> QED BY <2>1 DEF TableInv, Shape, States, TypeOK
<1>3. HashTableNeverFull
  <2> SUFFICES ASSUME NEW i \in ImplIds
               PROVE  \E b \in DOMAIN impl[i].map.buckets : impl[i].map.buckets[b] = empty_
    BY DEF HashTableNeverFull
  <2>1. HashOK(impl[i].map) BY <1>1 DEF TableOK
  <2> QED BY <2>1, NoneTaken
<1>4. FindIsTwoWay
  <2> SUFFICES ASSUME NEW i \in ImplIds
               PROVE  LET t == impl[i]
                          pairs == ToSet(Written(t))
                      IN  /\ Entries(t) = Written(t)
                          /\ \A s \in Symbols :
                               IF s \in ToSet(t.map.symbols) THEN <<s, FindKey(t, s)>> \in pairs
                                                             ELSE FindKey(t, s) = kNoSymbol
                          /\ \A k \in -3..MaxKey+Cardinality(Symbols)+1 :
                               \/ <<FindSymbol(t, k), k>> \in pairs
                               \/ FindSymbol(t, k) = "" /\ \A p \in pairs : p[2] # k
    BY DEF FindIsTwoWay
  <2> DEFINE t == impl[i]
             pairs == ToSet(Written(t))
             n == Size(t.map)
  <2>1. TableOK(t) BY <1>1
  <2> HIDE DEF t
  <2>2. /\ Written(t) = [q \in 1..n |-> <<t.map.symbols[q], KeyAt(t, q)>>]
        /\ DOMAIN Written(t) = 1..n /\ Entries(t) = Written(t)
    BY <2>1, WrittenLemma
  <2>3. pairs = {<<t.map.symbols[q], KeyAt(t, q)>> : q \in 1..n} BY <2>2 DEF ToSet
  <2>4. ToSet(t.map.symbols) = {t.map.symbols[q] : q \in 1..n}
    <3>1. DOMAIN t.map.symbols = 1..n BY <2>1 DEF TableOK, HashOK, Size
    <3> QED BY <3>1 DEF ToSet
  <2> HIDE DEF pairs, n
  <2>5. ASSUME NEW s \in Symbols
        PROVE  IF s \in ToSet(t.map.symbols) THEN <<s, FindKey(t, s)>> \in pairs
                                             ELSE FindKey(t, s) = kNoSymbol
    <3>1. CASE s \in ToSet(t.map.symbols)
      <4>1. PICK q \in 1..n : t.map.symbols[q] = s BY <2>4, <3>1
      <4>2. FindKey(t, s) = KeyAt(t, q) BY <2>1, <4>1, FindKeyLemma DEF n
      <4> QED BY <2>3, <3>1, <4>1, <4>2
    <3>2. CASE s \notin ToSet(t.map.symbols)
      <4>1. \A q \in 1..n : t.map.symbols[q] # s BY <2>4, <3>2
      <4>2. FindKey(t, s) = kNoSymbol BY <2>1, <4>1, FindKeyLemma DEF n
      <4> QED BY <3>2, <4>2
    <3> QED BY <3>1, <3>2
  <2>6. ASSUME NEW k \in -3..MaxKey+Cardinality(Symbols)+1
        PROVE  \/ <<FindSymbol(t, k), k>> \in pairs
               \/ FindSymbol(t, k) = "" /\ \A p \in pairs : p[2] # k
    <3>1. k \in Int
      <4>1. MaxKey \in Nat /\ Cardinality(Symbols) \in Nat
        BY BoundsAssumption, FS_CardinalityType
      <4> QED BY <4>1
    <3>2. CASE \E q \in 1..n : KeyAt(t, q) = k
      <4>1. PICK q \in 1..n : KeyAt(t, q) = k BY <3>2
      <4>2. FindSymbol(t, k) = t.map.symbols[q] BY <2>1, <4>1, FindSymbolLemma DEF n
      <4> QED BY <2>3, <4>1, <4>2
    <3>3. CASE \A q \in 1..n : KeyAt(t, q) # k
      <4>1. FindSymbol(t, k) = "" BY <2>1, <3>1, <3>3, FindSymbolLemma DEF n
      <4>2. \A p \in pairs : p[2] # k BY <2>3, <3>3
      <4> QED BY <4>1, <4>2
    <3> QED BY <3>2, <3>3
  <2> QED BY <2>2, <2>5, <2>6 DEF t, pairs
<1>5. NextKeyIsFresh
  <2> SUFFICES ASSUME NEW i \in ImplIds, NEW k \in KeysIn(impl[i]) PROVE k < impl[i].available
    BY DEF NextKeyIsFresh
  <2>1. KeysIn(impl[i]) = {KeyAt(impl[i], q) : q \in 1..Size(impl[i].map)}
    BY <1>1, NthKeyLemma
  <2>2. \A q \in 1..Size(impl[i].map) : KeyAt(impl[i], q) < impl[i].available
    BY <1>1, KeysLemma
  <2> QED BY <2>1, <2>2
<1> QED BY <1>2, <1>3, <1>4, <1>5 DEF TableIsAMapping

\* Whatever symbols, hash function, threads, keys and scenarios there are: after
\* any additions, removals, merges, copies and reloads, hash table, dense range
\* and containers describe one one-to-one mapping, searches end, and the next
\* key is fresh.
THEOREM Mapping == Spec => []TableIsAMapping
BY TableInvHolds, InvIsMapping, PTL

-----------------------------------------------------------------------------
(* The handles implement the owners' lists of FstSymbolMap.                *)

\* One more symbol of another table; the list of pairs grows by such steps.
Plus(state, e) == SymbolMap!Plus(state, e)
Joining == INSTANCE NumberTheorems WITH Step <- Plus

\* The symbols of the list of pairs.
LEMMA SymbolsListed ==
  ASSUME NEW t, TableOK(t)
  PROVE  /\ \A s : s \in SymbolMap!SymbolsOf(Written(t)) <=> Known(t, s)
         /\ SymbolMap!KeysOf(Written(t)) = KeysIn(t)
         /\ \A k : Fresh(t, k) => k \notin SymbolMap!KeysOf(Written(t))
<1> DEFINE W == Written(t)
<1>1. DOMAIN W = 1..Size(t.map)
      /\ \A i \in 1..Size(t.map) : W[i][1] = t.map.symbols[i] /\ W[i][2] = KeyAt(t, i)
  BY WrittenLemma
<1> HIDE DEF W
<1>2. \A s : s \in SymbolMap!SymbolsOf(W) <=> Known(t, s)
  BY <1>1 DEF SymbolMap!SymbolsOf, Known
<1>3. SymbolMap!KeysOf(W) = {KeyAt(t, i) : i \in 1..Size(t.map)}
  BY <1>1 DEF SymbolMap!KeysOf
<1>4. KeysIn(t) = {KeyAt(t, i) : i \in 1..Size(t.map)} BY NthKeyLemma
<1> QED BY <1>2, <1>3, <1>4 DEF W, Fresh

\* Adding a table is joining its list of pairs.
LEMMA AddTableJoins ==
  ASSUME NEW t, TableOK(t), NEW other, TableOK(other)
  PROVE  LET r == AddTable(t, other)
         IN  Joining!Folded(<<Written(t), t.available>>, Written(other))
               = <<Written(r), r.available>>
<1> DEFINE list == Written(other)
           n == Size(other.map)
           base == <<Written(t), t.available>>
<1>1. AddTable(t, other) = Merging!Folded(t, list)
  <2>1. AddTable(t, other) = Merging!Folded(t, Entries(other))
    BY DEF AddTable, Merging!Folded, FoldLeft, MapThenFoldSet, Merging!FoldLeft,
           Merging!MapThenFoldSet, Max, Merging!Max
  <2> QED BY <2>1, WrittenLemma
<1>2. /\ n \in Nat /\ Len(list) = n /\ DOMAIN list = 1..n
      /\ \A i \in 1..n : list[i][1] \in Symbols
  <2>1. Pairs(Written(other), n) BY WrittenPairs
  <2> QED BY <2>1, SizeLemma DEF Pairs
<1> HIDE DEF list, n
<1>3. Len(list) \in Nat /\ DOMAIN list = 1..Len(list) BY <1>2
<1>4. PICK g : Merging!IsChain(g, t, list) /\ Merging!Folded(t, list) = g[Len(list)]
  BY <1>3, Merging!FoldIsChain, Zenon
<1>5. /\ g[0] = t
      /\ \A k \in 1..n : g[k] = AddNext(g[k-1], list[k])
  BY <1>2, <1>4 DEF Merging!IsChain
<1> HIDE DEF base
<1>6. PICK h : Joining!IsChain(h, base, list) /\ Joining!Folded(base, list) = h[Len(list)]
  BY <1>3, Joining!FoldIsChain, Zenon
<1>7. /\ h[0] = base
      /\ \A k \in 1..n : h[k] = Plus(h[k-1], list[k])
  BY <1>2, <1>6 DEF Joining!IsChain
<1> DEFINE K == {k \in Nat : k <= n => /\ TableOK(g[k])
                                       /\ h[k] = <<Written(g[k]), g[k].available>>}
<1>8. 0 \in K BY <1>5, <1>7 DEF base
<1>9. ASSUME NEW k \in Nat, k \in K PROVE k + 1 \in K
  <2> SUFFICES ASSUME k + 1 <= n
               PROVE  /\ TableOK(g[k+1])
                      /\ h[k+1] = <<Written(g[k+1]), g[k+1].available>>
    OBVIOUS
  <2>0. TableOK(g[k]) /\ h[k] = <<Written(g[k]), g[k].available>> BY <1>2, <1>9
  <2>1. k + 1 \in 1..n /\ (k + 1) - 1 = k BY <1>2
  <2> DEFINE u == g[k]
             e == list[k+1]
             s == e[1]
             r == AddSymbol(u, s, u.available)
  <2>2. g[k+1] = r BY <1>5, <2>1 DEF AddNext
  <2>3. h[k+1] = SymbolMap!Plus(<<Written(u), u.available>>, e)
    <3>1. h[k+1] = Plus(h[k], e) BY <1>7, <2>1
    <3> QED BY <2>0, <3>1 DEF Plus
  <2>4. s \in Symbols BY <1>2, <2>1
  <2>5. TableOK(u) BY <2>0
  <2> HIDE DEF u, e, r
  <2>6. Fresh(u, u.available) /\ u.available \in Int /\ u.available # kNoSymbol
    BY <2>5, NextIsFresh
  <2> HIDE DEF s
  <2>7. Adds(u, s, u.available, r) BY <2>4, <2>5, <2>6, AddSymbolLemma DEF r
  <2>8. NextAvailable(u.available, u.available) = u.available + 1 BY <2>6 DEF NextAvailable
  <2>9. SymbolMap!Plus(<<Written(u), u.available>>, e) = <<Written(r), r.available>>
    <3>1. SymbolMap!Plus(<<Written(u), u.available>>, e)
            = IF Known(u, s) THEN <<Written(u), u.available>>
              ELSE <<Append(Written(u), <<s, u.available>>), u.available + 1>>
      BY <2>5, SymbolsListed DEF SymbolMap!Plus, s
    <3>2. CASE Known(u, s) BY <2>7, <3>1, <3>2 DEF Adds
    <3>3. CASE ~Known(u, s) BY <2>6, <2>7, <2>8, <3>1, <3>3 DEF Adds
    <3> QED BY <3>2, <3>3
  <2>10. TableOK(r) BY <2>7 DEF Adds
  <2> QED BY <2>2, <2>3, <2>9, <2>10
<1>10. n \in K
  <2> HIDE DEF K
  <2> QED BY <1>2, <1>8, <1>9, SetInduction
<1>11. h[n] = <<Written(g[n]), g[n].available>> BY <1>2, <1>10
<1>12. AddTable(t, other) = g[n] BY <1>1, <1>2, <1>4
<1>13. Joining!Folded(base, list) = h[n] BY <1>2, <1>6
<1> QED BY <1>11, <1>12, <1>13 DEF base, list

\* What a handle shows of an implementation.
Shows(t, m) == listed[t] = Written(m) /\ nextKey[t] = m.available
Becomes(t, r) == /\ listed' = [listed EXCEPT ![t] = Written(r)]
                 /\ nextKey' = [nextKey EXCEPT ![t] = r.available]

\* What a thread's handle shows follows from the implementation it refers to.
LEMMA OneHandleChanges ==
  ASSUME Shape, NEW t \in scenario.threads, NEW id \in ImplIds, NEW new,
         impl' = [impl EXCEPT ![id] = new], scenario' = scenario,
         \/ table' = table /\ id = table[t]
         \/ table' = [table EXCEPT ![t] = id],
         \A u \in scenario.threads : table[u] = id => u = t
  PROVE  Becomes(t, new)
<1>1. t \in Threads BY ThreadsOf
<1>2. table'[t] = id /\ impl'[id] = new BY <1>1 DEF Shape
<1>3. ASSUME NEW u \in scenario.threads, u # t PROVE impl'[table'[u]] = impl[table[u]]
  <2>1. u \in Threads /\ table'[u] = table[u] /\ table[u] \in ImplIds /\ table[u] # id
    BY <1>3, ThreadsOf DEF Shape
  <2> QED BY <2>1 DEF Shape
<1>4. listed' = [listed EXCEPT ![t] = Written(new)]
  <2> DEFINE now(u) == IF u \in scenario.threads THEN Written(impl[table[u]]) ELSE <<>>
             then(u) == IF u \in scenario.threads THEN Written(impl'[table'[u]]) ELSE <<>>
  <2>1. listed = [u \in Threads |-> now(u)] BY DEF listed, Mine
  <2>2. listed' = [u \in Threads |-> then(u)] BY DEF listed, Mine
  <2>3. \A u \in Threads : then(u) = IF u = t THEN Written(new) ELSE now(u) BY <1>2, <1>3
  <2> HIDE DEF now, then
  <2> QED BY <1>1, <2>1, <2>2, <2>3
<1>5. nextKey' = [nextKey EXCEPT ![t] = new.available]
  <2> DEFINE now(u) == IF u \in scenario.threads THEN impl[table[u]].available ELSE 0
             then(u) == IF u \in scenario.threads THEN impl'[table'[u]].available ELSE 0
  <2>1. nextKey = [u \in Threads |-> now(u)] BY DEF nextKey, Mine
  <2>2. nextKey' = [u \in Threads |-> then(u)] BY DEF nextKey, Mine
  <2>3. \A u \in Threads : then(u) = IF u = t THEN new.available ELSE now(u) BY <1>2, <1>3
  <2> HIDE DEF now, then
  <2> QED BY <1>1, <2>1, <2>2, <2>3
<1> QED BY <1>4, <1>5 DEF Becomes

\* A handle that changes nothing shows what it did before.
LEMMA HandlesStay ==
  ASSUME scenario' = scenario, table' = table,
         \A u \in scenario.threads : /\ Written(impl'[table[u]]) = Written(impl[table[u]])
                                     /\ impl'[table[u]].available = impl[table[u]].available
  PROVE  UNCHANGED SymbolMap!mapVars
<1>1. listed' = listed BY DEF listed, Mine
<1>2. nextKey' = nextKey BY DEF nextKey, Mine
<1> QED BY <1>1, <1>2 DEF SymbolMap!mapVars

\* The step of the owners' lists that a step of the table is.
Mapped == SymbolMap!MapNext \/ UNCHANGED SymbolMap!mapVars

\* A list that stays as it is.
LEMMA NothingChanges ==
  ASSUME NEW t \in Threads, listed' = [listed EXCEPT ![t] = listed[t]],
         nextKey' = [nextKey EXCEPT ![t] = nextKey[t]]
  PROVE  Mapped
<1>1. listed' = listed BY DEF listed
<1>2. nextKey' = nextKey BY DEF nextKey
<1> QED BY <1>1, <1>2 DEF Mapped, SymbolMap!mapVars

\* A symbol that was not in the list goes to its end.
LEMMA AddMapped ==
  ASSUME NEW t \in Threads, NEW m, TableOK(m), listed[t] = Written(m), nextKey[t] = m.available,
         NEW s \in Symbols, NEW key \in Int, key # kNoSymbol, Fresh(m, key), ~Known(m, s),
         listed' = [listed EXCEPT ![t] = Append(Written(m), <<s, key>>)],
         nextKey' = [nextKey EXCEPT ![t] = NextAvailable(m.available, key)]
  PROVE  Mapped
<1> DEFINE W == Written(m)
           e == <<s, key>>
           n == Size(m.map)
<1>1. W \in Seq(Symbols \X Int)
  <2>1. n \in Nat /\ \A i \in 1..n : m.map.symbols[i] \in Symbols BY SizeLemma
  <2>2. \A i \in 1..n : KeyAt(m, i) \in Int BY KeysLemma
  <2>3. W = [i \in 1..n |-> <<m.map.symbols[i], KeyAt(m, i)>>] BY WrittenLemma
  <2> HIDE DEF W, n
  <2>4. \A i \in 1..n : <<m.map.symbols[i], KeyAt(m, i)>> \in Symbols \X Int BY <2>1, <2>2
  <2> QED BY <2>1, <2>3, <2>4
<1>2. s \notin SymbolMap!SymbolsOf(W) /\ key \notin SymbolMap!KeysOf(W) BY SymbolsListed
<1> HIDE DEF W
<1>3. e \in Symbols \X Int OBVIOUS
<1> HIDE DEF e
<1> DEFINE V == Append(W, e)
<1>4. Len(V) = Len(W) + 1 /\ Len(W) \in Nat /\ V[Len(V)] = e BY <1>1, <1>3
<1>5. Last(V) = e BY <1>4 DEF Last
<1>6. listed[t] = W /\ listed'[t] = V /\ listed' = [listed EXCEPT ![t] = V]
  BY DEF W, e, listed
<1>7. nextKey' = [nextKey EXCEPT ![t] = SymbolMap!Raised(nextKey[t], key)]
  BY DEF NextAvailable, SymbolMap!Raised
<1>8. e[1] = s /\ e[2] = key BY DEF e
<1> HIDE DEF V
<1>9. Len(listed'[t]) > Len(listed[t]) BY <1>4, <1>6
<1>10. SymbolMap!Last(listed'[t]) = e BY <1>5, <1>6 DEF Last, SymbolMap!Last
<1>11. SymbolMap!AddEntry(t)
  BY <1>2, <1>3, <1>6, <1>7, <1>8, <1>9, <1>10 DEF SymbolMap!AddEntry, V
<1> QED BY <1>11 DEF Mapped, SymbolMap!MapNext

\* The list of another handle is joined to one.
LEMMA MergeMapped ==
  ASSUME NEW t \in Threads, NEW u \in Threads, NEW m, TableOK(m), NEW other, TableOK(other),
         listed[t] = Written(m), nextKey[t] = m.available, listed[u] = Written(other),
         NEW r, r = AddTable(m, other),
         listed' = [listed EXCEPT ![t] = Written(r)],
         nextKey' = [nextKey EXCEPT ![t] = r.available]
  PROVE  Mapped
<1>1. Joining!Folded(<<listed[t], nextKey[t]>>, listed[u]) = <<Written(r), r.available>>
  BY AddTableJoins
<1> DEFINE merged == SymbolMap!FoldLeft(SymbolMap!Plus, <<listed[t], nextKey[t]>>, listed[u])
<1>2. merged = Joining!Folded(<<listed[t], nextKey[t]>>, listed[u])
  BY DEF Joining!Folded, FoldLeft, MapThenFoldSet, Joining!FoldLeft, Joining!MapThenFoldSet,
         SymbolMap!FoldLeft, SymbolMap!MapThenFoldSet, Max, Joining!Max, SymbolMap!Max, Plus
<1>3. merged[1] = Written(r) /\ merged[2] = r.available BY <1>1, <1>2
<1>4. SymbolMap!Merge(t, u) BY <1>3 DEF SymbolMap!Merge
<1> QED BY <1>4 DEF Mapped, SymbolMap!MapNext

\* One pair of the list goes, or a key that nobody has is removed.
LEMMA RemoveMapped ==
  ASSUME NEW t \in Threads, NEW m, TableOK(m), listed[t] = Written(m), nextKey[t] = m.available,
         NEW key \in KeysIn(m) \cup {kNoSymbol}, NEW r, Removes(m, key, r),
         listed' = [listed EXCEPT ![t] = Written(r)],
         nextKey' = [nextKey EXCEPT ![t] = r.available]
  PROVE  Mapped
<1>1. CASE key = kNoSymbol
  <2>1. r = m BY <1>1 DEF Removes
  <2> QED BY <2>1, NothingChanges
<1>2. CASE key # kNoSymbol
  <2>1. PICK q \in 1..Size(m.map) : KeyAt(m, q) = key BY <1>2, NthKeyLemma
  <2>2. /\ Written(r) = RemoveAt(Written(m), q)
        /\ r.available = IF key = m.available - 1 THEN key ELSE m.available
    BY <2>1 DEF Removes
  <2>3. q \in DOMAIN listed[t] /\ listed[t][q][2] = key BY <2>1, WrittenLemma
  <2>4. RemoveAt(Written(m), q) = SymbolMap!RemoveAt(listed[t], q)
    BY DEF RemoveAt, SymbolMap!RemoveAt
  <2>5. listed' = [listed EXCEPT ![t] = SymbolMap!RemoveAt(listed[t], q)] BY <2>2, <2>4
  <2>6. nextKey' = [nextKey EXCEPT ![t] = IF listed[t][q][2] = nextKey[t] - 1
                                          THEN listed[t][q][2] ELSE nextKey[t]]
    BY <2>2, <2>3
  <2>7. SymbolMap!RemoveEntry(t) BY <2>3, <2>5, <2>6 DEF SymbolMap!RemoveEntry
  <2> QED BY <2>7 DEF Mapped, SymbolMap!MapNext
<1> QED BY <1>1, <1>2

\* The list is read from its text: the next key is one above the highest.
LEMMA RecallMapped ==
  ASSUME NEW t \in Threads, NEW m, TableOK(m), listed[t] = Written(m), nextKey[t] = m.available,
         NEW r, TableOK(r), Written(r) = Written(m), IsRecalled(m, r.available),
         listed' = [listed EXCEPT ![t] = Written(r)],
         nextKey' = [nextKey EXCEPT ![t] = r.available]
  PROVE  Mapped
<1> DEFINE a == r.available
           k == a - 1
<1>1. a \in Nat BY DEF TableOK
<1>2. KeysIn(r) = KeysIn(m) /\ KeysIn(r) = {KeyAt(r, i) : i \in 1..Size(r.map)}
  BY SameKeys, NthKeyLemma
<1>3. \A i \in 1..Size(r.map) : KeyAt(r, i) \in Int /\ KeyAt(r, i) < a BY KeysLemma
<1>4. SymbolMap!KeysOf(listed[t]) = KeysIn(m) BY SymbolsListed
<1>5. KeysIn(m) = {KeyAt(m, i) : i \in 1..Size(m.map)} BY NthKeyLemma
<1>6. a = 0 \/ \E i \in 1..Size(m.map) : a = KeyAt(m, i) + 1 BY DEF IsRecalled
<1>7. \A i \in 1..Size(m.map) : KeyAt(m, i) \in Int BY KeysLemma
<1> HIDE DEF a
<1>8. k \in KeysIn(m) \cup {-1}
  <2>1. CASE a = 0 BY <2>1
  <2>2. CASE \E i \in 1..Size(m.map) : a = KeyAt(m, i) + 1
    <3>1. PICK i \in 1..Size(m.map) : a = KeyAt(m, i) + 1 BY <2>2
    <3>2. k = KeyAt(m, i) BY <1>7, <3>1
    <3> QED BY <1>5, <3>2
  <2> QED BY <1>6, <2>1, <2>2
<1>9. \A j \in KeysIn(m) : j <= k
  <2> SUFFICES ASSUME NEW j \in KeysIn(m) PROVE j <= k OBVIOUS
  <2>1. j \in Int /\ j < a BY <1>2, <1>3
  <2> QED BY <1>1, <2>1
<1>10. k + 1 = a BY <1>1
<1>11. listed' = listed BY DEF listed
<1>12. nextKey' = [nextKey EXCEPT ![t] = k + 1] BY <1>10 DEF a
<1> HIDE DEF k
<1>13. SymbolMap!Recall(t)
  BY <1>4, <1>8, <1>9, <1>11, <1>12 DEF SymbolMap!Recall
<1> QED BY <1>13 DEF Mapped, SymbolMap!MapNext

\* The implementation of a handle of the scenario is shown.
LEMMA MineShows ==
  ASSUME Shape, NEW t \in scenario.threads
  PROVE  Shows(t, Mine(t))
BY ThreadsOf DEF Shows, listed, nextKey

\* AddSymbol is an addition to the list, or changes nothing.
LEMMA AddSymbolMapped ==
  ASSUME NEW t \in Threads, NEW m, TableOK(m), Shows(t, m),
         NEW s \in Symbols, NEW key \in Int, Fresh(m, key),
         Becomes(t, AddSymbol(m, s, key))
  PROVE  Mapped
<1> DEFINE r == AddSymbol(m, s, key)
<1>1. Adds(m, s, key, r) BY AddSymbolLemma
<1>2. Becomes(t, r) OBVIOUS
<1> HIDE DEF r
<1>3. CASE Known(m, s) \/ key = kNoSymbol
  <2>1. Written(r) = listed[t] /\ r.available = nextKey[t] BY <1>1, <1>3 DEF Adds, Shows
  <2> QED BY <1>2, <2>1, NothingChanges DEF Becomes
<1>4. CASE ~Known(m, s) /\ key # kNoSymbol
  <2>1. /\ Written(r) = Append(Written(m), <<s, key>>)
        /\ r.available = NextAvailable(m.available, key)
    BY <1>1, <1>4 DEF Adds
  <2>2. /\ listed' = [listed EXCEPT ![t] = Append(Written(m), <<s, key>>)]
        /\ nextKey' = [nextKey EXCEPT ![t] = NextAvailable(m.available, key)]
    BY <1>2, <2>1 DEF Becomes
  <2> QED BY <1>4, <2>2, AddMapped DEF Shows
<1> QED BY <1>3, <1>4

\* Every change an owner asks for is a step of its list.
LEMMA ChangeMapped ==
  ASSUME TableInv, NEW t \in scenario.threads, NEW m, TableOK(m), Shows(t, m),
         NEW o, OpOK(scenario.threads, m, o), Becomes(t, Changed(m, o))
  PROVE  Mapped
<1>t. t \in Threads BY ThreadsOf DEF TableInv
<1>1. CASE \E s \in Symbols, k \in Int : o = <<"add", s, k>> /\ Fresh(m, k)
  <2>1. PICK s \in Symbols, k \in Int : o = <<"add", s, k>> /\ Fresh(m, k) BY <1>1
  <2>2. Changed(m, o) = AddSymbol(m, s, k) BY <2>1 DEF Changed
  <2> QED BY <1>t, <2>1, <2>2, AddSymbolMapped
<1>2. CASE \E s \in Symbols : o = <<"addNext", s>>
  <2>1. PICK s \in Symbols : o = <<"addNext", s>> BY <1>2
  <2>2. Changed(m, o) = AddSymbol(m, s, m.available) BY <2>1 DEF Changed
  <2>3. Fresh(m, m.available) /\ m.available \in Int BY NextIsFresh
  <2> QED BY <1>t, <2>2, <2>3, AddSymbolMapped
<1>3. CASE \E u \in scenario.threads : o = <<"addTable", u>>
  <2>1. PICK u \in scenario.threads : o = <<"addTable", u>> BY <1>3
  <2>2. Changed(m, o) = AddTable(m, Mine(u)) BY <2>1 DEF Changed
  <2>3. TableOK(Mine(u)) /\ u \in Threads BY ThreadsOf DEF TableInv, Shape, Tables, Mine
  <2>4. listed[u] = Written(Mine(u)) BY MineShows DEF TableInv, Shows
  <2> DEFINE other == Mine(u)
             r == AddTable(m, other)
  <2>5. /\ listed' = [listed EXCEPT ![t] = Written(r)]
        /\ nextKey' = [nextKey EXCEPT ![t] = r.available]
    BY <2>2 DEF Becomes
  <2>6. r = AddTable(m, other) OBVIOUS
  <2>7. TableOK(other) /\ u \in Threads /\ listed[u] = Written(other) BY <2>3, <2>4
  <2>8. listed[t] = Written(m) /\ nextKey[t] = m.available BY DEF Shows
  <2> HIDE DEF r, other
  <2> QED BY <1>t, <2>5, <2>6, <2>7, <2>8, MergeMapped
<1>4. CASE \E k \in KeysIn(m) \cup {kNoSymbol} : o = <<"remove", k>>
  <2>1. PICK k \in KeysIn(m) \cup {kNoSymbol} : o = <<"remove", k>> BY <1>4
  <2>2. Changed(m, o) = RemoveSymbol(m, k) BY <2>1 DEF Changed
  <2>3. Removes(m, k, RemoveSymbol(m, k)) BY RemoveSymbolLemma
  <2> QED BY <1>t, <2>2, <2>3, RemoveMapped DEF Shows, Becomes
<1> QED BY <1>1, <1>2, <1>3, <1>4 DEF OpOK

\* Every step of a thread is one of its list, or invisible.
LEMMA StepMapped == TableInv /\ [Next]_vars => [SymbolMap!MapNext]_(SymbolMap!mapVars)
<1> SUFFICES ASSUME TableInv, [Next]_vars PROVE Mapped BY DEF Mapped
<1>s. Shape BY DEF TableInv
<1>m. \A t \in Threads : table[t] \in ImplIds /\ TableOK(Mine(t))
  BY DEF TableInv, Shape, Tables, Mine
<1>1. ASSUME NEW t \in Threads, StartChange(t) PROVE Mapped
  <2>1. t \in scenario.threads /\ pc[t] = "idle" BY <1>1 DEF StartChange, Idle
  <2>2. PICK o \in Changes(t) :
          IF MayMutate(t)
          THEN /\ impl' = [impl EXCEPT ![table[t]] = Changed(@, o)]
               /\ UNCHANGED <<pc, op>>
          ELSE /\ pc' = [pc EXCEPT ![t] = "copying"]
               /\ op' = [op EXCEPT ![t] = o]
               /\ UNCHANGED impl
    BY <1>1 DEF StartChange
  <2>3. UNCHANGED <<scenario, table, mutex>> BY <1>1 DEF StartChange
  <2>4. OpOK(scenario.threads, Mine(t), o) BY <1>m, <1>s, ChangesAreOK
  <2>5. CASE MayMutate(t)
    <3> DEFINE new == Changed(Mine(t), o)
               id == table[t]
    <3>1. impl' = [impl EXCEPT ![id] = new] BY <2>2, <2>5 DEF Mine
    <3>2. \A u \in scenario.threads : table[u] = id => u = t
      BY <2>5 DEF MayMutate, Users
    <3>3. id \in ImplIds BY <1>m
    <3>4. table' = table /\ id = table[t] /\ scenario' = scenario BY <2>3
    <3> HIDE DEF new, id
    <3>5. Becomes(t, new) BY <1>s, <2>1, <3>1, <3>2, <3>3, <3>4, OneHandleChanges
    <3>6. Shows(t, Mine(t)) BY <1>s, <2>1, MineShows
    <3> QED BY <1>m, <2>1, <2>4, <3>5, <3>6, ChangeMapped DEF new
  <2>6. CASE ~MayMutate(t)
    <3>1. UNCHANGED <<impl, scenario, table>> BY <2>2, <2>3, <2>6
    <3>2. UNCHANGED SymbolMap!mapVars BY <3>1, HandlesStay
    <3> QED BY <3>2 DEF Mapped
  <2> QED BY <2>5, <2>6
<1>2. ASSUME NEW t \in Threads, FinishChange(t) PROVE Mapped
  <2> DEFINE copy == CopyOf(Mine(t))
             new == Changed(copy, op[t])
  <2>1. pc[t] = "copying" /\ Replace(t, new) /\ scenario' = scenario
    BY <1>2 DEF FinishChange
  <2>2. t \in scenario.threads BY <2>1 DEF TableInv, AtWork
  <2>3. OpOK(scenario.threads, Mine(t), op[t]) BY <2>1 DEF TableInv, Pending, Mine
  <2>4. TableOK(copy) /\ Written(copy) = Written(Mine(t)) /\ copy.available = Mine(t).available
    BY <1>m, CopyLemma
  <2> HIDE DEF copy
  <2>5. OpOK(scenario.threads, copy, op[t]) BY <1>m, <2>3, <2>4, SameOps
  <2> HIDE DEF new
  <2>6. PICK id \in ImplIds : /\ table' = [table EXCEPT ![t] = id]
                              /\ impl' = [impl EXCEPT ![id] = new]
                              /\ \A u \in scenario.threads : table[u] = id => u = t
    BY <1>s, <2>1, <2>2, ReplaceLemma
  <2>7. Becomes(t, new) BY <1>s, <2>1, <2>2, <2>6, OneHandleChanges
  <2>8. Shows(t, copy) BY <1>s, <2>2, <2>4, MineShows DEF Shows
  <2> QED BY <2>2, <2>4, <2>5, <2>7, <2>8, ChangeMapped DEF new
<1>3. ASSUME NEW t \in Threads, Reload(t) PROVE Mapped
  <2> DEFINE m == Mine(t)
  <2>1. t \in scenario.threads /\ scenario' = scenario BY <1>3 DEF Reload, Idle
  <2>2. PICK new \in {WriteAndRead(m), WriteAndReadText(m)} : Replace(t, new)
    BY <1>3 DEF Reload
  <2>3. PICK id \in ImplIds : /\ table' = [table EXCEPT ![t] = id]
                              /\ impl' = [impl EXCEPT ![id] = new]
                              /\ \A u \in scenario.threads : table[u] = id => u = t
    BY <1>s, <2>1, <2>2, ReplaceLemma
  <2>4. Becomes(t, new) BY <1>s, <2>1, <2>3, OneHandleChanges
  <2>5. Shows(t, m) BY <1>s, <2>1, MineShows
  <2>6. TableOK(m) BY <1>m
  <2> HIDE DEF m
  <2>7. CASE new = WriteAndRead(m)
    <3>1. Written(new) = Written(m) /\ new.available = m.available BY <2>6, <2>7, ReadLemma
    <3> QED BY <2>4, <2>5, <3>1, NothingChanges DEF Becomes, Shows
  <2>8. CASE new = WriteAndReadText(m)
    <3>1. TableOK(new) /\ Written(new) = Written(m) /\ IsRecalled(m, new.available)
      BY <2>6, <2>8, ReadTextLemma
    <3> QED BY <2>4, <2>5, <2>6, <3>1, RecallMapped DEF Becomes, Shows
  <2> QED BY <2>2, <2>7, <2>8
<1>4. ASSUME NEW t \in Threads, AskCheckSum(t) \/ RecheckCheckSum(t) \/ UseCheckSum(t)
      PROVE  Mapped
  <2>1. UNCHANGED <<scenario, impl, table>>
    BY <1>4 DEF AskCheckSum, RecheckCheckSum, UseCheckSum
  <2>2. UNCHANGED SymbolMap!mapVars BY <2>1, HandlesStay
  <2> QED BY <2>2 DEF Mapped
<1>5. ASSUME NEW t \in Threads, ComputeCheckSum(t) PROVE Mapped
  <2> DEFINE id == table[t]
             new == WithCheckSums(Mine(t))
  <2>1. scenario' = scenario /\ table' = table /\ impl' = [impl EXCEPT ![id] = new]
    BY <1>5 DEF ComputeCheckSum, Mine
  <2>2. Written(new) = Written(Mine(t)) /\ new.available = Mine(t).available
    BY <1>m, WithCheckSumsLemma
  <2>3. id \in ImplIds /\ impl[id] = Mine(t) BY <1>m DEF Mine
  <2> HIDE DEF id, new
  <2>4. ASSUME NEW u \in scenario.threads
        PROVE  /\ Written(impl'[table[u]]) = Written(impl[table[u]])
               /\ impl'[table[u]].available = impl[table[u]].available
    <3>1. table[u] \in ImplIds BY <1>m, <1>s, ThreadsOf
    <3>2. CASE table[u] = id
      <4>1. impl'[table[u]] = new /\ impl[table[u]] = Mine(t)
        BY <1>s, <2>1, <2>3, <3>2 DEF Shape
      <4> QED BY <2>2, <4>1
    <3>3. CASE table[u] # id
      <4>1. impl'[table[u]] = impl[table[u]] BY <1>s, <2>1, <3>1, <3>3 DEF Shape
      <4> QED BY <4>1
    <3> QED BY <3>2, <3>3
  <2>5. UNCHANGED SymbolMap!mapVars BY <2>1, <2>4, HandlesStay
  <2> QED BY <2>5 DEF Mapped
<1>6. ASSUME NEW t \in Threads, NEW u \in Threads, Share(t, u) PROVE Mapped
  <2>1. /\ t \in scenario.threads /\ u \in scenario.threads
        /\ table' = [table EXCEPT ![u] = table[t]] /\ scenario' = scenario
        /\ impl' = IF Users(table[u]) = {u} /\ table[u] # table[t]
                   THEN [impl EXCEPT ![table[u]] = NewImpl] ELSE impl
    BY <1>6 DEF Share, Idle
  <2>2. ASSUME NEW v \in scenario.threads
        PROVE  impl'[table'[v]] = IF v = u THEN Mine(t) ELSE Mine(v)
    <3>1. v \in Threads /\ table[v] \in ImplIds BY <1>m, <1>s, ThreadsOf
    <3>2. table'[v] = IF v = u THEN table[t] ELSE table[v] BY <1>s, <2>1, <3>1 DEF Shape
    <3> DEFINE i == table'[v]
    <3>3. i \in ImplIds BY <1>m, <3>1, <3>2
    <3>4. CASE Users(table[u]) = {u} /\ table[u] # table[t]
      <4>1. i # table[u] BY <3>2, <3>4 DEF Users
      <4>2. impl' = [impl EXCEPT ![table[u]] = NewImpl] BY <2>1, <3>4
      <4> HIDE DEF i
      <4>3. impl'[i] = impl[i] BY <1>s, <3>3, <4>1, <4>2 DEF Shape
      <4> QED BY <3>2, <4>3 DEF i, Mine
    <3>5. CASE ~(Users(table[u]) = {u} /\ table[u] # table[t])
      <4>1. impl' = impl BY <2>1, <3>5
      <4> QED BY <3>2, <4>1 DEF Mine
    <3> QED BY <3>4, <3>5
  <2>3. listed' = [listed EXCEPT ![u] = listed[t]]
    <3> DEFINE now(v) == IF v \in scenario.threads THEN Written(Mine(v)) ELSE <<>>
               then(v) == IF v \in scenario.threads THEN Written(impl'[table'[v]]) ELSE <<>>
    <3>1. listed = [v \in Threads |-> now(v)] BY DEF listed
    <3>2. listed' = [v \in Threads |-> then(v)] BY <2>1 DEF listed, Mine
    <3>3. \A v \in Threads : then(v) = IF v = u THEN now(t) ELSE now(v) BY <2>1, <2>2
    <3> HIDE DEF now, then
    <3> QED BY <3>1, <3>2, <3>3
  <2>4. nextKey' = [nextKey EXCEPT ![u] = nextKey[t]]
    <3> DEFINE now(v) == IF v \in scenario.threads THEN Mine(v).available ELSE 0
               then(v) == IF v \in scenario.threads THEN impl'[table'[v]].available ELSE 0
    <3>1. nextKey = [v \in Threads |-> now(v)] BY DEF nextKey
    <3>2. nextKey' = [v \in Threads |-> then(v)] BY <2>1 DEF nextKey, Mine
    <3>3. \A v \in Threads : then(v) = IF v = u THEN now(t) ELSE now(v) BY <2>1, <2>2
    <3> HIDE DEF now, then
    <3> QED BY <3>1, <3>2, <3>3
  <2>5. SymbolMap!Copy(u, t) BY <2>3, <2>4 DEF SymbolMap!Copy
  <2> QED BY <2>5 DEF Mapped, SymbolMap!MapNext
<1>7. CASE UNCHANGED vars
  <2>1. UNCHANGED <<scenario, impl, table>> BY <1>7 DEF vars
  <2>2. UNCHANGED SymbolMap!mapVars BY <2>1, HandlesStay
  <2> QED BY <2>2 DEF Mapped
<1> QED BY <1>1, <1>2, <1>3, <1>4, <1>5, <1>6, <1>7 DEF Next

\* All lists are empty at first.
LEMMA InitMapped == Init => SymbolMap!MapInit
<1> SUFFICES ASSUME Init PROVE SymbolMap!MapInit OBVIOUS
<1>1. ASSUME NEW t \in Threads PROVE Mine(t) = NewImpl
  <2>1. Shape BY InitTableInv DEF TableInv
  <2>2. table[t] \in ImplIds BY <2>1 DEF Shape
  <2> QED BY <2>2 DEF Init, Mine
<1>2. Written(NewImpl) = <<>> /\ NewImpl.available = 0
  <2>1. NewImpl.available = 0 BY DEF NewImpl
  <2>2. Size(NewImpl.map) = 0 /\ TableOK(NewImpl) BY NewImplLemma
  <2>3. Written(NewImpl) = [i \in 1..0 |-> <<NewImpl.map.symbols[i], KeyAt(NewImpl, i)>>]
    BY <2>2, WrittenLemma
  <2> QED BY <2>1, <2>3
<1>3. listed = [t \in Threads |-> <<>>] BY <1>1, <1>2 DEF listed
<1>4. nextKey = [t \in Threads |-> 0] BY <1>1, <1>2 DEF nextKey
<1> QED BY <1>3, <1>4 DEF SymbolMap!MapInit

\* However tables are shared, copied before a change, merged, reloaded and asked
\* for checksums: every owner's table behaves as a list only its owner changes.
THEOREM ImplementsMap == Spec => ImplementsSymbolMap
BY InitMapped, StepMapped, TableInvHolds, PTL DEF Spec, ImplementsSymbolMap, SymbolMap!MapSpec
-----------------------------------------------------------------------------
(* The labelled checksum: the pairs with keys from 0 on, in their order.   *)

\* The positions of a finite set of keys in ascending order.
LEMMA NthLemma ==
  ASSUME NEW S \in SUBSET Int, IsFiniteSet(S)
  PROVE  /\ Cardinality(S) \in Nat
         /\ \A i \in 1..Cardinality(S) : NthOf(S, i) \in S
         /\ \A i, j \in 1..Cardinality(S) : i < j => NthOf(S, i) < NthOf(S, j)
         /\ \A k \in S : \E i \in 1..Cardinality(S) : NthOf(S, i) = k
<1> DEFINE n == Cardinality(S)
           Below(k) == {j \in S : j < k}
           rank == [k \in S |-> Cardinality(Below(k)) + 1]
<1>1. n \in Nat BY FS_CardinalityType
<1>2. ASSUME NEW k \in S
      PROVE  IsFiniteSet(Below(k)) /\ Cardinality(Below(k)) \in Nat /\ Cardinality(Below(k)) < n
  <2>1. Below(k) \in SUBSET S /\ k \notin Below(k) /\ Below(k) # S OBVIOUS
  <2> HIDE DEF Below
  <2>2. IsFiniteSet(Below(k)) /\ Cardinality(Below(k)) <= n /\ Cardinality(Below(k)) # n
    BY <2>1, FS_Subset
  <2> QED BY <1>1, <2>2, FS_CardinalityType
<1>3. ASSUME NEW k \in S, NEW l \in S, k < l PROVE rank[k] < rank[l]
  <2>1. Below(k) \in SUBSET Below(l) /\ k \in Below(l) /\ k \notin Below(k)
    <3>1. k \in Int /\ l \in Int /\ \A j \in S : j \in Int OBVIOUS
    <3>2. \A j \in S : j < k => j < l BY <1>3, <3>1
    <3>3. k \in S /\ k < l /\ ~(k < k) BY <1>3, <3>1
    <3>4. k \in Below(l) /\ k \notin Below(k) BY <3>3, Zenon
    <3>5. Below(k) \in SUBSET Below(l) BY <3>2, Zenon
    <3> QED BY <3>4, <3>5
  <2>2. IsFiniteSet(Below(l)) /\ Cardinality(Below(l)) \in Nat
        /\ Cardinality(Below(k)) \in Nat BY <1>2
  <2>3. rank[k] = Cardinality(Below(k)) + 1 /\ rank[l] = Cardinality(Below(l)) + 1 OBVIOUS
  <2> HIDE DEF Below, rank
  <2>4. Below(k) # Below(l) BY <2>1
  <2>5. Cardinality(Below(k)) <= Cardinality(Below(l))
        /\ Cardinality(Below(k)) # Cardinality(Below(l))
    BY <2>1, <2>2, <2>4, FS_Subset
  <2> QED BY <2>2, <2>3, <2>5
<1>4. \A k, l \in S : rank[k] = rank[l] => k = l
  <2> SUFFICES ASSUME NEW k \in S, NEW l \in S, rank[k] = rank[l], k # l PROVE FALSE OBVIOUS
  <2>1. k < l \/ l < k OBVIOUS
  <2>2. rank[k] \in Nat /\ rank[l] \in Nat BY <1>2
  <2> HIDE DEF rank
  <2> QED BY <1>3, <2>1, <2>2
<1>5. \A k \in S : rank[k] \in 1..n
  <2> SUFFICES ASSUME NEW k \in S PROVE rank[k] \in 1..n OBVIOUS
  <2>1. rank[k] = Cardinality(Below(k)) + 1 OBVIOUS
  <2> HIDE DEF Below, n, rank
  <2> QED BY <1>1, <1>2, <2>1
<1>6. rank \in Surjection(S, 1..n)
  <2>1. rank \in [S -> 1..n] BY <1>5
  <2> HIDE DEF rank, Below
  <2>2. rank \in Injection(S, 1..n) BY <1>4, <2>1 DEF Injection, IsInjective
  <2>3. 1 \in Int /\ n \in Int BY <1>1
  <2> HIDE DEF n
  <2>4. IsFiniteSet(1..n) /\ Cardinality(1..n) = n
    <3>1. Cardinality(1..n) = IF 1 > n THEN 0 ELSE n - 1 + 1 BY <2>3, FS_Interval
    <3> QED BY <1>1, <2>3, <3>1, FS_Interval
  <2>5. Cardinality(S) = Cardinality(1..n) <=> rank \in Surjection(S, 1..n)
    BY <2>2, <2>4, FS_Injection
  <2> QED BY <2>4, <2>5 DEF n
<1>7. ASSUME NEW i \in 1..n PROVE NthOf(S, i) \in S /\ rank[NthOf(S, i)] = i
  <2>1. PICK k \in S : rank[k] = i BY <1>6 DEF Surjection
  <2>2. Cardinality(Below(k)) = i - 1
    <3>1. rank[k] = Cardinality(Below(k)) + 1 /\ Cardinality(Below(k)) \in Nat BY <1>2
    <3> HIDE DEF rank, Below
    <3> QED BY <2>1, <3>1
  <2>3. NthOf(S, i) \in S /\ Cardinality(Below(NthOf(S, i))) = i - 1
    <3> DEFINE P(x) == Cardinality(Below(x)) = i - 1
    <3>1. NthOf(S, i) = CHOOSE x \in S : P(x) BY DEF NthOf
    <3>2. P(k) BY <2>2
    <3> HIDE DEF P
    <3>3. P(NthOf(S, i)) /\ NthOf(S, i) \in S BY <3>1, <3>2
    <3> QED BY <3>3 DEF P
  <2> DEFINE x == NthOf(S, i)
  <2>4. rank[x] = Cardinality(Below(x)) + 1 BY <2>3
  <2> HIDE DEF rank, Below, x
  <2>5. rank[x] = i - 1 + 1 BY <2>3, <2>4 DEF x
  <2> QED BY <2>3, <2>5 DEF x
<1> HIDE DEF rank
<1>8. ASSUME NEW i \in 1..n, NEW j \in 1..n, i < j PROVE NthOf(S, i) < NthOf(S, j)
  <2>1. /\ NthOf(S, i) \in S /\ rank[NthOf(S, i)] = i
        /\ NthOf(S, j) \in S /\ rank[NthOf(S, j)] = j BY <1>7
  <2> DEFINE a == NthOf(S, i)
             b == NthOf(S, j)
  <2> HIDE DEF a, b
  <2>2. a \in S /\ b \in S /\ rank[a] = i /\ rank[b] = j BY <2>1 DEF a, b
  <2>3. a \in Int /\ b \in Int BY <2>2
  <2>4. a # b BY <1>1, <1>8, <2>2
  <2>5. ~(b < a)
    <3> SUFFICES ASSUME b < a PROVE FALSE OBVIOUS
    <3>1. rank[b] < rank[a] BY <1>3, <2>2
    <3> QED BY <1>1, <1>8, <2>2, <3>1
  <2>6. a < b BY <2>3, <2>4, <2>5
  <2> QED BY <2>6 DEF a, b
<1>9. ASSUME NEW k \in S PROVE \E i \in 1..n : NthOf(S, i) = k
  <2>1. rank[k] \in 1..n BY <1>5
  <2>2. NthOf(S, rank[k]) \in S /\ rank[NthOf(S, rank[k])] = rank[k] BY <1>7, <2>1
  <2> QED BY <1>4, <2>1, <2>2
<1> QED BY <1>1, <1>7, <1>8, <1>9

\* list goes through the pairs of P in the order of their keys.
Ascends(list, P) ==
  /\ Len(list) \in Nat /\ DOMAIN list = 1..Len(list)
  /\ list = [i \in 1..Len(list) |-> list[i]]
  /\ \A i \in 1..Len(list) : list[i] \in P /\ list[i][2] \in Int
  /\ \A i, j \in 1..Len(list) : i < j => list[i][2] < list[j][2]
  /\ \A p \in P : \E i \in 1..Len(list) : list[i] = p

\* Only one list does.
LEMMA AscendingIsUnique ==
  ASSUME NEW P, NEW a, NEW b, Ascends(a, P), Ascends(b, P)
  PROVE  a = b
<1> DEFINE m == Len(a)
           n == Len(b)
<1>a. /\ m \in Nat
      /\ \A i \in 1..m : a[i] \in P /\ a[i][2] \in Int
      /\ \A i, j \in 1..m : i < j => a[i][2] < a[j][2]
      /\ \A p \in P : \E i \in 1..m : a[i] = p
  BY DEF Ascends
<1>b. /\ n \in Nat
      /\ \A i \in 1..n : b[i] \in P /\ b[i][2] \in Int
      /\ \A i, j \in 1..n : i < j => b[i][2] < b[j][2]
      /\ \A p \in P : \E i \in 1..n : b[i] = p
  BY DEF Ascends
<1>c. a = [i \in 1..m |-> a[i]] /\ b = [i \in 1..n |-> b[i]] BY DEF Ascends
<1> HIDE DEF m, n
<1> DEFINE K == {k \in Nat : k <= m /\ k <= n => \A i \in 1..k : a[i] = b[i]}
<1>1. 0 \in K
  <2>1. 1..0 = {} OBVIOUS
  <2> QED BY <2>1
<1>2. ASSUME NEW k \in Nat, k \in K PROVE k + 1 \in K
  <2> SUFFICES ASSUME k + 1 <= m, k + 1 <= n PROVE \A i \in 1..k+1 : a[i] = b[i] OBVIOUS
  <2>1. \A i \in 1..k : a[i] = b[i] BY <1>2, <1>a, <1>b
  <2>2. k + 1 \in 1..m /\ k + 1 \in 1..n BY <1>a, <1>b
  <2>3. PICK j \in 1..n : b[j] = a[k+1] BY <1>a, <1>b, <2>2
  <2>4. PICK i \in 1..m : a[i] = b[k+1] BY <1>a, <1>b, <2>2
  <2>5. /\ a[k+1][2] \in Int /\ b[k+1][2] \in Int /\ i \in Int /\ j \in Int
    BY <1>a, <1>b, <2>2
  <2>6. j >= k + 1
    <3> SUFFICES ASSUME ~(j >= k + 1) PROVE FALSE OBVIOUS
    <3>1. j \in 1..k /\ j \in 1..m /\ j < k + 1 BY <1>a, <1>b
    <3>2. a[j] = a[k+1] /\ a[j][2] < a[k+1][2] BY <1>a, <2>1, <2>2, <2>3, <3>1
    <3> QED BY <2>5, <3>2
  <2>7. i >= k + 1
    <3> SUFFICES ASSUME ~(i >= k + 1) PROVE FALSE OBVIOUS
    <3>1. i \in 1..k /\ i \in 1..n /\ i < k + 1 BY <1>a, <1>b
    <3>2. b[i] = b[k+1] /\ b[i][2] < b[k+1][2] BY <1>b, <2>1, <2>2, <2>4, <3>1
    <3> QED BY <2>5, <3>2
  <2>8. j = k + 1
    <3> SUFFICES ASSUME j # k + 1 PROVE FALSE OBVIOUS
    <3>1. k + 1 < j BY <2>5, <2>6
    <3>2. b[k+1][2] < a[k+1][2] BY <1>b, <2>2, <2>3, <3>1
    <3>3. a[k+1][2] <= b[k+1][2]
      <4>1. CASE i = k + 1 BY <2>4, <2>5, <4>1
      <4>2. CASE i # k + 1
        <5>1. k + 1 < i BY <2>5, <2>7, <4>2
        <5>2. a[k+1][2] < b[k+1][2] BY <1>a, <2>2, <2>4, <5>1
        <5> QED BY <2>5, <5>2
      <4> QED BY <4>1, <4>2
    <3> QED BY <2>5, <3>2, <3>3
  <2>9. a[k+1] = b[k+1] BY <2>3, <2>8
  <2>10. \A x \in 1..k+1 : x \in 1..k \/ x = k + 1 OBVIOUS
  <2> QED BY <2>1, <2>9, <2>10
<1>3. ASSUME NEW k \in Nat, k <= m, k <= n PROVE \A i \in 1..k : a[i] = b[i]
  <2> HIDE DEF K
  <2>1. k \in K BY <1>1, <1>2, SetInduction
  <2> USE DEF K
  <2> QED BY <1>3, <2>1, Zenon
<1>4. ~(m < n)
  <2> SUFFICES ASSUME m < n PROVE FALSE OBVIOUS
  <2>1. m + 1 \in 1..n /\ \A i \in 1..m : i \in 1..n /\ i < m + 1 BY <1>a, <1>b
  <2>2. PICK i \in 1..m : a[i] = b[m+1] BY <1>a, <1>b, <2>1
  <2>3. a[i] = b[i] BY <1>3, <1>a, <1>b
  <2>4. b[i][2] < b[m+1][2] /\ b[i] = b[m+1] /\ b[i][2] \in Int BY <1>b, <2>1, <2>2, <2>3
  <2> QED BY <2>4
<1>5. ~(n < m)
  <2> SUFFICES ASSUME n < m PROVE FALSE OBVIOUS
  <2>1. n + 1 \in 1..m /\ \A i \in 1..n : i \in 1..m /\ i < n + 1 BY <1>a, <1>b
  <2>2. PICK i \in 1..n : b[i] = a[n+1] BY <1>a, <1>b, <2>1
  <2>3. a[i] = b[i] BY <1>3, <1>a, <1>b
  <2>4. a[i][2] < a[n+1][2] /\ a[i] = a[n+1] /\ a[i][2] \in Int BY <1>a, <2>1, <2>2, <2>3
  <2> QED BY <2>4
<1>6. m = n BY <1>4, <1>5, <1>a, <1>b
<1>7. \A i \in 1..m : a[i] = b[i]
  <2>1. m <= m BY <1>a
  <2> QED BY <1>3, <1>6, <1>a, <2>1
<1> QED BY <1>c, <1>6, <1>7

\* The pairs a labelled checksum covers.
Labeled(t) == {p \in ToSet(Written(t)) : p[2] >= 0}

\* The labelled checksum goes through them.
LEMMA LabeledLemma ==
  ASSUME NEW t, TableOK(t)
  PROVE  Ascends(LabeledCheckSumOf(t), Labeled(t))
<1> DEFINE n == Size(t.map)
           d == t.dense
           W == Written(t)
           K == LabeledSparseKeys(t)
           c == Cardinality(K)
           dense == [i \in 1..d |-> <<GetSymbol(t.map, i - 1), i - 1>>]
           sparse == [i \in 1..c |-> <<GetSymbol(t.map, t.keyMap[NthOf(K, i)]), NthOf(K, i)>>]
           L == LabeledCheckSumOf(t)
<1>1. L = dense \o sparse BY DEF LabeledCheckSumOf
<1>2. /\ n \in Nat /\ d \in Nat /\ d <= n /\ t.available \in Nat /\ Len(t.idxKey) = n - d
      /\ t.idxKey \in Seq(Int)
  BY SizeLemma DEF TableOK
<1>3. /\ W = [i \in 1..n |-> <<t.map.symbols[i], KeyAt(t, i)>>] /\ DOMAIN W = 1..n
  BY WrittenLemma
<1>4. /\ \A i \in 1..Len(t.idxKey) :
           /\ t.idxKey[i] < t.available
           /\ t.idxKey[i] \in DOMAIN t.keyMap /\ t.keyMap[t.idxKey[i]] = d + i - 1
      /\ \A k \in DOMAIN t.keyMap : \E i \in 1..Len(t.idxKey) : t.idxKey[i] = k
  BY DEF TableOK, ContainersOK
<1>5. K = {k \in DOMAIN t.keyMap : k >= d} BY DEF LabeledSparseKeys
<1>6. \A i \in 1..n : KeyAt(t, i) = IF i <= d THEN i - 1 ELSE t.idxKey[i - d] BY DEF KeyAt
<1> HIDE DEF n, d, W, K, L
<1>7. ASSUME NEW k \in K
      PROVE  /\ k \in 0..t.available-1 /\ k >= d
             /\ \E q \in 1..n : q > d /\ KeyAt(t, q) = k /\ t.keyMap[k] + 1 = q
  <2>1. k \in DOMAIN t.keyMap /\ k >= d BY <1>5
  <2>2. PICK i \in 1..Len(t.idxKey) : t.idxKey[i] = k BY <1>4, <2>1
  <2>3. k \in Int /\ k < t.available /\ t.keyMap[k] = d + i - 1
    <3>1. t.idxKey[i] \in Int BY <1>2
    <3>2. t.idxKey[i] < t.available /\ t.keyMap[t.idxKey[i]] = d + i - 1 BY <1>4
    <3> QED BY <2>2, <3>1, <3>2
  <2>4. i + d \in 1..n /\ i + d > d /\ ~(i + d <= d) /\ (i + d) - d = i BY <1>2
  <2>5. KeyAt(t, i + d) = k BY <1>6, <2>2, <2>4
  <2>6. t.keyMap[k] + 1 = i + d BY <1>2, <2>3
  <2> QED BY <1>2, <2>1, <2>3, <2>4, <2>5, <2>6
<1>8. K \in SUBSET Int /\ IsFiniteSet(K)
  <2>1. K \in SUBSET (0..t.available-1) BY <1>7
  <2>2. IsFiniteSet(0..t.available-1)
    <3>1. 0 \in Int /\ t.available - 1 \in Int BY <1>2
    <3> QED BY <3>1, FS_Interval
  <2>3. 0..t.available-1 \in SUBSET Int OBVIOUS
  <2> QED BY <2>1, <2>2, <2>3, FS_Subset
<1>9. /\ c \in Nat
      /\ \A i \in 1..c : NthOf(K, i) \in K
      /\ \A i, j \in 1..c : i < j => NthOf(K, i) < NthOf(K, j)
      /\ \A k \in K : \E i \in 1..c : NthOf(K, i) = k
  BY <1>8, NthLemma
<1>10. ASSUME NEW i \in 1..d
       PROVE  /\ i \in 1..n /\ dense[i] = W[i] /\ W[i] = <<t.map.symbols[i], i - 1>>
              /\ dense[i] \in Labeled(t)
  <2>1. i \in 1..n /\ KeyAt(t, i) = i - 1 /\ (i - 1) + 1 = i BY <1>2, <1>6
  <2>2. W[i] = <<t.map.symbols[i], i - 1>> BY <1>3, <2>1
  <2>3. dense[i] = <<t.map.symbols[i], i - 1>> BY <2>1 DEF GetSymbol
  <2> HIDE DEF dense
  <2>4. W[i] \in ToSet(Written(t)) BY <1>3, <2>1 DEF ToSet, W
  <2>5. W[i][2] = i - 1 /\ i - 1 >= 0 BY <2>2
  <2>6. W[i][2] >= 0 BY <2>5
  <2> QED BY <2>1, <2>2, <2>3, <2>4, <2>6 DEF Labeled
<1>11. ASSUME NEW i \in 1..c
       PROVE  /\ \E q \in 1..n : q > d /\ sparse[i] = W[q] /\ KeyAt(t, q) = NthOf(K, i)
              /\ sparse[i] \in Labeled(t) /\ sparse[i][2] = NthOf(K, i)
              /\ NthOf(K, i) \in Int /\ NthOf(K, i) >= d
  <2> DEFINE k == NthOf(K, i)
  <2>1. k \in K BY <1>9
  <2>2. sparse[i] = <<GetSymbol(t.map, t.keyMap[k]), k>> OBVIOUS
  <2> HIDE DEF k, sparse
  <2>3. /\ k \in 0..t.available-1 /\ k >= d BY <1>7, <2>1
  <2>4. PICK q \in 1..n : q > d /\ KeyAt(t, q) = k /\ t.keyMap[k] + 1 = q BY <1>7, <2>1
  <2>5. W[q] = <<t.map.symbols[q], k>> BY <1>3, <2>4
  <2>6. sparse[i] = W[q] BY <2>2, <2>4, <2>5 DEF GetSymbol
  <2>7. W[q] \in ToSet(Written(t)) BY <1>3 DEF ToSet, W
  <2>8. W[q][2] = k /\ k >= 0 /\ k \in Int BY <2>3, <2>5
  <2>9. W[q] \in Labeled(t) BY <2>7, <2>8 DEF Labeled
  <2> QED BY <2>3, <2>4, <2>6, <2>8, <2>9 DEF k
<1> DEFINE S == {W[q] : q \in 1..n}
<1>12. dense \in Seq(S) /\ Len(dense) = d
  <2>1. dense = [i \in 1..d |-> dense[i]] OBVIOUS
  <2>2. \A i \in 1..d : dense[i] \in S BY <1>10
  <2> HIDE DEF dense, S
  <2> QED BY <1>2, <2>1, <2>2
<1>13. sparse \in Seq(S) /\ Len(sparse) = c
  <2>1. sparse = [i \in 1..c |-> sparse[i]] OBVIOUS
  <2> HIDE DEF sparse
  <2>2. \A i \in 1..c : sparse[i] \in S BY <1>11
  <2> HIDE DEF S, c
  <2>3. c \in Nat BY <1>9
  <2> QED BY <2>1, <2>2, <2>3
<1> HIDE DEF dense, sparse, S, c
<1>14. /\ L \in Seq(S) /\ Len(L) = d + c
       /\ \A i \in 1..d : L[i] = dense[i]
       /\ \A i \in 1..c : L[d + i] = sparse[i]
  <2> DEFINE M == dense \o sparse
  <2>1. /\ M \in Seq(S) /\ Len(M) = Len(dense) + Len(sparse)
        /\ \A i \in 1..Len(dense) : M[i] = dense[i]
        /\ \A i \in 1..Len(sparse) : M[Len(dense) + i] = sparse[i]
    <3>1. dense \in Seq(S) /\ sparse \in Seq(S) BY <1>12, <1>13
    <3> QED BY <3>1, ConcatLemma
  <2> HIDE DEF M
  <2>2. L = M BY <1>1 DEF M
  <2> QED BY <1>12, <1>13, <2>1, <2>2
<1>15. ASSUME NEW i \in 1..d+c
       PROVE  i \in 1..d \/ (i - d \in 1..c /\ d + (i - d) = i /\ i > d)
  BY <1>2, <1>9
<1>16. ASSUME NEW i \in 1..d+c
       PROVE  /\ L[i] \in Labeled(t)
              /\ i <= d => L[i][2] = i - 1
              /\ i > d => i - d \in 1..c /\ L[i][2] = NthOf(K, i - d)
              /\ L[i][2] \in Int
  <2>1. CASE i \in 1..d
    <3>1. L[i] = W[i] /\ L[i] \in Labeled(t) /\ L[i][2] = i - 1 BY <1>10, <1>14, <2>1
    <3> QED BY <1>2, <2>1, <3>1
  <2>2. CASE i - d \in 1..c /\ d + (i - d) = i /\ i > d
    <3>1. L[i] = sparse[i - d] BY <1>14, <2>2
    <3>2. L[i] \in Labeled(t) /\ L[i][2] = NthOf(K, i - d) /\ NthOf(K, i - d) \in Int
      BY <1>11, <2>2, <3>1
    <3> QED BY <1>2, <2>2, <3>2
  <2> QED BY <1>15, <2>1, <2>2
<1>17. ASSUME NEW i \in 1..d+c, NEW j \in 1..d+c, i < j PROVE L[i][2] < L[j][2]
  <2>0. i \in Int /\ j \in Int OBVIOUS
  <2>1. CASE j <= d
    <3>1. i <= d BY <1>2, <1>17, <2>0, <2>1
    <3>2. L[i][2] = i - 1 /\ L[j][2] = j - 1 BY <1>16, <2>1, <3>1
    <3> QED BY <1>17, <2>0, <3>2
  <2>2. CASE i <= d /\ j > d
    <3>1. L[i][2] = i - 1 /\ j - d \in 1..c /\ L[j][2] = NthOf(K, j - d) BY <1>16, <2>2
    <3>2. NthOf(K, j - d) \in Int /\ NthOf(K, j - d) >= d BY <1>11, <3>1
    <3> QED BY <1>2, <2>0, <2>2, <3>1, <3>2
  <2>3. CASE i > d
    <3>1. j > d BY <1>2, <1>17, <2>0, <2>3
    <3>2. /\ i - d \in 1..c /\ L[i][2] = NthOf(K, i - d)
          /\ j - d \in 1..c /\ L[j][2] = NthOf(K, j - d)
      BY <1>16, <2>3, <3>1
    <3>3. i - d < j - d BY <1>2, <1>17, <2>0
    <3> QED BY <1>9, <3>2, <3>3
  <2> QED BY <1>2, <2>0, <2>1, <2>2, <2>3
<1>18. ASSUME NEW p \in Labeled(t) PROVE \E i \in 1..d+c : L[i] = p
  <2>1. p \in ToSet(Written(t)) /\ p[2] >= 0 BY DEF Labeled
  <2>2. PICK q \in 1..n : p = W[q] BY <1>3, <2>1 DEF ToSet, W
  <2>3. W[q] = <<t.map.symbols[q], KeyAt(t, q)>> BY <1>3
  <2>4. CASE q <= d
    <3>1. q \in 1..d /\ q \in 1..d+c BY <1>2, <1>9, <2>4
    <3>2. L[q] = W[q] BY <1>10, <1>14, <3>1
    <3> QED BY <2>2, <3>1, <3>2
  <2>5. CASE q > d
    <3>1. q - d \in 1..Len(t.idxKey) /\ ~(q <= d) BY <1>2, <2>5
    <3>2. KeyAt(t, q) = t.idxKey[q - d] BY <1>6, <3>1
    <3>3. KeyAt(t, q) >= 0 /\ KeyAt(t, q) \in Int
      <4>1. p[2] = KeyAt(t, q) BY <2>2, <2>3
      <4> QED BY <1>2, <2>1, <3>1, <3>2, <4>1
    <3>4. KeyAt(t, q) >= d
      <4>1. t.idxKey[q - d] \notin 0..d-1 BY <3>1 DEF TableOK, ContainersOK, d
      <4> QED BY <1>2, <3>2, <3>3, <4>1
    <3>5. KeyAt(t, q) \in K BY <1>4, <1>5, <3>1, <3>2, <3>4
    <3>6. PICK i \in 1..c : NthOf(K, i) = KeyAt(t, q) BY <1>9, <3>5
    <3>7. PICK r \in 1..n : sparse[i] = W[r] /\ KeyAt(t, r) = NthOf(K, i) BY <1>11
    <3>8. r = q BY <3>6, <3>7, KeysLemma DEF n
    <3>9. d + i \in 1..d+c /\ L[d + i] = sparse[i] BY <1>2, <1>9, <1>14
    <3> QED BY <2>2, <3>7, <3>8, <3>9
  <2> QED BY <1>2, <2>4, <2>5
<1>19. /\ Len(L) = d + c /\ d + c \in Nat /\ DOMAIN L = 1..Len(L)
       /\ L = [i \in 1..Len(L) |-> L[i]]
  BY <1>2, <1>9, <1>14
<1>20. Ascends(L, Labeled(t))
  <2>1. \A i \in 1..Len(L) : L[i] \in Labeled(t) /\ L[i][2] \in Int BY <1>16, <1>19
  <2>2. \A i, j \in 1..Len(L) : i < j => L[i][2] < L[j][2] BY <1>17, <1>19
  <2>3. \A p \in Labeled(t) : \E i \in 1..Len(L) : L[i] = p BY <1>18, <1>19
  <2> QED BY <1>19, <2>1, <2>2, <2>3 DEF Ascends
<1> QED BY <1>20 DEF L

\* Equal pairs mean equal lines.
LEMMA EqualPairsFeedTheSame ==
  ASSUME NEW t, TableOK(t), NEW r, TableOK(r), Labeled(t) = Labeled(r)
  PROVE  LabeledCheckSumOf(t) = LabeledCheckSumOf(r)
BY LabeledLemma, AscendingIsUnique

-----------------------------------------------------------------------------
(* Finalized checksums are those of the table, as long as nothing was      *)
(* removed.                                                                *)

\* The checksums are those of the table, unless they are to be computed again.
Current(t) ==
  t.finalized => t.checkSum = CheckSumOf(t) /\ t.labeled = LabeledCheckSumOf(t)

\* An implementation as a record, with such checksums.
CurrentRecord(t) ==
  /\ IsRecord(t)
  /\ t.map = [symbols |-> t.map.symbols, buckets |-> t.map.buckets]
  /\ Current(t)

\* The checksums depend on the symbols, the dense range and the keys outside it.
LEMMA SameCheckSums ==
  ASSUME NEW t, NEW r, r.map.symbols = t.map.symbols, r.dense = t.dense, r.keyMap = t.keyMap
  PROVE  CheckSumOf(r) = CheckSumOf(t) /\ LabeledCheckSumOf(r) = LabeledCheckSumOf(t)
<1>1. CheckSumOf(r) = CheckSumOf(t) BY DEF CheckSumOf
<1>2. LabeledSparseKeys(r) = LabeledSparseKeys(t) BY DEF LabeledSparseKeys
<1>3. \A i : GetSymbol(r.map, i) = GetSymbol(t.map, i) BY DEF GetSymbol
<1>4. LabeledCheckSumOf(r) = LabeledCheckSumOf(t) BY <1>2, <1>3 DEF LabeledCheckSumOf
<1> QED BY <1>1, <1>4

\* An implementation in order is a record.
LEMMA TableIsRecord ==
  ASSUME NEW t, TableOK(t), Current(t)
  PROVE  CurrentRecord(t)
BY DEF TableOK, HashOK, CurrentRecord

\* A symbol that is there leaves the symbols alone.
LEMMA InsertedMap ==
  ASSUME NEW m, m = [symbols |-> m.symbols, buckets |-> m.buckets], NEW s
  PROVE  LET ins == InsertOrFind(m, s)
         IN  /\ ins.new \in BOOLEAN
             /\ ins.map = [symbols |-> ins.map.symbols, buckets |-> ins.map.buckets]
             /\ ~ins.new => ins.map.symbols = m.symbols
<1> DEFINE g == Grown(m)
           at == BucketOf(g, s)
           ins == InsertOrFind(m, s)
<1>1. \E b : g = [symbols |-> m.symbols, buckets |-> b]
  <2>1. CASE MustGrow(m)
    <3>1. g = Rehash(m, 2 * NumBuckets(m)) BY <2>1 DEF Grown
    <3> DEFINE b == FoldLeft(PutIndex, NoBuckets(2 * NumBuckets(m)), Indexed(m.symbols))
    <3>2. g = [m EXCEPT !.buckets = b] BY <3>1 DEF Rehash
    <3> HIDE DEF b, g
    <3>3. g = [symbols |-> m.symbols, buckets |-> b] BY <3>2
    <3> QED BY <3>3
  <2>2. CASE ~MustGrow(m)
    <3>1. g = m BY <2>2 DEF Grown
    <3> QED BY <3>1
  <2> QED BY <2>1, <2>2
<1>2. ins = StoreAt(g, s, at) BY DEF InsertOrFind, InsertInto
<1> HIDE DEF g, at, ins
<1>3. PICK b : g = [symbols |-> m.symbols, buckets |-> b] BY <1>1
<1>4. g.symbols = m.symbols /\ g = [symbols |-> g.symbols, buckets |-> g.buckets] BY <1>3
<1>5. CASE g.buckets[at] # empty_
  <2>1. ins = [map |-> g, new |-> FALSE] BY <1>2, <1>5 DEF StoreAt
  <2> QED BY <1>4, <2>1 DEF ins
<1>6. CASE ~(g.buckets[at] # empty_)
  <2> DEFINE x == Append(g.symbols, s)
             y == [g.buckets EXCEPT ![at] = Size(g)]
  <2>1. ins = [map |-> [symbols |-> x, buckets |-> y], new |-> TRUE]
    BY <1>2, <1>6 DEF StoreAt
  <2> HIDE DEF x, y
  <2>2. ins.map = [symbols |-> x, buckets |-> y] /\ ins.new = TRUE BY <2>1
  <2> QED BY <2>2 DEF ins
<1> QED BY <1>5, <1>6

\* AddSymbol either leaves what the checksums are computed from alone or has
\* them computed again.
LEMMA AddKeepsCurrent ==
  ASSUME NEW t, CurrentRecord(t), NEW s, NEW key
  PROVE  CurrentRecord(AddSymbol(t, s, key))
<1> DEFINE r == AddSymbol(t, s, key)
           ins == InsertOrFind(t.map, s)
<1>1. CASE key = kNoSymbol
  <2>1. r = t BY <1>1 DEF AddSymbol
  <2> QED BY <2>1
<1>2. ASSUME key # kNoSymbol PROVE r = Entered(t, ins, key) BY <1>2 DEF AddSymbol
<1>3. /\ ins.new \in BOOLEAN
      /\ ins.map = [symbols |-> ins.map.symbols, buckets |-> ins.map.buckets]
      /\ ~ins.new => ins.map.symbols = t.map.symbols
  BY InsertedMap DEF CurrentRecord
<1> HIDE DEF ins, r
<1>4. IsRecord(t) /\ Current(t) BY DEF CurrentRecord
<1>5. CASE key # kNoSymbol /\ ~ins.new
  <2>1. r = [t EXCEPT !.map = ins.map] BY <1>2, <1>5 DEF Entered
  <2>2. r = [available |-> t.available, dense |-> t.dense, idxKey |-> t.idxKey,
             keyMap |-> t.keyMap, map |-> ins.map, finalized |-> t.finalized,
             checkSum |-> t.checkSum, labeled |-> t.labeled]
    BY <1>4, <2>1 DEF IsRecord
  <2>3. /\ r.map = ins.map /\ r.dense = t.dense /\ r.keyMap = t.keyMap
        /\ r.finalized = t.finalized /\ r.checkSum = t.checkSum /\ r.labeled = t.labeled
        /\ IsRecord(r)
    BY <2>2 DEF IsRecord
  <2>4. r.map.symbols = t.map.symbols BY <1>3, <1>5, <2>3
  <2>5. CheckSumOf(r) = CheckSumOf(t) /\ LabeledCheckSumOf(r) = LabeledCheckSumOf(t)
    BY <2>3, <2>4, SameCheckSums
  <2>6. Current(r) BY <1>4, <2>3, <2>5 DEF Current
  <2>7. r.map = [symbols |-> r.map.symbols, buckets |-> r.map.buckets] BY <1>3, <2>3
  <2> QED BY <2>3, <2>6, <2>7 DEF CurrentRecord, r
<1>6. CASE key # kNoSymbol /\ ins.new
  <2> DEFINE u == [t EXCEPT !.map = ins.map]
             w == WithKey(u, key)
             a == NextAvailable(w.available, key)
  <2>1. u = [available |-> t.available, dense |-> t.dense, idxKey |-> t.idxKey,
             keyMap |-> t.keyMap, map |-> ins.map, finalized |-> t.finalized,
             checkSum |-> t.checkSum, labeled |-> t.labeled]
    BY <1>4 DEF IsRecord
  <2>2. r = Invalidated([w EXCEPT !.available = NextAvailable(@, key)])
    BY <1>2, <1>6 DEF Entered
  <2> HIDE DEF u
  <2>3. u.map = ins.map /\ IsRecord(u) BY <2>1 DEF IsRecord
  <2>4. w.map = ins.map /\ IsRecord(w)
    <3>1. CASE key + 1 = Size(u.map) /\ key = u.dense
      <4>1. w = [u EXCEPT !.dense = @ + 1] BY <3>1 DEF WithKey
      <4> HIDE DEF w
      <4> QED BY <2>3, <4>1 DEF IsRecord
    <3>2. CASE ~(key + 1 = Size(u.map) /\ key = u.dense)
      <4> DEFINE x == Append(u.idxKey, key)
                 y == Over([k \in {key} |-> Size(u.map) - 1], u.keyMap)
      <4>1. w = [u EXCEPT !.idxKey = x, !.keyMap = y] BY <3>2 DEF WithKey
      <4> HIDE DEF w, x, y
      <4> QED BY <2>3, <4>1 DEF IsRecord
    <3> QED BY <3>1, <3>2
  <2> HIDE DEF w
  <2> DEFINE v == [w EXCEPT !.available = NextAvailable(@, key)]
  <2>5. v = [w EXCEPT !.available = a] OBVIOUS
  <2> HIDE DEF v, a
  <2>6. v.map = ins.map /\ IsRecord(v) BY <2>4, <2>5 DEF IsRecord
  <2>7. r = [v EXCEPT !.finalized = FALSE] BY <2>2 DEF Invalidated, v
  <2>8. r.map = ins.map /\ IsRecord(r) /\ r.finalized = FALSE BY <2>6, <2>7 DEF IsRecord
  <2>9. r.map = [symbols |-> r.map.symbols, buckets |-> r.map.buckets] BY <1>3, <2>8
  <2> QED BY <2>8, <2>9 DEF CurrentRecord, Current, r
<1> QED BY <1>1, <1>3, <1>5, <1>6 DEF r

\* So does adding a list, ...
LEMMA AddAllKeepsCurrent ==
  ASSUME NEW t, CurrentRecord(t), NEW list, NEW n \in Nat, Len(list) = n, DOMAIN list = 1..n
  PROVE  CurrentRecord(AddAll(t, list))
<1>1. AddAll(t, list) = Adding!Folded(t, list)
  BY DEF AddAll, Adding!Folded, FoldLeft, MapThenFoldSet, Adding!FoldLeft,
         Adding!MapThenFoldSet, Max, Adding!Max
<1>2. Len(list) \in Nat /\ DOMAIN list = 1..Len(list) OBVIOUS
<1>3. PICK g : Adding!IsChain(g, t, list) /\ Adding!Folded(t, list) = g[Len(list)]
  BY <1>2, Adding!FoldIsChain, Zenon
<1>4. g[0] = t /\ \A k \in 1..n : g[k] = AddEntry(g[k-1], list[k])
  BY <1>3 DEF Adding!IsChain
<1> DEFINE K == {k \in Nat : k <= n => CurrentRecord(g[k])}
<1>5. 0 \in K BY <1>4
<1>6. ASSUME NEW k \in Nat, k \in K PROVE k + 1 \in K
  <2> SUFFICES ASSUME k + 1 <= n PROVE CurrentRecord(g[k+1]) OBVIOUS
  <2>1. CurrentRecord(g[k]) /\ k + 1 \in 1..n /\ (k + 1) - 1 = k BY <1>6
  <2>2. g[k+1] = AddSymbol(g[k], list[k+1][1], list[k+1][2]) BY <1>4, <2>1 DEF AddEntry
  <2>3. CurrentRecord(AddSymbol(g[k], list[k+1][1], list[k+1][2]))
    BY <2>1, AddKeepsCurrent, Zenon
  <2> QED BY <2>2, <2>3
<1>7. n \in K
  <2> HIDE DEF K
  <2> QED BY <1>5, <1>6, SetInduction
<1> QED BY <1>1, <1>3, <1>7

\* ... and adding a table.
LEMMA AddTableKeepsCurrent ==
  ASSUME NEW t, CurrentRecord(t), NEW other, TableOK(other)
  PROVE  CurrentRecord(AddTable(t, other))
<1> DEFINE list == Entries(other)
           n == Size(other.map)
<1>1. AddTable(t, other) = Merging!Folded(t, list)
  BY DEF AddTable, Merging!Folded, FoldLeft, MapThenFoldSet, Merging!FoldLeft,
         Merging!MapThenFoldSet, Max, Merging!Max
<1>2. n \in Nat /\ Len(list) = n /\ DOMAIN list = 1..n
  BY SizeLemma, WrittenLemma
<1> HIDE DEF list, n
<1>3. Len(list) \in Nat /\ DOMAIN list = 1..Len(list) BY <1>2
<1>4. PICK g : Merging!IsChain(g, t, list) /\ Merging!Folded(t, list) = g[Len(list)]
  BY <1>3, Merging!FoldIsChain, Zenon
<1>5. g[0] = t /\ \A k \in 1..n : g[k] = AddNext(g[k-1], list[k])
  BY <1>2, <1>4 DEF Merging!IsChain
<1> DEFINE K == {k \in Nat : k <= n => CurrentRecord(g[k])}
<1>6. 0 \in K BY <1>5
<1>7. ASSUME NEW k \in Nat, k \in K PROVE k + 1 \in K
  <2> SUFFICES ASSUME k + 1 <= n PROVE CurrentRecord(g[k+1]) OBVIOUS
  <2>1. CurrentRecord(g[k]) /\ k + 1 \in 1..n /\ (k + 1) - 1 = k BY <1>2, <1>7
  <2>2. g[k+1] = AddSymbol(g[k], list[k+1][1], g[k].available) BY <1>5, <2>1 DEF AddNext
  <2>3. CurrentRecord(AddSymbol(g[k], list[k+1][1], g[k].available))
    BY <2>1, AddKeepsCurrent, Zenon
  <2> QED BY <2>2, <2>3
<1>8. n \in K
  <2> HIDE DEF K
  <2> QED BY <1>2, <1>6, <1>7, SetInduction
<1> QED BY <1>1, <1>2, <1>4, <1>8

\* The invariant: the thread that computes holds the mutex and the checksums
\* are not finalized, for a thread that reads them they are, and they are
\* those of the table unless symbols are removed.
Computing == \A t \in Threads : pc[t] = "computing" => mutex[table[t]] = t /\ ~Mine(t).finalized
Reading == \A t \in Threads : pc[t] = "reading" => Mine(t).finalized
Currency ==
  ~scenario.removals => /\ \A i \in ImplIds : Current(impl[i])
                        /\ \A t \in Threads : pc[t] = "copying" => op[t][1] # "remove"
CheckInv == Computing /\ Reading /\ Currency

\* A change other than a removal keeps the checksums current.
LEMMA ChangeKeepsCurrent ==
  ASSUME TableInv, NEW m, TableOK(m), Current(m), NEW o, OpOK(scenario.threads, m, o),
         o[1] # "remove"
  PROVE  Current(Changed(m, o))
<1>0. CurrentRecord(m) BY TableIsRecord
<1>1. CASE \E s \in Symbols, k \in Int : o = <<"add", s, k>> /\ Fresh(m, k)
  <2>1. PICK s \in Symbols, k \in Int : o = <<"add", s, k>> BY <1>1
  <2>2. Changed(m, o) = AddSymbol(m, s, k) BY <2>1 DEF Changed
  <2> QED BY <1>0, <2>2, AddKeepsCurrent DEF CurrentRecord
<1>2. CASE \E s \in Symbols : o = <<"addNext", s>>
  <2>1. PICK s \in Symbols : o = <<"addNext", s>> BY <1>2
  <2>2. Changed(m, o) = AddSymbol(m, s, m.available) BY <2>1 DEF Changed
  <2>3. CurrentRecord(AddSymbol(m, s, m.available)) BY <1>0, AddKeepsCurrent, Zenon
  <2> QED BY <2>2, <2>3 DEF CurrentRecord
<1>3. CASE \E u \in scenario.threads : o = <<"addTable", u>>
  <2>1. PICK u \in scenario.threads : o = <<"addTable", u>> BY <1>3
  <2>2. Changed(m, o) = AddTable(m, Mine(u)) BY <2>1 DEF Changed
  <2>3. TableOK(Mine(u)) BY ThreadsOf DEF TableInv, Shape, Tables, Mine
  <2> QED BY <1>0, <2>2, <2>3, AddTableKeepsCurrent DEF CurrentRecord
<1>4. CASE \E k \in KeysIn(m) \cup {kNoSymbol} : o = <<"remove", k>> BY <1>4
<1> QED BY <1>1, <1>2, <1>3, <1>4 DEF OpOK

\* What is read has to be computed anew.
LEMMA ReadKeepsCurrent ==
  ASSUME NEW t, TableOK(t)
  PROVE  Current(WriteAndRead(t)) /\ Current(WriteAndReadText(t))
<1>1. /\ Size(t.map) \in Nat
      /\ Len(Written(t)) = Size(t.map) /\ DOMAIN Written(t) = 1..Size(t.map)
      /\ Entries(t) = Written(t)
  BY SizeLemma, WrittenLemma
<1>2. TableOK(NewImpl) /\ NewImpl.finalized = FALSE BY NewImplLemma DEF NewImpl
<1> DEFINE new == NewImpl
           base == [new EXCEPT !.available = t.available]
<1>3. CurrentRecord(new) BY <1>2, TableIsRecord DEF Current
<1> HIDE DEF new
<1>4. base.finalized = new.finalized /\ base.map = new.map /\ IsRecord(base)
  BY <1>3 DEF CurrentRecord, IsRecord
<1>5. base = [NewImpl EXCEPT !.available = t.available] BY DEF new
<1> HIDE DEF base
<1>6. base.finalized = FALSE BY <1>2, <1>4 DEF new
<1>7. CurrentRecord(base) BY <1>3, <1>4, <1>6 DEF CurrentRecord, Current
<1>8. CurrentRecord(AddAll(base, Written(t))) BY <1>1, <1>7, AddAllKeepsCurrent
<1>9. CurrentRecord(AddAll(NewImpl, Entries(t))) BY <1>1, <1>3, AddAllKeepsCurrent DEF new
<1> QED BY <1>5, <1>8, <1>9 DEF WriteAndRead, WriteAndReadText, CurrentRecord

\* A thread that asks for no checksum now replaces an implementation that no
\* other thread refers to.
LEMMA OneCheckSumChanges ==
  ASSUME TableInv, CheckInv, NEW t \in scenario.threads, NEW id \in ImplIds, NEW new,
         ~scenario.removals => Current(new),
         impl' = [impl EXCEPT ![id] = new], scenario' = scenario,
         \/ table' = table
         \/ table' = [table EXCEPT ![t] = id],
         \A u \in scenario.threads : table[u] = id => u = t,
         mutex' = mutex, pc[t] \in {"idle", "copying"},
         \/ UNCHANGED <<pc, op>>
         \/ pc' = [pc EXCEPT ![t] = "idle"] /\ op' = [op EXCEPT ![t] = <<"none">>]
  PROVE  CheckInv'
<1>0. Shape BY DEF TableInv
<1>1. t \in Threads BY <1>0, ThreadsOf
<1>2. ASSUME NEW u \in Threads, pc'[u] \notin {"idle", "copying"}
      PROVE  pc[u] = pc'[u] /\ table'[u] = table[u] /\ impl'[table'[u]] = impl[table[u]]
  <2>1. u # t /\ pc[u] = pc'[u] BY <1>0, <1>1, <1>2 DEF Shape
  <2>2. u \in scenario.threads BY <1>2, <2>1 DEF TableInv, AtWork
  <2>3. table'[u] = table[u] /\ table[u] # id /\ table[u] \in ImplIds
    BY <1>0, <1>1, <2>1, <2>2 DEF Shape
  <2>4. impl'[table[u]] = impl[table[u]] BY <1>0, <2>3 DEF Shape
  <2> QED BY <2>1, <2>3, <2>4
<1>3. Computing' BY <1>2 DEF CheckInv, Computing, Mine
<1>4. Reading' BY <1>2 DEF CheckInv, Reading, Mine
<1>5. Currency'
  <2> SUFFICES ASSUME ~scenario.removals
               PROVE  /\ \A i \in ImplIds : Current(impl'[i])
                      /\ \A u \in Threads : pc'[u] = "copying" => op'[u][1] # "remove"
    BY DEF Currency
  <2>1. /\ \A i \in ImplIds : Current(impl[i])
        /\ \A u \in Threads : pc[u] = "copying" => op[u][1] # "remove"
    BY DEF CheckInv, Currency
  <2>2. ASSUME NEW i \in ImplIds PROVE Current(impl'[i])
    <3>1. impl'[i] = new \/ impl'[i] = impl[i] BY <1>0 DEF Shape
    <3> QED BY <2>1, <3>1
  <2>3. ASSUME NEW u \in Threads, pc'[u] = "copying" PROVE op'[u][1] # "remove"
    <3>1. pc[u] = "copying" /\ op'[u] = op[u] BY <1>0, <1>1, <2>3 DEF Shape
    <3> QED BY <2>1, <3>1
  <2> QED BY <2>2, <2>3
<1> QED BY <1>3, <1>4, <1>5 DEF CheckInv

\* Every step keeps the invariant.
LEMMA NextCheckInv == TableInv /\ CheckInv /\ [Next]_vars => CheckInv'
<1> SUFFICES ASSUME TableInv, CheckInv, [Next]_vars PROVE CheckInv' OBVIOUS
<1>s. Shape BY DEF TableInv
<1>m. \A t \in Threads : table[t] \in ImplIds /\ TableOK(Mine(t))
  BY DEF TableInv, Shape, Tables, Mine
<1>c. /\ \A t \in Threads : pc[t] = "computing" => mutex[table[t]] = t /\ ~Mine(t).finalized
      /\ \A t \in Threads : pc[t] = "reading" => Mine(t).finalized
  BY DEF CheckInv, Computing, Reading
<1>r. ASSUME ~scenario.removals
      PROVE  /\ \A i \in ImplIds : Current(impl[i])
             /\ \A t \in Threads : Current(Mine(t))
             /\ \A t \in Threads : pc[t] = "copying" => op[t][1] # "remove"
  BY <1>m, <1>r DEF CheckInv, Currency, Mine
<1>1. ASSUME NEW t \in Threads, StartChange(t) PROVE CheckInv'
  <2>1. t \in scenario.threads /\ pc[t] = "idle" BY <1>1 DEF StartChange, Idle
  <2>2. PICK o \in Changes(t) :
          IF MayMutate(t)
          THEN /\ impl' = [impl EXCEPT ![table[t]] = Changed(@, o)]
               /\ UNCHANGED <<pc, op>>
          ELSE /\ pc' = [pc EXCEPT ![t] = "copying"]
               /\ op' = [op EXCEPT ![t] = o]
               /\ UNCHANGED impl
    BY <1>1 DEF StartChange
  <2>3. UNCHANGED <<scenario, table, mutex>> BY <1>1 DEF StartChange
  <2>4. OpOK(scenario.threads, Mine(t), o) BY <1>m, <1>s, ChangesAreOK
  <2>5. ~scenario.removals => o[1] # "remove" BY <2>2 DEF Changes
  <2>6. CASE MayMutate(t)
    <3> DEFINE new == Changed(Mine(t), o)
    <3>1. ~scenario.removals => Current(new) BY <1>m, <1>r, <2>4, <2>5, ChangeKeepsCurrent
    <3>2. impl' = [impl EXCEPT ![table[t]] = new] BY <2>2, <2>6 DEF Mine
    <3>3. \A u \in scenario.threads : table[u] = table[t] => u = t
      BY <2>6 DEF MayMutate, Users
    <3>4. UNCHANGED <<pc, op>> /\ pc[t] \in {"idle", "copying"} BY <2>1, <2>2, <2>6
    <3> HIDE DEF new
    <3> QED BY <1>m, <2>1, <2>3, <3>1, <3>2, <3>3, <3>4, OneCheckSumChanges
  <2>7. CASE ~MayMutate(t)
    <3>1. /\ pc' = [pc EXCEPT ![t] = "copying"] /\ op' = [op EXCEPT ![t] = o]
          /\ UNCHANGED <<impl, scenario, table, mutex>>
      BY <2>2, <2>3, <2>7
    <3>2. Computing' BY <1>c, <1>s, <3>1 DEF Computing, Mine, Shape
    <3>3. Reading' BY <1>c, <1>s, <3>1 DEF Reading, Mine, Shape
    <3>4. ASSUME ~scenario.removals, NEW u \in Threads, pc'[u] = "copying"
          PROVE  op'[u][1] # "remove"
      <4>1. CASE u = t
        <5>1. op'[u] = o BY <1>s, <3>1, <4>1 DEF Shape
        <5> QED BY <2>5, <3>4, <5>1
      <4>2. CASE u # t
        <5>1. pc[u] = "copying" /\ op'[u] = op[u] BY <1>s, <3>1, <3>4, <4>2 DEF Shape
        <5> QED BY <1>r, <3>4, <5>1
      <4> QED BY <4>1, <4>2
    <3>5. Currency' BY <1>r, <3>1, <3>4 DEF Currency
    <3> QED BY <3>2, <3>3, <3>5 DEF CheckInv
  <2> QED BY <2>6, <2>7
<1>2. ASSUME NEW t \in Threads, FinishChange(t) PROVE CheckInv'
  <2> DEFINE new == Changed(CopyOf(Mine(t)), op[t])
  <2>1. /\ pc[t] = "copying" /\ Replace(t, new) /\ pc' = [pc EXCEPT ![t] = "idle"]
        /\ op' = [op EXCEPT ![t] = <<"none">>] /\ UNCHANGED <<scenario, mutex>>
    BY <1>2 DEF FinishChange
  <2>2. t \in scenario.threads BY <2>1 DEF TableInv, AtWork
  <2>3. OpOK(scenario.threads, Mine(t), op[t]) BY <2>1 DEF TableInv, Pending, Mine
  <2>4. TableOK(CopyOf(Mine(t))) /\ Written(CopyOf(Mine(t))) = Written(Mine(t))
    BY <1>m, CopyLemma
  <2>5. OpOK(scenario.threads, CopyOf(Mine(t)), op[t]) BY <1>m, <2>3, <2>4, SameOps
  <2>6. Current(CopyOf(Mine(t)))
    <3> DEFINE m == Mine(t)
    <3>1. IsRecord(m) BY <1>m DEF TableOK
    <3> HIDE DEF m
    <3>2. CopyOf(m).finalized = FALSE BY <3>1 DEF CopyOf, IsRecord
    <3> QED BY <3>2 DEF Current, m
  <2>7. ~scenario.removals => Current(new) BY <1>r, <2>1, <2>4, <2>5, <2>6, ChangeKeepsCurrent
  <2> HIDE DEF new
  <2>8. PICK id \in ImplIds : /\ table' = [table EXCEPT ![t] = id]
                              /\ impl' = [impl EXCEPT ![id] = new]
                              /\ \A u \in scenario.threads : table[u] = id => u = t
    BY <1>s, <2>1, <2>2, ReplaceLemma
  <2>9. pc[t] \in {"idle", "copying"} BY <2>1
  <2> QED BY <2>1, <2>2, <2>7, <2>8, <2>9, OneCheckSumChanges
<1>3. ASSUME NEW t \in Threads, Reload(t) PROVE CheckInv'
  <2>1. /\ t \in scenario.threads /\ pc[t] = "idle" /\ UNCHANGED <<scenario, pc, op, mutex>>
    BY <1>3 DEF Reload, Idle
  <2>2. PICK new \in {WriteAndRead(Mine(t)), WriteAndReadText(Mine(t))} : Replace(t, new)
    BY <1>3 DEF Reload
  <2>3. Current(new)
    <3>1. Current(WriteAndRead(Mine(t))) /\ Current(WriteAndReadText(Mine(t)))
      BY <1>m, ReadKeepsCurrent
    <3> QED BY <3>1
  <2>4. PICK id \in ImplIds : /\ table' = [table EXCEPT ![t] = id]
                              /\ impl' = [impl EXCEPT ![id] = new]
                              /\ \A u \in scenario.threads : table[u] = id => u = t
    BY <1>s, <2>1, <2>2, ReplaceLemma
  <2>5. UNCHANGED <<pc, op>> /\ pc[t] \in {"idle", "copying"} BY <2>1
  <2> QED BY <2>1, <2>3, <2>4, <2>5, OneCheckSumChanges
<1>4. ASSUME NEW t \in Threads, AskCheckSum(t) PROVE CheckInv'
  <2>1. /\ UNCHANGED <<scenario, impl, table, op, mutex>>
        /\ pc' = [pc EXCEPT ![t] = IF Mine(t).finalized THEN "reading" ELSE "exclusive"]
    BY <1>4 DEF AskCheckSum
  <2>2. Computing' BY <1>c, <1>s, <2>1 DEF Computing, Mine, Shape
  <2>3. Reading' BY <1>c, <1>s, <2>1 DEF Reading, Mine, Shape
  <2>4. Currency' BY <1>r, <1>s, <2>1 DEF Currency, Shape
  <2> QED BY <2>2, <2>3, <2>4 DEF CheckInv
<1>5. ASSUME NEW t \in Threads, RecheckCheckSum(t) PROVE CheckInv'
  <2>1. pc[t] = "exclusive" /\ mutex[table[t]] = Free /\ UNCHANGED <<scenario, impl, table, op>>
    BY <1>5 DEF RecheckCheckSum
  <2>2. \/ Mine(t).finalized /\ pc' = [pc EXCEPT ![t] = "reading"] /\ UNCHANGED mutex
        \/ /\ ~Mine(t).finalized /\ pc' = [pc EXCEPT ![t] = "computing"]
           /\ mutex' = [mutex EXCEPT ![table[t]] = t]
    BY <1>5 DEF RecheckCheckSum, DoneMeanwhile
  <2>3. Computing'
    <3> SUFFICES ASSUME NEW u \in Threads, pc'[u] = "computing"
                 PROVE  mutex'[table[u]] = u /\ ~Mine(u).finalized
      BY <2>1 DEF Computing, Mine
    <3>1. CASE u = t BY <1>m, <1>s, <2>2, <3>1 DEF Shape
    <3>2. CASE u # t
      <4>1. pc[u] = "computing" BY <1>s, <2>2, <3>2 DEF Shape
      <4>2. mutex[table[u]] = u /\ ~Mine(u).finalized BY <1>c, <4>1
      <4>3. table[u] # table[t] BY <2>1, <4>2, FreeAssumption
      <4>4. mutex'[table[u]] = mutex[table[u]] BY <1>m, <1>s, <2>2, <4>3 DEF Shape
      <4> QED BY <4>2, <4>4
    <3> QED BY <3>1, <3>2
  <2>4. Reading'
    <3> SUFFICES ASSUME NEW u \in Threads, pc'[u] = "reading" PROVE Mine(u).finalized
      BY <2>1 DEF Reading, Mine
    <3>1. CASE u = t BY <1>s, <2>2, <3>1 DEF Shape
    <3>2. CASE u # t
      <4>1. pc[u] = "reading" BY <1>s, <2>2, <3>2 DEF Shape
      <4> QED BY <1>c, <4>1
    <3> QED BY <3>1, <3>2
  <2>5. Currency'
    <3>1. ASSUME NEW u \in Threads, pc'[u] = "copying" PROVE pc[u] = "copying"
      BY <1>s, <2>2, <3>1 DEF Shape
    <3> QED BY <1>r, <2>1, <3>1 DEF Currency
  <2> QED BY <2>3, <2>4, <2>5 DEF CheckInv
<1>6. ASSUME NEW t \in Threads, ComputeCheckSum(t) PROVE CheckInv'
  <2> DEFINE id == table[t]
             m == Mine(t)
             new == WithCheckSums(m)
  <2>1. /\ pc[t] = "computing" /\ UNCHANGED <<scenario, table, op>>
        /\ impl' = [impl EXCEPT ![id] = new]
        /\ pc' = [pc EXCEPT ![t] = "reading"] /\ mutex' = [mutex EXCEPT ![id] = Free]
    BY <1>6 DEF ComputeCheckSum, Mine
  <2>2. id \in ImplIds /\ mutex[id] = t /\ IsRecord(m) BY <1>m, <1>c, <2>1 DEF TableOK
  <2>3. /\ new.finalized = TRUE /\ new.map = m.map /\ new.dense = m.dense /\ new.keyMap = m.keyMap
        /\ new.checkSum = CheckSumOf(m) /\ new.labeled = LabeledCheckSumOf(m)
    <3> HIDE DEF m
    <3> QED BY <2>2 DEF WithCheckSums, IsRecord
  <2> HIDE DEF new, m, id
  <2>4. Current(new)
    <3>1. CheckSumOf(new) = CheckSumOf(m) /\ LabeledCheckSumOf(new) = LabeledCheckSumOf(m)
      BY <2>3, SameCheckSums
    <3> QED BY <2>3, <3>1 DEF Current
  <2>5. Computing'
    <3> SUFFICES ASSUME NEW u \in Threads, pc'[u] = "computing"
                 PROVE  mutex'[table[u]] = u /\ ~impl'[table[u]].finalized
      BY <2>1 DEF Computing, Mine
    <3>1. u # t /\ pc[u] = "computing" BY <1>s, <2>1 DEF Shape
    <3>2. mutex[table[u]] = u /\ ~impl[table[u]].finalized BY <1>c, <3>1 DEF Mine
    <3>3. table[u] # id /\ table[u] \in ImplIds BY <1>m, <2>2, <3>1, <3>2
    <3> QED BY <1>s, <2>1, <3>2, <3>3 DEF Shape
  <2>6. Reading'
    <3> SUFFICES ASSUME NEW u \in Threads, pc'[u] = "reading" PROVE impl'[table[u]].finalized
      BY <2>1 DEF Reading, Mine
    <3>1. CASE table[u] = id
      <4>1. impl'[table[u]] = new BY <1>s, <2>1, <2>2, <3>1 DEF Shape
      <4> QED BY <2>3, <4>1
    <3>2. CASE table[u] # id
      <4>1. u # t /\ impl'[table[u]] = impl[table[u]] BY <1>m, <1>s, <2>1, <3>2 DEF Shape, id
      <4>2. pc[u] = "reading" BY <1>s, <2>1, <4>1 DEF Shape
      <4>3. impl[table[u]].finalized BY <1>c, <4>2 DEF Mine
      <4> QED BY <4>1, <4>3
    <3> QED BY <3>1, <3>2
  <2>7. Currency'
    <3>1. ASSUME ~scenario.removals, NEW i \in ImplIds PROVE Current(impl'[i])
      <4>1. impl'[i] = new \/ impl'[i] = impl[i] BY <1>s, <2>1, <2>2 DEF Shape
      <4> QED BY <1>r, <2>4, <3>1, <4>1
    <3>2. ASSUME ~scenario.removals, NEW u \in Threads, pc'[u] = "copying"
          PROVE  op'[u][1] # "remove"
      <4>1. pc[u] = "copying" /\ op'[u] = op[u] BY <1>s, <2>1, <3>2 DEF Shape
      <4> QED BY <1>r, <3>2, <4>1
    <3> QED BY <2>1, <3>1, <3>2 DEF Currency
  <2> QED BY <2>5, <2>6, <2>7 DEF CheckInv
<1>7. ASSUME NEW t \in Threads, UseCheckSum(t) PROVE CheckInv'
  <2>1. /\ pc' = [pc EXCEPT ![t] = "idle"] /\ UNCHANGED <<scenario, impl, table, op, mutex>>
    BY <1>7 DEF UseCheckSum
  <2>2. Computing' BY <1>c, <1>s, <2>1 DEF Computing, Mine, Shape
  <2>3. Reading' BY <1>c, <1>s, <2>1 DEF Reading, Mine, Shape
  <2>4. Currency' BY <1>r, <1>s, <2>1 DEF Currency, Shape
  <2> QED BY <2>2, <2>3, <2>4 DEF CheckInv
<1>8. ASSUME NEW t \in Threads, NEW u \in Threads, Share(t, u) PROVE CheckInv'
  <2>1. /\ u \in scenario.threads /\ pc[t] = "idle" /\ pc[u] = "idle"
        /\ table' = [table EXCEPT ![u] = table[t]] /\ UNCHANGED <<scenario, pc, op, mutex>>
        /\ impl' = IF Users(table[u]) = {u} /\ table[u] # table[t]
                   THEN [impl EXCEPT ![table[u]] = NewImpl] ELSE impl
    BY <1>8 DEF Share, Idle
  <2>2. ASSUME NEW v \in Threads, pc[v] # "idle"
        PROVE  table'[v] = table[v] /\ impl'[table[v]] = impl[table[v]]
    <3>1. v # u /\ v \in scenario.threads BY <2>1, <2>2 DEF TableInv, AtWork
    <3>2. table'[v] = table[v] BY <1>s, <2>1, <3>1 DEF Shape
    <3>3. CASE Users(table[u]) = {u} /\ table[u] # table[t]
      <4>1. table[v] # table[u] BY <3>1, <3>3 DEF Users
      <4> QED BY <1>s, <1>m, <2>1, <3>2, <3>3, <4>1 DEF Shape
    <3>4. CASE ~(Users(table[u]) = {u} /\ table[u] # table[t]) BY <2>1, <3>2, <3>4
    <3> QED BY <3>3, <3>4
  <2>3. Computing' BY <1>c, <2>1, <2>2 DEF Computing, Mine
  <2>4. Reading' BY <1>c, <2>1, <2>2 DEF Reading, Mine
  <2>5. Currency'
    <3>1. Current(NewImpl)
      <4>1. NewImpl.finalized = FALSE BY DEF NewImpl
      <4> QED BY <4>1 DEF Current
    <3>2. ASSUME ~scenario.removals, NEW i \in ImplIds PROVE Current(impl'[i])
      <4>1. impl'[i] = NewImpl \/ impl'[i] = impl[i] BY <1>s, <2>1 DEF Shape
      <4> QED BY <1>r, <3>1, <3>2, <4>1
    <3> QED BY <1>r, <2>1, <3>2 DEF Currency
  <2> QED BY <2>3, <2>4, <2>5 DEF CheckInv
<1>9. CASE UNCHANGED vars
  <2>1. UNCHANGED <<scenario, impl, table, pc, op, mutex>> BY <1>9 DEF vars
  <2> QED BY <2>1 DEF CheckInv, Computing, Reading, Currency, Mine
<1> QED BY <1>1, <1>2, <1>3, <1>4, <1>5, <1>6, <1>7, <1>8, <1>9 DEF Next

\* Nobody asks for a checksum of the empty table at first.
LEMMA InitCheckInv == Init => CheckInv
<1> SUFFICES ASSUME Init PROVE CheckInv OBVIOUS
<1>1. NewImpl.finalized = FALSE BY DEF NewImpl
<1>2. Current(NewImpl) BY <1>1 DEF Current
<1> QED BY <1>2 DEF Init, CheckInv, Computing, Reading, Currency

\* The invariants say what checksums are for.
LEMMA InvAgrees == TableInv /\ CheckInv => CheckSumsAgree
<1> SUFFICES ASSUME TableInv, CheckInv PROVE CheckSumsAgree OBVIOUS
<1>1. EqualTablesFeedTheSame
  <2> SUFFICES ASSUME NEW i \in ImplIds, NEW j \in ImplIds, Labeled(impl[i]) = Labeled(impl[j])
               PROVE  LabeledCheckSumOf(impl[i]) = LabeledCheckSumOf(impl[j])
    BY DEF EqualTablesFeedTheSame, Labeled
  <2>1. TableOK(impl[i]) /\ TableOK(impl[j]) BY DEF TableInv, Tables
  <2> QED BY <2>1, EqualPairsFeedTheSame
<1>2. scenario.threads \subseteq Threads BY ThreadsOf DEF TableInv
<1>3. CheckSumNotWrittenInUse
  <2> SUFFICES ASSUME NEW t \in scenario.threads, NEW u \in scenario.threads,
                      pc[t] = "reading", pc[u] = "computing", table[t] = table[u]
               PROVE  FALSE
    BY DEF CheckSumNotWrittenInUse
  <2>1. impl[table[t]].finalized /\ ~impl[table[u]].finalized
    BY <1>2 DEF CheckInv, Computing, Reading, Mine
  <2> QED BY <2>1
<1>4. CheckSumIsCurrent
  <2> SUFFICES ASSUME ~scenario.removals, NEW t \in scenario.threads, pc[t] = "reading"
               PROVE  /\ Mine(t).checkSum = CheckSumOf(Mine(t))
                      /\ Mine(t).labeled = LabeledCheckSumOf(Mine(t))
    BY DEF CheckSumIsCurrent
  <2>1. Mine(t).finalized BY <1>2 DEF CheckInv, Reading
  <2>2. table[t] \in ImplIds BY <1>2 DEF TableInv, Shape
  <2>3. Current(Mine(t)) BY <2>2 DEF CheckInv, Currency, Mine
  <2> QED BY <2>1, <2>3 DEF Current
<1> QED BY <1>1, <1>3, <1>4 DEF CheckSumsAgree

\* No checksum is computed while somebody reads it, a caller's checksums are those
\* of the table as it is unless symbols are removed, and equal tables feed the same
\* lines (MaybeRecomputeCheckSum, CompatSymbols).
THEOREM CheckSums == Spec => []CheckSumsAgree
<1>1. Init => CheckInv BY InitCheckInv
<1>2. TableInv /\ CheckInv /\ [Next]_vars => CheckInv' BY NextCheckInv
<1>3. Spec => []TableInv BY TableInvHolds
<1>4. TableInv /\ CheckInv => CheckSumsAgree BY InvAgrees
<1> QED BY <1>1, <1>2, <1>3, <1>4, PTL DEF Spec

-----------------------------------------------------------------------------
(* MergeSymbolTable.                                                       *)

\* Placed is a fold of Place, Resolved one of AddLast.
Placing == INSTANCE NumberTheorems WITH Step <- Place
Resolving == INSTANCE NumberTheorems WITH Step <- AddLast

\* The pairs of a table, in no order.
PairsOf(t) == ToSet(Written(t))

\* A pair for every symbol.
LEMMA PairsLemma ==
  ASSUME NEW t, TableOK(t)
  PROVE  /\ PairsOf(t) = {<<t.map.symbols[i], KeyAt(t, i)>> : i \in 1..Size(t.map)}
         /\ \A p \in PairsOf(t) : p[1] \in Symbols /\ p[2] \in Int /\ p[2] # kNoSymbol
         /\ \A p \in PairsOf(t) : p = <<p[1], p[2]>>
         /\ \A p, q \in PairsOf(t) : p[1] = q[1] \/ p[2] = q[2] => p = q
<1> DEFINE n == Size(t.map)
           W == Written(t)
<1>1. /\ W = [i \in 1..n |-> <<t.map.symbols[i], KeyAt(t, i)>>] /\ DOMAIN W = 1..n
  BY WrittenLemma
<1>2. Pairs(W, n) BY WrittenPairs
<1>3. PairsOf(t) = {W[i] : i \in 1..n} BY <1>1 DEF PairsOf, ToSet
<1> HIDE DEF W, n
<1>4. PairsOf(t) = {<<t.map.symbols[i], KeyAt(t, i)>> : i \in 1..n} BY <1>1, <1>3
<1>5. ASSUME NEW p \in PairsOf(t)
      PROVE  p[1] \in Symbols /\ p[2] \in Int /\ p[2] # kNoSymbol /\ p = <<p[1], p[2]>>
  <2>1. PICK i \in 1..n : p = W[i] BY <1>3
  <2>2. /\ W[i] = <<W[i][1], W[i][2]>> /\ W[i][1] \in Symbols
        /\ W[i][2] \in Int /\ W[i][2] # kNoSymbol
    BY <1>2, Zenon DEF Pairs
  <2> QED BY <2>1, <2>2
<1>6. ASSUME NEW p \in PairsOf(t), NEW q \in PairsOf(t), p[1] = q[1] \/ p[2] = q[2]
      PROVE  p = q
  <2>1. PICK i \in 1..n : p = W[i] BY <1>3
  <2>2. PICK j \in 1..n : q = W[j] BY <1>3
  <2>3. i = j BY <1>2, <1>6, <2>1, <2>2 DEF Pairs
  <2> QED BY <2>1, <2>2, <2>3
<1> QED BY <1>4, <1>5, <1>6 DEF n

\* What Find(symbol) answers, in terms of the pairs.
LEMMA FindPair ==
  ASSUME NEW t, TableOK(t), NEW s \in Symbols
  PROVE  /\ FindKey(t, s) # kNoSymbol => <<s, FindKey(t, s)>> \in PairsOf(t)
         /\ Known(t, s) <=> FindKey(t, s) # kNoSymbol
         /\ Known(t, s) <=> s \in SymbolsIn(PairsOf(t))
<1> DEFINE n == Size(t.map)
           k == FindKey(t, s)
<1>1. /\ \A q \in 1..n : t.map.symbols[q] = s => k = KeyAt(t, q)
      /\ (\A q \in 1..n : t.map.symbols[q] # s) => k = kNoSymbol
  BY FindKeyLemma
<1>2. \A i \in 1..n : KeyAt(t, i) # kNoSymbol BY KeysLemma
<1>3. PairsOf(t) = {<<t.map.symbols[i], KeyAt(t, i)>> : i \in 1..n} BY PairsLemma
<1>4. Known(t, s) <=> \E q \in 1..n : t.map.symbols[q] = s BY DEF Known
<1> HIDE DEF n, k
<1>5. Known(t, s) <=> k # kNoSymbol BY <1>1, <1>2, <1>4
<1>6. ASSUME k # kNoSymbol PROVE <<s, k>> \in PairsOf(t)
  <2>1. PICK q \in 1..n : t.map.symbols[q] = s BY <1>1, <1>6
  <2>2. <<s, k>> = <<t.map.symbols[q], KeyAt(t, q)>> BY <1>1, <2>1
  <2> QED BY <1>3, <2>2
<1>7. ASSUME Known(t, s) PROVE s \in SymbolsIn(PairsOf(t))
  <2>1. <<s, k>> \in PairsOf(t) /\ <<s, k>>[1] = s BY <1>5, <1>6, <1>7
  <2> QED BY <2>1 DEF SymbolsIn
<1>8. ASSUME s \in SymbolsIn(PairsOf(t)) PROVE Known(t, s)
  <2>1. PICK p \in PairsOf(t) : p[1] = s BY <1>8 DEF SymbolsIn
  <2>2. PICK q \in 1..n : p = <<t.map.symbols[q], KeyAt(t, q)>> BY <1>3
  <2>3. t.map.symbols[q] = s BY <2>1, <2>2
  <2> QED BY <1>4, <2>3
<1> QED BY <1>5, <1>6, <1>7, <1>8 DEF k

\* What AddSymbol does to the pairs.
LEMMA AddPairs ==
  ASSUME NEW t, TableOK(t), NEW s \in Symbols, NEW key \in Int, key # kNoSymbol, Fresh(t, key)
  PROVE  /\ TableOK(AddSymbol(t, s, key))
         /\ PairsOf(AddSymbol(t, s, key))
              = IF Known(t, s) THEN PairsOf(t) ELSE PairsOf(t) \cup {<<s, key>>}
<1> DEFINE r == AddSymbol(t, s, key)
           n == Size(t.map)
<1>1. Adds(t, s, key, r) BY AddSymbolLemma
<1> HIDE DEF r
<1>2. CASE Known(t, s)
  <2>1. TableOK(r) /\ Written(r) = Written(t) BY <1>1, <1>2 DEF Adds
  <2> QED BY <1>2, <2>1 DEF PairsOf, r
<1>3. CASE ~Known(t, s)
  <2>1. TableOK(r) /\ Written(r) = Append(Written(t), <<s, key>>) BY <1>1, <1>3 DEF Adds
  <2> DEFINE W == Written(t)
             S == {W[i] : i \in 1..n} \cup {<<s, key>>}
  <2>2. W = [i \in 1..n |-> W[i]] /\ Len(W) = n /\ DOMAIN W = 1..n BY WrittenLemma
  <2>3. n \in Nat BY SizeLemma
  <2> HIDE DEF W, n
  <2>4. \A i \in 1..n : W[i] \in S OBVIOUS
  <2>5. <<s, key>> \in S OBVIOUS
  <2> HIDE DEF S
  <2>6. W \in Seq(S) BY <2>2, <2>3, <2>4
  <2> DEFINE e == <<s, key>>
             A == Append(W, e)
  <2>e. e \in S BY <2>5
  <2> HIDE DEF e
  <2>7. /\ Len(A) = n + 1 /\ A[n + 1] = e /\ \A i \in 1..n : A[i] = W[i]
        /\ DOMAIN A = 1..n+1
    BY <2>2, <2>3, <2>6, <2>e
  <2> HIDE DEF A
  <2>8. \A i \in 1..n+1 : i \in 1..n \/ i = n + 1 BY <2>3
  <2>9. \A i \in 1..n : i \in 1..n+1 BY <2>3
  <2>10. n + 1 \in 1..n+1 BY <2>3
  <2>11. ToSet(A) = ToSet(W) \cup {e}
    <3>1. ToSet(A) = {A[i] : i \in 1..n+1} /\ ToSet(W) = {W[i] : i \in 1..n}
      BY <2>2, <2>7 DEF ToSet
    <3>2. ASSUME NEW x \in ToSet(A) PROVE x \in ToSet(W) \cup {e}
      <4>1. PICK i \in 1..n+1 : x = A[i] BY <3>1, <3>2
      <4>2. CASE i \in 1..n BY <2>7, <3>1, <4>1, <4>2
      <4>3. CASE i = n + 1 BY <2>7, <4>1, <4>3
      <4> QED BY <2>8, <4>2, <4>3
    <3>3. ASSUME NEW x \in ToSet(W) PROVE x \in ToSet(A)
      <4>1. PICK i \in 1..n : x = W[i] BY <3>1, <3>3
      <4>2. x = A[i] /\ i \in 1..n+1 BY <2>7, <2>9, <4>1
      <4> QED BY <3>1, <4>2
    <3>4. e \in ToSet(A) BY <2>7, <2>10, <3>1
    <3> QED BY <3>2, <3>3, <3>4
  <2> QED BY <1>3, <2>1, <2>11 DEF PairsOf, r, W, A, e
<1> QED BY <1>2, <1>3

\* As many keys as symbols.
LEMMA CountKeys ==
  ASSUME NEW t, TableOK(t)
  PROVE  Cardinality(KeysOf(PairsOf(t))) = Size(t.map)
<1> DEFINE n == Size(t.map)
           T == {p[2] : p \in PairsOf(t)}
           f == [i \in 1..n |-> KeyAt(t, i)]
<1>1. n \in Nat BY SizeLemma
<1>2. PairsOf(t) = {<<t.map.symbols[i], KeyAt(t, i)>> : i \in 1..n} BY PairsLemma
<1>3. ASSUME NEW i \in 1..n PROVE KeyAt(t, i) \in T
  <2> DEFINE p == <<t.map.symbols[i], KeyAt(t, i)>>
  <2>1. p \in PairsOf(t) /\ p[2] = KeyAt(t, i) BY <1>2
  <2> HIDE DEF p
  <2> QED BY <2>1
<1>4. ASSUME NEW x \in T PROVE \E i \in 1..n : KeyAt(t, i) = x
  <2>1. PICK p \in PairsOf(t) : x = p[2] OBVIOUS
  <2>2. PICK i \in 1..n : p = <<t.map.symbols[i], KeyAt(t, i)>> BY <1>2
  <2> QED BY <2>1, <2>2
<1>5. \A i, j \in 1..n : KeyAt(t, i) = KeyAt(t, j) => i = j BY KeysLemma
<1> HIDE DEF n, T
<1>6. f \in [1..n -> T] BY <1>3
<1>7. \A i \in 1..n : f[i] = KeyAt(t, i) OBVIOUS
<1>8. DOMAIN f = 1..n OBVIOUS
<1> HIDE DEF f
<1>9. f \in Injection(1..n, T) BY <1>5, <1>6, <1>7, <1>8 DEF Injection, IsInjective
<1>10. f \in Surjection(1..n, T) BY <1>4, <1>6, <1>7 DEF Surjection
<1>11. ExistsBijection(1..n, T) BY <1>9, <1>10 DEF ExistsBijection, Bijection
<1>12. IsFiniteSet(1..n) /\ Cardinality(1..n) = n
  <2>1. 1 \in Int /\ n \in Int BY <1>1
  <2>2. Cardinality(1..n) = IF 1 > n THEN 0 ELSE n - 1 + 1 BY <2>1, FS_Interval
  <2> QED BY <1>1, <2>1, <2>2, FS_Interval
<1>13. Cardinality(T) = n BY <1>11, <1>12, FS_Bijection
<1> QED BY <1>13 DEF n, T, KeysOf

\* A key whose symbol is the empty string is nobody's.
LEMMA FreeIsFresh ==
  ASSUME NEW t, TableOK(t), NEW e, e[2] \in Int, KeyIsFree(t, e)
  PROVE  Fresh(t, e[2])
<1> SUFFICES ASSUME NEW i \in 1..Size(t.map), KeyAt(t, i) = e[2] PROVE FALSE BY DEF Fresh
<1>1. FindSymbol(t, KeyAt(t, i)) = t.map.symbols[i] BY FindSymbolLemma
<1>2. t.map.symbols[i] \in Symbols BY SizeLemma
<1>3. FindSymbol(t, e[2]) = "" BY Zenon DEF KeyIsFree
<1> QED BY <1>1, <1>2, <1>3, SymbolsAssumption, Zenon

\* Any other key is somebody's.
LEMMA TakenKey ==
  ASSUME NEW t, TableOK(t), NEW e, e[2] \in Int, ~KeyIsFree(t, e)
  PROVE  \E q \in PairsOf(t) : q[2] = e[2]
<1>1. FindSymbol(t, e[2]) # "" BY Zenon DEF KeyIsFree
<1>2. PICK i \in 1..Size(t.map) : KeyAt(t, i) = e[2] BY <1>1, FindSymbolLemma
<1> DEFINE q == <<t.map.symbols[i], KeyAt(t, i)>>
<1>3. q \in PairsOf(t) BY PairsLemma
<1>4. q[2] = e[2] BY <1>2
<1> HIDE DEF q
<1> QED BY <1>3, <1>4

\* What is known after the first k pairs of the right table were placed among
\* those of the left one.
PlacedInv(state, left, list, k) ==
  /\ state = [table |-> state.table, conflicts |-> state.conflicts]
  /\ TableOK(state.table) /\ state.conflicts \in Seq(Symbols)
  /\ PairsOf(left) \subseteq PairsOf(state.table)
  /\ \A p \in PairsOf(state.table) : p \in PairsOf(left) \/ \E i \in 1..k : list[i] = p
  /\ \A s \in SymbolsIn(PairsOf(state.table)) \cup ToSet(state.conflicts) :
       s \in SymbolsIn(PairsOf(left)) \/ \E i \in 1..k : list[i][1] = s
  /\ \A i \in 1..k : \/ list[i] \in PairsOf(state.table)
                     \/ /\ list[i][1] \in ToSet(state.conflicts)
                        /\ list[i][2] \in KeysOf(PairsOf(left))
                     \/ list[i][1] \in SymbolsIn(PairsOf(left))

\* One more pair.
LEMMA PlaceLemma ==
  ASSUME NEW left, TableOK(left), NEW list, NEW n \in Nat, Pairs(list, n),
         NEW k \in Nat, k + 1 <= n, NEW state, PlacedInv(state, left, list, k)
  PROVE  PlacedInv(Place(state, list[k+1]), left, list, k + 1)
<1> DEFINE e == list[k+1]
           s == e[1]
           key == e[2]
           t == state.table
           c == state.conflicts
           new == Place(state, e)
           P == PairsOf(left)
<1>1. k + 1 \in 1..n /\ \A i \in 1..k : i \in 1..n /\ i # k + 1 OBVIOUS
<1>2. /\ e = <<s, key>> /\ s \in Symbols /\ key \in Int /\ key # kNoSymbol
      /\ \A i \in 1..k : list[i][1] # s /\ list[i][2] # key
  BY <1>1 DEF Pairs
<1>3. /\ state = [table |-> t, conflicts |-> c] /\ TableOK(t) /\ c \in Seq(Symbols)
      /\ P \subseteq PairsOf(t)
      /\ \A p \in PairsOf(t) : p \in P \/ \E i \in 1..k : list[i] = p
      /\ \A x \in SymbolsIn(PairsOf(t)) \cup ToSet(c) :
           x \in SymbolsIn(P) \/ \E i \in 1..k : list[i][1] = x
      /\ \A i \in 1..k : \/ list[i] \in PairsOf(t)
                         \/ list[i][1] \in ToSet(c) /\ list[i][2] \in KeysOf(P)
                         \/ list[i][1] \in SymbolsIn(P)
  BY DEF PlacedInv
<1>4. \A i \in 1..k : i \in 1..k+1 OBVIOUS
<1>5. k + 1 \in 1..k+1 OBVIOUS
<1>6. \A i \in 1..k+1 : i \in 1..k \/ i = k + 1 OBVIOUS
<1>7. Known(t, s) <=> FindKey(t, s) # kNoSymbol BY <1>2, <1>3, FindPair
<1>8. Known(t, s) <=> s \in SymbolsIn(PairsOf(t)) BY <1>2, <1>3, FindPair
<1>9. Has(t, e) <=> Known(t, s) BY <1>7 DEF Has
<1>10. /\ Has(t, e) => new = state
       /\ ~Has(t, e) /\ KeyIsFree(t, e) => new = [state EXCEPT !.table = AddSymbol(@, s, key)]
       /\ ~Has(t, e) /\ ~KeyIsFree(t, e) => new = [state EXCEPT !.conflicts = Append(@, s)]
  BY Zenon DEF Place
<1>e. list[k+1] = e /\ list[k+1][1] = s OBVIOUS
<1> HIDE DEF e, s, key, t, c, new, P
<1>11. CASE Known(t, s)
  <2>1. new = state BY <1>9, <1>10, <1>11
  <2>2. s \in SymbolsIn(P) BY <1>2, <1>3, <1>8, <1>11
  <2>3. \A x \in SymbolsIn(PairsOf(t)) \cup ToSet(c) :
          x \in SymbolsIn(P) \/ \E i \in 1..k+1 : list[i][1] = x
    BY <1>3, <1>4
  <2>4. \A i \in 1..k+1 : \/ list[i] \in PairsOf(t)
                          \/ list[i][1] \in ToSet(c) /\ list[i][2] \in KeysOf(P)
                          \/ list[i][1] \in SymbolsIn(P)
    BY <1>3, <1>6, <1>e, <2>2
  <2>5. \A p \in PairsOf(t) : p \in P \/ \E i \in 1..k+1 : list[i] = p BY <1>3, <1>4
  <2> QED BY <1>3, <2>1, <2>3, <2>4, <2>5, Zenon DEF PlacedInv, t, c, P, new, e
<1>12. CASE ~Known(t, s) /\ KeyIsFree(t, e)
  <2> DEFINE r == AddSymbol(t, s, key)
  <2>1. new = [table |-> r, conflicts |-> c]
    <3>1. new = [state EXCEPT !.table = AddSymbol(@, s, key)] BY <1>9, <1>10, <1>12
    <3>2. AddSymbol(state.table, s, key) = r BY DEF t
    <3> HIDE DEF r
    <3>3. new = [state EXCEPT !.table = r] BY <3>1, <3>2
    <3> QED BY <1>3, <3>3
  <2>2. Fresh(t, key)
    <3>1. e[2] \in Int BY <1>2 DEF key
    <3> QED BY <1>3, <1>12, <3>1, FreeIsFresh DEF key
  <2>3. TableOK(r) /\ PairsOf(r) = PairsOf(t) \cup {<<s, key>>}
    BY <1>2, <1>3, <1>12, <2>2, AddPairs
  <2> HIDE DEF r
  <2>4. new.table = r /\ new.conflicts = c BY <2>1
  <2>5. P \subseteq PairsOf(r) /\ e \in PairsOf(r) BY <1>2, <1>3, <2>3
  <2>6. ASSUME NEW x \in SymbolsIn(PairsOf(r)) \cup ToSet(c)
        PROVE  x \in SymbolsIn(P) \/ \E i \in 1..k+1 : list[i][1] = x
    <3>1. CASE x \in SymbolsIn(PairsOf(t)) \cup ToSet(c) BY <1>3, <1>4, <3>1
    <3>2. CASE x \in SymbolsIn(PairsOf(r))
      <4>1. PICK p \in PairsOf(r) : p[1] = x BY <3>2 DEF SymbolsIn
      <4>2. CASE p \in PairsOf(t)
        <5>1. x \in SymbolsIn(PairsOf(t)) BY <4>1, <4>2 DEF SymbolsIn
        <5> QED BY <3>1, <5>1
      <4>3. CASE p = <<s, key>>
        <5>1. x = s BY <4>1, <4>3
        <5> QED BY <1>5, <1>e, <5>1
      <4> QED BY <2>3, <4>2, <4>3
    <3> QED BY <3>1, <3>2
  <2>7. \A i \in 1..k+1 : \/ list[i] \in PairsOf(r)
                          \/ list[i][1] \in ToSet(c) /\ list[i][2] \in KeysOf(P)
                          \/ list[i][1] \in SymbolsIn(P)
    BY <1>3, <1>6, <1>e, <2>3, <2>5
  <2>8. ASSUME NEW p \in PairsOf(r) PROVE p \in P \/ \E i \in 1..k+1 : list[i] = p
    <3>1. CASE p \in PairsOf(t) BY <1>3, <1>4, <3>1
    <3>2. CASE p = <<s, key>> BY <1>2, <1>5, <1>e, <3>2
    <3> QED BY <2>3, <3>1, <3>2
  <2> QED BY <1>3, <2>1, <2>3, <2>4, <2>5, <2>6, <2>7, <2>8, Zenon DEF PlacedInv, P, new, e
<1>13. CASE ~Known(t, s) /\ ~KeyIsFree(t, e)
  <2> DEFINE d == Append(c, s)
  <2>1. new = [table |-> t, conflicts |-> d]
    <3>1. new = [state EXCEPT !.conflicts = Append(@, s)] BY <1>9, <1>10, <1>13
    <3>2. Append(state.conflicts, s) = d BY DEF c
    <3> HIDE DEF d
    <3>3. new = [state EXCEPT !.conflicts = d] BY <3>1, <3>2
    <3> QED BY <1>3, <3>3
  <2>2. d \in Seq(Symbols) BY <1>2, <1>3
  <2>3. ToSet(d) = ToSet(c) \cup {s}
    <3> DEFINE m == Len(c)
    <3>1. /\ m \in Nat /\ DOMAIN c = 1..m /\ DOMAIN d = 1..m+1
          /\ d[m+1] = s /\ \A i \in 1..m : d[i] = c[i]
      BY <1>2, <1>3
    <3> HIDE DEF d, m
    <3>2. ToSet(d) = {d[i] : i \in 1..m+1} /\ ToSet(c) = {c[i] : i \in 1..m}
      BY <3>1 DEF ToSet
    <3>3. /\ m + 1 \in 1..m+1 /\ \A i \in 1..m : i \in 1..m+1
          /\ \A i \in 1..m+1 : i \in 1..m \/ i = m + 1
      BY <3>1
    <3>4. ASSUME NEW x \in ToSet(d) PROVE x \in ToSet(c) \cup {s}
      <4>1. PICK i \in 1..m+1 : x = d[i] BY <3>2, <3>4
      <4>2. CASE i \in 1..m BY <3>1, <3>2, <4>1, <4>2
      <4>3. CASE i = m + 1 BY <3>1, <4>1, <4>3
      <4> QED BY <3>3, <4>2, <4>3
    <3>5. ASSUME NEW x \in ToSet(c) PROVE x \in ToSet(d)
      <4>1. PICK i \in 1..m : x = c[i] BY <3>2, <3>5
      <4>2. x = d[i] /\ i \in 1..m+1 BY <3>1, <3>3, <4>1
      <4> QED BY <3>2, <4>2
    <3>6. s \in ToSet(d) BY <3>1, <3>2, <3>3
    <3> QED BY <3>4, <3>5, <3>6
  <2> HIDE DEF d
  <2>k. key \in KeysOf(P)
    <3>1. PICK q \in PairsOf(t) : q[2] = key
      <4>1. e[2] \in Int /\ e[2] = key BY <1>2 DEF key
      <4> QED BY <1>3, <1>13, <4>1, TakenKey
    <3>2. ~ \E i \in 1..k : list[i] = q BY <1>2, <3>1
    <3>3. q \in P BY <1>3, <3>2
    <3> QED BY <3>1, <3>3 DEF KeysOf
  <2>4. new.table = t /\ new.conflicts = d BY <2>1
  <2>5. ASSUME NEW x \in SymbolsIn(PairsOf(t)) \cup ToSet(d)
        PROVE  x \in SymbolsIn(P) \/ \E i \in 1..k+1 : list[i][1] = x
    <3>1. CASE x \in SymbolsIn(PairsOf(t)) \cup ToSet(c) BY <1>3, <1>4, <3>1
    <3>2. CASE x = s BY <1>5, <1>e, <3>2
    <3> QED BY <2>3, <3>1, <3>2
  <2>6. \A i \in 1..k+1 : \/ list[i] \in PairsOf(t)
                          \/ list[i][1] \in ToSet(d) /\ list[i][2] \in KeysOf(P)
                          \/ list[i][1] \in SymbolsIn(P)
    BY <1>3, <1>6, <1>e, <2>3, <2>k DEF key
  <2>7. \A p \in PairsOf(t) : p \in P \/ \E i \in 1..k+1 : list[i] = p BY <1>3, <1>4
  <2> QED BY <1>3, <2>1, <2>2, <2>4, <2>5, <2>6, <2>7, Zenon DEF PlacedInv, P, new, e
<1> QED BY <1>11, <1>12, <1>13 DEF new, e

\* All pairs of the right table.
LEMMA PlacedLemma ==
  ASSUME NEW left, TableOK(left), NEW right, TableOK(right)
  PROVE  PlacedInv(Placed(Entries(left), Entries(right)), left, Written(right), Size(right.map))
<1> DEFINE list == Written(right)
           n == Size(right.map)
           copy == AddAll(NewImpl, Entries(left))
           base == [table |-> copy, conflicts |-> <<>>]
<1>1. Entries(left) = Written(left) /\ Entries(right) = list BY WrittenLemma
<1>2. Placed(Entries(left), Entries(right)) = Placing!Folded(base, list)
  BY <1>1 DEF Placed, Placing!Folded, FoldLeft, MapThenFoldSet, Placing!FoldLeft,
              Placing!MapThenFoldSet, Max, Placing!Max
<1>3. n \in Nat /\ Pairs(list, n) BY SizeLemma, WrittenPairs
<1>4. TableOK(copy) /\ PairsOf(copy) = PairsOf(left)
  <2> DEFINE m == Size(left.map)
  <2>1. TableOK(NewImpl) /\ Size(NewImpl.map) = 0 BY NewImplLemma
  <2>2. Pairs(Written(left), m) /\ m \in Nat BY WrittenPairs, SizeLemma
  <2>3. HasPrefix(copy, Written(left), m, NewImpl.available) BY <1>1, <2>1, <2>2, AddAllLemma
  <2>4. Written(copy) = Written(left) BY <2>3, PrefixWritten
  <2> QED BY <2>3, <2>4 DEF HasPrefix, PairsOf
<1> HIDE DEF list, n, copy
<1>5. Len(list) \in Nat /\ DOMAIN list = 1..Len(list) /\ Len(list) = n BY <1>3 DEF Pairs
<1> HIDE DEF base
<1>6. PICK g : Placing!IsChain(g, base, list) /\ Placing!Folded(base, list) = g[Len(list)]
  BY <1>5, Placing!FoldIsChain, Zenon
<1>7. g[0] = base /\ \A k \in 1..n : g[k] = Place(g[k-1], list[k])
  BY <1>5, <1>6 DEF Placing!IsChain
<1> DEFINE K == {k \in Nat : k <= n => PlacedInv(g[k], left, list, k)}
<1>8. 0 \in K
  <2>1. 1..0 = {} /\ <<>> \in Seq(Symbols) /\ ToSet(<<>>) = {} BY DEF ToSet
  <2>2. base = [table |-> copy, conflicts |-> <<>>] BY DEF base
  <2>3. base.table = copy /\ base.conflicts = <<>> BY <2>2
  <2>4. base = [table |-> base.table, conflicts |-> base.conflicts] BY <2>2, <2>3
  <2>5. PlacedInv(base, left, list, 0) BY <1>4, <2>1, <2>3, <2>4 DEF PlacedInv
  <2> QED BY <1>7, <2>5
<1>9. ASSUME NEW k \in Nat, k \in K PROVE k + 1 \in K
  <2> SUFFICES ASSUME k + 1 <= n PROVE PlacedInv(g[k+1], left, list, k + 1) OBVIOUS
  <2>1. PlacedInv(g[k], left, list, k) BY <1>3, <1>9
  <2>2. k + 1 \in 1..n /\ (k + 1) - 1 = k BY <1>3
  <2>3. g[k+1] = Place(g[k], list[k+1]) BY <1>7, <2>2
  <2>4. PlacedInv(Place(g[k], list[k+1]), left, list, k + 1)
    BY <1>3, <2>1, PlaceLemma, Zenon
  <2> QED BY <2>3, <2>4
<1>10. n \in K
  <2> HIDE DEF K
  <2> QED BY <1>3, <1>8, <1>9, SetInduction
<1> QED BY <1>2, <1>3, <1>5, <1>6, <1>10 DEF list, n

\* The symbols that were kept back come last.
LEMMA ResolvedLemma ==
  ASSUME NEW state, TableOK(state.table), state.conflicts \in Seq(Symbols)
  PROVE  /\ TableOK(Resolved(state))
         /\ PairsOf(state.table) \subseteq PairsOf(Resolved(state))
         /\ SymbolsIn(PairsOf(Resolved(state)))
              = SymbolsIn(PairsOf(state.table)) \cup ToSet(state.conflicts)
<1> DEFINE t == state.table
           list == state.conflicts
           n == Len(list)
           S(u) == SymbolsIn(PairsOf(u))
           Inv(u, k) == /\ TableOK(u) /\ PairsOf(t) \subseteq PairsOf(u)
                        /\ S(u) = S(t) \cup {list[i] : i \in 1..k}
<1>1. Resolved(state) = Resolving!Folded(t, list)
  BY DEF Resolved, Resolving!Folded, FoldLeft, MapThenFoldSet, Resolving!FoldLeft,
         Resolving!MapThenFoldSet, Max, Resolving!Max
<1>2. /\ n \in Nat /\ DOMAIN list = 1..n /\ \A i \in 1..n : list[i] \in Symbols
      /\ ToSet(list) = {list[i] : i \in 1..n}
  BY DEF ToSet
<1>t. TableOK(t) OBVIOUS
<1> HIDE DEF t, list
<1>3. PICK g : Resolving!IsChain(g, t, list) /\ Resolving!Folded(t, list) = g[n]
  BY <1>2, Resolving!FoldIsChain, Zenon
<1>4. g[0] = t /\ \A k \in 1..n : g[k] = AddLast(g[k-1], list[k])
  BY <1>3 DEF Resolving!IsChain
<1> DEFINE K == {k \in Nat : k <= n => Inv(g[k], k)}
<1> HIDE DEF n, S
<1>5. 0 \in K
  <2>1. 1..0 = {} OBVIOUS
  <2>2. Inv(t, 0) BY <1>t, <2>1
  <2> QED BY <1>4, <2>2
<1>6. ASSUME NEW k \in Nat, k \in K PROVE k + 1 \in K
  <2> SUFFICES ASSUME k + 1 <= n PROVE Inv(g[k+1], k + 1) OBVIOUS
  <2> DEFINE u == g[k]
             s == list[k+1]
             a == u.available
             r == AddSymbol(u, s, a)
  <2>1. TableOK(u) /\ PairsOf(t) \subseteq PairsOf(u) /\ S(u) = S(t) \cup {list[i] : i \in 1..k}
    BY <1>2, <1>6
  <2>2. k + 1 \in 1..n /\ (k + 1) - 1 = k BY <1>2
  <2>3. g[k+1] = r BY <1>4, <2>2 DEF AddLast
  <2>4. s \in Symbols BY <1>2, <2>2
  <2> HIDE DEF u, s
  <2>5. Fresh(u, a) /\ a \in Int /\ a # kNoSymbol BY <2>1, NextIsFresh
  <2>t. TableOK(u) BY <2>1
  <2> HIDE DEF a
  <2>6. TableOK(r) /\ PairsOf(r) = IF Known(u, s) THEN PairsOf(u) ELSE PairsOf(u) \cup {<<s, a>>}
    BY <2>t, <2>4, <2>5, AddPairs, Zenon
  <2>7. Known(u, s) <=> s \in S(u) BY <2>1, <2>4, FindPair DEF S
  <2> HIDE DEF r, a
  <2>8. S(r) = S(u) \cup {s}
    <3>1. CASE Known(u, s)
      <4>1. S(r) = S(u) BY <2>6, <3>1 DEF S
      <4> QED BY <2>7, <3>1, <4>1
    <3>2. CASE ~Known(u, s)
      <4>1. PairsOf(r) = PairsOf(u) \cup {<<s, a>>} BY <2>6, <3>2
      <4>2. S(r) = {p[1] : p \in PairsOf(r)} /\ S(u) = {p[1] : p \in PairsOf(u)}
        BY DEF S, SymbolsIn
      <4>3. <<s, a>>[1] = s OBVIOUS
      <4> QED BY <4>1, <4>2, <4>3
    <3> QED BY <3>1, <3>2
  <2>9. {list[i] : i \in 1..k+1} = {list[i] : i \in 1..k} \cup {s}
    <3>1. \A i \in 1..k+1 : i \in 1..k \/ i = k + 1 OBVIOUS
    <3>2. \A i \in 1..k : i \in 1..k+1 OBVIOUS
    <3>3. k + 1 \in 1..k+1 OBVIOUS
    <3> QED BY <3>1, <3>2, <3>3 DEF s
  <2>10. S(r) = S(t) \cup {list[i] : i \in 1..k+1} BY <2>1, <2>8, <2>9
  <2>11. PairsOf(t) \subseteq PairsOf(r) BY <2>1, <2>6
  <2> QED BY <2>3, <2>6, <2>10, <2>11
<1>7. n \in K
  <2> HIDE DEF K
  <2> QED BY <1>2, <1>5, <1>6, SetInduction
<1>8. n <= n BY <1>2
<1>9. Inv(g[n], n) BY <1>7, <1>8
<1>10. TableOK(g[n]) /\ PairsOf(t) \subseteq PairsOf(g[n]) /\ S(g[n]) = S(t) \cup ToSet(list)
  BY <1>2, <1>9 DEF n
<1> QED BY <1>1, <1>3, <1>10 DEF S, t, list

\* Which symbols of another table a table has, and when one of them has another
\* key there.
LEMMA CommonSymbols ==
  ASSUME NEW t, TableOK(t), NEW other, TableOK(other)
  PROVE  /\ HasAll(t, Entries(other))
              <=> SymbolsIn(PairsOf(other)) \subseteq SymbolsIn(PairsOf(t))
         /\ AnyElsewhere(t, Entries(other))
              <=> \E p \in PairsOf(t), q \in PairsOf(other) : p[1] = q[1] /\ p[2] # q[2]
<1>1. ToSet(Entries(other)) = PairsOf(other) BY WrittenLemma DEF PairsOf
<1>2. ASSUME NEW e \in PairsOf(other)
      PROVE  /\ e[1] \in Symbols
             /\ Has(t, e) <=> e[1] \in SymbolsIn(PairsOf(t))
             /\ HasElsewhere(t, e) <=> \E p \in PairsOf(t) : p[1] = e[1] /\ p[2] # e[2]
  <2> DEFINE k == FindKey(t, e[1])
  <2>1. e[1] \in Symbols BY PairsLemma
  <2>2. /\ k # kNoSymbol => <<e[1], k>> \in PairsOf(t)
        /\ k # kNoSymbol <=> e[1] \in SymbolsIn(PairsOf(t))
    BY <2>1, FindPair
  <2>3. Has(t, e) <=> k # kNoSymbol BY DEF Has
  <2>4. HasElsewhere(t, e) <=> k # kNoSymbol /\ k # e[2] BY DEF HasElsewhere
  <2> HIDE DEF k
  <2>5. <<e[1], k>>[1] = e[1] /\ <<e[1], k>>[2] = k OBVIOUS
  <2>6. ASSUME k # kNoSymbol, k # e[2]
        PROVE  \E p \in PairsOf(t) : p[1] = e[1] /\ p[2] # e[2]
    BY <2>2, <2>5, <2>6
  <2>7. ASSUME NEW p \in PairsOf(t), p[1] = e[1], p[2] # e[2]
        PROVE  k # kNoSymbol /\ k # e[2]
    <3>1. e[1] \in SymbolsIn(PairsOf(t)) BY <2>7 DEF SymbolsIn
    <3>2. k # kNoSymbol /\ <<e[1], k>> \in PairsOf(t) BY <2>2, <3>1
    <3>3. p = <<e[1], k>> BY <2>5, <2>7, <3>2, PairsLemma
    <3> QED BY <2>5, <2>7, <3>2, <3>3
  <2> QED BY <2>1, <2>2, <2>3, <2>4, <2>6, <2>7
<1>3. HasAll(t, Entries(other)) <=> \A e \in PairsOf(other) : e[1] \in SymbolsIn(PairsOf(t))
  BY <1>1, <1>2 DEF HasAll
<1>4. SymbolsIn(PairsOf(other)) = {e[1] : e \in PairsOf(other)} BY DEF SymbolsIn
<1>5. AnyElsewhere(t, Entries(other)) <=> \E e \in PairsOf(other) : HasElsewhere(t, e)
  BY <1>1 DEF AnyElsewhere
<1> QED BY <1>2, <1>3, <1>4, <1>5

\* Of one-to-one pairs P that hold those of the left table, the right table has
\* what the left one has or has no use for, if all of the latter are there.
LEMMA WhatIsKept ==
  ASSUME NEW P, NEW L, NEW R, L \subseteq P, Unclaimed(L, R) \subseteq P,
         \A p, q \in P : p[1] = q[1] \/ p[2] = q[2] => p = q
  PROVE  P \cap R = (L \cap R) \cup Unclaimed(L, R)
<1>1. ASSUME NEW p \in P \cap R PROVE p \in (L \cap R) \cup Unclaimed(L, R)
  <2>1. CASE p[1] \in SymbolsIn(L)
    <3>1. PICK q \in L : p[1] = q[1] BY <2>1 DEF SymbolsIn
    <3> QED BY <3>1
  <2>2. CASE p[2] \in KeysOf(L)
    <3>1. PICK q \in L : p[2] = q[2] BY <2>2 DEF KeysOf
    <3> QED BY <3>1
  <2>3. CASE p[1] \notin SymbolsIn(L) /\ p[2] \notin KeysOf(L) BY <2>3 DEF Unclaimed
  <2> QED BY <2>1, <2>2, <2>3
<1>2. Unclaimed(L, R) \subseteq R BY DEF Unclaimed
<1> QED BY <1>1, <1>2

\* Merging two tables in order.
LEMMA MergeLemma ==
  ASSUME NEW left, TableOK(left), NEW right, TableOK(right)
  PROVE  IsMerge(MergeSymbolTable(left, right), PairsOf(left), PairsOf(right))
<1> DEFINE L == PairsOf(left)
           R == PairsOf(right)
           placed == Placed(Entries(left), Entries(right))
           m == MergeSymbolTable(left, right)
           S(P) == SymbolsIn(P)
           differs == \E p \in L, q \in R : p[1] = q[1] /\ p[2] # q[2]
<1>1. /\ HasAll(right, Entries(left)) =>
           m = [table |-> right, relabel |-> AnyElsewhere(right, Entries(left))]
      /\ ~HasAll(right, Entries(left)) =>
           m = [table |-> IF HasAll(left, Entries(right)) THEN left ELSE Resolved(placed),
                relabel |-> AnyElsewhere(left, Entries(right))]
  BY Zenon DEF MergeSymbolTable, MergeEntries
<1>p. PlacedInv(placed, left, Written(right), Size(right.map)) BY PlacedLemma
<1>h. /\ HasAll(right, Entries(left)) <=> S(L) \subseteq S(R)
      /\ HasAll(left, Entries(right)) <=> S(R) \subseteq S(L)
  BY CommonSymbols DEF S, L, R
<1>r. m.relabel <=> differs
  <2>1. AnyElsewhere(right, Entries(left))
          <=> \E p \in PairsOf(right), q \in PairsOf(left) : p[1] = q[1] /\ p[2] # q[2]
    BY CommonSymbols
  <2>2. AnyElsewhere(left, Entries(right)) <=> differs BY CommonSymbols
  <2>3. m.relabel = AnyElsewhere(right, Entries(left))
        \/ m.relabel = AnyElsewhere(left, Entries(right))
    <3> HIDE DEF m, placed
    <3> QED BY <1>1
  <2>4. AnyElsewhere(right, Entries(left)) <=> differs BY <2>1
  <2> HIDE DEF m, differs
  <2> QED BY <2>2, <2>3, <2>4
<1>t. \A t : TableOK(t) => \A p, q \in PairsOf(t) : p[1] = q[1] \/ p[2] = q[2] => p = q
  BY PairsLemma
<1> HIDE DEF L, R, placed, m, S, differs
<1>2. SUFFICES ASSUME NEW P, P = PairsOf(m.table)
      PROVE  /\ S(P) = S(L) \cup S(R)
             /\ Cardinality(KeysOf(P)) = Size(m.table.map)
             /\ IF S(L) \subseteq S(R) THEN P = R
                ELSE L \subseteq P /\ P \cap R = (L \cap R) \cup Unclaimed(L, R)
  BY <1>r DEF IsMerge, Describes, S, L, R, m, PairsOf, differs
<1>3. CASE S(L) \subseteq S(R)
  <2>1. m.table = right /\ P = R BY <1>1, <1>2, <1>3, <1>h DEF R
  <2>3. Cardinality(KeysOf(P)) = Size(m.table.map) BY <1>2, <2>1, CountKeys
  <2> QED BY <1>3, <2>1, <2>3
<1>4. CASE ~(S(L) \subseteq S(R)) /\ S(R) \subseteq S(L)
  <2>1. m.table = left /\ P = L BY <1>1, <1>2, <1>4, <1>h DEF L
  <2>2. Unclaimed(L, R) = {} BY <1>4 DEF Unclaimed, S, SymbolsIn
  <2>3. Cardinality(KeysOf(P)) = Size(m.table.map) BY <1>2, <2>1, CountKeys
  <2> QED BY <1>4, <2>1, <2>2, <2>3
<1>5. CASE ~(S(L) \subseteq S(R)) /\ ~(S(R) \subseteq S(L))
  <2> DEFINE n == Size(right.map)
             t == placed.table
             c == placed.conflicts
             list == Written(right)
  <2>1. m.table = Resolved(placed) BY <1>1, <1>5, <1>h
  <2>2. /\ TableOK(t) /\ c \in Seq(Symbols) /\ L \subseteq PairsOf(t)
        /\ \A s \in S(PairsOf(t)) \cup ToSet(c) :
             s \in S(L) \/ \E i \in 1..n : list[i][1] = s
        /\ \A i \in 1..n : \/ list[i] \in PairsOf(t)
                           \/ list[i][1] \in ToSet(c) /\ list[i][2] \in KeysOf(L)
                           \/ list[i][1] \in S(L)
    BY <1>p DEF PlacedInv, S, L
  <2>3. TableOK(m.table) /\ PairsOf(t) \subseteq P /\ S(P) = S(PairsOf(t)) \cup ToSet(c)
    BY <1>2, <2>1, <2>2, ResolvedLemma DEF S
  <2>4. R = {list[i] : i \in 1..n} BY WrittenLemma DEF R, PairsOf, ToSet
  <2> HIDE DEF n, t, c, list
  <2>5. ASSUME NEW s PROVE s \in S(R) <=> \E i \in 1..n : list[i][1] = s
    BY <2>4 DEF S, SymbolsIn
  <2>6. ASSUME NEW s \in S(L) PROVE s \in S(PairsOf(t)) BY <2>2 DEF S, SymbolsIn
  <2>7. S(P) \subseteq S(L) \cup S(R) BY <2>2, <2>3, <2>5
  <2>8. ASSUME NEW s \in S(R) PROVE s \in S(P)
    <3>1. PICK i \in 1..n : list[i][1] = s BY <2>5
    <3>2. CASE list[i] \in PairsOf(t)
      <4>1. s \in S(PairsOf(t)) BY <3>1, <3>2 DEF S, SymbolsIn
      <4> QED BY <2>3, <4>1
    <3>3. CASE s \in ToSet(c) BY <2>3, <3>3
    <3>4. CASE s \in S(L) BY <2>3, <2>6, <3>4
    <3> QED BY <2>2, <3>1, <3>2, <3>3, <3>4
  <2>9. S(P) = S(L) \cup S(R) BY <2>3, <2>6, <2>7, <2>8
  <2>10. ASSUME NEW p \in Unclaimed(L, R) PROVE p \in P
    <3>1. p \in R /\ p[1] \notin S(L) /\ p[2] \notin KeysOf(L) BY DEF Unclaimed, S
    <3>2. PICK i \in 1..n : p = list[i] BY <2>4, <3>1
    <3>3. p \in PairsOf(t) BY <2>2, <3>1, <3>2
    <3> QED BY <2>3, <3>3
  <2>11. Cardinality(KeysOf(P)) = Size(m.table.map) BY <1>2, <2>3, CountKeys
  <2>12. L \subseteq P BY <2>2, <2>3
  <2>13. \A p, q \in P : p[1] = q[1] \/ p[2] = q[2] => p = q BY <1>2, <1>t, <2>3
  <2>14. P \cap R = (L \cap R) \cup Unclaimed(L, R) BY <2>10, <2>12, <2>13, WhatIsKept
  <2> QED BY <1>5, <2>9, <2>11, <2>12, <2>14
<1> QED BY <1>3, <1>4, <1>5

\* The table merged from two tables is a mapping that knows the symbols of both,
\* keeps the keys of the right one if this knows all, else of the left one and as
\* many of the right one as are free, and relabeling is reported exactly where a
\* symbol has two keys (MergeSymbolTable).
THEOREM Merges == Spec => []MergeKeepsKeys
<1>1. TableInv => MergeKeepsKeys
  <2> SUFFICES ASSUME TableInv, NEW i \in ImplIds, NEW j \in ImplIds
               PROVE  IsMerge(MergeSymbolTable(impl[i], impl[j]),
                              ToSet(Written(impl[i])), ToSet(Written(impl[j])))
    BY DEF MergeKeepsKeys
  <2>1. TableOK(impl[i]) /\ TableOK(impl[j]) BY DEF TableInv, Tables
  <2>2. IsMerge(MergeSymbolTable(impl[i], impl[j]), PairsOf(impl[i]), PairsOf(impl[j]))
    BY <2>1, MergeLemma
  <2> QED BY <2>2 DEF PairsOf
<1> QED BY <1>1, TableInvHolds, PTL
=============================================================================
