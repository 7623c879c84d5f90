--------------------------- MODULE FstSymbolTable ---------------------------
(***************************************************************************)
(* fst::SymbolTable (symbol-table.h, symbol-table.cc): a two-way mapping   *)
(* between symbols and integer keys.  A table is a handle to a counted     *)
(* implementation, copied when a handle that shares it is about to change  *)
(* it.  An implementation numbers its symbols densely; as long as a        *)
(* symbol's key equals its index nothing more is stored (the dense range), *)
(* from there on two further containers relate indices and keys.           *)
(*                                                                         *)
(* Every thread owns one handle.  The threads meet in shared               *)
(* implementations: in the copy made before a change, and in the checksums *)
(* that constant member functions compute lazily under a mutex.            *)
(***************************************************************************)
EXTENDS Integers, Sequences, FiniteSets, SequencesExt, TLC

CONSTANTS
  Threads,
  Symbols,
  MaxKey,          \* bound of the keys in use when a change is made
  Hash,            \* str_hash_: a number for every symbol
  InitialBuckets,  \* the size of the empty hash table, 1 << 4 in the code
  Scenarios        \* who does what: a set of records with the threads at
                   \* work, the symbols they add, the keys they ask for, the
                   \* bound on keys, and whether they remove symbols and ask
                   \* for checksums

ASSUME ScenariosAssumption ==
  \A s \in Scenarios : /\ s.threads \subseteq Threads /\ s.symbols \subseteq Symbols
                       /\ s.keys \subseteq Int /\ s.maxKey \in 0..MaxKey
                       /\ s.removals \in BOOLEAN /\ s.checkSums \in BOOLEAN
ASSUME BoundsAssumption == MaxKey \in Nat /\ IsFiniteSet(Threads) /\ IsFiniteSet(Symbols)
\* Find(key) answers with the empty string when no symbol has the key.
ASSUME SymbolsAssumption == "" \notin Symbols
ASSUME HashAssumption == Hash \in [Symbols -> Nat]
\* With fewer buckets the table would be full before it grows.
ASSUME BucketsAssumption == InitialBuckets \in {4, 8, 16}

VARIABLES
  scenario,  \* the scenario, which does not change
  impl,      \* the implementations that exist, by identity
  table,     \* table[t]: the implementation thread t's handle refers to
  pc,        \* what a thread is in the middle of
  op,        \* the change a thread makes once it has its own copy
  mutex      \* check_sum_mutex_ of every implementation: who holds it

vars == <<scenario, impl, table, pc, op, mutex>>

kNoSymbol == -1
Free == "free"
ASSUME FreeAssumption == Free \notin Threads
ImplIds == 1..Cardinality(Threads)

-----------------------------------------------------------------------------
(* DenseSymbolMap: the symbols in order, and an open-addressing hash table *)
(* of their indices.                                                       *)

empty_ == -1
NoBuckets(n) == [b \in 0..n-1 |-> empty_]
NumBuckets(m) == Cardinality(DOMAIN m.buckets)
Size(m) == Len(m.symbols)
GetSymbol(m, idx) == m.symbols[idx + 1]

\* The first bucket from the symbol's own one on for which Stop holds.
Probe(buckets, s, Stop(_)) ==
  LET n == Cardinality(DOMAIN buckets)
      At(i) == (Hash[s] + i) % n
  IN  At(CHOOSE i \in 0..n-1 : Stop(At(i)) /\ \A j \in 0..i-1 : ~Stop(At(j)))

FreeBucket(buckets, s) == Probe(buckets, s, LAMBDA b : buckets[b] = empty_)

\* Each symbol with its index.
Indexed(symbols) == [i \in 1..Len(symbols) |-> <<symbols[i], i - 1>>]

PutIndex(buckets, e) == [buckets EXCEPT ![FreeBucket(buckets, e[1])] = e[2]]

Rehash(m, n) ==
  [m EXCEPT !.buckets = FoldLeft(PutIndex, NoBuckets(n), Indexed(m.symbols))]

\* The bucket that holds s, or the empty one where the search for it ends.
BucketOf(m, s) ==
  Probe(m.buckets, s,
        LAMBDA b : m.buckets[b] = empty_ \/ GetSymbol(m, m.buckets[b]) = s)

FindIndex(m, s) == m.buckets[BucketOf(m, s)]

\* The table doubles when three quarters of the buckets are taken.
MustGrow(m) == 4 * Size(m) >= 3 * NumBuckets(m)

Grown(m) == IF MustGrow(m) THEN Rehash(m, 2 * NumBuckets(m)) ELSE m

StoreAt(m, s, at) ==
  IF m.buckets[at] # empty_
  THEN [map |-> m, new |-> FALSE]
  ELSE [map |-> [symbols |-> Append(m.symbols, s),
                 buckets |-> [m.buckets EXCEPT ![at] = Size(m)]],
        new |-> TRUE]

InsertInto(m, s) == StoreAt(m, s, BucketOf(m, s))
InsertOrFind(m, s) == InsertInto(Grown(m), s)

RemoveIndex(m, idx) ==
  Rehash([m EXCEPT !.symbols = RemoveAt(@, idx + 1)], NumBuckets(m))

-----------------------------------------------------------------------------
(* SymbolTableImpl *)

NewImpl ==
  [available |-> 0, dense |-> 0, idxKey |-> <<>>, keyMap |-> <<>>,
   map |-> [symbols |-> <<>>, buckets |-> NoBuckets(InitialBuckets)],
   finalized |-> FALSE, checkSum |-> <<>>, labeled |-> <<>>]

Without(f, k) == [j \in DOMAIN f \ {k} |-> f[j]]
Over(f, g) == [k \in DOMAIN f \cup DOMAIN g |-> IF k \in DOMAIN f THEN f[k] ELSE g[k]]

\* The key of a symbol, kNoSymbol if it is not there.
FindKey(t, s) ==
  LET idx == FindIndex(t.map, s)
  IN  IF idx = kNoSymbol \/ idx < t.dense THEN idx ELSE t.idxKey[idx - t.dense + 1]

IsDense(t, key) == key >= 0 /\ key < t.dense

\* The symbol with a key, the empty string if there is none.
FindSymbol(t, key) ==
  LET idx == IF IsDense(t, key) THEN key
             ELSE IF key \in DOMAIN t.keyMap THEN t.keyMap[key] ELSE -1
  IN  IF idx < 0 \/ idx >= Size(t.map) THEN "" ELSE GetSymbol(t.map, idx)

GetNthKey(t, pos) ==
  IF pos < 0 \/ pos >= Size(t.map) THEN kNoSymbol
  ELSE IF pos < t.dense THEN pos ELSE FindKey(t, GetSymbol(t.map, pos))

NextAvailable(n, key) == IF key >= n THEN key + 1 ELSE n
Invalidated(t) == [t EXCEPT !.finalized = FALSE]

\* The last symbol gets a key: the dense range grows, or the key is entered
\* in both containers.
WithKey(t, key) ==
  IF key + 1 = Size(t.map) /\ key = t.dense
  THEN [t EXCEPT !.dense = @ + 1]
  ELSE [t EXCEPT !.idxKey = Append(@, key),
                 !.keyMap = Over([k \in {key} |-> Size(t.map) - 1], @)]

Entered(t, inserted, key) ==
  IF inserted.new
  THEN Invalidated([WithKey([t EXCEPT !.map = inserted.map], key)
                      EXCEPT !.available = NextAvailable(@, key)])
  ELSE [t EXCEPT !.map = inserted.map]

AddSymbol(t, s, key) ==
  IF key = kNoSymbol THEN t ELSE Entered(t, InsertOrFind(t.map, s), key)

\* Mutant: the indices after the removed one stay.
NotShifted(keyMap, idx) == keyMap
\* The indices after the removed one shift by one.
Shifted(keyMap, idx) ==
  [k \in DOMAIN keyMap |-> IF keyMap[k] > idx THEN keyMap[k] - 1 ELSE keyMap[k]]

NewDenseLimit(t, key) == key

\* What removing the symbol at an index leaves of the two containers when
\* the key was dense: keys 0..key-1 stay dense, the later dense keys are
\* entered in both containers, in front of what these held.
LeaveDenseRange(t, key) ==
  LET moved == key+1 .. t.dense-1
  IN  [t EXCEPT !.map = RemoveIndex(@, key), !.dense = NewDenseLimit(t, key),
                !.keyMap = Over([k \in moved |-> k - 1], Shifted(@, key)),
                !.idxKey = [i \in 1..t.dense-1-key |-> key + i] \o @]

LeaveSparseRange(t, key, idx) ==
  [t EXCEPT !.map = RemoveIndex(@, idx),
            !.keyMap = Shifted(Without(@, key), idx),
            !.idxKey = RemoveAt(@, idx - t.dense + 1)]

\* The checksum stays finalized.
RemoveSymbol(t, key) ==
  LET left == IF IsDense(t, key) THEN LeaveDenseRange(t, key)
                                 ELSE LeaveSparseRange(t, key, t.keyMap[key])
  IN  IF ~IsDense(t, key) /\ key \notin DOMAIN t.keyMap THEN t
      ELSE [left EXCEPT !.available = IF key = @ - 1 THEN key ELSE @]

\* What SymbolTableIterator goes through: the symbols with their keys.
Entries(t) ==
  [i \in 1..Size(t.map) |-> <<FindSymbol(t, GetNthKey(t, i - 1)), GetNthKey(t, i - 1)>>]

\* Every symbol of another table that is missing gets the next key.
AddNext(t, e) == AddSymbol(t, e[1], t.available)
AddTable(t, other) == FoldLeft(AddNext, t, Entries(other))

AddEntry(t, e) == AddSymbol(t, e[1], e[2])
AddAll(t, list) == FoldLeft(AddEntry, t, list)

\* Write: the symbols in index order, each with its key.
Written(t) ==
  [i \in 1..Size(t.map) |->
     <<GetSymbol(t.map, i - 1), IF i <= t.dense THEN i - 1 ELSE t.idxKey[i - t.dense]>>]

\* Read: the next key comes first, then all symbols are added.
WriteAndRead(t) ==
  AddAll([NewImpl EXCEPT !.available = t.available], Written(t))

\* WriteText and ReadText (negative labels allowed): symbols and keys only.
WriteAndReadText(t) == AddAll(NewImpl, Entries(t))

\* The lines that the two checksums are computed from.  CheckSummer folds their
\* bytes into 32, and labelled lines run into each other: equal lines have equal
\* checksums, but so may different ones.
CheckSumOf(t) == t.map.symbols

LabeledSparseKeys(t) == {k \in DOMAIN t.keyMap : k >= t.dense}

\* The i-th key in ascending order, in which a std::map is gone through.
NthOf(keys, i) == CHOOSE k \in keys : Cardinality({j \in keys : j < k}) = i - 1

LabeledCheckSumOf(t) ==
  LET sparse == LabeledSparseKeys(t)
  IN  [i \in 1..t.dense |-> <<GetSymbol(t.map, i - 1), i - 1>>]
      \o [i \in 1..Cardinality(sparse) |->
            <<GetSymbol(t.map, t.keyMap[NthOf(sparse, i)]), NthOf(sparse, i)>>]

WithCheckSums(t) ==
  [t EXCEPT !.checkSum = CheckSumOf(t), !.labeled = LabeledCheckSumOf(t),
            !.finalized = TRUE]

-----------------------------------------------------------------------------
(* MergeSymbolTable: all symbols of two tables, and whether those of the   *)
(* right one have to be relabeled.                                         *)

\* Mutant: a symbol takes its key although another one has it.
KeyIsNotTaken(left, e) == TRUE

KeyIsFree(left, e) == FindSymbol(left, e[2]) = ""

Has(t, e) == FindKey(t, e[1]) # kNoSymbol
HasAll(t, entries) == \A e \in ToSet(entries) : Has(t, e)
HasElsewhere(t, e) == FindKey(t, e[1]) \notin {kNoSymbol, e[2]}
AnyElsewhere(t, entries) == \E e \in ToSet(entries) : HasElsewhere(t, e)

\* A symbol that is missing is added with its key if that is free.
Place(state, e) ==
  IF Has(state.table, e) THEN state
  ELSE IF KeyIsFree(state.table, e)
  THEN [state EXCEPT !.table = AddSymbol(@, e[1], e[2])]
  ELSE [state EXCEPT !.conflicts = Append(@, e[1])]

Placed(leftEntries, rightEntries) ==
  FoldLeft(Place, [table |-> AddAll(NewImpl, leftEntries), conflicts |-> <<>>], rightEntries)

AddLast(t, s) == AddSymbol(t, s, t.available)
Resolved(state) == FoldLeft(AddLast, state.table, state.conflicts)

\* The symbols only the right table has keep their key where it is free; the
\* others get the next keys once all of these are in.  A table that has all
\* symbols is taken as it is.
MergeEntries(left, right, leftEntries, rightEntries) ==
  LET placed == Placed(leftEntries, rightEntries)
  IN  IF HasAll(right, leftEntries)
      THEN [table |-> right, relabel |-> AnyElsewhere(right, leftEntries)]
      ELSE [table |-> IF HasAll(left, rightEntries) THEN left ELSE Resolved(placed),
            relabel |-> AnyElsewhere(left, rightEntries)]

MergeSymbolTable(left, right) == MergeEntries(left, right, Entries(left), Entries(right))

-----------------------------------------------------------------------------
(* SymbolTable: handles that share implementations. *)

Users(id) == {t \in scenario.threads : table[t] = id}
Unused == {id \in ImplIds : Users(id) = {}}
Mine(t) == impl[table[t]]

\* Thread t's handle refers to a new implementation; the old one goes with
\* its last handle.
Replace(t, new) ==
  LET old == table[t]
      id == IF Users(old) = {t} THEN old
            ELSE CHOOSE i \in Unused : \A j \in Unused : i <= j
  IN  /\ table' = [table EXCEPT ![t] = id]
      /\ impl' = [impl EXCEPT ![id] = new]

\* The copy constructor leaves the checksums to be computed again.
CopyOf(t) == [t EXCEPT !.finalized = FALSE, !.checkSum = <<>>, !.labeled = <<>>]

Init ==
  /\ scenario \in Scenarios
  /\ impl = [i \in ImplIds |-> NewImpl]
  /\ table = [t \in Threads |-> 1]
  /\ pc = [t \in Threads |-> "idle"]
  /\ op = [t \in Threads |-> <<"none">>]
  /\ mutex = [i \in ImplIds |-> Free]

Idle(t) == t \in scenario.threads /\ pc[t] = "idle"
KeysIn(t) == {GetNthKey(t, i) : i \in 0..Size(t.map)-1}

\* The changes an owner may ask for.  No key is given to two symbols: the
\* table would not be a mapping.
Changes(t) ==
  LET mine == Mine(t)
  IN  ({"add"} \X scenario.symbols \X (scenario.keys \ KeysIn(mine)))
      \cup ({"addNext"} \X scenario.symbols)
      \cup ({"addTable"} \X {u \in scenario.threads : pc[u] = "idle"})
      \cup (IF scenario.removals THEN {"remove"} \X (KeysIn(mine) \cup {kNoSymbol}) ELSE {})

Changed(t, o) ==
  CASE o[1] = "add" -> AddSymbol(t, o[2], o[3])
    [] o[1] = "addNext" -> AddSymbol(t, o[2], t.available)
    [] o[1] = "addTable" -> AddTable(t, Mine(o[2]))
    [] o[1] = "remove" -> RemoveSymbol(t, o[2])

\* Mutant: shared implementations are changed, too.
NeverShared(t) == TRUE

MayMutate(t) == Users(table[t]) = {t}

\* MutateCheck: an implementation nobody shares is changed in place.
StartChange(t) ==
  /\ Idle(t)
  /\ Mine(t).available <= scenario.maxKey
  /\ \E o \in Changes(t) :
       IF MayMutate(t)
       THEN /\ impl' = [impl EXCEPT ![table[t]] = Changed(@, o)]
            /\ UNCHANGED <<pc, op>>
       ELSE /\ pc' = [pc EXCEPT ![t] = "copying"]
            /\ op' = [op EXCEPT ![t] = o]
            /\ UNCHANGED impl
  /\ UNCHANGED <<scenario, table, mutex>>

\* A shared one is copied first.
FinishChange(t) ==
  /\ pc[t] = "copying"
  /\ Replace(t, Changed(CopyOf(Mine(t)), op[t]))
  /\ pc' = [pc EXCEPT ![t] = "idle"]
  /\ op' = [op EXCEPT ![t] = <<"none">>]
  /\ UNCHANGED <<scenario, mutex>>

\* Thread u drops its table and takes a copy of thread t's.
Share(t, u) ==
  /\ Idle(t) /\ Idle(u)
  /\ table' = [table EXCEPT ![u] = table[t]]
  /\ impl' = IF Users(table[u]) = {u} /\ table[u] # table[t]
             THEN [impl EXCEPT ![table[u]] = NewImpl] ELSE impl
  /\ UNCHANGED <<scenario, pc, op, mutex>>

\* The table is written to a stream and read again, in binary or as text.
Reload(t) ==
  /\ Idle(t)
  /\ \E new \in {WriteAndRead(Mine(t)), WriteAndReadText(Mine(t))} : Replace(t, new)
  /\ UNCHANGED <<scenario, pc, op, mutex>>

\* MaybeRecomputeCheckSum: the flag is read under the mutex, ...
AskCheckSum(t) ==
  /\ Idle(t) /\ scenario.checkSums
  /\ mutex[table[t]] = Free
  /\ pc' = [pc EXCEPT ![t] = IF Mine(t).finalized THEN "reading" ELSE "exclusive"]
  /\ UNCHANGED <<scenario, impl, table, op, mutex>>

\* Mutant: whoever found the flag unset computes the checksums.
NotRechecked(t) == FALSE

DoneMeanwhile(t) == Mine(t).finalized

\* ... once more after the mutex was let go and taken again, ...
RecheckCheckSum(t) ==
  /\ pc[t] = "exclusive"
  /\ mutex[table[t]] = Free
  /\ IF DoneMeanwhile(t)
     THEN pc' = [pc EXCEPT ![t] = "reading"] /\ UNCHANGED mutex
     ELSE /\ pc' = [pc EXCEPT ![t] = "computing"]
          /\ mutex' = [mutex EXCEPT ![table[t]] = t]
  /\ UNCHANGED <<scenario, impl, table, op>>

\* ... and both checksums are computed while it is held.
ComputeCheckSum(t) ==
  /\ pc[t] = "computing"
  /\ impl' = [impl EXCEPT ![table[t]] = WithCheckSums(@)]
  /\ pc' = [pc EXCEPT ![t] = "reading"]
  /\ mutex' = [mutex EXCEPT ![table[t]] = Free]
  /\ UNCHANGED <<scenario, table, op>>

\* The caller is done with the reference to the string it was returned.
UseCheckSum(t) ==
  /\ pc[t] = "reading"
  /\ pc' = [pc EXCEPT ![t] = "idle"]
  /\ UNCHANGED <<scenario, impl, table, op, mutex>>

Next == \E t \in Threads :
          \/ StartChange(t) \/ FinishChange(t) \/ Reload(t)
          \/ AskCheckSum(t) \/ RecheckCheckSum(t) \/ ComputeCheckSum(t) \/ UseCheckSum(t)
          \/ \E u \in Threads : Share(t, u)

Spec == Init /\ [][Next]_vars

-----------------------------------------------------------------------------
\* Types of all variables; the indices of a table are those of its symbols.
TypeOK ==
  /\ scenario \in Scenarios
  /\ table \in [Threads -> ImplIds]
  /\ pc \in [Threads -> {"idle", "copying", "exclusive", "computing", "reading"}]
  /\ mutex \in [ImplIds -> Threads \cup {Free}]
  /\ \A i \in ImplIds :
       /\ impl[i].available \in Nat /\ impl[i].finalized \in BOOLEAN
       /\ impl[i].dense \in 0..Size(impl[i].map)
       /\ Len(impl[i].idxKey) = Size(impl[i].map) - impl[i].dense

\* A search of the hash table ends: there is always an empty bucket
\* (InsertOrFind grows the table before three quarters are passed).
HashTableNeverFull ==
  \A i \in ImplIds : \E b \in DOMAIN impl[i].map.buckets : impl[i].map.buckets[b] = empty_

\* After any sequence of insertions and removals the two Find functions are
\* inverse to each other: over the hash table, the dense range and the two
\* containers outside it they describe one and the same mapping, the one the
\* iterator goes through and Write saves.
FindIsTwoWay ==
  \A i \in ImplIds :
    LET t == impl[i]
        pairs == ToSet(Written(t))
    IN  /\ Entries(t) = Written(t)
        /\ \A s \in Symbols :
             IF s \in ToSet(t.map.symbols) THEN <<s, FindKey(t, s)>> \in pairs
                                           ELSE FindKey(t, s) = kNoSymbol
        /\ \A k \in -3..MaxKey+Cardinality(Symbols)+1 :
             \/ <<FindSymbol(t, k), k>> \in pairs
             \/ FindSymbol(t, k) = "" /\ \A p \in pairs : p[2] # k

\* AddSymbol(symbol) never gives out a key that is in use: the next key is
\* above all keys, also after removals and after reading a table.
NextKeyIsFresh ==
  \A i \in ImplIds : \A k \in KeysIn(impl[i]) : k < impl[i].available

\* CompatSymbols compares labelled checksums.  Tables that map the same
\* non-negative keys to the same symbols feed the same lines, however they came
\* about, so it never tells them apart.  It does not tell all others apart.
EqualTablesFeedTheSame ==
  \A i, j \in ImplIds :
    LET pairs(n) == {p \in ToSet(Written(impl[n])) : p[2] >= 0}
    IN  pairs(i) = pairs(j) => LabeledCheckSumOf(impl[i]) = LabeledCheckSumOf(impl[j])

SymbolsIn(pairs) == {p[1] : p \in pairs}
KeysOf(pairs) == {p[2] : p \in pairs}

\* The pairs of the right table that the left one has no use for.
Unclaimed(left, right) ==
  {p \in right : p[1] \notin SymbolsIn(left) /\ p[2] \notin KeysOf(left)}

Describes(m, pairs, left, right) ==
  /\ SymbolsIn(pairs) = SymbolsIn(left) \cup SymbolsIn(right)
  /\ Cardinality(KeysOf(pairs)) = Size(m.table.map)
  /\ IF SymbolsIn(left) \subseteq SymbolsIn(right)
     THEN pairs = right
     ELSE left \subseteq pairs /\ pairs \cap right = (left \cap right) \cup Unclaimed(left, right)
  /\ m.relabel <=> \E p \in left, q \in right : p[1] = q[1] /\ p[2] # q[2]
IsMerge(m, left, right) == Describes(m, ToSet(Written(m.table)), left, right)

\* What a merged table keeps of two tables.  It is a mapping and knows the
\* symbols of both.  If the right table knows all symbols, it is the result, and
\* the left ones take its keys; otherwise the left keys stay, and those of the
\* right table stay that are free and whose symbols the left one does not have.
\* Relabeling is reported when a symbol has two keys, and only then.  The header
\* promises more: that left keys always stay, and a report of every changed right
\* key (README.md, section 6).
MergeKeepsKeys ==
  \A i, j \in ImplIds :
    IsMerge(MergeSymbolTable(impl[i], impl[j]),
            ToSet(Written(impl[i])), ToSet(Written(impl[j])))

\* While a thread uses the checksum it got a reference to, no other thread
\* is computing it anew (the second look at the flag).
CheckSumNotWrittenInUse ==
  \A t, u \in scenario.threads :
    pc[t] = "reading" /\ pc[u] = "computing" => table[t] # table[u]

\* The checksum a caller gets is that of the table as it is now, whoever
\* shared, copied or extended it before; but a removal leaves the old one
\* (README.md, section 6).
CheckSumIsCurrent ==
  ~scenario.removals =>
    \A t \in scenario.threads :
      pc[t] = "reading" => /\ Mine(t).checkSum = CheckSumOf(Mine(t))
                           /\ Mine(t).labeled = LabeledCheckSumOf(Mine(t))

\* Every thread's handle is a table of its own: with shared implementations,
\* copies on write and three containers kept in step by hand, it behaves as
\* a list of symbols with keys that only its owner changes.
listed == [t \in Threads |-> IF t \in scenario.threads THEN Written(Mine(t)) ELSE <<>>]
nextKey == [t \in Threads |-> IF t \in scenario.threads THEN Mine(t).available ELSE 0]
SymbolMap == INSTANCE FstSymbolMap
  WITH Owners <- Threads, NoSymbol <- kNoSymbol, Keys <- Int,
       entries <- listed, next <- nextKey
ImplementsSymbolMap == SymbolMap!MapSpec

\* A table is a one-to-one mapping, whichever of its three containers holds a
\* symbol, and searches end.
TableIsAMapping ==
  /\ TypeOK
  /\ HashTableNeverFull
  /\ FindIsTwoWay
  /\ NextKeyIsFresh

\* Checksums are not computed under a reader, are current where nothing is removed,
\* and agree where tables do.
CheckSumsAgree ==
  /\ EqualTablesFeedTheSame
  /\ CheckSumNotWrittenInUse
  /\ CheckSumIsCurrent
=============================================================================
