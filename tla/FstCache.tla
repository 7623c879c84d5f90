------------------------------- MODULE FstCache -------------------------------
(***************************************************************************)
(* The cache of a lazy machine (cache.h): CacheBaseImpl on the default     *)
(* store, which is a GCCacheStore on a FirstCacheStore on a                *)
(* VectorCacheStore.  The client is one thread that asks for the start     *)
(* state, final weights and arcs, holds arc iterators, walks over all      *)
(* states with a CacheStateIterator and copies the machine.                *)
(*                                                                         *)
(* The lazy machine numbers its states as it discovers them (ComposeFst    *)
(* and its state table, bi-table.h).  Weights of arcs and their labels are *)
(* left out, sizes are in units; kMinCacheLimit bounds them from below.    *)
(***************************************************************************)
EXTENDS Integers, Sequences, SequencesExt, FiniteSets, FiniteSetsExt

CONSTANTS
  Scenarios,       \* records of: fst, what is computed lazily (the start node,
                   \* the nodes to which the arcs of each node lead, and the
                   \* final weights); options, the gc and gc_limit it is made
                   \* with; whether the client walks over the states; whether a
                   \* copy may keep what is cached, or may not
  Iterators,       \* arc iterators the client may hold at once
  StateSize, ArcSize, kMinCacheLimit

ASSUME CacheAssumption ==
  /\ \A s \in Scenarios :
       /\ s.options.gc \in BOOLEAN /\ s.options.gc_limit \in Nat
       /\ s.fst.start \in DOMAIN s.fst.next /\ DOMAIN s.fst.final = DOMAIN s.fst.next
       /\ IsFiniteSet(DOMAIN s.fst.next)
       /\ s.fst.next \in [DOMAIN s.fst.next -> Seq(DOMAIN s.fst.next)]
       /\ s.walks \in BOOLEAN /\ s.copies \subseteq BOOLEAN
       /\ s.iterators \subseteq Iterators
  /\ IsFiniteSet(Iterators)
  /\ StateSize \in Nat \ {0} /\ ArcSize \in Nat \ {0} /\ kMinCacheLimit \in Nat \ {0, 1}

VARIABLES
  scenario,
  table,           \* the nodes discovered, in the order of their state IDs
  store,           \* the cache store, see NewStore
  base,            \* the book-keeping of CacheBaseImpl, see NewBase
  arcIterators,    \* the state of each arc iterator and the slot it points to
  walk,            \* the state iterator: s_, and what Done() said last
  request          \* the last request: what was asked of which state

vars == <<scenario, table, store, base, arcIterators, walk, request>>

fst == scenario.fst
options == scenario.options

kNoStateId == -1
None == [id |-> kNoStateId, slot |-> kNoStateId]
NoRequest == <<"none", kNoStateId>>
NoWalk == [at |-> 0, status |-> "none"]

\* slots: the cached states, by their index in the vector store; list: these
\* indices in the order of the list that garbage collection goes through.
NewStore(opts) ==
  [slots |-> <<>>, list |-> <<>>, firstGc |-> opts.gc_limit = 0, firstId |-> kNoStateId,
   gc |-> FALSE, size |-> 0,
   limit |-> IF opts.gc_limit > kMinCacheLimit THEN opts.gc_limit ELSE kMinCacheLimit]

NewBase ==
  [hasStart |-> FALSE, nknown |-> 0, expanded |-> {}, minUnexpanded |-> 0, maxExpanded |-> -1]

NewState == [final |-> 0, arcs |-> <<>>, flags |-> {}, refs |-> 0]

Init ==
  /\ scenario \in Scenarios
  /\ table = <<>> /\ store = NewStore(options) /\ base = NewBase
  /\ arcIterators = [i \in Iterators |-> None]
  /\ walk = NoWalk /\ request = NoRequest

-----------------------------------------------------------------------------
(* The stores, as operators on the store record c.                         *)

WithFlags(state, on, off) == [state EXCEPT !.flags = (@ \ off) \cup on]

\* Slot 0 holds the first cached state, the others are shifted by one.
Slot(c, s) == IF s = c.firstId THEN 0 ELSE s + 1
Stored(c, s) == Slot(c, s) \in DOMAIN c.slots
StateOf(c, s) == c.slots[Slot(c, s)]

\* The list is kept only for garbage collection.
KeepsList(c) == options.gc

\* VectorCacheStore::GetMutableState.
VectorGet(c, i) ==
  IF i \in DOMAIN c.slots THEN c
  ELSE [c EXCEPT !.slots = [j \in DOMAIN @ \cup {i} |-> IF j = i THEN NewState ELSE @[j]],
                 !.list = IF KeepsList(c) THEN Append(@, i) ELSE @]

Reset(state) == NewState
Reusable(c) == c.slots[0].refs = 0

\* FirstCacheStore::GetMutableState: the first state is reused until it is in
\* use when another one is requested.
FirstGet(c, s) ==
  CASE c.firstId = s -> c
    [] c.firstId # s /\ c.firstGc /\ c.firstId = kNoStateId ->
         [VectorGet(c, 0) EXCEPT !.firstId = s, !.slots[0] = WithFlags(@, {"Init"}, {})]
    [] c.firstId # s /\ c.firstGc /\ c.firstId # kNoStateId /\ Reusable(c) ->
         [c EXCEPT !.firstId = s, !.slots[0] = WithFlags(Reset(@), {"Init"}, {})]
    [] c.firstId # s /\ c.firstGc /\ c.firstId # kNoStateId /\ ~Reusable(c) ->
         VectorGet([c EXCEPT !.slots[0] = WithFlags(@, {}, {"Init"}), !.firstGc = FALSE], s + 1)
    [] c.firstId # s /\ ~c.firstGc -> VectorGet(c, s + 1)

Size(state) == StateSize + Len(state.arcs) * ArcSize

PositionOf(list, i) == CHOOSE k \in DOMAIN list : list[k] = i

\* FirstCacheStore::Delete and VectorCacheStore::Delete.
Deleted(c, i) ==
  [c EXCEPT !.slots = [j \in DOMAIN @ \ {i} |-> @[j]],
            !.list = RemoveAt(@, PositionOf(@, i)),
            !.firstId = IF i = 0 THEN kNoStateId ELSE @]

\* Mutant: states in use go too.
EvenInUse(c, i, current, freeRecent) ==
  (freeRecent \/ "Recent" \notin c.slots[i].flags) /\ i # current

Evictable(c, i, current, freeRecent) ==
  /\ c.slots[i].refs = 0
  /\ freeRecent \/ "Recent" \notin c.slots[i].flags
  /\ i # current

Evicted(c, i) ==
  [Deleted(c, i) EXCEPT
     !.size = IF "Init" \in c.slots[i].flags /\ Size(c.slots[i]) < @
                THEN @ - Size(c.slots[i]) ELSE @]

\* One pass of GCCacheStore::GC over the list, and what it does at each state.
Visited(d, at) ==
  IF d.size > at.target /\ Evictable(d, at.slot, at.current, at.freeRecent)
    THEN Evicted(d, at.slot)
    ELSE [d EXCEPT !.slots[at.slot] = WithFlags(@, {}, {"Recent"})]

Sweep(c, current, freeRecent, target) ==
  FoldLeft(Visited, c,
           [k \in 1..Len(c.list) |-> [slot |-> c.list[k], current |-> current,
                                      freeRecent |-> freeRecent, target |-> target]])

\* The limit is doubled, and the target with it, until the target is met.
Doubled(d, from) ==
  IF d.size > from.target * (d.limit \div from.limit) THEN [d EXCEPT !.limit = 2 * @] ELSE d

Widened(c, target) ==
  FoldLeft(Doubled, c, [i \in 1..(c.size \div target) |-> [limit |-> c.limit, target |-> target]])

Target(c) == (666 * c.limit) \div 1000  \* cache_fraction is 0.666

\* Mutant: the states requested since the last collection are spared.
OldOnlyGC(c, current) == Widened(Sweep(c, current, FALSE, Target(c)), Target(c))

SweepRecent(c, current, target) ==
  IF c.size > target THEN Sweep(c, current, TRUE, target) ELSE c

GC(c, current) ==
  LET target == Target(c)
  IN  Widened(SweepRecent(Sweep(c, current, FALSE, target), current, target), target)

Collected(c, current) == IF c.size > c.limit THEN GC(c, current) ELSE c

Counted(c, i, size) == Collected([c EXCEPT !.size = @ + size], i)

\* GCCacheStore::GetMutableState.  The sizes of states FirstCacheStore has
\* initialised are not counted.
Initialised(c, i) ==
  IF options.gc /\ "Init" \notin c.slots[i].flags
    THEN Counted([c EXCEPT !.slots[i] = WithFlags(@, {"Init"}, {}), !.gc = TRUE],
                 i, Size(c.slots[i]))
    ELSE c

FirstGot(c, s) == Initialised(c, Slot(c, s))
GetMutableState(c, s) == FirstGot(FirstGet(c, s), s)

\* Mutant: the arcs are not counted.
NotCounted(c, i) == c

\* GCCacheStore::SetArcs.
CountArcs(c, i) ==
  IF c.gc /\ "Init" \in c.slots[i].flags
    THEN Counted(c, i, Len(c.slots[i].arcs) * ArcSize) ELSE c

-----------------------------------------------------------------------------
(* CacheBaseImpl; b is its record.                                         *)

Has(c, flag, s) == Stored(c, s) /\ flag \in StateOf(c, s).flags
Touched(c, s) == [c EXCEPT !.slots[Slot(c, s)] = WithFlags(@, {"Recent"}, {})]

WithFinal(c, i, w) ==
  [c EXCEPT !.slots[i] = WithFlags([@ EXCEPT !.final = w], {"Final", "Recent"}, {})]
PutFinal(c, s, w) == WithFinal(c, Slot(c, s), w)
SetFinal(c, s, w) == PutFinal(GetMutableState(c, s), s, w)

\* PushArc for each of arcs, then SetArcs.
WithArcs(c, i, arcs) ==
  [CountArcs([c EXCEPT !.slots[i].arcs = @ \o arcs], i)
     EXCEPT !.slots[i] = WithFlags(@, {"Arcs", "Recent"}, {})]
PutArcs(c, s, arcs) == WithArcs(c, Slot(c, s), arcs)
PushAndSetArcs(c, s, arcs) == PutArcs(GetMutableState(c, s), s, arcs)

UpdateNumKnownStates(b, ids) == [b EXCEPT !.nknown = Max({@} \cup {s + 1 : s \in ids})]

TracksExpanded == options.gc \/ options.gc_limit = 0

SetExpandedState(b, s) ==
  LET top == [b EXCEPT !.maxExpanded = IF s > @ THEN s ELSE @]
  IN  IF s < b.minUnexpanded THEN top
      ELSE [top EXCEPT !.minUnexpanded = IF s = @ THEN @ + 1 ELSE @,
                       !.expanded = IF TracksExpanded THEN @ \cup {s} ELSE @]

ExpandedState(b, c, s) == IF TracksExpanded THEN s \in b.expanded ELSE Stored(c, s)

\* Mutant: states below the largest expanded one count as expanded.
AboveMaxExpanded(b, c) == b.maxExpanded + 1

\* The search goes on from where it stopped last.
MinUnexpandedState(b, c) ==
  LET unexpanded == {s \in b.minUnexpanded..b.maxExpanded : ~ExpandedState(b, c, s)}
  IN  IF unexpanded # {} THEN Min(unexpanded) ELSE Max({b.minUnexpanded, b.maxExpanded + 1})

-----------------------------------------------------------------------------
(* The lazy machine.  m is the record of its table, store and base.        *)

Machine == [table |-> table, store |-> store, base |-> base]

FindState(tab, node) == IF Contains(tab, node) THEN tab ELSE Append(tab, node)
IdOf(tab, node) == (CHOOSE i \in 1..Len(tab) : tab[i] = node) - 1
NodeOf(m, s) == m.table[s + 1]

Start(m) ==
  IF m.base.hasStart THEN m
  ELSE LET tab == FindState(m.table, fst.start)
       IN  [m EXCEPT !.table = tab,
                     !.base = UpdateNumKnownStates([@ EXCEPT !.hasStart = TRUE],
                                                   {IdOf(tab, fst.start)})]

Final(m, s) ==
  [m EXCEPT !.store = IF Has(@, "Final", s) THEN Touched(@, s)
                      ELSE SetFinal(@, s, fst.final[NodeOf(m, s)])]

\* The IDs of the arcs a state has in the store become known.
Known(b, c, s) == UpdateNumKnownStates(b, ToSet(StateOf(c, s).arcs))

Expanded(m, s, tab, c) ==
  [table |-> tab, store |-> c, base |-> SetExpandedState(Known(m.base, c, s), s)]

ExpandWith(m, s, next, tab) ==
  Expanded(m, s, tab,
           PushAndSetArcs(m.store, s, [i \in 1..Len(next) |-> IdOf(tab, next[i])]))

Expand(m, s) ==
  LET next == fst.next[NodeOf(m, s)]
  IN  ExpandWith(m, s, next, FoldLeft(FindState, m.table, next))

\* NumArcs and the first half of InitArcIterator.
Arcs(m, s) ==
  IF Has(m.store, "Arcs", s) THEN [m EXCEPT !.store = Touched(@, s)] ELSE Expand(m, s)

Pinned(m, s, n) == [m EXCEPT !.store.slots[Slot(m.store, s)].refs = @ + n]

\* The constructor of CacheArcIterator, and then that of the derived class.
ArcIterator(m, s) == Arcs(Pinned([m EXCEPT !.store = GetMutableState(@, s)], s, 1), s)

\* u is walked through with an arc iterator.
Closed(open, u) ==
  [Pinned(open, u, -1) EXCEPT
     !.base = SetExpandedState(Known(open.base, open.store, u), u)]

OpenFound(m, u) == IF u >= m.base.nknown THEN m ELSE Closed(ArcIterator(m, u), u)
OpenUnexpanded(m, u) == OpenFound([m EXCEPT !.base.minUnexpanded = u], u)

\* The loop of CacheStateIterator::Done for the state at: unexpanded states are
\* expanded, in order, until the number of known states exceeds at.
DoneRound(n, at) ==
  IF at < n.base.nknown THEN n ELSE OpenUnexpanded(n, MinUnexpandedState(n.base, n.store))

DoneLoop(m, at) ==
  FoldLeft(DoneRound, m, [i \in 1..Cardinality(DOMAIN fst.next) + 1 |-> at])

-----------------------------------------------------------------------------
(* The client.                                                             *)

Becomes(m) == table' = m.table /\ store' = m.store /\ base' = m.base

KnownIds == 0..Len(table)-1

CallStart ==
  /\ Becomes(Start(Machine))
  /\ request' = NoRequest
  /\ UNCHANGED <<scenario, arcIterators, walk>>

CallFinal(s) ==
  /\ Becomes(Final(Machine, s))
  /\ request' = <<"Final", s>>
  /\ UNCHANGED <<scenario, arcIterators, walk>>

CallNumArcs(s) ==
  /\ Becomes(Arcs(Machine, s))
  /\ request' = <<"Arcs", s>>
  /\ UNCHANGED <<scenario, arcIterators, walk>>

\* specialised: ArcIterator of the machine's own class, or the one of Fst, which
\* lets InitArcIterator raise the reference count after the expansion.
OpenArcIterator(i, s, specialised) ==
  /\ i \in scenario.iterators /\ arcIterators[i] = None
  /\ Becomes(IF specialised THEN ArcIterator(Machine, s) ELSE Pinned(Arcs(Machine, s), s, 1))
  /\ arcIterators' = [arcIterators EXCEPT ![i] = [id |-> s, slot |-> Slot(store', s)]]
  /\ request' = <<"Arcs", s>>
  /\ UNCHANGED <<scenario, walk>>

CloseArcIterator(i) ==
  /\ arcIterators[i] # None
  /\ store' = [store EXCEPT !.slots[arcIterators[i].slot].refs = @ - 1]
  /\ arcIterators' = [arcIterators EXCEPT ![i] = None]
  /\ request' = NoRequest
  /\ UNCHANGED <<scenario, table, base, walk>>

BeginWalk ==
  /\ scenario.walks /\ walk.status = "none"
  /\ Becomes(Start(Machine))
  /\ walk' = [at |-> 0, status |-> "unknown"]
  /\ request' = NoRequest
  /\ UNCHANGED <<scenario, arcIterators>>

CallDone ==
  /\ walk.status = "unknown"
  /\ Becomes(DoneLoop(Machine, walk.at))
  /\ walk' = [walk EXCEPT !.status = IF walk.at < base'.nknown THEN "at" ELSE "done"]
  /\ request' = NoRequest
  /\ UNCHANGED <<scenario, arcIterators>>

CallNext ==
  /\ walk.status = "at"
  /\ walk' = [at |-> walk.at + 1, status |-> "unknown"]
  /\ request' = NoRequest
  /\ UNCHANGED <<scenario, table, store, base, arcIterators>>

\* VectorCacheStore::CopyStates, the list is in the order of the slots.
Listed(list, slot) == IF slot.stored THEN Append(list, slot.index) ELSE list

Copied(c, n) ==
  [c EXCEPT !.slots = [i \in DOMAIN @ |-> [@[i] EXCEPT !.refs = 0]],
            !.list = IF KeepsList(c)
                       THEN FoldLeft(Listed, <<>>,
                                     [k \in 1..n |-> [index |-> k - 1,
                                                      stored |-> k - 1 \in DOMAIN c.slots]])
                       ELSE @]

\* The machine is replaced by its safe copy, with or without what is cached.
Copy(preserve) ==
  /\ preserve \in scenario.copies
  /\ \A i \in Iterators : arcIterators[i] = None
  /\ IF preserve
       THEN /\ store' = Copied(store, Len(table) + 1)
            /\ UNCHANGED <<table, base>>
       ELSE table' = <<>> /\ store' = NewStore(options) /\ base' = NewBase
  /\ walk' = NoWalk /\ request' = NoRequest
  /\ UNCHANGED <<scenario, arcIterators>>

Next ==
  \/ CallStart
  \/ \E s \in KnownIds :
       \/ CallFinal(s)
       \/ CallNumArcs(s)
       \/ \E i \in Iterators, specialised \in BOOLEAN : OpenArcIterator(i, s, specialised)
  \/ \E i \in Iterators : CloseArcIterator(i)
  \/ BeginWalk \/ CallDone \/ CallNext
  \/ \E preserve \in BOOLEAN : Copy(preserve)

Spec == Init /\ [][Next]_vars

-----------------------------------------------------------------------------
(* Properties.                                                             *)

Flag == {"Final", "Arcs", "Init", "Recent"}
Nodes == DOMAIN fst.next

TypeOK ==
  /\ scenario \in Scenarios
  /\ table \in Seq(Nodes) /\ IsInjective(table)
  /\ DOMAIN store.slots \subseteq 0..Len(table)
  /\ \A i \in DOMAIN store.slots :
       /\ store.slots[i].flags \subseteq Flag /\ store.slots[i].refs \in Nat
       /\ ToSet(store.slots[i].arcs) \subseteq KnownIds
  /\ ToSet(store.list) = IF options.gc THEN DOMAIN store.slots ELSE {}
  /\ store.firstId \in KnownIds \cup {kNoStateId} /\ store.size \in Nat
  /\ base.nknown \in 0..Len(table) /\ base.minUnexpanded \in 0..Len(table)
  /\ base.maxExpanded \in -1..Len(table)-1 /\ base.expanded \subseteq KnownIds
  /\ arcIterators \in [Iterators -> [id : KnownIds \cup {kNoStateId}, slot : -1..Len(table)]]
  /\ walk.at \in 0..Len(table)

\* What is flagged as cached is what would be computed, whatever was evicted,
\* reused, copied or computed again meanwhile.
CachedMeansComputed ==
  \A s \in KnownIds : LET node == table[s + 1] IN
    /\ Has(store, "Final", s) => StateOf(store, s).final = fst.final[node]
    /\ Has(store, "Arcs", s) =>
         LET arcs == StateOf(store, s).arcs
         IN  fst.next[node] = [i \in DOMAIN arcs |-> table[arcs[i] + 1]]

\* The state an open arc iterator points to is neither destroyed nor reused for
\* another state, keeps its arcs, and counts the iterators it has.
StatesInUseStay ==
  \A i \in Iterators : LET at == arcIterators[i] IN
    at # None => /\ Stored(store, at.id) /\ Slot(store, at.id) = at.slot
                 /\ Has(store, "Arcs", at.id)
                 /\ StateOf(store, at.id).refs =
                      Cardinality({j \in Iterators : arcIterators[j] = at})

\* The cached states that were counted, and the size of some cached states.
Counting(c) == {i \in DOMAIN c.slots : "Init" \in c.slots[i].flags}
ArcsOf(c, S) == UNION {{i} \X DOMAIN c.slots[i].arcs : i \in S}
SizeOf(c, S) == StateSize * Cardinality(S) + ArcSize * Cardinality(ArcsOf(c, S))

\* The cache size is the sum of the sizes of the states that were counted, over
\* every insertion, deletion and eviction.
SizeIsExact == store.size = IF store.gc THEN SizeOf(store, Counting(store)) ELSE 0

\* No call leaves more cached than the limit.
LimitIsKept == store.gc => store.size <= store.limit

\* The state requested last is still cached when the call returns: its caller
\* goes on to read it without another look.
RequestedStateStays ==
  request # NoRequest => Has(store, request[1], request[2])

\* The limit is widened only if all other states that are left are in use.
WidensOnlyWhenInUse ==
  [][store'.limit > store.limit /\ request' # NoRequest =>
       \A i \in DOMAIN store'.slots :
         i # Slot(store', request'[2]) => store'.slots[i].refs > 0]_vars

Reachable ==
  FoldLeft(LAMBDA R, i : R \cup UNION {ToSet(fst.next[n]) : n \in R},
           {fst.start}, [i \in 1..Cardinality(Nodes) |-> i])

\* A walk that is over has visited exactly the states that can be reached, also
\* if they were cached, evicted or partly computed before or during the walk.
WalkVisitsAllStates ==
  walk.status = "done" => ToSet(table) = Reachable /\ walk.at = Cardinality(Reachable)

\* A cached state is right, stays while it is used, and until it was read; the size
\* that is compared with the limit is the true one, and the limit holds.
CacheIsSound ==
  /\ TypeOK
  /\ CachedMeansComputed
  /\ StatesInUseStay
  /\ RequestedStateStays
  /\ SizeIsExact
  /\ LimitIsKept
=============================================================================
