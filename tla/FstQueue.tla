------------------------------- MODULE FstQueue -------------------------------
(***************************************************************************)
(* The queues of states of queue.h and the heap they are built on          *)
(* (heap.h).  rank[s] is what the comparison of a queue that orders states *)
(* by weight reads: the vector belongs to the algorithm, which changes it  *)
(* while states wait in the queue.  Positions and keys count from 1.       *)
(***************************************************************************)
EXTENDS FstVisit

-----------------------------------------------------------------------------
(* Heap: values[i] is at position i, known outside by the key keys[i]; pos *)
(* is the inverse of keys.  What lies behind size waits to be used again.  *)

kNoKey == 0
NewHeap == [values |-> <<>>, keys |-> <<>>, pos |-> <<>>, size |-> 0]

Parent(i) == IF i = 1 THEN 1 ELSE i \div 2
Left(i) == 2 * i
Right(i) == 2 * i + 1

Swap(h, j, k) ==
  [h EXCEPT !.keys[j] = h.keys[k], !.keys[k] = h.keys[j],
            !.pos[h.keys[k]] = j, !.pos[h.keys[j]] = k,
            !.values[j] = h.values[k], !.values[k] = h.values[j]]

\* The position with the least state among i and its children.
Least(h, i, rank) ==
  LET below == Left(i) <= h.size /\ rank[h.values[Left(i)]] < rank[h.values[i]]
      l == IF below THEN Left(i) ELSE i
      r == Right(i)
  IN  IF r <= h.size /\ rank[h.values[r]] < rank[h.values[l]] THEN r ELSE l

Positions(h) == [i \in 1..h.size |-> i]

Heapify(h, i, rank) ==
  LET Sink(c, n) ==
        LET least == Least(c.heap, c.at, rank)
        IN  IF least = c.at THEN c
            ELSE [heap |-> Swap(c.heap, c.at, least), at |-> least]
  IN  FoldLeft(Sink, [heap |-> h, at |-> i], Positions(h)).heap

\* A state climbs past those that are not less than it.
Climb(h, i, rank) ==
  LET Rise(c, n) ==
        IF c.at > 1 /\ rank[c.heap.values[Parent(c.at)]] >= rank[c.heap.values[c.at]]
          THEN [heap |-> Swap(c.heap, c.at, Parent(c.at)), at |-> Parent(c.at)]
          ELSE c
  IN  FoldLeft(Rise, [heap |-> h, at |-> i], Positions(h)).heap

\* The key the next insertion returns.
NextKey(h) == IF h.size < Len(h.keys) THEN h.keys[h.size + 1] ELSE h.size + 1

HeapInsert(h, s, rank) ==
  LET n == h.size + 1
      held == IF h.size < Len(h.values)
                THEN [h EXCEPT !.values[n] = s, !.pos[h.keys[n]] = n, !.size = n]
                ELSE [values |-> Append(h.values, s), keys |-> Append(h.keys, n),
                      pos |-> Append(h.pos, n), size |-> n]
  IN  Climb(held, n, rank)

HeapUpdate(h, key, s, rank) ==
  LET i == h.pos[key]
      put == [h EXCEPT !.values[i] = s]
  IN  IF rank[s] < rank[h.values[Parent(i)]] THEN Climb(put, i, rank)
                                             ELSE Heapify(put, i, rank)

Top(h) == h.values[1]
HeapPop(h, rank) == Heapify([Swap(h, 1, h.size) EXCEPT !.size = @ - 1], 1, rank)

-----------------------------------------------------------------------------
(* The queues.  Enqueue gives the state keys of a heap when update is set; *)
(* a queue by order has one slot for each place of the order; a queue of   *)
(* components has a queue for each, the trivial ones included.             *)

FifoQueue == [type |-> "fifo", items |-> <<>>]
LifoQueue == [type |-> "lifo", items |-> <<>>]
TrivialQueue == [type |-> "trivial", front |-> kNoStateId]
ShortestFirstQueue(f, update) ==
  [type |-> "shortest", update |-> update, heap |-> NewHeap,
   key |-> [s \in States(f) |-> kNoKey]]
OrderQueue(order) ==
  [type |-> "order", order |-> order, front |-> 0, back |-> kNoStateId,
   state |-> [n \in {order[s] : s \in DOMAIN order} |-> kNoStateId]]
StateOrderQueue(f) == OrderQueue([s \in States(f) |-> s])
SccQueue(scc, queues) ==
  [type |-> "scc", scc |-> scc, queues |-> queues, front |-> 0, back |-> kNoStateId]

\* The queues inside a component are simple ones: no queue of components nests.
SimpleEmpty(q) ==
  CASE q.type \in {"fifo", "lifo"} -> q.items = <<>>
    [] q.type = "trivial"  -> q.front = kNoStateId
    [] q.type = "shortest" -> q.heap.size = 0
    [] q.type = "order"    -> q.front > q.back

SimpleHead(q) ==
  CASE q.type \in {"fifo", "lifo"} -> Head(q.items)
    [] q.type = "trivial"  -> q.front
    [] q.type = "shortest" -> Top(q.heap)
    [] q.type = "order"    -> q.state[q.front]

\* front and back after a place n is taken.
Spanned(q, n) ==
  IF q.front > q.back THEN [q EXCEPT !.front = n, !.back = n]
  ELSE [q EXCEPT !.front = IF n < @ THEN n ELSE @, !.back = IF n > @ THEN n ELSE @]

SimpleEnqueue(q, s, rank) ==
  CASE q.type = "fifo"     -> [q EXCEPT !.items = Append(@, s)]
    [] q.type = "lifo"     -> [q EXCEPT !.items = <<s>> \o @]
    [] q.type = "trivial"  -> [q EXCEPT !.front = s]
    [] q.type = "shortest" ->
         [q EXCEPT !.heap = HeapInsert(@, s, rank),
                   !.key[s] = IF q.update THEN NextKey(q.heap) ELSE @]
    [] q.type = "order"    -> [Spanned(q, q.order[s]) EXCEPT !.state[q.order[s]] = s]

\* The next place in use, one past back if there is none.
NextUsed(q) ==
  LET used == {n \in q.front+1..q.back : q.state[n] # kNoStateId}
  IN  IF used = {} THEN q.back + 1 ELSE CHOOSE n \in used : \A m \in used : n <= m

SimpleDequeue(q, rank) ==
  CASE q.type \in {"fifo", "lifo"} -> [q EXCEPT !.items = Tail(@)]
    [] q.type = "trivial"  -> [q EXCEPT !.front = kNoStateId]
    [] q.type = "shortest" ->
         [q EXCEPT !.heap = HeapPop(@, rank),
                   !.key[Top(q.heap)] = kNoKey]
    [] q.type = "order"    ->
         [q EXCEPT !.state[q.front] = kNoStateId, !.front = NextUsed(q)]

SimpleUpdate(q, s, rank) ==
  IF q.type # "shortest" \/ ~q.update THEN q
  ELSE IF q.key[s] = kNoKey THEN SimpleEnqueue(q, s, rank)
  ELSE [q EXCEPT !.heap = HeapUpdate(@, q.key[s], s, rank)]

SimpleClear(q) ==
  CASE q.type \in {"fifo", "lifo"} -> [q EXCEPT !.items = <<>>]
    [] q.type = "trivial"  -> [q EXCEPT !.front = kNoStateId]
    [] q.type = "shortest" -> [q EXCEPT !.heap.size = 0,
                                        !.key = [s \in DOMAIN @ |-> kNoKey]]
    [] q.type = "order"    ->
         [q EXCEPT !.state = [n \in DOMAIN @ |-> IF n \in q.front..q.back THEN kNoStateId
                                                 ELSE @[n]],
                   !.front = 0, !.back = kNoStateId]

\* SccQueue::Empty takes it that the queue of component back is never empty
\* while an earlier one is in front.
Empty(q) ==
  IF q.type # "scc" THEN SimpleEmpty(q)
  ELSE \/ q.front > q.back
       \/ q.front = q.back /\ SimpleEmpty(q.queues[q.front])

\* SccQueue::Head moves to the first component whose queue is not empty.
Advanced(q) ==
  IF q.type # "scc" THEN q
  ELSE [q EXCEPT !.front = CHOOSE n \in q.front..q.back+1 :
           /\ n <= q.back => ~SimpleEmpty(q.queues[n])
           /\ \A m \in q.front..n-1 : SimpleEmpty(q.queues[m])]

\* Of a queue that has Advanced.
QueueHead(q) == SimpleHead(IF q.type = "scc" THEN q.queues[q.front] ELSE q)

Enqueue(q, s, rank) ==
  IF q.type # "scc" THEN SimpleEnqueue(q, s, rank)
  ELSE [Spanned(q, q.scc[s]) EXCEPT !.queues[q.scc[s]] = SimpleEnqueue(@, s, rank)]

Dequeue(q, rank) ==
  IF q.type # "scc" THEN SimpleDequeue(q, rank)
  ELSE [q EXCEPT !.queues[q.front] = SimpleDequeue(@, rank)]

Update(q, s, rank) ==
  IF q.type # "scc" THEN SimpleUpdate(q, s, rank)
  ELSE [q EXCEPT !.queues[q.scc[s]] = SimpleUpdate(@, s, rank)]

Clear(q) ==
  IF q.type # "scc" THEN SimpleClear(q)
  ELSE [q EXCEPT !.queues = [n \in DOMAIN @ |-> IF n \in q.front..q.back
                                                THEN SimpleClear(@[n]) ELSE @[n]],
                 !.front = 0, !.back = kNoStateId]

\* The states in a queue, each as often as it is there.
SimpleItems(q) ==
  CASE q.type \in {"fifo", "lifo"} -> q.items
    [] q.type = "trivial"  -> IF q.front = kNoStateId THEN <<>> ELSE <<q.front>>
    [] q.type = "shortest" -> SubSeq(q.heap.values, 1, q.heap.size)
    [] q.type = "order"    ->
         SelectSeq([i \in 1..q.back+1 |-> q.state[i-1]], LAMBDA s : s # kNoStateId)
Items(q) ==
  IF q.type # "scc" THEN SimpleItems(q)
  ELSE FoldLeft(LAMBDA items, n : items \o SimpleItems(q.queues[n]), <<>>,
                [n \in 1..Cardinality(DOMAIN q.queues) |-> n - 1])

-----------------------------------------------------------------------------
(* AutoQueue: the discipline that the known properties of a machine, or    *)
(* its components, allow.  An arc filter is known by its name.             *)

AnyArc == "any"
EpsilonArc == "epsilon"

EpsilonArcFilter(arc) == arc.ilabel = 0 /\ arc.olabel = 0
Passes(filter, arc) == filter = EpsilonArc => EpsilonArcFilter(arc)

\* The machine as a visit with an arc filter sees it.
Filtered(f, filter) ==
  [f EXCEPT !.states = [s \in DOMAIN @ |->
     [@[s] EXCEPT !.arcs = SelectSeq(@, LAMBDA a : Passes(filter, a))]]]

\* SccQueueType, for one component.  Without weights to compare (NULL), or with
\* an arc better than One, only FIFO is safe.
SccQueueType(f, scc, n) ==
  LET inside == {e \in UNION {{s} \X ArcSet(f, s) : s \in States(f)} :
                   scc[e[1]] = n /\ scc[e[2].nextstate] = n}
  IN  IF inside = {} THEN TrivialQueue
      ELSE IF \E e \in inside : e[2].weight < One THEN FifoQueue
      ELSE IF \E e \in inside : ~Trivial(e[2].weight) THEN ShortestFirstQueue(f, FALSE)
      ELSE LifoQueue

AutoQueue(f, filter) ==
  LET kept == Filtered(f, filter)
      scc == SccVisit(kept).scc
      queues == [n \in {scc[s] : s \in States(f)} |-> SccQueueType(kept, scc, n)]
  IN  IF "TopSorted" \in f.properties \/ f.start = kNoStateId THEN StateOrderQueue(f)
      ELSE IF "Acyclic" \in f.properties THEN OrderQueue(TopOrder(kept).order)
      ELSE IF "Unweighted" \in f.properties THEN LifoQueue
      ELSE IF \A s \in States(f) : \A a \in ArcSet(kept, s) : Trivial(a.weight) THEN LifoQueue
      ELSE IF \A n \in DOMAIN queues : queues[n].type = "trivial" THEN OrderQueue(scc)
      ELSE SccQueue(scc, queues)
=============================================================================
