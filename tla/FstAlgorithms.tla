----------------------------- MODULE FstAlgorithms -----------------------------
(***************************************************************************)
(* Algorithms that need the distances of a machine, as a program calls     *)
(* them: shortest distances themselves, the shortest path, the n shortest  *)
(* paths, pushing of weights, pruning and the removal of epsilons.  Each   *)
(* step is one turn of the loop the code is in.                            *)
(***************************************************************************)
EXTENDS FstShortestPath, FstReweight, FstRmEpsilon, FstMeaning

CONSTANTS
  Scenarios,    \* sets of machines and of the jobs done on each of them
  MaxLength     \* relations are compared on strings of at most this length

ASSUME ScenariosAssumption == \A s \in Scenarios : {"machines", "jobs"} \subseteq DOMAIN s
ASSUME MaxLengthAssumption == MaxLength \in Nat

VARIABLES
  fst,          \* the machine of the call
  job,          \* the call
  phase,        \* the loop the code is in
  graph,        \* the machine whose distances are computed
  d,            \* the state of the computation of distances
  p,            \* that of the search for the shortest path
  c,            \* that of the search for n shortest paths
  pass,         \* that of the removal of epsilons
  out,          \* the machine the call yields
  taken         \* how often each state has left the queue, for the properties

vars == <<fst, job, phase, graph, d, p, c, pass, out, taken>>
loops == <<d, p, c, pass>>

Idle == <<>>
Nowhere(f) == ForAll(f, 0)

Init ==
  \E s \in Scenarios :
    /\ fst \in s.machines
    /\ job \in {j \in s.jobs : (j.op = "Distance" /\ j.queue = "toporder")
                                 => SccVisit(fst).props \cap {"Cyclic"} = {}}
    /\ phase = "begin"
    /\ graph = NewFst /\ d = Idle /\ p = Idle /\ c = Idle /\ pass = Idle
    /\ out = fst
    /\ taken = <<>>

QueueOf(kind, f) ==
  CASE kind = "auto"       -> AutoQueue(f, AnyArc)
    [] kind = "fifo"       -> FifoQueue
    [] kind = "lifo"       -> LifoQueue
    [] kind = "shortest"   -> ShortestFirstQueue(f, TRUE)
    [] kind = "stateorder" -> StateOrderQueue(f)
    [] kind = "toporder"   -> OrderQueue(TopOrder(f).order)

HasStart(f) == f.start # kNoStateId
IsPass == pass # Idle

\* The arcs the distances are computed along.
Filter == IF IsPass THEN EpsilonArc ELSE AnyArc

-----------------------------------------------------------------------------
(* Shortest distances.                                                     *)

\* The distances of g; there are none to find if it has no start state.
BeginDistance(g, kind, firstPath) ==
  LET fresh == NewDistances(g, QueueOf(kind, g), FALSE, firstPath)
  IN  /\ graph' = g
      /\ d' = IF HasStart(g) THEN BeginSource(g, fresh, g.start) ELSE fresh
      /\ taken' = Nowhere(g)
      /\ phase' = "distance"

Backwards ==
  \/ job.op = "Distance" /\ job.reverse
  \/ job.op = "Push" /\ job.toInitial
  \/ job.op \in {"Prune", "RmEpsilon"}

BeginDistanceOf(f) ==
  BeginDistance(IF Backwards THEN ReverseFst(f, TRUE) ELSE f,
                IF job.op = "Distance" THEN job.queue ELSE "auto",
                job.op = "Distance" /\ job.firstPath)

StartDistance ==
  /\ phase = "begin"
  /\ job.op \in {"Distance", "Push", "Prune", "NShortest"}
  /\ BeginDistanceOf(fst)
  /\ UNCHANGED <<fst, job, p, c, pass, out>>

DistanceStep ==
  /\ phase = "distance"
  /\ ~Empty(d.queue)
  /\ IF IsFirstPath(graph, d)
       THEN d' = Popped(d) /\ phase' = "apply"
       ELSE d' = RelaxState(graph, d, Filter) /\ UNCHANGED phase
  /\ taken' = [taken EXCEPT ![NextState(d)] = @ + 1]
  /\ UNCHANGED <<fst, job, graph, p, c, pass, out>>

DistanceDone ==
  /\ phase = "distance"
  /\ Empty(d.queue)
  /\ phase' = IF IsPass THEN "expand" ELSE "apply"
  /\ UNCHANGED <<fst, job, graph, loops, out, taken>>

-----------------------------------------------------------------------------
(* What is done with the distances.                                        *)

PrunedWith(f, distance) ==
  IF job.copies THEN PruneCopy(f, distance, job.threshold, job.maxStates)
                ELSE PruneInPlace(f, distance, job.threshold, job.maxStates)

\* The distances as the caller sees them.
Distances == IF Backwards THEN Unreversed(out, d) ELSE d.distance

\* Removal of epsilons with a threshold ends in the pruning in place.
Apply ==
  /\ phase = "apply"
  /\ job.op # "NShortest"
  /\ out' = CASE job.op = "Distance" -> out
              [] job.op = "Push" -> Push(out, Distances, job.toInitial, job.removes)
              [] job.op = "Prune" -> PrunedWith(out, Distances)
              [] job.op = "RmEpsilon" ->
                   PruneInPlace(out, Distances, job.threshold, job.maxStates)
  /\ phase' = "done"
  /\ UNCHANGED <<fst, job, graph, loops, taken>>

-----------------------------------------------------------------------------
(* The shortest path.                                                      *)

StartPath ==
  /\ phase = "begin"
  /\ job.op = "ShortestPath"
  /\ p' = IF HasStart(fst) THEN NewPath(fst, QueueOf(job.queue, fst), job.firstPath) ELSE Idle
  /\ taken' = Nowhere(fst)
  /\ phase' = IF HasStart(fst) THEN "path" ELSE "done"
  /\ out' = IF HasStart(fst) THEN fst ELSE NewFst
  /\ UNCHANGED <<fst, job, graph, d, c, pass>>

PathStep ==
  /\ phase = "path"
  /\ ~Empty(p.queue)
  /\ IF IsBestPath(p) THEN p' = Popped(p) /\ phase' = "trace"
                      ELSE p' = PathState(fst, p) /\ UNCHANGED phase
  /\ taken' = [taken EXCEPT ![NextState(p)] = @ + 1]
  /\ UNCHANGED <<fst, job, graph, d, c, pass, out>>

PathDone ==
  /\ phase = "path"
  /\ Empty(p.queue)
  /\ phase' = "trace"
  /\ UNCHANGED <<fst, job, graph, loops, out, taken>>

TracePath ==
  /\ phase = "trace"
  /\ out' = Backtrace(fst, p)
  /\ phase' = "done"
  /\ UNCHANGED <<fst, job, graph, loops, taken>>

-----------------------------------------------------------------------------
(* The n shortest paths.                                                   *)

StartPaths ==
  /\ phase = "apply"
  /\ job.op = "NShortest"
  /\ LET r == ReverseFst(fst, TRUE)
         none == NoPaths(r, ReversedDistances(r, d), job.threshold, job.maxStates)
     IN  /\ graph' = r
         /\ c' = IF none THEN Idle ELSE BeginPaths(r)
         /\ out' = IF none THEN NewFst ELSE fst
         /\ phase' = IF none THEN "done" ELSE "paths"
  /\ UNCHANGED <<fst, job, d, p, pass, taken>>

Limit == Times(ReversedDistances(graph, d)[0], job.threshold)

PathsStep ==
  /\ phase = "paths"
  /\ c.heap # {}
  /\ c' = NextPath(graph, c, ReversedDistances(graph, d), job.n, Limit, job.maxStates)
  /\ UNCHANGED <<fst, job, phase, graph, d, p, pass, out, taken>>

PathsDone ==
  /\ phase = "paths"
  /\ c.heap = {}
  /\ out' = EndPaths(c)
  /\ phase' = "done"
  /\ UNCHANGED <<fst, job, graph, loops, taken>>

-----------------------------------------------------------------------------
(* Removal of epsilons.                                                    *)

ThenPrunes == job.threshold # Zero \/ job.maxStates # kNoStateId

StartPass ==
  /\ phase = "begin"
  /\ job.op = "RmEpsilon"
  /\ IF HasStart(fst) THEN pass' = NewPass(fst) /\ phase' = "states"
                      ELSE UNCHANGED pass /\ phase' = "done"
  /\ UNCHANGED <<fst, job, graph, d, p, c, out, taken>>

NextTodo == Head(pass.todo)

\* A state no path enters need not be expanded, if it will be cut off.
Skipped == NextTodo \notin pass.nonepsIn /\ (job.connect \/ ThenPrunes)

SkipState ==
  /\ phase = "states"
  /\ pass.todo # <<>> /\ Skipped
  /\ pass' = [pass EXCEPT !.todo = Tail(@)]
  /\ UNCHANGED <<fst, job, phase, graph, d, p, c, out, taken>>

BeginExpand ==
  /\ phase = "states"
  /\ pass.todo # <<>> /\ ~Skipped
  /\ graph' = out
  /\ d' = BeginSource(out, pass.d, NextTodo)
  /\ taken' = Nowhere(out)
  /\ phase' = "distance"
  /\ UNCHANGED <<fst, job, p, c, pass, out>>

ExpandState ==
  /\ phase = "expand"
  /\ LET e == Expand(graph, [pass EXCEPT !.d = d], NextTodo)
     IN  /\ out' = Replaced(out, NextTodo, e)
         /\ pass' = [pass EXCEPT !.todo = Tail(@), !.d = EndSource(d),
                                 !.elements = e.elements, !.expandId = @ + 1]
  /\ phase' = "states"
  /\ UNCHANGED <<fst, job, graph, d, p, c, taken>>

FinishPass ==
  /\ phase = "states"
  /\ pass.todo = <<>>
  /\ out' = EndPass(out, pass, job.connect, ThenPrunes)
  /\ pass' = Idle
  /\ IF ThenPrunes THEN BeginDistanceOf(out')
                   ELSE phase' = "done" /\ UNCHANGED <<graph, d, taken>>
  /\ UNCHANGED <<fst, job, p, c>>

Done == phase = "done" /\ UNCHANGED vars

Next ==
  \/ StartDistance \/ DistanceStep \/ DistanceDone \/ Apply
  \/ StartPath \/ PathStep \/ PathDone \/ TracePath
  \/ StartPaths \/ PathsStep \/ PathsDone
  \/ StartPass \/ SkipState \/ BeginExpand \/ ExpandState \/ FinishPass
  \/ Done

Spec == Init /\ [][Next]_vars

-----------------------------------------------------------------------------
(* Properties.                                                             *)

Searching == IF phase = "path" THEN p ELSE d
IsLoop == phase \in {"distance", "path"}

TypeOK ==
  /\ phase \in {"begin", "distance", "apply", "path", "trace", "paths", "states", "expand",
                 "done"}
  /\ \A f \in {fst, graph, out} :
       /\ f.start \in States(f) \cup {kNoStateId}
       /\ f.properties \subseteq kTrinaryProperties
       /\ \A s \in States(f) : \A a \in ArcSet(f, s) :
            a.nextstate \in States(f) /\ a.weight \in Int

\* The states marked as enqueued are those in the queue, each of them once: in
\* every discipline, with and without stale marks of earlier sources.
QueueHoldsTheMarked ==
  IsLoop =>
    LET items == Items(Searching.queue)
    IN  /\ \A s \in DOMAIN Searching.enqueued :
             Searching.enqueued[s] = (s \in {items[i] : i \in 1..Len(items)})
        /\ \A i, j \in 1..Len(items) : items[i] = items[j] => i = j

\* While distances change under it, a heap that is told of each change stays
\* ordered, and the keys of its states lead to them.
HeapIsOrdered ==
  IsLoop /\ Searching.queue.type = "shortest" =>
    LET q == Searching.queue
        h == q.heap
    IN  \A i \in 1..h.size :
          /\ Searching.distance[h.values[Parent(i)]] <= Searching.distance[h.values[i]]
          /\ h.pos[h.keys[i]] = i
          /\ q.key[h.values[i]] = h.keys[i]

\* What the comment in SccQueue::Empty takes for granted.
LastComponentWaits ==
  IsLoop /\ Searching.queue.type = "scc" =>
    LET q == Searching.queue
    IN  q.front < q.back => ~SimpleEmpty(q.queues[q.back])

\* Once a queue is empty the distances are the least weights of all paths, for
\* every discipline, for weights that may be negative, and for each source in
\* turn when what is known of the sources before is kept.
DistancesAreShortest ==
  (phase = "expand" \/ (phase = "apply" /\ ~d.firstPath)) /\ HasStart(graph) =>
    LET source == IF IsPass THEN NextTodo ELSE graph.start
        least == LeastDistances(graph, {source}, LAMBDA a : Passes(Filter, a))
    IN  \A s \in States(graph) :
          d.distance[s] = least[s] \/ (IsStale(d, s) /\ least[s] = Zero)

AnyArcs(arc) == TRUE

HasNegative(f) == \E e \in AllArcs(f) : e.arc.weight < 0

\* The comment of first_path: when the search ends at the first final state, no
\* final state is nearer and its distance is known, if states are taken shortest
\* first and no weight is negative.
FirstPathIsShortest ==
  phase = "apply" /\ d.firstPath /\ ~HasNegative(fst) =>
    LET least == LeastDistances(fst, {fst.start}, AnyArcs)
        ends == {s \in States(fst) : Final(fst, s) # Zero /\ least[s] # Zero}
    IN  ends # {} => \E s \in ends : /\ taken[s] = 1 /\ d.distance[s] = least[s]
                                      /\ \A t \in ends : /\ least[s] <= least[t]
                                                          /\ t # s => taken[t] = 0

\* Taken shortest first (without negative weights), or in topological order, a
\* state never has to be taken twice; first in, first out, no more often than
\* there are states, negative weights or not.
TakenFewTimes ==
  IsLoop =>
    LET q == Searching.queue
        once == \/ /\ q.type = "shortest"
                   /\ ~HasNegative(graph)
                \/ q.type = "order" /\ job.queue = "toporder"
        bound == IF once THEN 1 ELSE NumStates(IF phase = "path" THEN fst ELSE graph)
    IN  once \/ q.type = "fifo" => \A s \in DOMAIN taken : taken[s] <= bound

-----------------------------------------------------------------------------
(* What the calls yield.                                                   *)

Yields(op) == phase = "done" /\ job.op = op

Rel(f) == Behaviour(f, MaxLength)

\* The least weight of all paths of the machine of the call, Zero without any.
ToFinal(f) == LeastDistances(ReverseFst(f, TRUE), {0}, AnyArcs)
BestWeight == IF HasStart(fst) THEN ToFinal(fst)[fst.start + 1] ELSE Zero

\* Reverse distances are those to the final states.
ReverseDistances ==
  Yields("Distance") /\ job.reverse /\ HasStart(fst) =>
    \A s \in States(fst) :
      Unreversed(fst, d)[s] =
        LET from == LeastDistances(fst, {s}, AnyArcs)
            total(t) == Times(from[t], Final(fst, t))
        IN  CHOOSE w \in {total(t) : t \in States(fst)} :
              \A t \in States(fst) : w <= total(t)

\* Pushing moves weights and loses none: every path keeps its weight, or is
\* lighter by the total weight if that is removed.
PushKeepsPaths ==
  Yields("Push") =>
    Rel(out) = IF job.removes THEN Shifted(Rel(fst), -BestWeight) ELSE Rel(fst)

\* The comment of Push: towards the initial state, the least of the weights that
\* leave a state is One; towards the final states, of those that enter it.
PushNormalizes ==
  Yields("Push") =>
    LET back == ToFinal(out)
        useful == ReachableFrom(out, Start(out))
        Leaving(s) == {a.weight : a \in ArcSet(out, s)} \cup {Final(out, s)}
        Entering(s) == {e.arc.weight : e \in {x \in AllArcs(out) :
                                                x.from \in useful /\ x.arc.nextstate = s}}
        Normal(W) == One \in W /\ \A w \in W : One <= w
    IN  \A s \in States(out) \ Start(out) :
          IF job.toInitial THEN back[s + 1] # Zero => Normal(Leaving(s))
                           ELSE s \in useful => Normal(Entering(s))

\* Pruning keeps every path that weighs no more than the threshold allows, with
\* its weight, and no state and no arc that is on no such path.
Cutoff == Times(BestWeight, job.threshold)
Within(R) == {t \in R : t[3] <= Cutoff}

PruneKeepsGoodPaths ==
  Yields("Prune") /\ job.maxStates = kNoStateId => Within(Rel(out)) = Within(Rel(fst))

PruneLeavesNothingElse ==
  Yields("Prune") =>
    LET there == LeastDistances(out, Start(out), AnyArcs)
        back == ToFinal(out)
        Through(s, w, t) == Times(there[s], Times(w, back[t + 1]))
    IN  /\ job.maxStates # kNoStateId => NumStates(out) <= job.maxStates
        /\ job.maxStates = kNoStateId =>
             /\ \A e \in AllArcs(out) :
                  Through(e.from, e.arc.weight, e.arc.nextstate) <= Cutoff
             /\ \A s \in States(out) :
                  /\ Final(out, s) # Zero => Times(there[s], Final(out, s)) <= Cutoff
                  /\ Through(s, One, s) <= Cutoff

\* The paths of X are among those of Y, as often.
PathBag(X, Y) ==
  \A x \in X : LET same(z) == <<z.input, z.output, z.weight>> = <<x.input, x.output, x.weight>>
               IN  Cardinality({z \in X : same(z)}) <= Cardinality({y \in Y : same(y)})

\* The shortest path is one path of the machine, and none is shorter, whatever
\* the discipline; with firstPath, if states are taken shortest first.
ShortestPathIsShortest ==
  Yields("ShortestPath") =>
    LET found == Paths(out, NumStates(fst))
    IN  IF BestWeight = Zero THEN found = {}
        ELSE \E x \in found :
               /\ found = {x} /\ x.weight = BestWeight
               /\ PathBag(found, Paths(fst, NumStates(fst)))

\* The n shortest paths are the n lightest paths of the machine, each of them
\* once, those beyond the threshold left out.
NShortestAreShortest ==
  Yields("NShortest") /\ job.maxStates = kNoStateId =>
    LET all == {x \in Paths(fst, job.maxArcs) : x.weight <= Cutoff}
        found == Paths(out, job.maxArcs + 3)
    IN  /\ PathBag(found, all)
        /\ Cardinality(found) =
             IF Cardinality(all) < job.n THEN Cardinality(all) ELSE job.n
        /\ \A y \in found : Cardinality({x \in all : x.weight < y.weight}) < job.n

\* Epsilon removal keeps the relation, leaves no epsilon and, if asked to, no
\* useless state.  With a threshold it keeps what pruning would.
EpsilonsAreRemoved ==
  Yields("RmEpsilon") =>
    /\ ~Holds(out, "Epsilons")
    /\ IF ThenPrunes
         THEN job.maxStates = kNoStateId => Within(Rel(out)) = Within(Rel(fst))
         ELSE /\ Rel(out) = Rel(fst)
              /\ job.connect => Holds(out, "Accessible") /\ Holds(out, "CoAccessible")

\* The properties the result claims to have are true of it.
ResultPropertiesAreTrue ==
  phase = "done" =>
    \A x \in DOMAIN Opposite :
      /\ x \in out.properties => Holds(out, x)
      /\ Opposite[x] \in out.properties => ~Holds(out, x)

\* Each queue discipline holds what it should, in its order.
QueuesAreSound ==
  /\ TypeOK
  /\ QueueHoldsTheMarked
  /\ HeapIsOrdered
  /\ LastComponentWaits
  /\ TakenFewTimes

\* Distances, found forward, backward or up to the first path, are least, and the
\* shortest paths are those of the machine.
DistancesAndPathsAreShortest ==
  /\ DistancesAreShortest
  /\ FirstPathIsShortest
  /\ ReverseDistances
  /\ ShortestPathIsShortest
  /\ NShortestAreShortest

\* Pushing and pruning change weights and arcs, and nothing they should keep.
PushAndPrune ==
  /\ PushKeepsPaths
  /\ PushNormalizes
  /\ PruneKeepsGoodPaths
  /\ PruneLeavesNothingElse

\* Removing epsilons keeps the relation, and results know what they are.
EpsilonRemoval ==
  /\ EpsilonsAreRemoved
  /\ ResultPropertiesAreTrue
=============================================================================
