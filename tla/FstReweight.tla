------------------------------ MODULE FstReweight ------------------------------
(***************************************************************************)
(* What is done with the distances of a machine: its weights are moved     *)
(* (reweight.h, push.h), or the states and arcs on heavy paths are taken   *)
(* out of it (prune.h).                                                    *)
(***************************************************************************)
EXTENDS FstDistance, FstRational

\* Divide of tropical weights, by a weight other than Zero.
Divide(v, w) == IF v = Zero THEN Zero ELSE v - w

Less(v, w) == v < w

-----------------------------------------------------------------------------
(* Reweight: the weights are moved along the potentials, towards the       *)
(* initial state or towards the final states.                              *)

ReweightProperties(props) ==
  props \ (Both({"Weighted", "WeightedCycles"}) \cup {"CoAccessible"})

SetArcs(f, s, Weight(_)) ==
  FoldLeft(LAMBDA q, i : SetArc(q, s, i, [Arcs(q, s)[i] EXCEPT !.weight = Weight(Arcs(q, s)[i])]),
           f, [i \in 1..Len(Arcs(f, s)) |-> i])

\* Mutant: the potential of the next state is left out.
OneSided(potential, toInitial, s, a) ==
  IF toInitial THEN Divide(a.weight, potential[s]) ELSE Times(potential[s], a.weight)

\* An arc to a state whose potential is Zero keeps its weight.
Moved(potential, toInitial, s, a) ==
  LET next == potential[a.nextstate]
  IN  IF next = Zero THEN a.weight
      ELSE IF toInitial THEN Divide(Times(a.weight, next), potential[s])
      ELSE Divide(Times(potential[s], a.weight), next)

ReweightState(f, potential, toInitial, s) ==
  LET w == potential[s]
      arcs == IF w = Zero THEN f
              ELSE SetArcs(f, s, LAMBDA a : Moved(potential, toInitial, s, a))
  IN  IF ~toInitial THEN SetFinal(arcs, s, Times(w, Final(f, s)))
      ELSE IF w = Zero THEN arcs
      ELSE SetFinal(arcs, s, Divide(Final(f, s), w))

NoCycle(f) == "InitialAcyclic" \in f.properties

\* The potential of the start state is put back, in front of all paths.
ReweightStart(f, toInitial, w) ==
  LET tested == TestProperties(f, {"InitialAcyclic"})
      front == IF toInitial THEN w ELSE Divide(One, w)
      s == f.start
      n == NumStates(f)
      arcs == SetArcs(tested, s, LAMBDA a : Times(front, a.weight))
  IN  IF w \in {One, Zero} THEN f
      ELSE IF NoCycle(tested) THEN SetFinal(arcs, s, Times(front, Final(f, s)))
      ELSE SetStart(AddArc(AddState(tested), n, Epsilon(front, s)), n)

Reweight(f, potential, toInitial) ==
  LET moved == FoldLeft(LAMBDA q, s : ReweightState(q, potential, toInitial, s),
                        f, StateSeq(f))
      put == ReweightStart(moved, toInitial, potential[f.start])
  IN  IF NumStates(f) = 0 THEN f
      ELSE SetProperties(put, ReweightProperties(put.properties), kTrinaryProperties)

-----------------------------------------------------------------------------
(* Push.                                                                   *)

\* distance: to the final states if toInitial is set, from the start otherwise.
ComputeTotalWeight(f, distance, toInitial) ==
  IF toInitial THEN distance[f.start]
  ELSE FoldLeft(LAMBDA w, s : PlusW(w, Times(distance[s], Final(f, s))), Zero, StateSeq(f))

RemoveWeight(f, w, atFinal) ==
  LET start == f.start
  IN  IF w \in {One, Zero} THEN f
      ELSE IF atFinal
             THEN FoldLeft(LAMBDA q, s : SetFinal(q, s, Divide(Final(f, s), w)), f, StateSeq(f))
      ELSE SetFinal(SetArcs(f, start, LAMBDA a : Divide(a.weight, w)),
                    start, Divide(Final(f, start), w))

Push(f, distance, toInitial, removeTotalWeight) ==
  LET total == IF removeTotalWeight THEN ComputeTotalWeight(f, distance, toInitial) ELSE One
      pushed == Reweight(f, distance, toInitial)
  IN  IF NumStates(f) = 0 THEN f
      ELSE IF removeTotalWeight THEN RemoveWeight(pushed, total, ~toInitial) ELSE pushed

-----------------------------------------------------------------------------
(* Prune.  fdistance holds the distances to the final states; the states   *)
(* are taken from a heap by the weight of the best path through them.      *)

PruneRank(c, fdistance) ==
  [s \in DOMAIN c.idistance |-> Times(c.idistance[s], fdistance[s])]

\* Nothing is left of a machine without a path, or of no states at all.
PrunesAll(f, fdistance, maxStates) ==
  maxStates = 0 \/ fdistance[f.start] = Zero

\* A state is put into the heap, or moves there.
PutIntoHeap(c, t, fdistance) ==
  IF c.enqueued[t] = kNoKey
    THEN [c EXCEPT !.heap = HeapInsert(@, t, PruneRank(c, fdistance)),
                   !.enqueued[t] = NextKey(c.heap)]
    ELSE [c EXCEPT !.heap = HeapUpdate(@, c.enqueued[t], t, PruneRank(c, fdistance))]

TakeFromHeap(c, fdistance) ==
  LET s == Top(c.heap)
  IN  [c EXCEPT !.heap = HeapPop(@, PruneRank(c, fdistance)), !.enqueued[s] = kNoKey,
                !.visited = @ \cup {s}]

Nearer(c, t, w) == [c EXCEPT !.idistance[t] = PlusW(@, w)]

\* The weight of the best path through an arc.
ThroughArc(c, fdistance, s, arc) ==
  Times(Times(c.idistance[s], arc.weight), fdistance[arc.nextstate])

Beyond(limit, w) == Less(limit, w)

\* The state threshold is reached.
IsFull(n, maxStates) == maxStates # kNoStateId /\ n >= maxStates

\* In place: arc i of state s either goes to the dead state or is kept.
PruneArc(c, fdistance, limit, maxStates, s, i) ==
  LET arc == Arcs(c.fst, s)[i]
      t == arc.nextstate
      w == Times(c.idistance[s], arc.weight)
      near == Nearer(c, t, w)
      fresh == near.enqueued[t] = kNoKey
  IN  IF Beyond(limit, ThroughArc(c, fdistance, s, arc))
        THEN [c EXCEPT !.fst = SetArc(@, s, i, [arc EXCEPT !.nextstate = c.dead])]
      ELSE IF t \in c.visited \/ IsFull(c.numVisited, maxStates) THEN near
      ELSE [PutIntoHeap(near, t, fdistance) EXCEPT !.numVisited = @ + Count(fresh)]

PruneState(c, fdistance, limit, maxStates) ==
  LET s == Top(c.heap)
      taken == TakeFromHeap(c, fdistance)
      ended == IF Beyond(limit, Times(c.idistance[s], Final(c.fst, s)))
                 THEN [taken EXCEPT !.fst = SetFinal(@, s, Zero)] ELSE taken
  IN  IF c.heap.size = 0 THEN c
      ELSE FoldLeft(LAMBDA e, i : PruneArc(e, fdistance, limit, maxStates, s, i), ended,
                    [i \in 1..Len(Arcs(c.fst, s)) |-> i])

PruneInPlace(f, distance, threshold, maxStates) ==
  LET dead == NumStates(f)
      start == f.start
      fdistance == [s \in 0..dead |-> IF s = dead THEN Zero ELSE distance[s]]
      limit == Times(distance[start], threshold)
      empty == [fst |-> AddState(f), dead |-> dead, visited |-> {}, numVisited |-> 0,
                idistance |-> [s \in 0..dead |-> Zero], heap |-> NewHeap,
                enqueued |-> [s \in 0..dead |-> kNoKey]]
      begun == [PutIntoHeap([empty EXCEPT !.idistance[start] = One], start, fdistance)
                  EXCEPT !.numVisited = 1]
      c == FoldLeft(LAMBDA e, i : PruneState(e, fdistance, limit, maxStates),
                    IF Less(limit, distance[start]) THEN empty ELSE begun, StateSeq(f))
  IN  IF NumStates(f) = 0 THEN f
      ELSE IF start = kNoStateId THEN NewFst
      ELSE IF PrunesAll(f, distance, maxStates) THEN NewFst
      ELSE DeleteStates(c.fst, 0..dead \ c.visited)

\* The version that copies what it keeps into another machine.
NewCopy(c, t) ==
  IF c.copy[t] # kNoStateId THEN c
  ELSE [c EXCEPT !.fst = AddState(@), !.copy[t] = NumStates(c.fst)]

CopyArc(f, c, fdistance, limit, maxStates, s, arc) ==
  LET t == arc.nextstate
      w == Times(c.idistance[s], arc.weight)
      near == NewCopy(Nearer(c, t, w), t)
      joined == [near EXCEPT !.fst = AddArc(@, c.copy[s], [arc EXCEPT !.nextstate = near.copy[t]])]
  IN  IF \/ Beyond(limit, ThroughArc(c, fdistance, s, arc))
         \/ IsFull(NumStates(c.fst), maxStates)
        THEN c
      ELSE IF t \in c.visited THEN joined ELSE PutIntoHeap(joined, t, fdistance)

CopyState(f, c, fdistance, limit, maxStates) ==
  LET s == Top(c.heap)
      taken == TakeFromHeap(c, fdistance)
      ended == IF Beyond(limit, Times(c.idistance[s], Final(f, s))) THEN taken
               ELSE [taken EXCEPT !.fst = SetFinal(@, c.copy[s], Final(f, s))]
  IN  IF c.heap.size = 0 THEN c
      ELSE FoldLeft(LAMBDA e, a : CopyArc(f, e, fdistance, limit, maxStates, s, a), ended,
                    Arcs(f, s))

PruneCopy(f, distance, threshold, maxStates) ==
  LET start == f.start
      limit == Times(distance[start], threshold)
      empty == [fst |-> SetStart(AddState(NewFst), 0), visited |-> {},
                copy |-> [ForAll(f, kNoStateId) EXCEPT ![start] = 0],
                idistance |-> [ForAll(f, Zero) EXCEPT ![start] = One],
                heap |-> NewHeap, enqueued |-> ForAll(f, kNoKey)]
  IN  IF \/ start = kNoStateId
         \/ Less(threshold, One)
         \/ PrunesAll(f, distance, maxStates)
        THEN NewFst
      ELSE FoldLeft(LAMBDA e, i : CopyState(f, e, distance, limit, maxStates),
                    PutIntoHeap(empty, start, distance), StateSeq(f)).fst
=============================================================================
