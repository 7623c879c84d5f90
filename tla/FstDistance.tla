------------------------------ MODULE FstDistance ------------------------------
(***************************************************************************)
(* The loops that find shortest distances (shortest-distance.h) and the    *)
(* shortest path (shortest-path.h) with a queue of states, one operator    *)
(* for the body of the loop.  The vectors grow as states are met: a state  *)
(* behind their size has no entry in them, and Zero, FALSE or kNoStateId   *)
(* here.  With tropical weights an Adder holds the least weight added, and *)
(* the sum of distances is the distance itself.                            *)
(***************************************************************************)
EXTENDS FstQueue

PlusW(v, w) == IF v <= w THEN v ELSE w
kNoArc == 0

ForAll(f, value) == [s \in States(f) |-> value]

\* EnsureDistanceIndexIsValid.
Sized(d, s) == [d EXCEPT !.size = IF s < @ THEN @ ELSE s + 1]

-----------------------------------------------------------------------------
(* ShortestDistanceState.                                                  *)

NewDistances(f, queue, retain, firstPath) ==
  [queue |-> queue, retain |-> retain, firstPath |-> firstPath, size |-> 0,
   distance |-> ForAll(f, Zero), radder |-> ForAll(f, Zero), enqueued |-> ForAll(f, FALSE),
   sources |-> ForAll(f, kNoStateId), sourceId |-> 0]

\* The start of ShortestDistance(source).
BeginSource(f, d, source) ==
  LET cleared == IF d.retain THEN [d EXCEPT !.queue = Clear(@)]
                 ELSE [NewDistances(f, Clear(d.queue), FALSE, d.firstPath)
                         EXCEPT !.sourceId = d.sourceId]
      put == [Sized(cleared, source) EXCEPT
                !.distance[source] = One, !.radder[source] = One,
                !.enqueued[source] = TRUE,
                !.sources[source] = IF d.retain THEN d.sourceId ELSE @]
  IN  [put EXCEPT !.queue = Enqueue(@, source, put.distance)]

\* Mutant: what the source before left is not set back.
NothingStale(d, t) == FALSE

IsStale(d, t) == d.retain /\ d.sources[t] # d.sourceId

\* What an earlier source left at t is set back when this one first meets t.
Fresh(d, t) ==
  IF ~IsStale(d, t) THEN d
  ELSE [d EXCEPT !.distance[t] = Zero, !.radder[t] = Zero, !.enqueued[t] = FALSE,
                 !.sources[t] = d.sourceId]

Wait(d, t) ==
  IF d.enqueued[t] THEN [d EXCEPT !.queue = Update(@, t, d.distance)]
  ELSE [d EXCEPT !.queue = Enqueue(@, t, d.distance), !.enqueued[t] = TRUE]

\* An arc that leaves a state whose relaxation distance was r.
Relax(d, r, arc) ==
  LET t == arc.nextstate
      known == Fresh(Sized(d, t), t)
      w == Times(r, arc.weight)
  IN  IF known.distance[t] = PlusW(known.distance[t], w) THEN known
      ELSE Wait([known EXCEPT !.distance[t] = PlusW(@, w), !.radder[t] = PlusW(@, w)], t)

Taken(d, s) == [d EXCEPT !.enqueued[s] = FALSE, !.radder[s] = Zero]

\* One turn of the loop: the head of the queue leaves it, and its arcs are
\* relaxed.  The search ends at the first final state if firstPath is set.
NextState(d) == QueueHead(Advanced(d.queue))
Popped(d) == [d EXCEPT !.queue = Dequeue(Advanced(@), d.distance)]
IsFirstPath(f, d) == d.firstPath /\ Final(f, NextState(d)) # Zero

RelaxState(f, d, filter) ==
  LET s == NextState(d)
      r == d.radder[s]
  IN  FoldLeft(LAMBDA e, a : IF Passes(filter, a) THEN Relax(e, r, a) ELSE e,
               Taken(Popped(d), s), Arcs(f, s))

EndSource(d) == [d EXCEPT !.sourceId = @ + 1]

\* ShortestDistance(fst, distance, reverse): the distance from each state to the
\* final states, of the distances in the reversed machine.
Unreversed(f, d) == [s \in States(f) |-> IF s + 1 < d.size THEN d.distance[s + 1] ELSE Zero]
=============================================================================
