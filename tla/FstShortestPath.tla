---------------------------- MODULE FstShortestPath ----------------------------
(***************************************************************************)
(* The shortest path, the tree of shortest paths and the n shortest paths  *)
(* of a machine (shortest-path.h).                                         *)
(***************************************************************************)
EXTENDS FstDistance, FstRational

-----------------------------------------------------------------------------
(* SingleShortestPath: parent[s] is the state before s on the best path so *)
(* far and the position of the arc between them.                           *)

NoParent == <<kNoStateId, kNoArc>>

NewPath(f, queue, firstPath) ==
  LET source == f.start
      p == [queue |-> Clear(queue), firstPath |-> firstPath, size |-> source + 1,
            distance |-> [ForAll(f, Zero) EXCEPT ![source] = One],
            enqueued |-> [ForAll(f, FALSE) EXCEPT ![source] = TRUE],
            parent |-> ForAll(f, NoParent), fparent |-> kNoStateId,
            fdistance |-> Zero, finalSeen |-> FALSE]
  IN  [p EXCEPT !.queue = Enqueue(@, source, p.distance)]

\* FirstPathSelect: no path through a state at distance d is shorter than one of
\* weight fd that has been found.
FirstPathSelect(d, fd) == fd = PlusW(d, fd)

IsBestPath(p) ==
  p.firstPath /\ p.finalSeen /\ FirstPathSelect(p.distance[NextState(p)], p.fdistance)

SeeFinal(f, p, s) ==
  LET w == Times(p.distance[s], Final(f, s))
  IN  IF Final(f, s) = Zero THEN p
      ELSE IF PlusW(p.fdistance, w) = p.fdistance THEN [p EXCEPT !.finalSeen = TRUE]
      ELSE [p EXCEPT !.fdistance = w, !.fparent = s, !.finalSeen = TRUE]

RelaxPath(p, s, sd, i, arc) ==
  LET t == arc.nextstate
      w == Times(sd, arc.weight)
      sized == Sized(p, t)
  IN  IF sized.distance[t] <= w THEN sized
      ELSE Wait([sized EXCEPT !.distance[t] = w, !.parent[t] = <<s, i>>], t)

PathState(f, p) ==
  LET s == NextState(p)
      sd == p.distance[s]
  IN  FoldLeft(LAMBDA q, i : RelaxPath(q, s, sd, i, Arcs(f, s)[i]),
               SeeFinal(f, [Popped(p) EXCEPT !.enqueued[s] = FALSE], s),
               [i \in 1..Len(Arcs(f, s)) |-> i])

-----------------------------------------------------------------------------
(* What is built of the parents.                                           *)

ShortestPathProperties(props, tree) ==
  props \cup {"Acyclic", "InitialAcyclic", "Accessible", "UnweightedCycles"}
    \cup When(~tree, {"CoAccessible"})

\* SingleShortestPathBacktrace: the states are numbered from the final one.
Backtrace(f, p) ==
  LET Step(c, i) ==
        IF c.state = kNoStateId THEN c
        ELSE LET new == NumStates(c.fst)
                 grown == AddState(c.fst)
                 arc == Arcs(f, c.state)[p.parent[c.from][2]]
             IN  [fst |-> IF c.from = kNoStateId
                            THEN SetFinal(grown, new, Final(f, p.fparent))
                            ELSE AddArc(grown, new, [arc EXCEPT !.nextstate = new - 1]),
                  from |-> c.state, state |-> p.parent[c.state][1]]
      built == FoldLeft(Step, [fst |-> NewFst, from |-> kNoStateId, state |-> p.fparent],
                        StateSeq(f)).fst
      started == SetStart(built, NumStates(built) - 1)
  IN  SetProperties(started, ShortestPathProperties(started.properties, TRUE),
                    kTrinaryProperties)

-----------------------------------------------------------------------------
(* NShortestPath, on the reverse of the machine.  A state of the result    *)
(* stands for a path from the reverse start: pairs[s] holds the state it   *)
(* ends in, kNoStateId when it is complete, and its weight.                *)

\* The order std::pop_heap takes the states in: by weight, complete paths last
\* among equals.  Which of the states that are equal in both it takes
\* is left to the library: here the oldest.
PathWeight(c, distance, s) ==
  LET p == c.pairs[s] IN Times(IF p[1] = kNoStateId THEN One ELSE distance[p[1]], p[2])

Before(c, distance, s, t) ==
  LET Rank(u) == <<PathWeight(c, distance, u), Count(c.pairs[u][1] = kNoStateId), u>>
      r == Rank(s)
      q == Rank(t)
  IN  \/ r[1] < q[1]
      \/ r[1] = q[1] /\ r[2] < q[2]
      \/ r[1] = q[1] /\ r[2] = q[2] /\ r[3] <= q[3]

\* A path one arc longer, to state t with weight w, whose state leads to s.
Longer(c, s, t, w, arc) ==
  LET next == NumStates(c.fst)
  IN  [c EXCEPT !.fst = AddArc(AddState(@), next, [arc EXCEPT !.nextstate = s]),
                !.pairs = [n \in 0..next |-> IF n = next THEN <<t, w>> ELSE @[n]],
                !.heap = @ \cup {next}]

ExpandPath(rfst, c, s) ==
  LET p == c.pairs[s]
      extended == FoldLeft(LAMBDA e, a : Longer(e, s, a.nextstate, Times(p[2], a.weight), a),
                           c, Arcs(rfst, p[1]))
      w == Final(rfst, p[1])
  IN  IF w = Zero THEN extended
      ELSE Longer(extended, s, kNoStateId, Times(p[2], w), Epsilon(w, s))

\* Mutant: one path more than asked for.
OneMore(n) == n + 1
Wanted(n) == n

\* One turn of the loop; the search is over when the heap is empty.
NextPath(rfst, c, distance, n, limit, maxStates) ==
  LET s == CHOOSE t \in c.heap : \A u \in c.heap : Before(c, distance, t, u)
      p == c.pairs[s]
      popped == [c EXCEPT !.heap = @ \ {s}]
      counted == [popped EXCEPT !.r[p[1]] = @ + 1]
      tooLong == \/ limit < PathWeight(c, distance, s)
                 \/ maxStates # kNoStateId /\ NumStates(c.fst) >= maxStates
      found == [counted EXCEPT !.fst = AddArc(@, c.fst.start, Epsilon(One, s))]
  IN  IF tooLong THEN popped
      ELSE IF p[1] = kNoStateId
             THEN IF found.r[p[1]] = Wanted(n) THEN [found EXCEPT !.heap = {}] ELSE found
      ELSE IF counted.r[p[1]] > Wanted(n) THEN counted
      ELSE ExpandPath(rfst, counted, s)

\* distance: of the states of rfst.  The result ends in state 1.
BeginPaths(rfst) ==
  LET two == AddState(SetStart(AddState(NewFst), 0))
  IN  [fst |-> SetFinal(two, 1, One), heap |-> {1},
       pairs |-> [n \in 0..1 |-> IF n = 1 THEN <<rfst.start, One>>
                                 ELSE <<kNoStateId, Zero>>],
       r |-> [s \in States(rfst) \cup {kNoStateId} |-> 0]]

NoPaths(rfst, distance, threshold, maxStates) ==
  rfst.start = kNoStateId \/ distance[rfst.start] = Zero \/ threshold < One \/ maxStates = 0

EndPaths(c) ==
  LET trim == Connect(c.fst)
  IN  SetProperties(trim, ShortestPathProperties(trim.properties, FALSE), kTrinaryProperties)

\* The distances of the reversed machine: its start state stands for all the
\* final states, and the others are numbered one higher.
ReversedDistances(rfst, d) ==
  LET Known(s) == IF s < d.size THEN d.distance[s] ELSE Zero
      begin == FoldLeft(LAMBDA w, a : PlusW(w, Times(a.weight, Known(a.nextstate - 1))),
                        Zero, Arcs(rfst, 0))
  IN  [s \in States(rfst) |-> IF s = 0 THEN begin ELSE Known(s - 1)]
=============================================================================
