----------------------------- MODULE FstRmEpsilon -----------------------------
(***************************************************************************)
(* Epsilon removal (rmepsilon.h): state after state, the arcs of a state   *)
(* are replaced by those that leave its epsilon closure, with the shortest *)
(* distance of the closure in front.  The machine is changed under the     *)
(* queue and the distances, which are kept from state to state.            *)
(***************************************************************************)
EXTENDS FstDistance, FstRational

RmEpsilonProperties(props) ==
  {"NoEpsilons"}
    \cup (props \cap {"Acceptor", "NotAcceptor", "Acyclic", "InitialAcyclic", "TopSorted"})
    \cup When("Acceptor" \in props, {"NoIEpsilons", "NoOEpsilons"})

\* noneps_in: the start state, and the states an arc leads to that is not an
\* epsilon.  No path of the result enters the others.
NonEpsilonIn(f) ==
  {f.start} \cup {a.nextstate : a \in {b \in UNION {ArcSet(f, s) : s \in States(f)} :
                                         ~EpsilonArcFilter(b)}}

\* The states in the order they are taken in, from the back: a state comes after
\* those its epsilon arcs lead to, unless they are on a cycle with it.
ExpandOrder(f) ==
  LET kept == Filtered(f, EpsilonArc)
      order == TopOrder(kept).order
      scc == SccVisit(kept).scc
      Falls(key(_)) == SortSeq(StateSeq(f), LAMBDA s, t : key(s) > key(t))
      Component(s) == scc[s] * NumStates(f) - s
  IN  IF "TopSorted" \in f.properties THEN Falls(LAMBDA s : s)
      ELSE IF "Acyclic" \in f.properties THEN Falls(LAMBDA s : order[s])
      ELSE Falls(Component)

-----------------------------------------------------------------------------
(* RmEpsilonState: a pass over the states of fst.                          *)

NewPass(f) ==
  [todo |-> ExpandOrder(f), d |-> NewDistances(f, AutoQueue(f, EpsilonArc), TRUE, FALSE),
   nonepsIn |-> NonEpsilonIn(f), elements |-> <<>>, expandId |-> 0]

Element(arc) == <<arc.ilabel, arc.olabel, arc.nextstate>>

\* Mutant: a position of an earlier expansion is used.
FoundBefore(c, e) == e \in DOMAIN c.elements /\ c.elements[e][2] <= Len(c.arcs)

\* An arc with these labels and this target is among those collected.
Found(c, e) == e \in DOMAIN c.elements /\ c.elements[e][1] = c.expandId

\* An arc that is not an epsilon joins those of the state that is expanded.
Collect(c, arc) ==
  LET e == Element(arc)
      put == <<c.expandId, Len(c.arcs) + 1>>
  IN  IF Found(c, e) THEN [c EXCEPT !.arcs[c.elements[e][2]].weight = PlusW(@, arc.weight)]
      ELSE [c EXCEPT !.arcs = Append(@, arc),
                     !.elements = [x \in DOMAIN @ \cup {e} |-> IF x = e THEN put ELSE @[x]]]

\* A state of the closure, which is visited once.
Visit(f, d, c) ==
  LET s == Head(c.stack)
      From(a) == [a EXCEPT !.weight = Times(d.distance[s], @)]
      Step(e, a) ==
        IF ~EpsilonArcFilter(a) THEN Collect(e, From(a))
        ELSE IF a.nextstate \in e.visited THEN e
        ELSE [e EXCEPT !.stack = <<a.nextstate>> \o @]
      begun == [c EXCEPT !.stack = Tail(@), !.visited = @ \cup {s}]
      seen == FoldLeft(Step, begun, Arcs(f, s))
  IN  IF c.stack = <<>> THEN c
      ELSE IF s \in c.visited THEN [c EXCEPT !.stack = Tail(@)]
      ELSE [seen EXCEPT !.final = PlusW(@, Times(d.distance[s], Final(f, s)))]

\* Expand, once the distances from source are known.
Expand(f, p, source) ==
  LET steps == FoldLeft(LAMBDA n, s : n + Len(Arcs(f, s)), 1, StateSeq(f))
  IN  FoldLeft(LAMBDA c, i : Visit(f, p.d, c),
               [arcs |-> <<>>, final |-> Zero, stack |-> <<source>>, visited |-> {},
                elements |-> p.elements, expandId |-> p.expandId],
               [i \in 1..steps |-> i])

\* The arcs are added from the back.
Replaced(f, s, c) ==
  FoldLeft(LAMBDA q, a : AddArc(q, s, a), DeleteArcs(SetFinal(f, s, c.final), s),
           Reverse(c.arcs))

Cut(f, states) == FoldLeft(DeleteArcs, f, SelectSeq(StateSeq(f), LAMBDA s : s \in states))

\* What follows the last state.  Pruning, if asked for, comes after this and
\* takes the place of Connect.
EndPass(f, p, connect, prune) ==
  LET cut == IF connect \/ prune THEN Cut(f, States(f) \ p.nonepsIn) ELSE f
      noted == SetProperties(cut, RmEpsilonProperties(cut.properties), kTrinaryProperties)
  IN  IF connect /\ ~prune THEN Connect(noted) ELSE noted
=============================================================================
