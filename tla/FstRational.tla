----------------------------- MODULE FstRational -----------------------------
(***************************************************************************)
(* The operations that change a VectorFst in place: union.h, concat.h,     *)
(* closure.h, reverse.h, invert.h, project.h (by way of arc-map.h),        *)
(* arcsort.h (by way of state-map.h), topsort.h, statesort.h and           *)
(* connect.h.  Each is the sequence of mutations the code makes, ending    *)
(* with the properties it sets for the result.  Symbol tables are left     *)
(* out.                                                                    *)
(***************************************************************************)
EXTENDS FstVisit

Arc(i, o, w, t) == [ilabel |-> i, olabel |-> o, weight |-> w, nextstate |-> t]
Epsilon(w, t) == Arc(0, 0, w, t)

\* The states of g and their arcs, behind those of f: final states stay final, or
\* get an arc to the start state of f.
AppendStates(f, g, linked) ==
  LET n == NumStates(f)
      Begin(r, s) ==
        IF ~linked THEN SetFinal(r, n + s, Final(g, s))
        ELSE IF Final(g, s) = Zero THEN r
        ELSE AddArc(r, n + s, Epsilon(Final(g, s), f.start))
      Moved(a) == [a EXCEPT !.nextstate = @ + n]
      AddArcs(r, s) == FoldLeft(LAMBDA q, a : AddArc(q, n + s, Moved(a)),
                                Begin(AddState(r), s), Arcs(g, s))
  IN  FoldLeft(AddArcs, f, StateSeq(g))

WithFinals(f, g) == AppendStates(f, g, FALSE)

FinalStates(f) == SelectSeq(StateSeq(f), LAMBDA s : Final(f, s) # Zero)

\* Mutant: the start state of f gets the arc even if it is on a cycle.
IgnoresCycles(f) == TRUE

StartIsAcyclic(f) == "InitialAcyclic" \in f.properties

\* both: the states of f and of g, which starts in start2.
Joined(f, both, start2) ==
  LET s == NumStates(both)
  IN  IF StartIsAcyclic(f) THEN AddArc(both, f.start, Epsilon(One, start2))
      ELSE AddArc(AddArc(SetStart(AddState(both), s), s, Epsilon(One, f.start)),
                  s, Epsilon(One, start2))

\* f: the first machine after the test.
UnionWith(f, g, both) ==
  IF f.start = kNoStateId
    THEN SetProperties(SetStart(both, g.start), g.properties, kCopyProperties)
    ELSE SetProperties(Joined(f, both, g.start + NumStates(f)),
                       UnionProperties(f.properties, g.properties), kTrinaryProperties)

UnionTested(f, g) == IF g.start = kNoStateId THEN f ELSE UnionWith(f, g, WithFinals(f, g))
Union(f, g) == UnionTested(TestProperties(f, {"InitialAcyclic"}), g)

ClearFinal(f, s) == SetFinal(f, s, Zero)

\* Concat(MutableFst*, Fst): f becomes f g.
Concat(f, g) ==
  LET start2 == g.start + NumStates(f)
      Link(r, s) == LET cleared == ClearFinal(r, s) IN
        IF g.start = kNoStateId THEN cleared
        ELSE AddArc(cleared, s, Epsilon(Final(f, s), start2))
      Noted(linked) ==
        IF g.start = kNoStateId THEN linked
        ELSE SetProperties(linked, ConcatProperties(f.properties, g.properties),
                           kTrinaryProperties)
  IN  IF f.start = kNoStateId THEN f
      ELSE Noted(FoldLeft(Link, WithFinals(f, g), FinalStates(f)))

\* Concat(Fst, MutableFst*): g becomes f g; the states of f come last.
BeginWith(f, g, linked) ==
  IF f.start = kNoStateId THEN SetStart(AddState(linked), NumStates(linked))
  ELSE SetProperties(SetStart(linked, f.start + NumStates(g)),
                     ConcatProperties(f.properties, g.properties), kTrinaryProperties)

ConcatInto(f, g) ==
  IF g.start = kNoStateId THEN g ELSE BeginWith(f, g, AppendStates(g, f, TRUE))

Closure(f, star) ==
  LET n == NumStates(f)
      Starred(r) == SetFinal(SetStart(AddState(r), n), n, One)
      Closed(r) == IF ~star THEN r
                   ELSE IF f.start = kNoStateId THEN Starred(r)
                   ELSE AddArc(Starred(r), n, Epsilon(One, f.start))
      Loop(r, s) == AddArc(r, s, Epsilon(Final(f, s), f.start))
  IN  SetProperties(Closed(FoldLeft(Loop, f, FinalStates(f))),
                    ClosureProperties(f.properties), kTrinaryProperties)

-----------------------------------------------------------------------------
\* The only final state of f may become the start state of its reverse if its
\* weight is One, or if it is on no cycle.
OnNoCycle(f, s) ==
  /\ \E scc \in {SccVisit(f).scc} : \A t \in States(f) \ {s} : scc[t] # scc[s]
  /\ \A a \in ArcSet(f, s) : a.nextstate # s

ReverseStart(f, requireSuperinitial) ==
  LET finals == FinalStates(f)
  IN  IF requireSuperinitial \/ Len(finals) # 1 THEN kNoStateId
      ELSE IF Final(f, Head(finals)) = One \/ OnNoCycle(f, Head(finals))
             THEN Head(finals) ELSE kNoStateId

AddStatesUpTo(f, s) ==
  FoldLeft(LAMBDA r, i : AddState(r), f, [i \in 1..(s + 1 - NumStates(f)) |-> i])

\* ostart: the start state of the reverse; offset: 1 if it is a new one, else 0.
BackArcOf(f, r, ostart, offset, s, a) ==
  LET t == a.nextstate + offset
      w == IF offset = 0 /\ t = ostart THEN Times(Final(f, ostart), a.weight) ELSE a.weight
  IN  AddArc(AddStatesUpTo(r, t), t, [a EXCEPT !.weight = w, !.nextstate = s + offset])

\* The start state of f becomes final, its final states follow the new state.
EndsTurned(f, r, offset, s) ==
  LET Ended(q) == IF s = f.start THEN SetFinal(q, s + offset, One) ELSE q
      Begun(q) == IF Final(f, s) # Zero /\ offset = 1
                    THEN AddArc(q, 0, Epsilon(Final(f, s), s + offset)) ELSE q
  IN  Begun(Ended(AddStatesUpTo(r, s + offset)))

Turned(f, ostart, offset) ==
  FoldLeft(LAMBDA r, s : FoldLeft(LAMBDA q, a : BackArcOf(f, q, ostart, offset, s, a),
                                  EndsTurned(f, r, offset, s), Arcs(f, s)),
           IF offset = 1 THEN AddState(NewFst) ELSE NewFst, StateSeq(f))

\* What is known of f, once its components have been looked for.
InputProperties(f, requireSuperinitial) ==
  f.properties \cup
    When(~requireSuperinitial /\ Len(FinalStates(f)) = 1
           /\ Final(f, Head(FinalStates(f))) # One, SccVisit(f).props)

ReverseFrom(f, ostart, offset, iprops) ==
  LET Ended(r) == IF offset = 0 /\ ostart = f.start
                    THEN SetFinal(r, ostart, Final(f, ostart)) ELSE r
      Noted(r) ==
        SetProperties(r, ReverseProperties(iprops, offset = 1) \cup r.properties
                           \cup When(offset = 0 /\ Final(f, ostart) # One, {"InitialAcyclic"}),
                      kTrinaryProperties)
  IN  Noted(Ended(SetStart(Turned(f, ostart, offset), ostart)))

ReverseAt(f, only, iprops) ==
  IF only = kNoStateId THEN ReverseFrom(f, 0, 1, iprops) ELSE ReverseFrom(f, only, 0, iprops)

ReverseFst(f, requireSuperinitial) ==
  ReverseAt(f, ReverseStart(f, requireSuperinitial), InputProperties(f, requireSuperinitial))

-----------------------------------------------------------------------------
(* ArcMap in place, with a mapper that leaves final weights alone.         *)

\* InvertMapper and the two ProjectMappers.
Mapped(mapper, a) ==
  CASE mapper = "invert" -> [a EXCEPT !.ilabel = a.olabel, !.olabel = a.ilabel]
    [] mapper = "input"  -> [a EXCEPT !.olabel = a.ilabel]
    [] mapper = "output" -> [a EXCEPT !.ilabel = a.olabel]

ArcMap(f, mapper, props) ==
  LET arcs(s) == [i \in 1..Len(Arcs(f, s)) |-> i]
      State(r, s) ==
        SetFinal(FoldLeft(LAMBDA q, i : SetArc(q, s, i, Mapped(mapper, Arcs(f, s)[i])),
                          r, arcs(s)),
                 s, Final(f, s))
  IN  IF f.start = kNoStateId THEN f
      ELSE SetProperties(FoldLeft(State, f, StateSeq(f)), props, kTrinaryProperties)

Invert(f) == ArcMap(f, "invert", InvertProperties(f.properties))

Project(f, input) ==
  ArcMap(f, IF input THEN "input" ELSE "output", ProjectProperties(f.properties, input))

\* StateMap in place with the arcs sorted by one label.  std::sort leaves the
\* order of arcs with equal labels open; theirs here is the old one.
ArcSort(f, byInput) ==
  LET Key(a) == IF byInput THEN a.ilabel ELSE a.olabel
      sorted(s) == SortSeq(Arcs(f, s), LAMBDA a, b : Key(a) < Key(b))
      State(r, s) ==
        SetFinal(FoldLeft(LAMBDA q, a : AddArc(q, s, a), DeleteArcs(r, s), sorted(s)),
                 s, Final(f, s))
  IN  IF f.start = kNoStateId THEN f
      ELSE SetProperties(FoldLeft(State, SetStart(f, f.start), StateSeq(f)),
                         SortProperties(f.properties, byInput), kTrinaryProperties)

\* The state a cycle of the permutation leads to next is overwritten by the one
\* before it, whose weight and arcs are kept aside.
StateSort(f, order) ==
  LET Begin(c, s) == [c EXCEPT !.at = s, !.final = Final(c.fst, s), !.arcs = Arcs(c.fst, s)]
      Moved(a) == [a EXCEPT !.nextstate = order[@]]
      Step(c) ==
        LET t == order[c.at]
            emptied == DeleteArcs(SetFinal(c.fst, t, c.final), t)
        IN  [fst |-> FoldLeft(LAMBDA q, a : AddArc(q, t, Moved(a)), emptied, c.arcs),
             done |-> c.done \cup {c.at}, at |-> t,
             final |-> Final(c.fst, t), arcs |-> Arcs(c.fst, t)]
      Cycle(c, s) ==
        IF s \in c.done THEN c
        ELSE FoldLeft(LAMBDA d, i : IF d.at \in d.done THEN d ELSE Step(d),
                      Begin(c, s), StateSeq(f))
      begin == [fst |-> SetStart(f, order[f.start]), done |-> {}, at |-> 0,
                final |-> Zero, arcs |-> <<>>]
  IN  IF f.start = kNoStateId THEN f
      ELSE SetProperties(FoldLeft(Cycle, begin, StateSeq(f)).fst,
                         f.properties \cap kStateSortProperties, kTrinaryProperties)

SortedBy(f, sorting) ==
  LET sorted == {"Acyclic", "InitialAcyclic", "TopSorted"}
      cyclic == {"Cyclic", "NotTopSorted"}
  IN  IF sorting.acyclic THEN SetProperties(StateSort(f, sorting.order), sorted, sorted)
      ELSE SetProperties(f, cyclic, cyclic)

TopSort(f) == SortedBy(f, TopOrder(f))

Useless(f, visit) ==
  {s \in States(f) : visit.dfnumber[s] # -1} \ (visit.access \cap visit.coaccess)

Connect(f) ==
  LET trim == {"Accessible", "CoAccessible"}
  IN  SetProperties(DeleteStates(f, Useless(f, SccVisit(f))), trim, trim)
=============================================================================
