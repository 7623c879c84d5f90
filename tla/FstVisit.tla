------------------------------- MODULE FstVisit -------------------------------
(***************************************************************************)
(* Depth-first visits of a machine (dfs-visit.h) and two visitors: Tarjan's*)
(* strongly connected components with accessibility and coaccessibility    *)
(* (connect.h), and topological order (topsort.h).                         *)
(***************************************************************************)
EXTENDS FstVector

-----------------------------------------------------------------------------
(* SccVisitor.                                                             *)

Replace(props, negative, positive) == (props \ {negative}) \cup {positive}

SccInitState(f, v, s, root) ==
  [v EXCEPT !.sccStack = Append(@, s), !.onstack = @ \cup {s},
            !.dfnumber[s] = v.nstates, !.lowlink[s] = v.nstates,
            !.nstates = @ + 1,
            !.access = IF root = f.start THEN @ \cup {s} ELSE @,
            !.props = IF root = f.start THEN @
                      ELSE Replace(@, "Accessible", "NotAccessible")]

Lowered(v, s, n) == [v EXCEPT !.lowlink[s] = IF n < @ THEN n ELSE @]
Inherited(v, s, t) == [v EXCEPT !.coaccess = IF t \in @ THEN @ \cup {s} ELSE @]

SccBackArc(f, v, s, arc) ==
  LET t == arc.nextstate
      cyclic == Replace(v.props, "Acyclic", "Cyclic")
  IN  [Inherited(Lowered(v, s, v.dfnumber[t]), s, t) EXCEPT
         !.props = IF t = f.start THEN Replace(cyclic, "InitialAcyclic", "InitialCyclic")
                   ELSE cyclic]

SccCrossArc(v, s, arc) ==
  LET t == arc.nextstate
  IN  Inherited(IF v.dfnumber[t] < v.dfnumber[s] /\ t \in v.onstack
                  THEN Lowered(v, s, v.dfnumber[t]) ELSE v, s, t)

\* Once one state of a component is coaccessible, all are.
Together(component, coaccess) ==
  IF component \cap coaccess = {} THEN {} ELSE component

\* s, and the states above it on the stack.
SccAbove(v, s) ==
  {v.sccStack[i] : i \in {j \in 1..Len(v.sccStack) : \E k \in 1..j : v.sccStack[k] = s}}

SccClosed(v, component) ==
  [v EXCEPT !.coaccess = @ \cup Together(component, @),
            !.scc = [t \in DOMAIN @ |-> IF t \in component THEN v.nscc ELSE @[t]],
            !.onstack = @ \ component,
            !.sccStack = SubSeq(@, 1, Len(@) - Cardinality(component)),
            !.nscc = @ + 1,
            !.props = IF component \cap v.coaccess # {} THEN @
                      ELSE Replace(@, "CoAccessible", "NotCoAccessible")]

ClosedAt(v, s) == IF v.dfnumber[s] = v.lowlink[s] THEN SccClosed(v, SccAbove(v, s)) ELSE v

ToParent(v, s, p) ==
  IF p = kNoStateId THEN v ELSE Inherited(Lowered(v, p, v.lowlink[s]), p, s)

SccFinishState(f, v, s, p) ==
  ToParent(ClosedAt([v EXCEPT !.coaccess = @ \cup When(Final(f, s) # Zero, {s})], s), s, p)

-----------------------------------------------------------------------------
(* TopOrderVisitor: the order in which states are finished.                *)

TopBackArc(v) == [v EXCEPT !.acyclic = FALSE]
TopFinishState(v, s) == [v EXCEPT !.finish = Append(@, s)]

-----------------------------------------------------------------------------
(* DfsVisit, with one of the two visitors.  p is the parent of a finished  *)
(* state.                                                                  *)

InitState(f, v, s, root) == IF v.is = "scc" THEN SccInitState(f, v, s, root) ELSE v
BackArc(f, v, s, arc) == IF v.is = "scc" THEN SccBackArc(f, v, s, arc) ELSE TopBackArc(v)
CrossArc(f, v, s, arc) == IF v.is = "scc" THEN SccCrossArc(v, s, arc) ELSE v
FinishState(f, v, s, p) ==
  IF v.is = "scc" THEN SccFinishState(f, v, s, p) ELSE TopFinishState(v, s)

\* d: the visit, v: the visitor, which the four operators update.
EnterState(f, d, s, root) ==
  [d EXCEPT !.color[s] = "grey", !.stack = Append(@, [state |-> s, pos |-> 1]),
            !.root = root, !.visitor = InitState(f, @, s, root)]

\* rest: the stack below s.
LeaveState(f, d, s, rest) ==
  [d EXCEPT !.color[s] = "black",
            !.stack = IF rest = <<>> THEN rest ELSE [rest EXCEPT ![Len(rest)].pos = @ + 1],
            !.visitor = FinishState(f, @, s, IF rest = <<>> THEN kNoStateId
                                             ELSE Last(rest).state)]

LookAlong(f, d, s, arc) ==
  IF d.color[arc.nextstate] = "white" THEN EnterState(f, d, arc.nextstate, d.root)
  ELSE [d EXCEPT !.stack[Len(d.stack)].pos = @ + 1,
                 !.visitor = IF d.color[arc.nextstate] = "grey" THEN BackArc(f, @, s, arc)
                                                                ELSE CrossArc(f, @, s, arc)]

LowestOf(S) == CHOOSE s \in S : \A t \in S : s <= t
White(d) == {s \in DOMAIN d.color : d.color[s] = "white"}
NewRoot(f, d, root) == EnterState(f, d, root, root)

VisitTop(f, d, top) ==
  IF top.pos > Len(Arcs(f, top.state)) THEN LeaveState(f, d, top.state, Front(d.stack))
  ELSE LookAlong(f, d, top.state, Arcs(f, top.state)[top.pos])

\* The first root is the start state, the next ones are the white states in order.
VisitStep(f, d) ==
  IF d.stack # <<>> THEN VisitTop(f, d, Last(d.stack))
  ELSE IF d.root = kNoStateId THEN NewRoot(f, d, f.start)
  ELSE IF White(d) = {} THEN d
  ELSE NewRoot(f, d, LowestOf(White(d)))

VisitSteps(f) == FoldLeft(LAMBDA n, s : n + Len(Arcs(f, s)) + 2, 0, StateSeq(f))

DfsVisit(f, v) ==
  IF f.start = kNoStateId THEN v
  ELSE FoldLeft(LAMBDA d, i : VisitStep(f, d),
                [color |-> [s \in States(f) |-> "white"], stack |-> <<>>,
                 root |-> kNoStateId, visitor |-> v],
                [i \in 1..VisitSteps(f) |-> i]).visitor

\* Mutant: the components keep the numbers they were found under.
AsFound(v) == v

\* Components are found from the back: their numbers are turned round.
Topological(v) == [v EXCEPT !.scc = [s \in DOMAIN @ |-> v.nscc - 1 - @[s]]]

\* No arc leads to a component of a lower number.
SccVisit(f) ==
  LET Numbers(n) == [s \in States(f) |-> n]
  IN  Topological(DfsVisit(f,
        [is |-> "scc",
         dfnumber |-> Numbers(-1), lowlink |-> Numbers(-1), scc |-> Numbers(-1),
         onstack |-> {}, sccStack |-> <<>>, access |-> {}, coaccess |-> {},
         nstates |-> 0, nscc |-> 0,
         props |-> {"Acyclic", "InitialAcyclic", "Accessible", "CoAccessible"}]))

-----------------------------------------------------------------------------
\* order[s] is the position of s, by falling finish time.
Ordered(v) ==
  [acyclic |-> v.acyclic,
   order |-> IF v.acyclic
               THEN [s \in {v.finish[i] : i \in 1..Len(v.finish)} |->
                       Len(v.finish) - CHOOSE i \in 1..Len(v.finish) : v.finish[i] = s]
               ELSE <<>>]

TopOrder(f) == Ordered(DfsVisit(f, [is |-> "topsort", finish |-> <<>>, acyclic |-> TRUE]))

-----------------------------------------------------------------------------
(* ComputeProperties: the properties in mask, and those that cost no more. *)

DfsProperties == Both({"Cyclic", "InitialCyclic", "Accessible", "CoAccessible"})
NeedsDfs(mask) == mask \cap (DfsProperties \cup Both({"WeightedCycles"})) # {}

\* The counterexamples to the positive properties that one state shows.
StateFaults(f, s, mask, scc) ==
  LET arcs == Arcs(f, s)
      Repeated(label(_)) == \E i, j \in 1..Len(arcs) : i < j /\ label(arcs[i]) = label(arcs[j])
      Falls(label(_)) == \E i \in 2..Len(arcs) : label(arcs[i]) < label(arcs[i-1])
      I(a) == a.ilabel
      O(a) == a.olabel
      Heavy(a) == ~Trivial(a.weight)
  IN  UNION {ArcProperties(a, Trivial(a.weight)) : a \in ArcSet(f, s)}
        \cup When(mask \cap Both({"IDeterministic"}) # {} /\ Repeated(I), {"NonIDeterministic"})
        \cup When(mask \cap Both({"ODeterministic"}) # {} /\ Repeated(O), {"NonODeterministic"})
        \cup When(Falls(I), {"NotILabelSorted"})
        \cup When(Falls(O), {"NotOLabelSorted"})
        \cup When(\E a \in ArcSet(f, s) : a.nextstate <= s, {"NotTopSorted"})
        \cup When(NeedsDfs(mask) /\ \E a \in ArcSet(f, s) :
                    Heavy(a) /\ scc[s] = scc[a.nextstate], {"WeightedCycles"})
        \cup When(~Trivial(Final(f, s)), {"Weighted"})
        \cup When(\/ \E a \in ArcSet(f, s) : a.nextstate # s + 1
                  \/ \E t \in 0..s-1 : Final(f, t) # Zero
                  \/ Final(f, s) = Zero /\ Len(arcs) # 1, {"NotString"})

\* The positive properties to begin with, but those that cost more than mask asks.
Hopes(mask) ==
  kNullProperties
    \ (DfsProperties
         \cup When(mask \cap Both({"IDeterministic"}) = {}, {"IDeterministic"})
         \cup When(mask \cap Both({"ODeterministic"}) = {}, {"ODeterministic"})
         \cup When(~NeedsDfs(mask), {"UnweightedCycles"}))

Faults(f, mask, scc) ==
  UNION {StateFaults(f, s, mask, scc) : s \in States(f)}
    \cup When(f.start \notin {kNoStateId, 0}, {"NotString"})

Computed(mask, visit, faults) ==
  When(NeedsDfs(mask), visit.props)
    \cup When(mask \ DfsProperties # {}, (Hopes(mask) \ Refuted(faults)) \cup faults)

ComputeFrom(f, mask, visit) == Computed(mask, visit, Faults(f, mask, visit.scc))
ComputeProperties(f, mask) == ComputeFrom(f, mask, SccVisit(f))

Learnt(f, computed) == SetProperties(f, computed, KnownProperties(computed))

\* Fst::Properties(mask, true): what is stored suffices, or all is computed.
TestProperties(f, mask) ==
  IF mask \subseteq KnownProperties(f.properties) THEN f
  ELSE Learnt(f, ComputeProperties(f, mask))
=============================================================================
