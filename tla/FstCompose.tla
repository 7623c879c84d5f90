------------------------------ MODULE FstCompose ------------------------------
(***************************************************************************)
(* Composition filters, delayed composition (compose.h, state-table.h) and *)
(* the delayed machines built on it (complement.h, difference.h,           *)
(* intersect.h).  The states of a composition are tuples of a state of     *)
(* either machine and of the filter, numbered as they are found; final     *)
(* weights and arcs are computed one state at a time.                      *)
(* x is a composition, a record of                                         *)
(*   fst1, fst2, matcher1, matcher2, filter  what it is made of,           *)
(*   matchType, error, properties  as its constructor finds them,          *)
(*   start, states  what was computed so far, the cache.                   *)
(* Look-ahead composition and ComposeFstMatcher are left out.              *)
(***************************************************************************)
EXTENDS FstMatcher

-----------------------------------------------------------------------------
(* Composition filters (compose-filter.h): which of the redundant ways to  *)
(* interleave the epsilons of two machines a composition takes.  A filter  *)
(* keeps the state of the composition it was last set to, and what it      *)
(* knows of the epsilons that leave it.  The trivial filter state is 0.    *)
(* MultiEpsFilter and the look-ahead filters are left out.                 *)

NoState == -1

NewFilter(kind) ==
  [kind |-> kind, s1 |-> kNoStateId, s2 |-> kNoStateId, fs |-> NoState,
   alleps1 |-> FALSE, noeps1 |-> FALSE, alleps2 |-> FALSE, noeps2 |-> FALSE]

AllEpsilons(f, s, n) == Len(Arcs(f, s)) = n /\ Final(f, s) = Zero

IsAt(filter, t) == filter.s1 = t[1] /\ filter.s2 = t[2] /\ filter.fs = t[3]

\* The state of the composition, and what epsilons leave its two states.  The
\* sequence filters read only the counts of one side.
FilterState(f1, f2, filter, t) ==
  LET ne1 == f1.states[t[1]].noepsilons
      ne2 == f2.states[t[2]].niepsilons
  IN  IF filter.kind \in {"null", "trivial", "no_match"} \/ IsAt(filter, t) THEN filter
      ELSE [filter EXCEPT !.s1 = t[1], !.s2 = t[2], !.fs = t[3],
                          !.alleps1 = AllEpsilons(f1, t[1], ne1), !.noeps1 = (ne1 = 0),
                          !.alleps2 = AllEpsilons(f2, t[2], ne2), !.noeps2 = (ne2 = 0)]

\* The next state of a filter that lets the machines move one at a time.  Only
\* one label of a pair can be kNoLabel: that machine stays.
SequenceArc(filter, l1, l2) ==
  IF l1 = kNoLabel
    THEN IF filter.alleps1 THEN NoState ELSE IF filter.noeps1 THEN 0 ELSE 1
  ELSE IF l2 = kNoLabel THEN IF filter.fs # 0 THEN NoState ELSE 0
  ELSE IF l1 = 0 THEN NoState ELSE 0

AltSequenceArc(filter, l1, l2) ==
  IF l2 = kNoLabel
    THEN IF filter.alleps2 THEN NoState ELSE IF filter.noeps2 THEN 0 ELSE 1
  ELSE IF l1 = kNoLabel THEN IF filter.fs = 1 THEN NoState ELSE 0
  ELSE IF l1 = 0 THEN NoState ELSE 0

\* One machine moves alone: state is that of the filter while only it does.
Alone(filter, state, noeps, alleps) ==
  IF filter.fs = 0 THEN IF noeps THEN 0 ELSE IF alleps THEN NoState ELSE state
  ELSE IF filter.fs = state THEN state ELSE NoState

\* Mutant: epsilons meet whatever was done before.
MeetsAnyway(filter, l1, l2) ==
  IF l2 = kNoLabel THEN Alone(filter, 1, filter.noeps2, filter.alleps2)
  ELSE IF l1 = kNoLabel THEN Alone(filter, 2, filter.noeps1, filter.alleps1)
  ELSE 0

MatchFilterArc(filter, l1, l2) ==
  IF l2 = kNoLabel THEN Alone(filter, 1, filter.noeps2, filter.alleps2)
  ELSE IF l1 = kNoLabel THEN Alone(filter, 2, filter.noeps1, filter.alleps1)
  ELSE IF l1 = 0 /\ filter.fs # 0 THEN NoState
  ELSE 0

\* The filter's next state if an arc that writes l1 meets one that reads l2.
FilterArc(filter, l1, l2) ==
  CASE filter.kind = "null" -> IF kNoLabel \in {l1, l2} THEN NoState ELSE 0
    [] filter.kind = "trivial" -> 0
    [] filter.kind = "no_match" -> IF l1 = 0 /\ l2 = 0 THEN NoState ELSE 0
    [] filter.kind = "sequence" -> SequenceArc(filter, l1, l2)
    [] filter.kind = "alt_sequence" -> AltSequenceArc(filter, l1, l2)
    [] filter.kind = "match" -> MatchFilterArc(filter, l1, l2)


-----------------------------------------------------------------------------
(* The table of state tuples, and what is cached for them.                 *)

Unknown == -1
NewTuple(t) == [tuple |-> t, final |-> Unknown, expanded |-> FALSE, arcs |-> <<>>]
Numbers(x) == 0..Len(x.states)-1
Tuple(x, s) == x.states[s+1].tuple

FindState(x, t) ==
  IF \E s \in Numbers(x) : Tuple(x, s) = t THEN x
  ELSE [x EXCEPT !.states = Append(@, NewTuple(t))]
StateOf(x, t) == CHOOSE s \in Numbers(x) : Tuple(x, s) = t

-----------------------------------------------------------------------------
(* ComposeFstImpl.                                                         *)

ComposeProperties(props1, props2) ==
  LET both == props1 \cap props2
      acceptors == "Acceptor" \in both
  IN  {"Accessible"}
        \cup (both \cap {"Acceptor", "NoIEpsilons", "Acyclic", "InitialAcyclic"})
        \cup When(acceptors, both \cap {"NoEpsilons", "NoOEpsilons"})
        \cup When("NoIEpsilons" \in both, both \cap {"IDeterministic"})
        \cup When("NoIEpsilons" \in both /\ acceptors, both \cap {"ODeterministic"})

\* SetMatchType: a side that is required must be able to match; then what is known
\* is enough, or is tested, the first machine before the second.  Tests are
\* remembered by the machines.
Required(f, m) == IF RequiresMatch(m) THEN Tested(f, m) ELSE f
Matches(f, m, side) == Type(f, m) = side

TestsFirst(f1, m1, f2, m2) ==
  IF Matches(f1, m1, "output") \/ Matches(f2, m2, "input") THEN f1 ELSE Tested(f1, m1)
TestsSecond(f1, m1, f2, m2) ==
  IF Matches(f1, m1, "output") \/ Matches(f2, m2, "input") THEN f2 ELSE Tested(f2, m2)

\* Mutant: a side that is required but cannot match is not noticed.
WhateverIsRequired(f1, m1, f2, m2) ==
  IF Matches(f1, m1, "output") /\ Matches(f2, m2, "input") THEN "both"
  ELSE IF Matches(f1, m1, "output") THEN "output"
  ELSE IF Matches(f2, m2, "input") THEN "input"
  ELSE "none"

MatchType(f1, m1, f2, m2) ==
  LET cannot1 == RequiresMatch(m1) /\ ~Matches(f1, m1, "output")
      cannot2 == RequiresMatch(m2) /\ ~Matches(f2, m2, "input")
  IN  IF cannot1 \/ cannot2 THEN "none"
      ELSE IF Matches(f1, m1, "output") /\ Matches(f2, m2, "input") THEN "both"
      ELSE IF Matches(f1, m1, "output") THEN "output"
      ELSE IF Matches(f2, m2, "input") THEN "input"
      ELSE "none"

Composition(f1, m1, f2, m2, filter) ==
  LET type == MatchType(f1, m1, f2, m2)
  IN  [fst1 |-> f1, fst2 |-> f2, matcher1 |-> m1, matcher2 |-> m2,
       filter |-> NewFilter(filter), matchType |-> type, error |-> type = "none",
       properties |-> ComposeProperties(MatcherProperties(m1, f1.properties),
                                        MatcherProperties(m2, f2.properties)),
       start |-> kNoStateId, states |-> <<>>]

\* The second machine is tested with what the test of the first has found.
NewComposition(f1, m1, f2, m2, filter) ==
  LET r1 == Required(f1, m1)
      r2 == Required(f2, m2)
      t1 == TestsFirst(r1, m1, r2, m2)
  IN  Composition(t1, m1, TestsSecond(t1, m1, r2, m2), m2, filter)

\* A thread-safe copy: the matchers and the filter are where new ones are.
SafeCopy(x) ==
  [x EXCEPT !.matcher1 = Copy(@), !.matcher2 = Copy(@), !.filter = NewFilter(@.kind)]

ComputeStart(x) ==
  LET t == <<x.fst1.start, x.fst2.start, 0>>
      found == FindState(x, t)
  IN  IF kNoStateId \in {t[1], t[2]} THEN x
      ELSE [found EXCEPT !.start = StateOf(found, t)]

\* The second machine and the filter are asked only if the first state is final.
SetFinal1(x, s, final1) ==
  [x EXCEPT !.matcher1 = final1.matcher, !.states[s+1].final = final1.weight]
SetFinal2(x, s, t, final2) ==
  IF x.states[s+1].final = Zero THEN x
  ELSE [x EXCEPT !.matcher2 = final2.matcher,
                 !.states[s+1].final = IF final2.weight = Zero THEN Zero
                                       ELSE Times(@, final2.weight),
                 !.filter = IF final2.weight = Zero THEN @
                            ELSE FilterState(x.fst1, x.fst2, @, t)]
ComputeFinal(x, s) ==
  LET t == Tuple(x, s)
  IN  SetFinal2(SetFinal1(x, s, MatcherFinal(x.fst1, x.matcher1, t[1])), s, t,
                MatcherFinal(x.fst2, x.matcher2, t[2]))

\* Which side to match on at a state.
Prefer(x, p1, p2) ==
  LET bothRequire == p1.priority = kRequirePriority /\ p2.priority = kRequirePriority
  IN  [input |-> \/ bothRequire
                 \/ p1.priority # kRequirePriority
                      /\ (p2.priority = kRequirePriority \/ p1.priority <= p2.priority),
       x |-> [x EXCEPT !.matcher1 = p1.matcher, !.matcher2 = p2.matcher,
                       !.error = @ \/ bothRequire]]

MatchInput(x, t) ==
  IF x.matchType \in {"input", "output"} THEN [input |-> x.matchType = "input", x |-> x]
  ELSE Prefer(x, Priority(x.fst1, x.matcher1, t[1]), Priority(x.fst2, x.matcher2, t[2]))

\* An arc of either machine, or its loop: both move to the tuple of the next states.
AddMatch(x, s, arc1, arc2) ==
  LET fs == FilterArc(x.filter, arc1.olabel, arc2.ilabel)
      t == <<arc1.nextstate, arc2.nextstate, fs>>
      found == FindState(x, t)
      arc == Arc(arc1.ilabel, arc2.olabel, Times(arc1.weight, arc2.weight),
                 StateOf(found, t))
  IN  IF fs = NoState THEN x ELSE [found EXCEPT !.states[s+1].arcs = Append(@, arc)]

\* MatchArc: the arcs of one machine that match an arc of the other.
MatchOnInput(x, s, arc) ==
  LET found == Find(x.fst2, x.matcher2, arc.olabel)
  IN  FoldLeft(LAMBDA y, a : AddMatch(y, s, arc, a),
               [x EXCEPT !.matcher2 = found.matcher], found.arcs)
MatchOnOutput(x, s, arc) ==
  LET found == Find(x.fst1, x.matcher1, arc.ilabel)
  IN  FoldLeft(LAMBDA y, a : AddMatch(y, s, a, arc),
               [x EXCEPT !.matcher1 = found.matcher], found.arcs)

\* OrderedExpand: first the loop, which meets the epsilons of the other machine.
ExpandOnInput(x, s, t) ==
  FoldLeft(LAMBDA y, a : MatchOnInput(y, s, a),
           [x EXCEPT !.matcher2 = SetState(x.fst2, @, t[2])],
           <<Arc(0, kNoLabel, One, t[1])>> \o Arcs(x.fst1, t[1]))
ExpandOnOutput(x, s, t) ==
  FoldLeft(LAMBDA y, a : MatchOnOutput(y, s, a),
           [x EXCEPT !.matcher1 = SetState(x.fst1, @, t[1])],
           <<Arc(kNoLabel, 0, One, t[2])>> \o Arcs(x.fst2, t[2]))

ExpandOn(side, s, t) ==
  IF side.input THEN ExpandOnInput(side.x, s, t) ELSE ExpandOnOutput(side.x, s, t)

Expand(x, s) ==
  LET t == Tuple(x, s)
      set == [x EXCEPT !.filter = FilterState(x.fst1, x.fst2, @, t),
                       !.states[s+1].expanded = TRUE, !.states[s+1].arcs = <<>>]
  IN  ExpandOn(MatchInput(set, t), s, t)

-----------------------------------------------------------------------------
(* ComplementFst: every state gets an arc that stands for the labels it has*)
(* no arc for, to a new state 0 that accepts everything; final states and  *)
(* others change places.                                                   *)

kRhoLabel == -2

ComplementProperties(props) ==
  {"Acceptor", "Unweighted", "UnweightedCycles", "NoEpsilons", "NoIEpsilons",
   "NoOEpsilons", "IDeterministic", "ODeterministic", "Accessible"}
    \cup (props \cap {"ILabelSorted", "OLabelSorted", "InitialCyclic"})
    \cup When("Accessible" \in props, {"NotILabelSorted", "NotOLabelSorted", "Cyclic"})

RhoArc == Arc(kRhoLabel, kRhoLabel, One, 0)

ComplementState(f, s) ==
  [f.states[s] EXCEPT
     !.final = IF @ = Zero THEN One ELSE Zero,
     !.arcs = <<RhoArc>> \o [i \in DOMAIN @ |-> [@[i] EXCEPT !.nextstate = @ + 1]]]

\* The only property asked of the machine for this is whether it is sorted.
Complement(f) ==
  [start |-> IF f.start = kNoStateId THEN 0 ELSE f.start + 1,
   states |-> [s \in 0..NumStates(f) |->
                 IF s = 0 THEN [NewState EXCEPT !.final = One, !.arcs = <<RhoArc>>]
                 ELSE ComplementState(f, s - 1)],
   properties |-> ComplementProperties(f.properties \cap {"ILabelSorted"})]

Has(f, props) == props \subseteq TestProperties(f, props).properties
CanComplement(f) == Has(f, {"Unweighted", "NoEpsilons", "IDeterministic", "Acceptor"})

\* A difference matches on the complement, and always with the sequence filter:
\* the constructor that takes options leaves the filter they name behind.
RhoMatcher(label, type, rewriteBoth) ==
  NewMatcher("rho", label, "sorted", type, rewriteBoth, FALSE)
NewDifference(f1, f2) ==
  LET x == NewComposition(f1, RhoMatcher(kNoLabel, "none", FALSE), Complement(f2),
                          RhoMatcher(kRhoLabel, "input", TRUE), "sequence")
  IN  [x EXCEPT !.error = @ \/ ~Has(f1, {"Acceptor"}) \/ ~CanComplement(f2)]

SortedMatcher(type) == NewMatcher("plain", kNoLabel, "sorted", type, FALSE, FALSE)
NewIntersection(f1, f2, filter) ==
  LET x == NewComposition(f1, SortedMatcher("output"), f2, SortedMatcher("input"), filter)
  IN  [x EXCEPT !.error = @ \/ ~Has(f1, {"Acceptor"}) \/ ~Has(f2, {"Acceptor"})]

-----------------------------------------------------------------------------
(* The machine a composition is copied to, and Compose, Difference and     *)
(* Intersect: a copy, trimmed if the options say so.                       *)

\* CacheStateIterator goes on until every state found was expanded; the copy asks
\* for the final weight of each and then for its arcs.
CopyStep(x, s) == IF s \in Numbers(x) THEN Expand(ComputeFinal(x, s), s) ELSE x

AsVectorFst(x) ==
  Copied([start |-> x.start, properties |-> x.properties,
          states |-> [s \in Numbers(x) |-> [NewState EXCEPT !.final = x.states[s+1].final,
                                                           !.arcs = x.states[s+1].arcs]]])

\* The filter has at most three states.
CopyAll(x) ==
  FoldLeft(CopyStep, ComputeStart(x),
           [i \in 1..3 * NumStates(x.fst1) * NumStates(x.fst2) |-> i - 1])
=============================================================================
