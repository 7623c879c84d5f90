------------------------------ MODULE FstMeaning ------------------------------
(***************************************************************************)
(* What machines mean, independently of how they are computed with: when a *)
(* property holds of a machine (the comments of properties.h), and the     *)
(* weighted relation a machine stands for, cut off at strings of length    *)
(* maxLength and at weights above maxWeight.                               *)
(***************************************************************************)
EXTENDS FstVector

AllArcs(f) == UNION {{[from |-> s, arc |-> a] : a \in ArcSet(f, s)} : s \in States(f)}

\* The states reached from those in S.
ReachableFrom(f, S) ==
  FoldLeft(LAMBDA R, i : R \cup {e.arc.nextstate : e \in {x \in AllArcs(f) : x.from \in R}},
           S, StateSeq(f))

OnCycle(f, s) == s \in ReachableFrom(f, {a.nextstate : a \in ArcSet(f, s)})
Start(f) == {f.start} \ {kNoStateId}

Sorted(f, Label(_)) ==
  \A s \in States(f) : \A i \in 2..Len(Arcs(f, s)) :
    Label(Arcs(f, s)[i-1]) <= Label(Arcs(f, s)[i])
Deterministic(f, Label(_)) ==
  \A s \in States(f) : \A i, j \in 1..Len(Arcs(f, s)) :
    i # j => Label(Arcs(f, s)[i]) # Label(Arcs(f, s)[j])

Holds(f, p) ==
  LET arcs == {e.arc : e \in AllArcs(f)}
      I(a) == a.ilabel
      O(a) == a.olabel
  IN  CASE p = "Acceptor" -> \A a \in arcs : a.ilabel = a.olabel
        [] p = "IDeterministic" -> Deterministic(f, I)
        [] p = "ODeterministic" -> Deterministic(f, O)
        [] p = "Epsilons" -> \E a \in arcs : a.ilabel = 0 /\ a.olabel = 0
        [] p = "IEpsilons" -> \E a \in arcs : a.ilabel = 0
        [] p = "OEpsilons" -> \E a \in arcs : a.olabel = 0
        [] p = "ILabelSorted" -> Sorted(f, I)
        [] p = "OLabelSorted" -> Sorted(f, O)
        [] p = "Weighted" -> \/ \E a \in arcs : ~Trivial(a.weight)
                             \/ \E s \in States(f) : ~Trivial(Final(f, s))
        [] p = "Cyclic" -> \E s \in States(f) : OnCycle(f, s)
        [] p = "InitialCyclic" -> \E s \in Start(f) : OnCycle(f, s)
        [] p = "TopSorted" -> \A e \in AllArcs(f) : e.from < e.arc.nextstate
        [] p = "Accessible" -> States(f) \subseteq ReachableFrom(f, Start(f))
        [] p = "CoAccessible" ->
             \A s \in States(f) : \E t \in ReachableFrom(f, {s}) : Final(f, t) # Zero
        [] p = "String" ->
             \A s \in States(f) :
               /\ f.start = 0
               /\ (Final(f, s) = Zero) = (s < NumStates(f) - 1)
               /\ Len(Arcs(f, s)) = IF s < NumStates(f) - 1 THEN 1 ELSE 0
               /\ \A a \in ArcSet(f, s) : a.nextstate = s + 1
        [] p = "WeightedCycles" ->
             \E e \in AllArcs(f) : /\ ~Trivial(e.arc.weight)
                                   /\ e.from \in ReachableFrom(f, {e.arc.nextstate})

-----------------------------------------------------------------------------
(* Relations: sets of triples of an input string, an output string and the *)
(* least weight of a path that reads the one and writes the other.         *)

Best(R) == {t \in R : \A u \in R : t[1] = u[1] /\ t[2] = u[2] => t[3] <= u[3]}

Written(label) == IF label = 0 THEN <<>> ELSE <<label>>

Relation(f, maxLength, maxWeight) ==
  LET Within(c) == Len(c[2]) <= maxLength /\ Len(c[3]) <= maxLength /\ c[4] <= maxWeight
      After(c) == {<<a.nextstate, c[2] \o Written(a.ilabel), c[3] \o Written(a.olabel),
                     c[4] + a.weight>> : a \in ArcSet(f, c[1])}
      Grow(r, i) ==
        LET next == {c \in UNION {After(d) : d \in r.new} : Within(c)}
        IN  [all |-> r.all \cup r.new, new |-> next \ (r.all \cup r.new)]
      steps == (NumStates(f) + 1) * (2 * maxLength + 1)
      paths == FoldLeft(Grow, [all |-> {}, new |-> {<<s, <<>>, <<>>, 0>> : s \in Start(f)}],
                        [i \in 1..steps |-> i]).all
  IN  Best({t \in {<<c[2], c[3], c[4] + Final(f, c[1])>> : c \in paths} :
              t[3] <= maxWeight})

\* The relation of a machine that may have negative weights, if no cycle is.
Behaviour(f, maxLength) ==
  LET Same(x, y) == x[1] = y[1] /\ x[2] = y[2] /\ x[3] = y[3]
      Least4(S) == {x \in S : \A y \in S : Same(x, y) => x[4] <= y[4]}
      After(x) == {<<a.nextstate, x[2] \o Written(a.ilabel), x[3] \o Written(a.olabel),
                     x[4] + a.weight>> : a \in ArcSet(f, x[1])}
      Grow(r, i) ==
        IF r.new = {} THEN r
        ELSE LET more == {x \in UNION {After(y) : y \in r.new} :
                            Len(x[2]) <= maxLength /\ Len(x[3]) <= maxLength}
                 all == Least4(r.all \cup more)
             IN  [all |-> all, new |-> all \ r.all]
      begin == {<<s, <<>>, <<>>, One>> : s \in Start(f)}
      steps == (NumStates(f) + 1) * (2 * maxLength + 1)
      ends == {x \in FoldLeft(Grow, [all |-> begin, new |-> begin],
                              [i \in 1..steps |-> i]).all : Final(f, x[1]) # Zero}
  IN  Best({<<x[2], x[3], x[4] + Final(f, x[1])>> : x \in ends})

Shifted(R, w) == {<<t[1], t[2], t[3] + w>> : t \in R}

\* The least weight of a path from S to each state, along the arcs Keeps lets by.
LeastDistances(f, S, Keeps(_)) ==
  LET Lower(q, a, v) == [q EXCEPT ![a.nextstate + 1] = IF v < @ THEN v ELSE @]
      Along(q, s, a) == IF Keeps(a) THEN Lower(q, a, Times(q[s + 1], a.weight)) ELSE q
      State(q, s) == IF Arcs(f, s) = <<>> \/ q[s + 1] = Zero THEN q
                     ELSE FoldLeft(LAMBDA r, a : Along(r, s, a), q, Arcs(f, s))
      begin == FoldLeft(LAMBDA q, s : Append(q, IF s \in S THEN One ELSE Zero), <<>>,
                        StateSeq(f))
      Round(q) == IF q = <<>> THEN q ELSE FoldLeft(State, q, StateSeq(f))
      least == FoldLeft(LAMBDA q, i : Round(q), begin, StateSeq(f))
  IN  [s \in States(f) |-> least[s + 1]]

\* The paths of at most maxArcs arcs, as often as there are: a set of triples of
\* the arcs taken and the strings, with the weights.
Paths(f, maxArcs) ==
  LET Longer(x) == {[at |-> Arcs(f, x.at)[i].nextstate, arcs |-> Append(x.arcs, <<x.at, i>>),
                     input |-> x.input \o Written(Arcs(f, x.at)[i].ilabel),
                     output |-> x.output \o Written(Arcs(f, x.at)[i].olabel),
                     weight |-> x.weight + Arcs(f, x.at)[i].weight] :
                      i \in 1..Len(Arcs(f, x.at))}
      begin == {[at |-> s, arcs |-> <<>>, input |-> <<>>, output |-> <<>>, weight |-> One] :
                  s \in Start(f)}
      all == FoldLeft(LAMBDA r, i : [all |-> r.all \cup r.new,
                                     new |-> UNION {Longer(x) : x \in r.new}],
                      [all |-> {}, new |-> begin], [i \in 1..maxArcs+1 |-> i]).all
  IN  {[x EXCEPT !.weight = @ + Final(f, x.at)] : x \in {y \in all : Final(f, y.at) # Zero}}

UnionOf(R, S) == Best(R \cup S)

ConcatOf(R, S, maxLength, maxWeight) ==
  Best({t \in {<<r[1] \o s[1], r[2] \o s[2], r[3] + s[3]>> : r \in R, s \in S} :
          Len(t[1]) <= maxLength /\ Len(t[2]) <= maxLength /\ t[3] <= maxWeight})

\* One or more times R.
PlusOf(R, maxLength, maxWeight) ==
  FoldLeft(LAMBDA P, i : UnionOf(P, ConcatOf(P, R, maxLength, maxWeight)), R,
           [i \in 1..2 * maxLength |-> i])

Mirrored(x) == [i \in 1..Len(x) |-> x[Len(x) + 1 - i]]
ReverseOf(R) == {<<Mirrored(t[1]), Mirrored(t[2]), t[3]>> : t \in R}
InverseOf(R) == {<<t[2], t[1], t[3]>> : t \in R}

\* The relation one side of R has with itself.
OneSide(R, input) ==
  Best({<<IF input THEN t[1] ELSE t[2], IF input THEN t[1] ELSE t[2], t[3]>> : t \in R})
=============================================================================
