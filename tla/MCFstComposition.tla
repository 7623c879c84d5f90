--------------------------- MODULE MCFstComposition ---------------------------
EXTENDS FstComposition, TLC

\* A machine with n states that starts in 0, with the final weights and arcs given.
Built(n, finals, arcs) ==
  LET states == FoldLeft(LAMBDA f, i : AddState(f), NewFst, [i \in 1..n |-> i])
      ended == FoldLeft(LAMBDA f, s : SetFinal(f, s, finals[s]), SetStart(states, 0),
                        StateSeq(states))
      Add(f, e) == AddArc(f, e[1], Arc(e[2], e[3], e[4], e[5]))
  IN  FoldLeft(Add, ended, arcs)
Ends(n, S) == [t \in 0..n-1 |-> IF t \in S THEN 1 ELSE Zero]
Forgetful(f) == [f EXCEPT !.properties = {}]
Known(f) == TestProperties(f, kTrinaryProperties)

Two(arcs) == Built(2, Ends(2, {1}), arcs)
Three(arcs) == Built(3, Ends(3, {2}), arcs)
Taken(arcs, S) ==
  FoldLeft(LAMBDA q, i : IF i \in S THEN Append(q, arcs[i]) ELSE q, <<>>,
           [i \in DOMAIN arcs |-> i])

\* Machines with three states and three or four of five arcs, no cycle, and
\* epsilons where the machines meet.
Chosen(n) == {S \in SUBSET (1..5) : Cardinality(S) \in n}
Writes == <<<<0, 2, 0, 1, 1>>, <<0, 1, 1, 0, 1>>, <<0, 1, 2, 0, 2>>, <<1, 1, 0, 2, 2>>,
            <<1, 2, 1, 0, 2>>>>
Reads == <<<<0, 0, 2, 1, 1>>, <<0, 1, 1, 0, 1>>, <<0, 2, 1, 1, 2>>, <<1, 0, 1, 0, 2>>,
           <<1, 1, 2, 2, 2>>>>
Writers == {Built(3, Ends(3, E), Taken(Writes, S)) : S \in Chosen({3, 4}), E \in {{2}, {1, 2}}}
Readers == {Three(Taken(Reads, S)) : S \in Chosen({3, 4})}

Filters == {"null", "trivial", "no_match", "sequence", "alt_sequence", "match"}

Compose(f1, f2, m1, m2, filter, delayed) ==
  [op |-> "Compose", fst1 |-> f1, fst2 |-> f2, matcher1 |-> m1, matcher2 |-> m2,
   filter |-> filter, delayed |-> delayed]

Plain(f1, f2, filter, delayed) ==
  Compose(f1, f2, SortedMatcher("output"), SortedMatcher("input"), filter, delayed)

Copies == {Plain(f1, f2, filter, FALSE) : f1 \in Writers, f2 \in Readers, filter \in Filters}

\* Machines with cycles, sorted on one side, on none, known to be so or not.
Loops == <<<<0, 1, 0, 1, 1>>, <<0, 3, 2, 0, 0>>, <<1, 2, 1, 2, 0>>, <<1, 3, 2, 0, 1>>>>
Looping == {Two(Loops),
            Built(2, Ends(2, {0, 1}), <<Loops[2], Loops[1], Loops[3], Loops[4]>>)}
Round == <<<<0, 0, 2, 1, 1>>, <<0, 1, 1, 0, 0>>, <<0, 2, 3, 0, 1>>, <<1, 1, 1, 1, 1>>,
           <<1, 2, 0, 0, 0>>>>
Rounds == {Two(Round),
           Built(2, Ends(2, {0}), <<Round[3], Round[1], Round[2], Round[5], Round[4]>>)}
Nowhere == {NewFst, [Built(1, Ends(1, {0}), <<>>) EXCEPT !.start = kNoStateId]}
As(f) == {f, Forgetful(f), Known(f)}
Ordinary1 == {NewMatcher("plain", kNoLabel, u, type, FALSE, FALSE) :
                u \in {"sorted", "hash"}, type \in {"output", "none"}}
Ordinary2 == {[m EXCEPT !.type = IF @ = "output" THEN "input" ELSE @] : m \in Ordinary1}
Cyclic ==
  {Compose(f1, f2, m1, m2, filter, FALSE) :
     f1 \in UNION {As(f) : f \in Looping} \cup Nowhere, f2 \in UNION {As(f) : f \in Rounds},
     m1 \in Ordinary1, m2 \in Ordinary2, filter \in {"null", "sequence", "match"}}

\* Special labels.  5 fails, is the rest or is anything; failures make no cycle
\* but loops, which stand for every label if the matcher has phiLoop.
SpecialArcs == <<<<0, 5, 5, 1, 1>>, <<0, 5, 1, 1, 1>>, <<0, 1, 1, 0, 1>>, <<0, 0, 2, 1, 2>>,
                 <<1, 2, 2, 1, 2>>, <<1, 5, 5, 1, 2>>, <<1, 5, 2, 1, 2>>, <<2, 3, 3, 0, 0>>,
                 <<2, 5, 5, 2, 2>>, <<2, 1, 3, 0, 1>>>>
MaySpecial(S) ==
  /\ Cardinality(S \cap {1, 2}) <= 1 /\ Cardinality(S \cap {6, 7}) <= 1
  /\ Cardinality(S) \in {3, 4}
BySecond(q) == SortSeq(q, LAMBDA x, y : x[2] < y[2])
Specials == {Three(BySecond(Taken(SpecialArcs, S))) : S \in {T \in SUBSET (1..10) : MaySpecial(T)}}
Unsorted ==
  {Three(Taken(SpecialArcs, S)) : S \in {{1, 3, 5}, {2, 4, 5, 8}, {4, 5, 6, 8}, {1, 5, 9}}}
Kinds == {<<"phi", TRUE>>, <<"rho", FALSE>>, <<"sigma", FALSE>>}
Heard == {Two(<<<<0, 1, 1, 1, 1>>, <<0, 2, 3, 0, 1>>, <<1, 3, 2, 0, 0>>>>),
          Three(<<<<0, 0, 0, 1, 1>>, <<0, 1, 2, 0, 1>>, <<1, 2, 1, 0, 2>>, <<1, 1, 3, 0, 2>>>>)}
\* The special labels on the second side, and some on the first; what is made for
\* either side, or for one only.
Special2 ==
  {Compose(f1, f2, SortedMatcher(type),
           NewMatcher(k[1], 5, "sorted", "input", type = "none", k[2]), "sequence", FALSE) :
     f1 \in Heard, f2 \in Specials \cup Unsorted, type \in {"output", "none"}, k \in Kinds}
\* Failure arcs that read no symbol; no other arcs do.
Silent(arcs) == BySecond([i \in DOMAIN arcs |-> [arcs[i] EXCEPT ![2] = IF @ = 5 THEN 0 ELSE @]])
FailSilently ==
  {Compose(f1, Three(Silent(Taken(SpecialArcs, S))), SortedMatcher("none"),
           NewMatcher("phi", 0, "sorted", "input", FALSE, TRUE), "sequence", FALSE) :
     f1 \in Heard, S \in {T \in SUBSET ((1..10) \ {4}) : MaySpecial(T)}}
SwappedArcs(f, s) ==
  [i \in DOMAIN Arcs(f, s) |->
     LET x == Arcs(f, s)[i] IN <<s, x.olabel, x.ilabel, x.weight, x.nextstate>>]
SwappedSides(f) ==
  Built(NumStates(f), [s \in States(f) |-> Final(f, s)],
        FoldLeft(LAMBDA q, s : q \o SwappedArcs(f, s), <<>>, StateSeq(f)))
\* With loops that do not stand for the label, a machine whose failures loop is
\* none to search in.
Special1 ==
  {j \in
     {Compose(SwappedSides(f1), SwappedSides(f2),
              NewMatcher(k[1], 5, "hash", "output", both, k[2]), SortedMatcher("input"),
              "match", FALSE) :
        f1 \in {f \in Specials : Len(Arcs(f, 0)) > 1}, f2 \in Heard,
        k \in Kinds \cup {<<"phi", FALSE>>}, both \in BOOLEAN} :
     FailuresEnd(j.fst1, j.matcher1)}

\* Acceptors, some of them unsorted, with epsilons, or not deterministic.
AcceptorArcs == <<<<0, 0, 0, 1, 1>>, <<0, 1, 1, 1, 0>>, <<0, 2, 2, 0, 1>>, <<1, 3, 3, 1, 0>>,
                  <<1, 1, 1, 0, 1>>, <<1, 1, 1, 1, 0>>>>
PlainArcs == <<<<0, 1, 1, 0, 1>>, <<0, 3, 3, 0, 0>>, <<0, 2, 2, 0, 0>>, <<1, 1, 1, 0, 0>>,
               <<1, 2, 2, 0, 1>>>>
Some(arcs, n) == {Taken(arcs, S) : S \in {T \in SUBSET DOMAIN arcs : Cardinality(T) \in n}}
Accepted == {Two(arcs) : arcs \in Some(AcceptorArcs, {3, 4})} \cup {Two(<<<<0, 1, 2, 0, 1>>>>)}
Refused == {Built(2, [s \in 0..1 |-> IF s \in E THEN One ELSE Zero], arcs) :
              arcs \in Some(PlainArcs, {2, 4}), E \in {{0}, {1}}}
Acceptors ==
  {[op |-> op, fst1 |-> f1, fst2 |-> f2, matcher1 |-> SortedMatcher("output"),
    matcher2 |-> SortedMatcher("input"), filter |-> "match", delayed |-> FALSE] :
     op \in {"Difference", "Intersect"}, f1 \in Accepted,
     f2 \in UNION {{f, Forgetful(f)} : f \in Refused} \cup {NewFst}}

\* Compositions of few states, asked for in every order.
AskedFirst == {Two(<<<<0, 2, 0, 1, 1>>, <<0, 1, 1, 0, 1>>>>),
               Two(<<<<0, 1, 0, 1, 0>>, <<0, 2, 1, 0, 1>>>>)}
AskedSecond == {Two(<<<<0, 0, 2, 1, 1>>, <<0, 1, 1, 0, 1>>>>),
                Two(<<<<0, 1, 2, 1, 1>>, <<1, 0, 1, 0, 1>>>>)}
AskedPlain == {Plain(f1, f2, filter, TRUE) : f1 \in AskedFirst, f2 \in AskedSecond,
                                             filter \in Filters}
Heard1 == Two(<<<<0, 1, 1, 1, 1>>, <<0, 2, 2, 0, 1>>, <<1, 3, 2, 0, 1>>>>)
Failing == {Three(<<<<0, 1, 1, 0, 1>>, <<0, 5, 5, 1, 1>>, <<1, 2, 2, 1, 2>>, <<1, 5, 5, 0, 2>>>>),
            Three(<<<<0, 5, 5, 1, 1>>, <<1, 0, 2, 0, 2>>, <<1, 2, 2, 1, 2>>, <<1, 5, 5, 0, 1>>>>)}
AskedSpecial ==
  {Compose(Heard1, f2, SortedMatcher("output"),
           NewMatcher(k[1], 5, "sorted", "input", TRUE, k[2]), filter, TRUE) :
     f2 \in Failing, k \in Kinds, filter \in {"sequence", "match"}}

MCScenarios ==
  {Copies, Cyclic, Special1, Special2, FailSilently, Acceptors, AskedPlain, AskedSpecial}
=============================================================================
