------------------------------ MODULE MCFstCache ------------------------------
EXTENDS FstCache

Fst(next) == [start |-> 1, next |-> next, final |-> [n \in DOMAIN next |-> n]]

\* A start state with two successors and a way back; chains whose last node is
\* found by way of node 2 only.
Fork     == Fst(<<<<2, 3>>, <<3, 1>>, <<>>>>)
Chain    == Fst(<<<<2, 2>>, <<3>>, <<>>>>)
WithTail == Fst(<<<<2, 3>>, <<4>>, <<>>, <<>>>>)

Options(gc, gc_limit) == [gc |-> gc, gc_limit |-> gc_limit]
MCOptions == {Options(TRUE, 0), Options(TRUE, 8), Options(FALSE, 0)}
NoLimit == {o \in MCOptions : o.gc_limit = 0}

Scenario(f, o, iterators, walks, copies) ==
  [fst |-> f, options |-> o, iterators |-> iterators, walks |-> walks, copies |-> copies]

One == {CHOOSE i \in Iterators : TRUE}
InUse(f)  == {Scenario(f, o, Iterators, FALSE, {}) : o \in MCOptions}
Walks(f, opts) == {Scenario(f, o, {}, TRUE, {}) : o \in opts}
Copies(f) == {Scenario(f, o, One, FALSE, BOOLEAN) : o \in MCOptions}

MCScenarios == InUse(Fork) \cup Walks(Chain, MCOptions) \cup Walks(WithTail, NoLimit) \cup Copies(Fork)
=============================================================================
