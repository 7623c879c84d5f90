----------------------------- MODULE MCFstMutable -----------------------------
EXTENDS FstMutable, TLC

\* A machine with n states, its finals and its arcs, in order, all of whose
\* properties have been tested.
Built(n, start, finals, arcs) ==
  LET states == FoldLeft(LAMBDA f, i : AddState(f), NewFst, [i \in 1..n |-> i])
      ended == FoldLeft(LAMBDA f, s : SetFinal(f, s, finals[s]), SetStart(states, start),
                        StateSeq(states))
  IN  TestProperties(FoldLeft(LAMBDA f, e : AddArc(f, e[1], e[2]), ended, arcs),
                     kTrinaryProperties)

MCArcs == {Arc(0, 0, 0, 0), Arc(1, 1, 0, 1), Arc(0, 1, 1, 1)}

Finals == {[s \in 0..1 |-> IF s = 1 THEN w ELSE Zero] : w \in {0, 1}}
            \cup {[s \in 0..1 |-> s]}
Edges == {0, 1} \X {Arc(0, 0, 0, 0), Arc(1, 1, 0, 1), Arc(2, 1, 1, 1), Arc(1, 2, 0, 0)}
Small == {Built(2, start, finals, arcs) :
            start \in {0, 1}, finals \in Finals,
            arcs \in {<<>>} \cup {<<e>> : e \in Edges} \cup {<<e, e2>> : e, e2 \in Edges}}
Others == {NewFst, Built(1, 0, <<>> @@ (0 :> 1), <<>>),
           Built(2, 0, [s \in 0..1 |-> IF s = 1 THEN 0 ELSE Zero], <<<<0, Arc(1, 2, 1, 1)>>>>)}

Machines(fs, gs) == {[f |-> f, g |-> g] : f \in fs, g \in gs}

Builds ==
  [machines |-> Machines({NewFst}, {NewFst}), active |-> {"f"}, kinds |-> {"mutate", "test"},
   tests |-> {kTrinaryProperties}, operations |-> 0,
   arcs |-> MCArcs, weights |-> {1}, maxStates |-> 2, maxArcs |-> 2]
Shares ==
  [machines |-> Machines({NewFst}, {NewFst}), active |-> Handle,
   kinds |-> {"mutate", "test", "share"}, tests |-> {kTrinaryProperties},
   operations |-> 0,
   arcs |-> {Arc(0, 1, 1, 0)}, weights |-> {}, maxStates |-> 1, maxArcs |-> 1]
Combines ==
  [machines |-> Machines(Small, Others), active |-> {"f"}, kinds |-> {"combine"},
   tests |-> {}, operations |-> 1, arcs |-> {}, weights |-> {},
   maxStates |-> 0, maxArcs |-> 0]
CombinesTwice ==
  [machines |-> Machines(Others, Others), active |-> Handle, kinds |-> {"combine", "share"},
   tests |-> {}, operations |-> 2, arcs |-> {}, weights |-> {},
   maxStates |-> 0, maxArcs |-> 0]

MCScenarios == {Builds, Shares, Combines, CombinesTwice}
=============================================================================
