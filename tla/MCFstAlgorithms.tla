---------------------------- MODULE MCFstAlgorithms ----------------------------
EXTENDS FstAlgorithms, TLC

\* A machine with n states that starts in 0, with the final weights and arcs
\* given, and what a test of it finds.
Built(n, finals, arcs, mask) ==
  LET states == FoldLeft(LAMBDA f, i : AddState(f), NewFst, [i \in 1..n |-> i])
      ended == FoldLeft(LAMBDA f, s : SetFinal(f, s, finals[s]), SetStart(states, 0),
                        StateSeq(states))
      Add(f, e) == AddArc(f, e[1], Arc(e[2], e[3], e[4], e[5]))
  IN  TestProperties(FoldLeft(Add, ended, arcs), mask)
Ends(n, s, w) == [t \in 0..n-1 |-> IF t = s THEN w ELSE Zero]

\* A star of four states whose arcs are then undercut by others.
Star == <<<<0, 1, 1, 3, 1>>, <<0, 1, 1, 5, 2>>, <<0, 1, 1, 4, 3>>, <<0, 1, 1, 6, 4>>>>
Cuts == {<<s, 1, 1, w, t>> : s \in 1..4, t \in 1..5, w \in {0, 1}}
StarEnds == {Ends(6, 5, 1), [s \in 0..5 |-> IF s \in {2, 3, 5} THEN 1 ELSE Zero]}
Stars ==
  {Built(6, finals, Star \o <<<<4, 1, 1, 2, 5>>, e1, e2>>, {}) :
     finals \in StarEnds,
     e1 \in {e \in Cuts : e[1] = 3 /\ e[4] = 0}, e2 \in {e \in Cuts : e[1] # 3 /\ e[1] # e[5]}}

\* Three states and four arcs, among them epsilons, loops, cycles and an arc
\* with a negative weight, which is on no negative cycle.
Labelled == {<<0, 0, 0, 1, 1>>, <<0, 1, 1, -1, 2>>, <<1, 0, 0, 0, 2>>, <<1, 1, 0, 1, 1>>,
             <<2, 0, 0, 2, 0>>, <<2, 1, 1, 0, 1>>, <<1, 1, 1, 1, 0>>}
Mixed ==
  {Built(3, Ends(3, 2, 1), <<e1, e2, e3, e4>>, kTrinaryProperties) :
     e1 \in {<<0, 0, 0, 1, 1>>, <<0, 1, 1, 2, 1>>}, e2, e3, e4 \in Labelled}
   \cup {Built(3, [s \in 0..2 |-> s], <<e1, e2, e3, e4>>, {}) :
     e1 \in {<<0, 0, 0, 1, 1>>, <<0, 1, 1, 2, 1>>}, e2, e3, e4 \in Labelled}
Others == {NewFst, Built(2, Ends(2, 1, Zero), <<<<0, 1, 1, 1, 1>>>>, {}),
           Built(4, [s \in 0..3 |-> IF s \in {1, 3} THEN 0 ELSE Zero],
                 <<<<0, 0, 0, 1, 1>>, <<1, 0, 0, 1, 2>>, <<2, 0, 0, 0, 1>>,
                   <<3, 1, 2, 1, 1>>>>, kTrinaryProperties)}

Queues == {"auto", "fifo", "lifo", "shortest", "stateorder", "toporder"}
DistanceJob(q, r, fp) == [op |-> "Distance", queue |-> q, reverse |-> r, firstPath |-> fp]
PathJob(q, fp) == [op |-> "ShortestPath", queue |-> q, firstPath |-> fp]
PushJob(i, r) == [op |-> "Push", toInitial |-> i, removes |-> r, queue |-> "auto"]
PruneJob(k, w, n) ==
  [op |-> "Prune", copies |-> k, threshold |-> w, maxStates |-> n, queue |-> "auto"]
NShortestJob(n, w, m) ==
  [op |-> "NShortest", n |-> n, threshold |-> w, maxStates |-> m, maxArcs |-> 7,
   queue |-> "auto"]
RmEpsilonJob(k, w, n) ==
  [op |-> "RmEpsilon", connect |-> k, threshold |-> w, maxStates |-> n, queue |-> "auto"]

DistanceJobs ==
  {DistanceJob(q, FALSE, FALSE) : q \in Queues}
    \cup {DistanceJob("auto", TRUE, FALSE), DistanceJob("shortest", FALSE, TRUE)}
PathJobs ==
  {PathJob(q, FALSE) : q \in Queues \ {"toporder"}} \cup {PathJob("shortest", TRUE)}
PushJobs == {PushJob(i, r) : i \in BOOLEAN, r \in BOOLEAN}
PruneJobs == {PruneJob(k, w, n) : k \in BOOLEAN, w \in {0, 1, 3}, n \in {kNoStateId, 2}}
StarPruneJobs == {PruneJob(k, w, kNoStateId) : k \in BOOLEAN, w \in {0, 1}}
PathsJobs == {NShortestJob(2, Zero, kNoStateId), NShortestJob(3, 1, kNoStateId)}
RmEpsilonJobs == {RmEpsilonJob(TRUE, Zero, kNoStateId), RmEpsilonJob(FALSE, Zero, kNoStateId),
                  RmEpsilonJob(TRUE, 1, kNoStateId)}

AllJobs == DistanceJobs \cup PathJobs \cup PushJobs \cup PruneJobs \cup PathsJobs
             \cup RmEpsilonJobs

StarScenario == [machines |-> Stars, jobs |-> DistanceJobs \cup PathJobs \cup StarPruneJobs]
MixedScenario == [machines |-> Mixed \cup Others, jobs |-> AllJobs]

MCScenarios == {StarScenario, MixedScenario}
=============================================================================
