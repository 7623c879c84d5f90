---------------------------- MODULE FstComposition ----------------------------
(***************************************************************************)
(* A program composes machines.  It keeps a delayed composition and asks   *)
(* for its start state, final weights and arcs in any order, copying it    *)
(* now and then (the copy goes on; what the copied one computed is kept);  *)
(* or it calls Compose, Difference or Intersect, which copy all of it to a *)
(* VectorFst.                                                              *)
(***************************************************************************)
EXTENDS FstCompose, FstMeaning

CONSTANTS
  Scenarios,    \* sets of calls; see Call
  MaxLength     \* relations are compared on strings of at most this length

\* A call: the operation, its machines, the matchers of a composition, the filter
\* and whether the result is left delayed.
Call == {"op", "fst1", "fst2", "matcher1", "matcher2", "filter", "delayed"}
ASSUME ScenariosAssumption == \A s \in Scenarios : \A j \in s : DOMAIN j = Call
\* No failure matcher is given a machine on which it would search for ever.
ASSUME FailuresEndAssumption ==
  \A s \in Scenarios : \A j \in s : FailuresEnd(j.fst1, j.matcher1) /\ FailuresEnd(j.fst2, j.matcher2)
ASSUME MaxLengthAssumption == MaxLength \in Nat

VARIABLES
  job,          \* the call
  c,            \* the composition it makes
  asked,        \* whether the start state was asked for
  out           \* the machine it is copied to, if it is

vars == <<job, c, asked, out>>

Nothing == <<>>

Made(j) ==
  CASE j.op = "Compose" -> NewComposition(j.fst1, j.matcher1, j.fst2, j.matcher2, j.filter)
    [] j.op = "Difference" -> NewDifference(j.fst1, j.fst2)
    [] j.op = "Intersect" -> NewIntersection(j.fst1, j.fst2, j.filter)

Init ==
  \E s \in Scenarios :
    /\ job \in s
    /\ c = Made(job)
    /\ asked = FALSE
    /\ out = Nothing

\* A program uses the composition only if its constructor found no error.
InUse == out = Nothing /\ ~c.error

Delayed == InUse /\ job.delayed

AskStart ==
  /\ Delayed /\ ~asked
  /\ c' = ComputeStart(c)
  /\ asked' = TRUE
  /\ UNCHANGED <<job, out>>

\* What is cached is not computed again.
AskFinal(s) ==
  /\ Delayed
  /\ c.states[s+1].final = Unknown
  /\ c' = ComputeFinal(c, s)
  /\ UNCHANGED <<job, asked, out>>

AskArcs(s) ==
  /\ Delayed
  /\ ~c.states[s+1].expanded
  /\ c' = Expand(c, s)
  /\ UNCHANGED <<job, asked, out>>

\* The copy is the one the program asks from now on.
CopyDelayed ==
  /\ Delayed
  /\ c' = SafeCopy(c)
  /\ UNCHANGED <<job, asked, out>>

CallAndCopy ==
  /\ InUse /\ ~job.delayed
  /\ asked' = TRUE
  /\ c' = CopyAll(c)
  /\ out' = Connect(AsVectorFst(c'))
  /\ UNCHANGED job

Complete == asked /\ \A i \in 1..Len(c.states) :
                       c.states[i].expanded /\ c.states[i].final # Unknown

\* The program is done with the composition, or cannot use it.
Finished == (Complete \/ c.error) /\ UNCHANGED vars

Next ==
  \/ AskStart
  \/ \E s \in Numbers(c) : AskFinal(s) \/ AskArcs(s)
  \/ CopyDelayed
  \/ CallAndCopy
  \/ Finished

Spec == Init /\ [][Next]_vars

-----------------------------------------------------------------------------
(* What the special labels of a machine stand for: the machine spelled out *)
(* for an alphabet.                                                        *)

Alphabet == {1, 2, 3}
Letters == <<1, 2, 3>>

HasArc(f, m, s, x) == \E a \in ArcSet(f, s) : GetLabel(m, a) = x
ArcsWith(f, m, s, x) == SelectSeq(Arcs(f, s), LAMBDA a : GetLabel(m, a) = x)
Ordinary(f, m, s) == SelectSeq(Arcs(f, s), LAMBDA a : GetLabel(m, a) # m.label)
PerLetter(first, F(_)) == FoldLeft(LAMBDA q, x : q \o F(x), first, Letters)

\* The states a failure leads to, one after another, with the weight it costs.
Failures(f, m, s) ==
  LET Behind(q) == ArcsWith(f, m, Last(q)[1], m.label)
      More(q, i) ==
        IF Behind(q) = <<>> \/ Behind(q)[1].nextstate = Last(q)[1] THEN q
        ELSE Append(q, <<Behind(q)[1].nextstate, Last(q)[2] + Behind(q)[1].weight>>)
  IN  FoldLeft(More, <<<<s, One>>>>, StateSeq(f))

WhenFailing(f, m, s, x) ==
  LET q == Failures(f, m, s)
      there == {i \in DOMAIN q : HasArc(f, m, q[i][1], x)}
      first == CHOOSE i \in there : \A j \in there : i <= j
      loops == SelectSeq(ArcsWith(f, m, Last(q)[1], m.label),
                         LAMBDA a : m.phiLoop /\ a.nextstate = Last(q)[1])
  IN  IF there # {} THEN Heavier(ArcsWith(f, m, q[first][1], x), q[first][2])
      ELSE Heavier(RewrittenAll(m, loops, x), Last(q)[2])

FinalWhenFailing(f, m, s) ==
  LET q == Failures(f, m, s)
      there == {i \in DOMAIN q : Final(f, q[i][1]) # Zero}
      first == CHOOSE i \in there : \A j \in there : i <= j
  IN  IF there = {} THEN Zero ELSE q[first][2] + Final(f, q[first][1])

SpelledArcs(f, m, s) ==
  LET special == ArcsWith(f, m, s, m.label)
      Standing(x) == RewrittenAll(m, special, x)
      Rest(x) == IF HasArc(f, m, s, x) THEN <<>> ELSE Standing(x)
      Failing(x) == WhenFailing(f, m, s, x)
      Epsilons == SelectSeq(Ordinary(f, m, s), LAMBDA a : GetLabel(m, a) = 0)
  IN  CASE m.kind = "sigma" -> PerLetter(Ordinary(f, m, s), Standing)
        [] m.kind = "rho" -> PerLetter(Ordinary(f, m, s), Rest)
        [] m.kind = "phi" -> PerLetter(Epsilons, Failing)

Spelled(f, m) ==
  IF ~Special(m) THEN f
  ELSE [f EXCEPT !.states =
          [s \in DOMAIN @ |->
             [@[s] EXCEPT !.arcs = SpelledArcs(f, m, s),
                          !.final = IF m.kind = "phi" THEN FinalWhenFailing(f, m, s) ELSE @]]]

\* To the null filter an epsilon between the machines is a symbol like others.
Mark == 9
Marked(f, writes) ==
  [f EXCEPT !.states =
     [s \in DOMAIN @ |-> [@[s] EXCEPT !.arcs =
        [i \in DOMAIN @ |-> IF writes THEN [@[i] EXCEPT !.olabel = IF @ = 0 THEN Mark ELSE @]
                            ELSE [@[i] EXCEPT !.ilabel = IF @ = 0 THEN Mark ELSE @]]]]]

First == IF c.filter.kind = "null" THEN Marked(c.fst1, TRUE) ELSE Spelled(c.fst1, c.matcher1)
Second == IF c.filter.kind = "null" THEN Marked(c.fst2, FALSE) ELSE Spelled(c.fst2, c.matcher2)

-----------------------------------------------------------------------------
(* Properties.                                                             *)

HighestWeight == 30
Rel(f) == Relation(f, MaxLength, HighestWeight)
Result == IF out = Nothing THEN AsVectorFst(c) ELSE out

Join(R, S) ==
  Best(UNION {{<<r[1], s[2], r[3] + s[3]>> : s \in {x \in S : x[1] = r[2]}} : r \in R})

\* The relation of a composition is that of the machines, one after the other,
\* whatever order its states were asked in and whichever side is matched on; a
\* difference keeps the strings of the first machine the second does not accept.
CompositionsAreRight ==
  Complete =>
    IF job.op = "Difference"
      THEN Rel(Result) = {t \in Rel(job.fst1) : \A u \in Rel(job.fst2) : u[1] # t[1]}
      ELSE Rel(Result) = Join(Rel(First), Rel(Second))

\* The pairs of a path of P and one of Q that meet, and whether made has as many
\* paths that do what such a pair does.
Meeting(P, Q) == UNION {{<<x, y>> : y \in {z \in Q : z.input = x.output}} : x \in P}
PairDoes(q) == <<q[1].input, q[2].output, q[1].weight + q[2].weight>>
PathDoes(x) == <<x.input, x.output, x.weight>>
AreAsMany(met, made) ==
  \A t \in {PairDoes(q) : q \in met} \cup {PathDoes(x) : x \in made} :
    Cardinality({q \in met : PairDoes(q) = t}) = Cardinality({x \in made : PathDoes(x) = t})

\* The comments of the filters: the sequence and match filters make each pair of
\* paths that meet one path, so that no weight is counted twice.
MatchesPathsOnce ==
  Complete /\ c.filter.kind \in {"sequence", "alt_sequence", "match"}
    /\ ~Holds(c.fst1, "Cyclic") /\ ~Holds(c.fst2, "Cyclic") =>
    LET arcs == NumStates(c.fst1) + NumStates(c.fst2)
    IN  AreAsMany(Meeting(Paths(First, arcs), Paths(Second, arcs)), Paths(Result, arcs))

\* What a composition claims of itself is true, and it is one exactly if every
\* required side can match, and one side can: it was made for that side and, if it
\* searches, the arcs are sorted.
CanMatch(f, m, side, sorted) == m.type = side /\ (m.under = "hash" \/ Holds(f, sorted))

ClaimsAreTrue ==
  LET can1 == CanMatch(c.fst1, c.matcher1, "output", "OLabelSorted")
      can2 == CanMatch(c.fst2, c.matcher2, "input", "ILabelSorted")
  IN  /\ Complete =>
           \A x \in DOMAIN Opposite :
             /\ x \in Result.properties => Holds(Result, x)
             /\ Opposite[x] \in Result.properties => ~Holds(Result, x)
      /\ c.matchType \in {"input", "both"} => can2
      /\ c.matchType \in {"output", "both"} => can1
      /\ (c.matchType = "none") =
           \/ RequiresMatch(c.matcher1) /\ ~can1
           \/ RequiresMatch(c.matcher2) /\ ~can2
           \/ ~can1 /\ ~can2

\* What was asked before shows in no answer: a copy, whose matchers and filter
\* were never used, computes every final weight and every arc as they were.
HistoryIsForgotten ==
  \A s \in Numbers(c) :
    /\ c.states[s+1].expanded =>
         Expand(SafeCopy(c), s).states[s+1].arcs = c.states[s+1].arcs
    /\ c.states[s+1].final # Unknown =>
         ComputeFinal(SafeCopy(c), s).states[s+1].final = c.states[s+1].final
=============================================================================
