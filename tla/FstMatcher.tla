------------------------------ MODULE FstMatcher ------------------------------
(***************************************************************************)
(* Matchers (matcher.h): which arcs of a state carry a label, on the input *)
(* or on the output side, including the implicit loop that reads no symbol *)
(* of the machine.  A matcher is positioned at a state; the special        *)
(* matchers position the matcher they are built on, which they share       *)
(* between all their methods, as they please.  A matcher record holds      *)
(*   kind   "plain", "phi", "rho" or "sigma",  label  the special label,   *)
(*   under  "sorted" or "hash", the matcher underneath,                    *)
(*   type   "input", "output" or "none", the side it was made for,         *)
(*   rewriteBoth, phiLoop  the options of the special matchers,            *)
(*   state, inner  the states it and the matcher underneath are at,        *)
(*   has    whether the state has special arcs, as far as it knows.        *)
(* MultiEpsMatcher, ExplicitMatcher and look-ahead are left out.           *)
(***************************************************************************)
EXTENDS FstRational

kNoLabel == -1

NewMatcher(kind, label, under, type, rewriteBoth, phiLoop) ==
  [kind |-> kind, label |-> label, under |-> under, type |-> type,
   rewriteBoth |-> rewriteBoth, phiLoop |-> phiLoop,
   state |-> kNoStateId, inner |-> kNoStateId, has |-> FALSE]
Copy(m) == [m EXCEPT !.state = kNoStateId, !.inner = kNoStateId, !.has = FALSE]

Special(m) == m.kind # "plain" /\ m.label # kNoLabel
ByInput(m) == m.type = "input"

\* kRequireMatch: there may be states where this side must do the matching.
RequiresMatch(m) == Special(m) /\ m.type # "none"

-----------------------------------------------------------------------------
(* SortedMatcher and HashMatcher.                                          *)

GetLabel(m, arc) == IF m.type = "output" THEN arc.olabel ELSE arc.ilabel
SortedBit(m) == IF ByInput(m) THEN "ILabelSorted" ELSE "OLabelSorted"

\* The side the matcher can match, as far as the properties of f tell.
Type(f, m) ==
  IF m.type = "none" \/ m.under = "hash" \/ SortedBit(m) \in f.properties THEN m.type
  ELSE IF Opposite[SortedBit(m)] \in f.properties THEN "none"
  ELSE "unknown"
Tested(f, m) ==
  IF m.type = "none" \/ m.under = "hash" THEN f ELSE TestProperties(f, Both({SortedBit(m)}))

Loop(m, s) ==
  IF m.type = "output" THEN Arc(0, kNoLabel, One, s) ELSE Arc(kNoLabel, 0, One, s)

\* Mutant: the search ends one too far to the right of an equal label.
StrictlyAbove(m, arcs, label, b) ==
  LET half == b.size \div 2
      mid == b.high - half
  IN  [high |-> IF GetLabel(m, arcs[mid]) > label THEN mid ELSE b.high,
       size |-> b.size - half]

Halve(m, arcs, label, b) ==
  LET half == b.size \div 2
      mid == b.high - half
  IN  [high |-> IF GetLabel(m, arcs[mid]) >= label THEN mid ELSE b.high,
       size |-> b.size - half]

\* The first of the arcs whose label is not below the label searched for.
BinarySearch(m, arcs, label) ==
  FoldLeft(LAMBDA b, i : IF b.size > 1 THEN Halve(m, arcs, label, b) ELSE b,
           [high |-> Len(arcs), size |-> Len(arcs)], arcs).high
LinearSearch(m, arcs, label) ==
  CHOOSE i \in 1..Len(arcs)+1 :
    /\ i <= Len(arcs) => GetLabel(m, arcs[i]) >= label
    /\ \A j \in 1..i-1 : GetLabel(m, arcs[j]) < label

\* The arcs from the one found on, while they carry the label.
RunFrom(m, arcs, label, first) ==
  LET n == Cardinality({j \in first..Len(arcs) :
                          \A k \in first..j : GetLabel(m, arcs[k]) = label})
  IN  SubSeq(arcs, first, first + n - 1)

SortedSearch(m, arcs, label) ==
  IF arcs = <<>> THEN <<>>
  ELSE RunFrom(m, arcs, label,
               IF label >= 1 THEN BinarySearch(m, arcs, label)
                             ELSE LinearSearch(m, arcs, label))
\* A hash table returns equal labels in some order: here that of the arcs.
HashSearch(m, arcs, label) == SelectSeq(arcs, LAMBDA a : GetLabel(m, a) = label)
Search(m, arcs, label) ==
  IF m.under = "sorted" THEN SortedSearch(m, arcs, label) ELSE HashSearch(m, arcs, label)

\* The arcs of s the matcher underneath finds: 0 also finds the implicit loop,
\* kNoLabel finds the epsilons without it.
FindAt(f, m, s, label) ==
  (IF label = 0 THEN <<Loop(m, s)>> ELSE <<>>)
    \o Search(m, Arcs(f, s), IF label = kNoLabel THEN 0 ELSE label)

-----------------------------------------------------------------------------
(* What the special matchers make of the arcs they find.                   *)

\* An arc with the special label, read as an arc with the label asked for.
Rewritten(m, arc, label) ==
  IF m.rewriteBoth
    THEN [arc EXCEPT !.ilabel = IF @ = m.label THEN label ELSE @,
                     !.olabel = IF @ = m.label THEN label ELSE @]
  ELSE IF ByInput(m) THEN [arc EXCEPT !.ilabel = label]
  ELSE [arc EXCEPT !.olabel = label]
RewrittenAll(m, arcs, label) == [i \in DOMAIN arcs |-> Rewritten(m, arcs[i], label)]
Heavier(arcs, w) == [i \in DOMAIN arcs |-> [arcs[i] EXCEPT !.weight = Times(w, @)]]

\* The failure arc of a state.  A failure label 0 is looked for without the loop.
PhiArcs(f, m, s) == FindAt(f, m, s, IF m.label = 0 THEN kNoLabel ELSE m.label)

\* One turn of PhiMatcher::Find: the label is at the state, or the failure arc
\* loops and stands for it, or it is searched for at the end of that arc.
PhiStep(f, m, label, r) ==
  LET here == FindAt(f, m, r.at, label)
      phi == PhiArcs(f, m, r.at)
  IN  IF r.over THEN r
      ELSE IF here # <<>> THEN [r EXCEPT !.over = TRUE, !.arcs = Heavier(here, r.weight)]
      ELSE IF phi = <<>> THEN [r EXCEPT !.over = TRUE]
      ELSE IF m.phiLoop /\ phi[1].nextstate = r.at
        THEN [r EXCEPT !.over = TRUE,
                       !.arcs = Heavier(RewrittenAll(m, phi, label), r.weight)]
      ELSE [r EXCEPT !.at = phi[1].nextstate, !.weight = Times(@, phi[1].weight)]

\* The failure arcs that Find follows make no cycle: no path of them has as many
\* arcs as there are states.  A loop that stands for the label is not followed.
Followed(f, m, s) ==
  PhiArcs(f, m, s) # <<>> /\ ~(m.phiLoop /\ PhiArcs(f, m, s)[1].nextstate = s)
FailuresEnd(f, m) ==
  m.kind = "phi" /\ Special(m) =>
    FoldLeft(LAMBDA S, i : {PhiArcs(f, m, s)[1].nextstate : s \in {t \in S : Followed(f, m, t)}},
             States(f), StateSeq(f)) = {}

\* Only for machines with FailuresEnd: then a state is left by its failure arc no
\* more than once and the search is over within the turns given.  In other machines
\* the loop of Find may never end, and neither definition below is about them.
PhiFollow(f, m, s, label) ==
  FoldLeft(LAMBDA r, i : PhiStep(f, m, label, r),
           [at |-> s, weight |-> One, over |-> FALSE, arcs |-> <<>>],
           Append(StateSeq(f), NumStates(f)))

PhiFinalStep(f, m, r) ==
  LET phi == PhiArcs(f, m, r.at)
  IN  IF r.over THEN r
      ELSE IF Final(f, r.at) # Zero \/ phi = <<>>
        THEN [r EXCEPT !.over = TRUE, !.weight = Times(@, Final(f, r.at))]
      ELSE IF phi[1].nextstate = r.at THEN [r EXCEPT !.over = TRUE, !.weight = Zero]
      ELSE [r EXCEPT !.at = phi[1].nextstate, !.weight = Times(@, phi[1].weight)]

PhiFinal(f, m, s) ==
  FoldLeft(LAMBDA r, i : PhiFinalStep(f, m, r), [at |-> s, weight |-> One, over |-> FALSE],
           Append(StateSeq(f), NumStates(f)))

-----------------------------------------------------------------------------
(* The interface of matchers.                                              *)

\* The state the matcher is asked about from now on.
SetState(f, m, s) ==
  IF m.state = s THEN m
  ELSE [m EXCEPT !.state = s, !.inner = s,
                 !.has = /\ Special(m)
                         /\ m.kind = "sigma" => FindAt(f, m, s, m.label) # <<>>]

Found(m, arcs) == [matcher |-> m, arcs |-> arcs]

\* Mutant: the matcher underneath is asked where it happens to be.
PhiStaysAway(f, m, label) ==
  IF label \in {0, kNoLabel} \/ ~Special(m) THEN Found(m, FindAt(f, m, m.inner, label))
  ELSE Found(m, PhiFollow(f, m, m.inner, label).arcs)

\* PhiMatcher: if failure arcs carry 0 no other arc does, and the loop is left.
PhiFind(f, m, label) ==
  LET back == [m EXCEPT !.inner = m.state]
      ended == PhiFollow(f, m, m.state, label)
  IN  IF m.label = 0 /\ label \in {0, kNoLabel}
        THEN Found(back, IF label = 0 THEN <<Loop(m, m.state)>> ELSE <<>>)
      ELSE IF label \in {0, kNoLabel} \/ ~Special(m)
        THEN Found(back, FindAt(f, m, m.state, label))
      ELSE Found([m EXCEPT !.inner = ended.at], ended.arcs)

\* RhoMatcher: the special arcs stand for every label the state has no arc for.
RhoFind(f, m, label) ==
  LET here == FindAt(f, m, m.inner, label)
      rest == FindAt(f, m, m.inner, m.label)
      asks == m.has /\ label \notin {0, kNoLabel}
  IN  IF here # <<>> THEN Found(m, here)
      ELSE IF asks THEN Found([m EXCEPT !.has = rest # <<>>], RewrittenAll(m, rest, label))
      ELSE Found(m, <<>>)

\* SigmaMatcher: they stand for every label, besides the arcs the state has.
SigmaFind(f, m, label) ==
  LET here == FindAt(f, m, m.inner, label)
      asks == m.has /\ (label > 0 \/ (here = <<>> /\ label \notin {0, kNoLabel}))
      any == IF asks THEN FindAt(f, m, m.inner, m.label) ELSE <<>>
  IN  Found(m, here \o RewrittenAll(m, any, label))

\* The arcs with a label, and where looking for them leaves the matcher.
Find(f, m, label) ==
  CASE m.kind = "phi" -> PhiFind(f, m, label)
    [] m.kind = "rho" -> RhoFind(f, m, label)
    [] m.kind = "sigma" -> SigmaFind(f, m, label)
    [] OTHER -> Found(m, FindAt(f, m, m.inner, label))

\* The final weight of s; a failure matcher follows failure arcs to find one.
MatcherFinal(f, m, s) ==
  IF m.kind = "phi" /\ Special(m) /\ Final(f, s) = Zero
    THEN LET ended == PhiFinal(f, m, s)
         IN  [matcher |-> [m EXCEPT !.inner = ended.at], weight |-> ended.weight]
  ELSE [matcher |-> m, weight |-> Final(f, s)]

kRequirePriority == -1

\* How much work matching at s is.  The special matchers look for their label,
\* RhoMatcher even for kNoLabel, which finds epsilons.
Priority(f, m, s) ==
  LET Ask(n, has) == [matcher |-> n,
                      priority |-> IF has THEN kRequirePriority ELSE Len(Arcs(f, s))]
      sigma == SetState(f, m, s)
      rho == FindAt(f, m, s, m.label) # <<>>
  IN  CASE m.kind = "phi" /\ Special(m) ->
             Ask([m EXCEPT !.inner = s], PhiArcs(f, m, s) # <<>>)
        [] m.kind = "rho" -> Ask([m EXCEPT !.state = s, !.inner = s, !.has = rho], rho)
        [] m.kind = "sigma" /\ Special(m) -> Ask(sigma, sigma.has)
        [] OTHER -> Ask(m, FALSE)

\* Properties: what is known of f when its arcs are seen through the matcher.
MatcherProperties(m, props) ==
  LET sorted == Both({"ILabelSorted", "OLabelSorted"})
      mine == IF ByInput(m) THEN "IDeterministic" ELSE "ODeterministic"
      other == IF ByInput(m) THEN "ODeterministic" ELSE "IDeterministic"
      mineSorted == Both({SortedBit(m)})
      noEpsilons == When(m.kind = "phi" /\ m.label = 0,
                         {"NoEpsilons", IF ByInput(m) THEN "NoIEpsilons" ELSE "NoOEpsilons"})
  IN  IF m.kind = "plain" \/ m.type = "none" THEN props
      ELSE (props \cup noEpsilons)
             \ ({"String"}
                  \cup CASE m.kind = "sigma" /\ m.rewriteBoth -> Both({mine, other}) \cup sorted
                         [] m.kind = "sigma" ->
                              Both({mine, other}) \cup mineSorted \cup {"Acceptor"}
                         [] m.rewriteBoth -> Both({other}) \cup sorted
                         [] m.kind = "phi" -> {other, "Acceptor"} \cup sorted
                         [] OTHER -> {other, "Acceptor"} \cup mineSorted)
=============================================================================
