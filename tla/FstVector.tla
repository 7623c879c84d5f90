------------------------------ MODULE FstVector ------------------------------
(***************************************************************************)
(* VectorFst (vector-fst.h): a machine is a start state and a vector of    *)
(* states, each with a final weight, its arcs and two counts of epsilons;  *)
(* it carries the properties known of it.  Every mutation of the           *)
(* implementation is an operator from machines to machines.                *)
(*                                                                         *)
(* Weights are those of the tropical semiring, with natural numbers: Plus  *)
(* is the minimum, Times the sum, Zero infinity and One the number 0.      *)
(***************************************************************************)
EXTENDS FstProperties, Sequences, SequencesExt, FiniteSets

kNoStateId == -1
Zero == 1000
One == 0
Trivial(w) == w \in {Zero, One}
Times(v, w) == IF Zero \in {v, w} THEN Zero ELSE v + w

NewState == [final |-> Zero, niepsilons |-> 0, noepsilons |-> 0, arcs |-> <<>>]
NewFst == [start |-> kNoStateId, states |-> <<>>, properties |-> kNullProperties]

NumStates(f) == Cardinality(DOMAIN f.states)
States(f) == 0..NumStates(f)-1
StateSeq(f) == [i \in 1..NumStates(f) |-> i - 1]
Final(f, s) == f.states[s].final
Arcs(f, s) == f.states[s].arcs
ArcSet(f, s) == {Arcs(f, s)[i] : i \in 1..Len(Arcs(f, s))}

-----------------------------------------------------------------------------
(* VectorState: the epsilon counts are kept up to date arc by arc.         *)

Count(condition) == IF condition THEN 1 ELSE 0

Counted(state, old, new) ==
  [state EXCEPT !.niepsilons = @ - Count(old.ilabel = 0) + Count(new.ilabel = 0),
                !.noepsilons = @ - Count(old.olabel = 0) + Count(new.olabel = 0)]

PushArc(state, arc) ==
  [state EXCEPT !.niepsilons = @ + Count(arc.ilabel = 0),
                !.noepsilons = @ + Count(arc.olabel = 0),
                !.arcs = Append(@, arc)]

PutArc(state, i, arc) ==
  [Counted(state, state.arcs[i], arc) EXCEPT !.arcs[i] = arc]

Stays(arc, kept) == arc.nextstate \in kept

IEpsilons(arcs) == Cardinality({i \in DOMAIN arcs : arcs[i].ilabel = 0})
OEpsilons(arcs) == Cardinality({i \in DOMAIN arcs : arcs[i].olabel = 0})

\* Some arcs go, and some are left.
Without(state, gone, left) ==
  [state EXCEPT !.arcs = left, !.niepsilons = @ - IEpsilons(gone),
                !.noepsilons = @ - OEpsilons(gone)]

\* Only the arcs to states that are kept stay.
KeepArcs(state, kept) ==
  Without(state, SelectSeq(state.arcs, LAMBDA a : ~Stays(a, kept)),
          SelectSeq(state.arcs, LAMBDA a : Stays(a, kept)))

-----------------------------------------------------------------------------
(* VectorFstImpl.                                                          *)

SetProperties(f, props, mask) ==
  [f EXCEPT !.properties = (@ \ mask) \cup (props \cap mask)]

SetStart(f, s) ==
  [f EXCEPT !.start = s, !.properties = SetStartProperties(@)]

SetFinal(f, s, w) ==
  [f EXCEPT !.states[s].final = w,
            !.properties = SetFinalProperties(@, Trivial(Final(f, s)), Trivial(w))]

AddState(f) ==
  [f EXCEPT !.states = [s \in 0..NumStates(f) |->
                          IF s = NumStates(f) THEN NewState ELSE @[s]],
            !.properties = @ \cap kAddStateProperties]

Previous(arcs) == IF arcs = <<>> THEN <<>> ELSE <<Last(arcs).ilabel, Last(arcs).olabel>>

AddArc(f, s, arc) ==
  [f EXCEPT !.states[s] = PushArc(@, arc),
            !.properties = AddArcProperties(@, s, arc, Previous(Arcs(f, s)),
                                            Trivial(arc.weight))]

SetArc(f, s, i, arc) ==
  LET old == Arcs(f, s)[i]
  IN  [f EXCEPT !.states[s] = PutArc(@, i, arc),
                !.properties = SetArcProperties(@, old, Trivial(old.weight),
                                                arc, Trivial(arc.weight))]

\* The last n arcs; all the arcs, which also resets the counts.
DeleteLastArcs(f, s, n) ==
  LET stay == Len(Arcs(f, s)) - n
  IN  [f EXCEPT !.states[s] = Without(@, SubSeq(@.arcs, stay + 1, stay + n),
                                      SubSeq(@.arcs, 1, stay)),
                !.properties = @ \cap kDeleteArcsProperties]
DeleteArcs(f, s) ==
  [f EXCEPT !.states[s] = [NewState EXCEPT !.final = Final(f, s)],
            !.properties = @ \cap kDeleteArcsProperties]

\* The states in dead and every arc to them; the others are renumbered.
DeleteStates(f, dead) ==
  LET kept == States(f) \ dead
      newid == [s \in States(f) |-> IF s \in dead THEN kNoStateId
                                    ELSE Cardinality({t \in kept : t < s})]
      Renumbered(state) ==
        [state EXCEPT !.arcs = [i \in DOMAIN @ |->
                                  [@[i] EXCEPT !.nextstate = newid[@]]]]
      Old(n) == CHOOSE s \in kept : newid[s] = n
  IN  [f EXCEPT !.states = [n \in 0..Cardinality(kept)-1 |->
                   Renumbered(KeepArcs(@[Old(n)], kept))],
                !.start = IF @ = kNoStateId THEN @ ELSE newid[@],
                !.properties = @ \cap kDeleteStatesProperties]

\* The constructor that copies: the arcs are added and counted again.
Copied(f) ==
  [f EXCEPT !.states = [s \in DOMAIN @ |->
     FoldLeft(PushArc, [NewState EXCEPT !.final = Final(f, s)], Arcs(f, s))]]
=============================================================================
