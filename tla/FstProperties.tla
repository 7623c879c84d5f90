---------------------------- MODULE FstProperties ----------------------------
(***************************************************************************)
(* The property bits of an FST (properties.h, properties.cc): what each    *)
(* mutation and each rational operation keeps of the properties known, and *)
(* what it adds.  A word of bits is the set of the names of the bits set.  *)
(* kError (no operation modelled here fails) and the static bits kExpanded *)
(* and kMutable are left out.                                              *)
(***************************************************************************)
EXTENDS Integers

\* The trinary properties: the name of the positive bit, and of the negative.
Opposite ==
  [Acceptor |-> "NotAcceptor", IDeterministic |-> "NonIDeterministic",
   ODeterministic |-> "NonODeterministic", Epsilons |-> "NoEpsilons",
   IEpsilons |-> "NoIEpsilons", OEpsilons |-> "NoOEpsilons",
   ILabelSorted |-> "NotILabelSorted", OLabelSorted |-> "NotOLabelSorted",
   Weighted |-> "Unweighted", Cyclic |-> "Acyclic",
   InitialCyclic |-> "InitialAcyclic", TopSorted |-> "NotTopSorted",
   Accessible |-> "NotAccessible", CoAccessible |-> "NotCoAccessible",
   String |-> "NotString", WeightedCycles |-> "UnweightedCycles"]

Both(positive) == positive \cup {Opposite[p] : p \in positive}
kTrinaryProperties == Both(DOMAIN Opposite)

\* KnownProperties: both bits of the properties either of whose bits is set.
KnownProperties(props) ==
  Both({p \in DOMAIN Opposite : p \in props \/ Opposite[p] \in props})

\* When(c, P): the bits P if c holds.
When(c, P) == IF c THEN P ELSE {}

-----------------------------------------------------------------------------
(* Composite properties.                                                   *)

kCopyProperties == kTrinaryProperties

kNullProperties ==
  {"Acceptor", "IDeterministic", "ODeterministic", "NoEpsilons", "NoIEpsilons",
   "NoOEpsilons", "ILabelSorted", "OLabelSorted", "Unweighted", "Acyclic",
   "InitialAcyclic", "TopSorted", "Accessible", "CoAccessible", "String",
   "UnweightedCycles"}

kSetStartProperties ==
  kTrinaryProperties \ Both({"InitialCyclic", "Accessible", "String"})

kSetFinalProperties ==
  kTrinaryProperties \ Both({"Weighted", "CoAccessible", "String"})

kAddStateProperties == kTrinaryProperties \ {"Accessible", "CoAccessible", "String"}

kAddArcProperties ==
  {"NotAcceptor", "NonIDeterministic", "NonODeterministic", "Epsilons", "IEpsilons",
   "OEpsilons", "NotILabelSorted", "NotOLabelSorted", "Weighted", "Cyclic",
   "InitialCyclic", "NotTopSorted", "Accessible", "CoAccessible", "WeightedCycles"}

kSetArcProperties == {}

kDeleteStatesProperties ==
  kNullProperties \ {"Accessible", "CoAccessible", "String"}

kDeleteArcsProperties ==
  kDeleteStatesProperties \cup {"NotAccessible", "NotCoAccessible"}

kStateSortProperties == kTrinaryProperties \ Both({"TopSorted", "String"})

kArcSortProperties == kTrinaryProperties \ Both({"ILabelSorted", "OLabelSorted"})

-----------------------------------------------------------------------------
(* Mutations.  An arc is a record, s the state it leaves, Trivial(w) says  *)
(* that w is semiring Zero or One.                                         *)

SetStartProperties(props) ==
  (props \cap kSetStartProperties) \cup When("Acyclic" \in props, {"InitialAcyclic"})

SetFinalProperties(props, oldTrivial, newTrivial) ==
  LET old == props \ When(~oldTrivial, {"Weighted"})
      new == IF newTrivial THEN old ELSE (old \cup {"Weighted"}) \ {"Unweighted"}
  IN  new \cap (kSetFinalProperties \cup {"Weighted", "Unweighted"})

\* The bits an arc sets, because it is an example or a counterexample.
ArcProperties(arc, trivial) ==
  When(arc.ilabel # arc.olabel, {"NotAcceptor"})
    \cup When(arc.ilabel = 0, {"IEpsilons"})
    \cup When(arc.ilabel = 0 /\ arc.olabel = 0, {"Epsilons"})
    \cup When(arc.olabel = 0, {"OEpsilons"})
    \cup When(~trivial, {"Weighted"})

\* The bits that the bits in props refute.
Refuted(props) == KnownProperties(props) \ props

Corrected(props, added) == (props \cup added) \ Refuted(added)

SortedIsAcyclic(props) ==
  props \cup When("TopSorted" \in props, {"Acyclic", "InitialAcyclic"})

\* prev: the labels of the arc before, <<>> if there is none.
AddArcProperties(props, s, arc, prev, trivial) ==
  SortedIsAcyclic(
    Corrected(props,
              ArcProperties(arc, trivial)
                \cup When(prev # <<>> /\ prev[1] > arc.ilabel, {"NotILabelSorted"})
                \cup When(prev # <<>> /\ prev[2] > arc.olabel, {"NotOLabelSorted"})
                \cup When(arc.nextstate <= s, {"NotTopSorted"}))
      \cap (kAddArcProperties
              \cup {"Acceptor", "NoEpsilons", "NoIEpsilons", "NoOEpsilons",
                    "ILabelSorted", "OLabelSorted", "Unweighted", "TopSorted"}))

\* MutableArcIterator::SetValue.
SetArcProperties(props, old, oldTrivial, new, newTrivial) ==
  Corrected(props \ ArcProperties(old, oldTrivial), ArcProperties(new, newTrivial))
    \cap (kSetArcProperties
            \cup Both({"Acceptor", "Epsilons", "IEpsilons", "OEpsilons", "Weighted"}))

-----------------------------------------------------------------------------
(* Operations on whole machines, none of them delayed.                     *)

\* What a machine keeps of its known faults when others are joined to it.
JoinFaults ==
  {"NotAcceptor", "NonIDeterministic", "NonODeterministic", "NotILabelSorted",
   "NotOLabelSorted", "Weighted", "WeightedCycles", "NotAccessible"}

ClosureProperties(props) ==
  (props \cap ({"Acceptor", "Unweighted", "Accessible", "CoAccessible", "NotTopSorted",
                "NotString", "NotCoAccessible"} \cup JoinFaults))
    \cup When("Unweighted" \in props, {"UnweightedCycles"})
    \cup When({"Weighted", "Accessible", "CoAccessible"} \subseteq props,
              {"WeightedCycles"})

\* Mutant: also when the first machine is not known to be trim.
AlwaysTrim(props1) == TRUE

KnownTrim(props1) == {"Accessible", "CoAccessible"} \subseteq props1

ConcatProperties(props1, props2) ==
  LET faults == JoinFaults \cup {"Epsilons", "IEpsilons", "OEpsilons", "Cyclic",
                                 "NotCoAccessible"}
  IN  ({"Acceptor", "Unweighted", "UnweightedCycles", "Acyclic"} \cap props1 \cap props2)
        \cup ({"NotTopSorted", "NotString"} \cap (props1 \cup props2))
        \cup ({"InitialAcyclic", "InitialCyclic"} \cap props1)
        \cup (faults \cap props1)
        \cup When(KnownTrim(props1),
                  ({"Accessible", "CoAccessible"} \cup faults) \cap props2)

UnionProperties(props1, props2) ==
  LET faults == JoinFaults \cup {"Cyclic"}
  IN  ({"Acceptor", "Unweighted", "UnweightedCycles", "Acyclic", "Accessible",
        "CoAccessible"} \cap props1 \cap props2)
        \cup {"InitialAcyclic", "Epsilons", "IEpsilons", "OEpsilons"}
        \cup (({"NotTopSorted"} \cup faults) \cap (props1 \cup props2))
        \cup ({"NotCoAccessible"} \cap props2)

Renamed(props, names) == {names[p] : p \in DOMAIN names \cap props}

\* The bits about one side, and their counterparts about the other.
InputSide ==
  [IDeterministic |-> "ODeterministic", NonIDeterministic |-> "NonODeterministic",
   IEpsilons |-> "OEpsilons", NoIEpsilons |-> "NoOEpsilons",
   ILabelSorted |-> "OLabelSorted", NotILabelSorted |-> "NotOLabelSorted"]
OutputSide ==
  [ODeterministic |-> "IDeterministic", NonODeterministic |-> "NonIDeterministic",
   OEpsilons |-> "IEpsilons", NoOEpsilons |-> "NoIEpsilons",
   OLabelSorted |-> "ILabelSorted", NotOLabelSorted |-> "NotILabelSorted"]
SidedProperties == DOMAIN InputSide \cup DOMAIN OutputSide

InvertProperties(props) ==
  (props \ SidedProperties) \cup Renamed(props, InputSide) \cup Renamed(props, OutputSide)

ProjectProperties(props, projectInput) ==
  LET side == IF projectInput THEN InputSide ELSE OutputSide
      kept == props \cap DOMAIN side
  IN  {"Acceptor"}
        \cup (props \ (SidedProperties \cup Both({"Acceptor", "Epsilons"})))
        \cup kept \cup Renamed(kept, side)
        \cup When({"IEpsilons", "OEpsilons"} \cap kept # {}, {"Epsilons"})
        \cup When({"NoIEpsilons", "NoOEpsilons"} \cap kept # {}, {"NoEpsilons"})

ReverseProperties(props, hasSuperinitial) ==
  props \cap ({"Acceptor", "NotAcceptor", "Epsilons", "IEpsilons", "OEpsilons",
               "Unweighted", "Cyclic", "Acyclic", "WeightedCycles", "UnweightedCycles"}
                \cup When(hasSuperinitial, {"Weighted"}))

\* ILabelCompare::Properties and OLabelCompare::Properties.
SortProperties(props, byInput) ==
  (props \cap kArcSortProperties)
    \cup {IF byInput THEN "ILabelSorted" ELSE "OLabelSorted"}
    \cup When("Acceptor" \in props, {"ILabelSorted", "OLabelSorted"})
=============================================================================
