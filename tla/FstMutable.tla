------------------------------ MODULE FstMutable ------------------------------
(***************************************************************************)
(* Two handles on vector machines, as a program uses them: it builds,      *)
(* tests, copies, changes and combines them, in any order.  A copy shares  *)
(* the implementation, which is copied before a handle that shares it      *)
(* changes it (ImplToMutableFst in mutable-fst.h); the properties a test   *)
(* finds are stored in the shared implementation.                          *)
(***************************************************************************)
EXTENDS FstRational, FstMeaning

CONSTANTS
  Scenarios,    \* what a program does: a set of records with the machines it
                \* starts with, the handles it changes, the kinds of calls it
                \* makes, the masks it tests, how many operations, and bounds of what it builds
  MaxLength,    \* the relation of a machine is looked at for strings of at
  MaxWeight     \* most this length, and weights of at most this

Handle == {"f", "g"}
Kinds == {"mutate", "share", "test", "combine"}

ASSUME ScenariosAssumption ==
  \A s \in Scenarios : /\ s.kinds \subseteq Kinds /\ s.active \subseteq Handle
                       /\ \A mask \in s.tests : mask \subseteq kTrinaryProperties
                       /\ s.operations \in Nat
                       /\ s.maxStates \in Nat /\ s.maxArcs \in Nat
                       /\ Zero \notin s.weights
ASSUME BoundsAssumption == MaxLength \in Nat /\ MaxWeight \in Nat

VARIABLES
  scenario,
  impl,         \* the implementations; one that is not used is NewFst
  handle,       \* the implementation of each handle
  left,         \* how many operations may still be done
  last          \* the operation just done, on which handle, with which option

vars == <<scenario, impl, handle, left, last>>

NoOperation == <<"none", "f", FALSE>>

Fst(h) == impl[handle[h]]
Peer(h) == CHOOSE o \in Handle : o # h

Init ==
  /\ scenario \in Scenarios
  /\ handle = [h \in Handle |-> IF h = "f" THEN 1 ELSE 2]
  /\ \E pair \in scenario.machines : impl = <<pair.f, pair.g>>
  /\ left = scenario.operations
  /\ last = NoOperation

-----------------------------------------------------------------------------
(* Handles.                                                                *)

\* Mutant: a shared implementation is changed.
NeverShared(hs) == FALSE

\* Unique() does not hold.
IsShared(hs) == hs["f"] = hs["g"]

Active(kind, h) == kind \in scenario.kinds /\ h \in scenario.active

Call(kind, h) ==
  /\ Active(kind, h)
  /\ last' = NoOperation
  /\ UNCHANGED <<scenario, left>>

\* h changes its machine: MutateCheck first makes a copy if it is shared.
\* New(f) is the machine after the change of f.
Change(h, New(_)) ==
  IF IsShared(handle)
    THEN /\ handle' = [handle EXCEPT ![h] = 3 - @]
         /\ impl' = [impl EXCEPT ![3 - handle[h]] = New(Copied(Fst(h)))]
    ELSE /\ impl' = [impl EXCEPT ![handle[h]] = New(@)]
         /\ UNCHANGED handle

\* Only the properties change, for every handle that shares the machine.
Note(h, New(_)) ==
  /\ impl' = [impl EXCEPT ![handle[h]] = New(@)]
  /\ UNCHANGED handle

\* The assignment o = h.
Share(h) ==
  /\ Call("share", h)
  /\ ~IsShared(handle)
  /\ handle' = [handle EXCEPT ![Peer(h)] = handle[h]]
  /\ impl' = [impl EXCEPT ![handle[Peer(h)]] = NewFst]

\* Verify refuses a machine that has states and no start state.
HasStart(f) == f.start # kNoStateId
Sane(f) == NumStates(f) > 0 => HasStart(f)

\* Without a start state the visit visits nothing, and the components it should
\* have found are looked up all the same: tests are made of sane machines.
Test(h, mask) ==
  /\ Call("test", h)
  /\ Sane(Fst(h))
  /\ Note(h, LAMBDA f : TestProperties(f, mask))

-----------------------------------------------------------------------------
(* Mutations.                                                              *)

ArcCount(f) == FoldLeft(LAMBDA n, s : n + Len(Arcs(f, s)), 0, StateSeq(f))
NewArcs(f) == {a \in scenario.arcs : a.nextstate \in States(f)}

CallAddState(h) ==
  /\ Call("mutate", h)
  /\ NumStates(Fst(h)) < scenario.maxStates
  /\ Change(h, AddState)

CallSetStart(h, s) ==
  /\ Call("mutate", h)
  /\ Change(h, LAMBDA f : SetStart(f, s))

CallSetFinal(h, s, w) ==
  /\ Call("mutate", h)
  /\ Change(h, LAMBDA f : SetFinal(f, s, w))

CallAddArc(h, s, a) ==
  /\ Call("mutate", h)
  /\ ArcCount(Fst(h)) < scenario.maxArcs
  /\ Change(h, LAMBDA f : AddArc(f, s, a))

\* A MutableArcIterator is made, moved to arc i and used once.
CallSetArc(h, s, i, a) ==
  /\ Call("mutate", h)
  /\ Change(h, LAMBDA f : SetArc(f, s, i, a))

CallDeleteArcs(h, s) ==
  /\ Call("mutate", h)
  /\ \/ Change(h, LAMBDA f : DeleteArcs(f, s))
     \/ \E n \in 1..Len(Arcs(Fst(h), s)) : Change(h, LAMBDA f : DeleteLastArcs(f, s, n))

CallDeleteStates(h, dead) ==
  /\ Call("mutate", h)
  /\ Change(h, LAMBDA f : DeleteStates(f, dead))

\* A shared implementation is left to the peer.
CallDeleteAllStates(h) ==
  /\ Call("mutate", h)
  /\ Change(h, LAMBDA f : NewFst)

Mutate ==
  \E h \in Handle :
    \/ CallAddState(h)
    \/ \E s \in States(Fst(h)) :
         \/ CallSetStart(h, s)
         \/ \E w \in scenario.weights \cup {Zero} : CallSetFinal(h, s, w)
         \/ \E a \in NewArcs(Fst(h)) :
              \/ CallAddArc(h, s, a)
              \/ \E i \in 1..Len(Arcs(Fst(h), s)) : CallSetArc(h, s, i, a)
         \/ CallDeleteArcs(h, s)
    \/ \E dead \in SUBSET States(Fst(h)) : CallDeleteStates(h, dead)
    \/ CallDeleteAllStates(h)

-----------------------------------------------------------------------------
(* Operations, on machines that Verify accepts.                            *)

Combine(operation, h, option) ==
  /\ Active("combine", h)
  /\ Sane(Fst(h)) /\ Sane(Fst(Peer(h)))
  /\ left > 0 /\ left' = left - 1
  /\ last' = <<operation, h, option>>
  /\ UNCHANGED scenario

\* Union with an empty machine only tests.  The test of h comes first, so a
\* shared implementation keeps what it finds.
CallUnion(h) ==
  /\ Combine("Union", h, FALSE)
  /\ LET tested == TestProperties(Fst(h), {"InitialAcyclic"})
         g == IF IsShared(handle) THEN tested ELSE Fst(Peer(h))
     IN  IF ~HasStart(g) THEN Note(h, LAMBDA f : tested)
         ELSE IF IsShared(handle)
           THEN /\ handle' = [handle EXCEPT ![h] = 3 - @]
                /\ impl' = [impl EXCEPT ![handle[h]] = tested,
                                        ![3 - handle[h]] = Union(Copied(tested), g)]
           ELSE Note(h, LAMBDA f : Union(f, g))

CallConcat(h) ==
  /\ Combine("Concat", h, FALSE)
  /\ LET g == Fst(Peer(h)) IN
       IF HasStart(Fst(h)) THEN Change(h, LAMBDA f : Concat(f, g))
                           ELSE UNCHANGED <<impl, handle>>

CallConcatInto(h) ==
  /\ Combine("ConcatInto", h, FALSE)
  /\ LET f == Fst(Peer(h)) IN
       IF HasStart(Fst(h)) THEN Change(h, LAMBDA g : ConcatInto(f, g))
                           ELSE UNCHANGED <<impl, handle>>

CallClosure(h, star) ==
  /\ Combine("Closure", h, star)
  /\ IF star \/ FinalStates(Fst(h)) # <<>> THEN Change(h, LAMBDA f : Closure(f, star))
                                           ELSE Note(h, LAMBDA f : Closure(f, star))

\* The reverse of h becomes the machine of its peer.
CallReverse(h, requireSuperinitial) ==
  /\ Combine("Reverse", h, requireSuperinitial)
  /\ LET f == Fst(h) IN Change(Peer(h), LAMBDA g : ReverseFst(f, requireSuperinitial))

CallInvert(h)         == Combine("Invert", h, FALSE) /\ Change(h, Invert)
CallProject(h, input) == Combine("Project", h, input) /\ Change(h, LAMBDA f : Project(f, input))

CallArcSort(h, byInput) ==
  /\ Combine("ArcSort", h, byInput)
  /\ IF HasStart(Fst(h)) THEN Change(h, LAMBDA f : ArcSort(f, byInput))
                         ELSE UNCHANGED <<impl, handle>>

CallTopSort(h) ==
  /\ Combine("TopSort", h, FALSE)
  /\ IF HasStart(Fst(h)) /\ TopOrder(Fst(h)).acyclic THEN Change(h, TopSort)
                                                     ELSE Note(h, TopSort)

CallConnect(h) == Combine("Connect", h, FALSE) /\ Change(h, Connect)

Operate ==
  \E h \in Handle :
    \/ CallUnion(h) \/ CallConcat(h) \/ CallConcatInto(h)
    \/ \E b \in BOOLEAN :
         \/ CallClosure(h, b) \/ CallReverse(h, b)
         \/ CallProject(h, b) \/ CallArcSort(h, b)
    \/ CallInvert(h) \/ CallTopSort(h) \/ CallConnect(h)

Next ==
  \/ \E h \in Handle : Share(h)
  \/ \E h \in Handle, mask \in scenario.tests : Test(h, mask)
  \/ Mutate
  \/ Operate

Spec == Init /\ [][Next]_vars

-----------------------------------------------------------------------------
(* Properties.                                                             *)

TypeOK ==
  /\ scenario \in Scenarios /\ left \in 0..scenario.operations
  /\ handle \in [Handle -> 1..2]
  /\ \A h \in Handle :
       /\ Fst(h).start \in States(Fst(h)) \cup {kNoStateId}
       /\ Fst(h).properties \subseteq kTrinaryProperties
       /\ \A s \in States(Fst(h)) :
            /\ Final(Fst(h), s) \in Nat
            /\ \A a \in ArcSet(Fst(h), s) : a.nextstate \in States(Fst(h))

\* Whatever was done to a machine, the properties it claims are true of it: the
\* bits each mutation keeps, each operation derives and each test computes.
\* Verify compares them with newly computed ones in the same way.
PropertiesAreTrue ==
  \A h \in Handle : \A p \in DOMAIN Opposite :
    /\ p \in Fst(h).properties => Holds(Fst(h), p)
    /\ Opposite[p] \in Fst(h).properties => ~Holds(Fst(h), p)

\* The epsilon counts of a state are those of its arcs, through replacements,
\* partial deletions, deletions of other states and copies.
CountsAreExact ==
  \A h \in Handle : \A s \in States(Fst(h)) :
    /\ Fst(h).states[s].niepsilons =
         Len(SelectSeq(Arcs(Fst(h), s), LAMBDA a : a.ilabel = 0))
    /\ Fst(h).states[s].noepsilons =
         Len(SelectSeq(Arcs(Fst(h), s), LAMBDA a : a.olabel = 0))

Machine(f) == <<f.start, f.states>>

\* No call changes the machines of two handles, although copies share theirs.
OneMachineAtATime ==
  [][\E h \in Handle : Machine(Fst(h)') = Machine(Fst(h))]_vars

Rel(f) == Relation(f, MaxLength, MaxWeight)

\* The step is the operation op on handle h.
Did(op, h) == last'[1] = op /\ last'[2] = h
Option == last'[3]

\* Union, both concatenations and closure yield the sum, product and closure of
\* the relations of their arguments, with the weights on the right paths.
RationalOperations ==
  [][\A h \in Handle :
       LET R == Rel(Fst(h))
           S == Rel(Fst(Peer(h)))
           Product(P, Q) == ConcatOf(P, Q, MaxLength, MaxWeight)
           Closed == UnionOf(PlusOf(R, MaxLength, MaxWeight),
                             IF Option THEN {<<<<>>, <<>>, One>>} ELSE {})
       IN  /\ Did("Union", h) => Rel(Fst(h)') = UnionOf(R, S)
           /\ Did("Concat", h) => Rel(Fst(h)') = Product(R, S)
           /\ Did("ConcatInto", h) => Rel(Fst(h)') = Product(S, R)
           /\ Did("Closure", h) => Rel(Fst(h)') = Closed]_vars

\* Reversal, inversion and projection yield the mirrored, the inverse and the
\* one-sided relation, whether or not a superinitial state is made.
TurningOperations ==
  [][\A h \in Handle :
       /\ Did("Reverse", h) => Rel(Fst(Peer(h))') = ReverseOf(Rel(Fst(h)))
       /\ Did("Invert", h) => Rel(Fst(h)') = InverseOf(Rel(Fst(h)))
       /\ Did("Project", h) => Rel(Fst(h)') = OneSide(Rel(Fst(h)), Option)]_vars

\* Sorting arcs, sorting states in place along the cycles of a permutation, and
\* trimming keep the relation.
TidyingOperations ==
  [][\A h \in Handle :
       Did("ArcSort", h) \/ Did("TopSort", h) \/ Did("Connect", h) =>
         Rel(Fst(h)') = Rel(Fst(h))]_vars

\* Machines are well formed, and what is stored about them is true.
MachinesAreSound ==
  /\ TypeOK
  /\ PropertiesAreTrue
  /\ CountsAreExact

\* Each operation yields the relation that its name promises.
RelationsAreRight ==
  /\ RationalOperations
  /\ TurningOperations
  /\ TidyingOperations
=============================================================================
