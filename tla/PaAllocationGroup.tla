------------------------- MODULE PaAllocationGroup --------------------------
(***************************************************************************)
(* Allocation groups (common/pa_allocation.c), as operators on a record m  *)
(* of the memory: blocks, how many blocks are allocated (numAllocations_); *)
(* group, or NoGroup; calls and fault, which call of PaUtil_AllocateMemory *)
(* fails, if any; and ok, whether the last one succeeded.  The links of a  *)
(* group are counted.                                                      *)
(***************************************************************************)
EXTENDS Integers, Sequences

CONSTANT InitialLinkCount      \* PA_INITIAL_LINK_COUNT_

ASSUME GroupAssumption == InitialLinkCount \in Nat \ {0, 1}

NoGroup == [linkCount |-> 0, linkBlocks |-> 0, spareLinks |-> 0, allocations |-> 0]

Memory(blocks, fault) ==
  [blocks |-> blocks, group |-> NoGroup, calls |-> 0, fault |-> fault, ok |-> TRUE]

Allocate(m) ==
  LET fails == m.calls + 1 = m.fault
  IN  [m EXCEPT !.calls = @ + 1, !.ok = ~fails, !.blocks = IF fails THEN @ ELSE @ + 1]

Free(m, n) == [m EXCEPT !.blocks = @ - n]

\* A block of links, the first of which stands for the block itself.
AllocateLinks(m, count) ==
  LET n == Allocate(m)
  IN  IF ~n.ok THEN n
      ELSE [n EXCEPT !.group.linkCount = @ + count, !.group.linkBlocks = @ + 1,
                     !.group.spareLinks = @ + count - 1]

\* Mutant: the block of links is not given back when the group has no memory.
CreateGroupOrLeak(m) ==
  LET links == AllocateLinks(m, InitialLinkCount)
      group == Allocate(links)
  IN  IF ~links.ok THEN links
      ELSE IF group.ok THEN group ELSE [group EXCEPT !.group = NoGroup]

CreateAllocationGroup(m) ==
  LET links == AllocateLinks(m, InitialLinkCount)
      group == Allocate(links)
  IN  IF ~links.ok THEN links
      ELSE IF group.ok THEN group ELSE Free([group EXCEPT !.group = NoGroup], 1)

DestroyAllocationGroup(m) ==
  [Free(m, m.group.linkBlocks + 1) EXCEPT !.group = NoGroup]

\* More links are allocated when none is spare, as many as there are.
GroupAllocateMemory(m) ==
  LET links == IF m.group.spareLinks = 0 THEN AllocateLinks(m, m.group.linkCount) ELSE m
      n == Allocate(links)
  IN  IF links.group.spareLinks = 0 THEN [links EXCEPT !.ok = FALSE]
      ELSE IF ~n.ok THEN n
      ELSE [n EXCEPT !.group.spareLinks = @ - 1, !.group.allocations = @ + 1]

FreeAllAllocations(m) ==
  [Free(m, m.group.allocations) EXCEPT
     !.group.spareLinks = @ + m.group.allocations, !.group.allocations = 0]

\* Every link is spare or stands for an allocation or for its own block.
LinksAreConserved(m) ==
  m.group.spareLinks + m.group.allocations + m.group.linkBlocks = m.group.linkCount
=============================================================================
