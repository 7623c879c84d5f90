-------------------------- MODULE MCFstSymbolTable --------------------------
(* Instances of FstSymbolTable.  All symbols hash to two neighbouring       *)
(* buckets, so that every probe sequence meets others.                      *)
EXTENDS FstSymbolTable

CONSTANTS t1, t2, a, b, c, d

SomeHash == a :> 3 @@ b :> 3 @@ c :> 4 @@ d :> 3
Scenario(threads, symbols, keys, maxKey, removals, checkSums) ==
  [threads |-> threads, symbols |-> symbols, keys |-> keys, maxKey |-> maxKey,
   removals |-> removals, checkSums |-> checkSums]

\* One thread with enough symbols for the hash table to grow; two threads that
\* remove symbols; two threads that ask for checksums.
AllScenarios ==
  {Scenario({t1}, {a, b, c, d}, {-2, 0, 1, 4}, 4, TRUE, FALSE),
   Scenario({t1, t2}, {a, b}, {1}, 2, TRUE, FALSE),
   Scenario({t1, t2}, {a, b}, {1}, 2, FALSE, TRUE)}
=============================================================================
