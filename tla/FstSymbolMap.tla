---------------------------- MODULE FstSymbolMap ----------------------------
(***************************************************************************)
(* What fst::SymbolTable promises the owner of a table (symbol-table.h): a *)
(* list of symbols in the order they were added, each with a key no other  *)
(* symbol has, and a next key above all of them.  Every owner sees only    *)
(* its own additions and removals, however the tables are shared.          *)
(***************************************************************************)
EXTENDS Integers, Sequences, SequencesExt

CONSTANTS Owners,     \* who holds a table, one each
          Symbols, Keys, NoSymbol

VARIABLES entries,    \* entries[o]: the pairs <<symbol, key>> in order
          next        \* next[o]: the key AddSymbol(symbol) gives out

mapVars == <<entries, next>>

SymbolsOf(list) == {list[i][1] : i \in DOMAIN list}
KeysOf(list) == {list[i][2] : i \in DOMAIN list}

Raised(n, k) == IF k >= n THEN k + 1 ELSE n

MapInit == entries = [o \in Owners |-> <<>>] /\ next = [o \in Owners |-> 0]

\* A new symbol goes to the end with a new key, and the next key stays
\* above it.
AddEntry(o) ==
  /\ Len(entries'[o]) > Len(entries[o])
  /\ LET e == Last(entries'[o])
     IN  /\ e \in (Symbols \X Keys) /\ e[2] # NoSymbol
         /\ e[1] \notin SymbolsOf(entries[o]) /\ e[2] \notin KeysOf(entries[o])
         /\ entries' = [entries EXCEPT ![o] = Append(@, e)]
         /\ next' = [next EXCEPT ![o] = Raised(@, e[2])]

\* The symbol with some key goes; the highest key becomes free again.
RemoveEntry(o) ==
  \E i \in DOMAIN entries[o] :
    LET k == entries[o][i][2]
    IN  /\ entries' = [entries EXCEPT ![o] = RemoveAt(@, i)]
        /\ next' = [next EXCEPT ![o] = IF k = @ - 1 THEN k ELSE @]

\* A list and its next key after a symbol was added unless it was there.
Plus(state, e) ==
  IF e[1] \in SymbolsOf(state[1]) THEN state
  ELSE <<Append(state[1], <<e[1], state[2]>>), state[2] + 1>>

\* The symbols of another table are appended with fresh keys, in its order.
Merge(o, other) ==
  LET merged == FoldLeft(Plus, <<entries[o], next[o]>>, entries[other])
  IN  /\ entries' = [entries EXCEPT ![o] = merged[1]]
      /\ next' = [next EXCEPT ![o] = merged[2]]

\* A copy holds what the original held when it was made.
Copy(o, original) ==
  /\ entries' = [entries EXCEPT ![o] = entries[original]]
  /\ next' = [next EXCEPT ![o] = next[original]]

\* Written as text and read again: only what is known of the keys is lost.
Recall(o) ==
  /\ UNCHANGED entries
  /\ \E k \in KeysOf(entries[o]) \cup {-1} :
       /\ \A j \in KeysOf(entries[o]) : j <= k
       /\ next' = [next EXCEPT ![o] = k + 1]

MapNext ==
  \E o \in Owners :
    \/ AddEntry(o) \/ RemoveEntry(o)
    \/ \E p \in Owners : Merge(o, p) \/ Copy(o, p)
    \/ Recall(o)

MapSpec == MapInit /\ [][MapNext]_mapVars
=============================================================================
