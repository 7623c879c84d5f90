------------------------- MODULE PaRingBufferProofs -------------------------
(***************************************************************************)
(* Proofs about PaRingBuffer, for every buffer size, request size and      *)
(* number of elements: type correctness, that reads return the written     *)
(* elements in order with no data race between the two copies, and that    *)
(* the ring buffer implements the bounded FIFO of PaFifo: each step of a   *)
(* thread is a push, a pop, a drop, or changes nothing a client sees.      *)
(***************************************************************************)
EXTENDS PaRingBuffer, NumberTheorems, SequenceTheorems, TLAPS

-----------------------------------------------------------------------------
(* Arithmetic of the two masks.                                            *)

LEMMA SlotLemma ==
  ASSUME NEW a \in Nat, NEW c \in 0..N, NEW k \in 0..c-1
  PROVE  /\ RegionSlot(a % (2 * N), c, k) = (a + k) % N
         /\ RegionSlot(a % (2 * N), c, k) \in 0..N-1
<1> USE NAssumption
<1> DEFINE s == a % N
           x == s + k
<1>0. a \in Int /\ k \in Int OBVIOUS
<1>1. (a % (2 * N)) % N = s BY <1>0, ModDouble
<1>2. s \in 0..N-1 BY DivMod
<1>3. (a + k) % N = x % N BY <1>0, ModSum
<1>4. CASE x < N
  <2>0. x \in 0..N-1 /\ N * 0 + x = x BY <1>2, <1>4
  <2>1. (N * 0 + x) % N = x BY <2>0, ModUnique
  <2>2. RegionSlot(a % (2 * N), c, k) = x BY <1>1, <1>2, <1>4 DEF RegionSlot
  <2> QED BY <1>2, <1>3, <1>4, <2>1, <2>2
<1>5. CASE x >= N
  <2>1. x - N \in 0..N-1 BY <1>2, <1>5
  <2>2. (N * 1 + (x - N)) % N = x - N BY <2>1, ModUnique
  <2>3. RegionSlot(a % (2 * N), c, k) = x - N BY <1>1, <1>2, <1>5 DEF RegionSlot
  <2> QED BY <1>2, <1>3, <2>1, <2>2, <2>3
<1> QED BY <1>2, <1>4, <1>5

-----------------------------------------------------------------------------
(* The inductive invariant.                                                *)

\* The elements whose slots the writer can see to be free.
Freed ==
  IF rPending = NoStore THEN received
                        ELSE received - GetReadAvailable(rPending, readIndex)

\* Every index is its position modulo 2 * N, and the four positions are in
\* order within one buffer length.
Positions ==
  /\ Freed \in Nat /\ Published \in Nat
  /\ Freed <= received /\ received <= Published
  /\ Published <= sent /\ sent <= Freed + N
  /\ writeIndex = Published % (2 * N) /\ OwnWriteIndex = sent % (2 * N)
  /\ readIndex = Freed % (2 * N)      /\ OwnReadIndex = received % (2 * N)

\* What is written and not yet read is stored where the reader looks for it.
Stored == \A p \in received..sent-1 : buffer[p % N] = base + p

StoreOf(k) == [slot |-> (sent + k) % N, value |-> base + sent + k]
LoadOf(k)  == [offset |-> k, slot |-> (received + k) % N]

WriterInv ==
  /\ wpc # "copied" => wStores = {}
  /\ wpc # "idle" => sent + wCount <= Freed + N
  /\ \A store \in wStores : \E k \in 0..wCount-1 : store = StoreOf(k)
  /\ wpc = "copied" => \A k \in 0..wCount-1 :
       StoreOf(k) \in wStores \/ buffer[(sent + k) % N] = base + sent + k

ReaderInv ==
  /\ rpc # "copied" => rLoads = {}
  /\ rpc # "idle" /\ rAvail # Unknown => received + rAvail <= Published
  /\ rpc = "copied" => rCount = IF rAvail = Unknown THEN 0 ELSE Clip(rWant, rAvail)
  /\ \A load \in rLoads : \E k \in 0..rCount-1 : load = LoadOf(k)
  /\ rpc = "copied" => \A k \in 0..rCount-1 :
       LoadOf(k) \in rLoads \/ got[k] = base + received + k

Inv == TypeOK /\ Positions /\ Stored /\ WriterInv /\ ReaderInv

LEMMA Doubled == N \in Nat \ {0} /\ 2 * N \in Nat \ {0} /\ 2 * N > N /\ 2 * N \in Int
BY NAssumption

LEMMA Wrapped == ASSUME NEW a \in Int PROVE a % (2 * N) \in 0..2*N-1
BY Doubled, DivMod

\* GetReadAvailable and GetWriteAvailable, in terms of positions.
LEMMA Available ==
  ASSUME TypeOK, Positions
  PROVE  /\ GetReadAvailable(writeIndex, OwnReadIndex) = Published - received
         /\ GetWriteAvailable(OwnWriteIndex, readIndex) = N - (sent - Freed)
         /\ Published - received \in 0..N /\ sent - Freed \in 0..N
         /\ sent \in Int /\ received \in Int /\ Freed \in Int /\ Published \in Int
<1>1. /\ Published \in Int /\ received \in Int /\ sent \in Int /\ Freed \in Int
      /\ Published - received \in 0..2*N-1 /\ sent - Freed \in 0..2*N-1
      /\ Published - received \in 0..N /\ sent - Freed \in 0..N
  BY Doubled DEF TypeOK, Positions
<1>2. ((Published % (2*N)) - (received % (2*N))) % (2*N) = Published - received
  BY <1>1, Doubled, ModDifference
<1>3. ((sent % (2*N)) - (Freed % (2*N))) % (2*N) = sent - Freed
  BY <1>1, Doubled, ModDifference
<1> QED BY <1>1, <1>2, <1>3 DEF Positions, GetReadAvailable, GetWriteAvailable

LEMMA InitInv == Init => Inv
<1> SUFFICES ASSUME Init PROVE Inv OBVIOUS
<1> USE Doubled DEF Init, NoStore, Unknown, Garbage
<1>1. 0 % (2 * N) = 0
  <2>1. ((2 * N) * 0 + 0) % (2 * N) = 0 BY ModUnique
  <2> QED BY <2>1
<1>2. TypeOK BY DEF TypeOK
<1>3. Positions
  <2>1. Freed = 0 /\ Published = 0 BY DEF Freed, Published
  <2> QED BY <1>1, <2>1 DEF Positions, OwnWriteIndex, OwnReadIndex
<1>4. Stored BY DEF Stored
<1>5. WriterInv BY DEF WriterInv
<1>6. ReaderInv BY DEF ReaderInv
<1> QED BY <1>2, <1>3, <1>4, <1>5, <1>6 DEF Inv

LEMMA GetWriteRegionsInv ==
  ASSUME Inv, NEW n \in 1..MaxRequest, GetWriteRegions(n)
  PROVE  Inv'
<1> USE Doubled DEF GetWriteRegions, memory, reader
<1> DEFINE count == Clip(n, GetWriteAvailable(OwnWriteIndex, readIndex))
<1>1. n \in Nat BY RequestAssumption
<1>2. GetWriteAvailable(OwnWriteIndex, readIndex) = N - (sent - Freed)
      /\ sent - Freed \in 0..N /\ sent \in Int /\ Freed \in Int
  BY Available DEF Inv
<1>3. count \in 0..N /\ sent + count <= Freed + N BY <1>1, <1>2 DEF Clip
<1>4. wCount' = count OBVIOUS
<1> HIDE DEF count
<1>5. TypeOK' BY <1>3, <1>4 DEF Inv, TypeOK
<1>6. Freed' = Freed /\ Published' = Published /\ OwnWriteIndex' = OwnWriteIndex
      /\ OwnReadIndex' = OwnReadIndex
  BY DEF Freed, Published, OwnWriteIndex, OwnReadIndex
<1>7. Positions' BY <1>6 DEF Inv, Positions
<1>8. Stored' BY DEF Inv, Stored
<1>9. WriterInv'
  <2>1. wStores' = {} /\ wpc' = "regions" BY DEF Inv, WriterInv
  <2> QED BY <1>3, <1>4, <1>6, <2>1 DEF WriterInv
<1>10. ReaderInv' BY <1>6 DEF Inv, ReaderInv, LoadOf
<1> QED BY <1>5, <1>7, <1>8, <1>9, <1>10 DEF Inv

LEMMA CopyInInv == ASSUME Inv, CopyIn PROVE Inv'
<1> USE Doubled DEF CopyIn, memory, reader
<1>1. wStores = {} /\ wpc' = "copied" /\ sent + wCount <= Freed + N
  BY DEF Inv, WriterInv
<1>2. \A k \in 0..wCount-1 :
        /\ RegionSlot(OwnWriteIndex, wCount, k) = (sent + k) % N
        /\ (sent + k) % N \in 0..N-1
  <2>1. sent \in Nat /\ wCount \in 0..N /\ OwnWriteIndex = sent % (2 * N)
    BY DEF Inv, TypeOK, Positions
  <2> QED BY <2>1, SlotLemma
<1>3. wStores' = {StoreOf(k) : k \in 0..wCount-1} BY <1>1, <1>2 DEF StoreOf
<1>4. TypeOK'
  <2>1. \A k \in 0..wCount-1 : StoreOf(k) \in [slot : 0..N-1, value : Int]
    BY <1>2 DEF StoreOf, Inv, TypeOK
  <2> QED BY <1>3, <2>1 DEF Inv, TypeOK
<1>5. Freed' = Freed /\ Published' = Published /\ OwnWriteIndex' = OwnWriteIndex
      /\ OwnReadIndex' = OwnReadIndex
  BY DEF Freed, Published, OwnWriteIndex, OwnReadIndex
<1>6. Positions' BY <1>5 DEF Inv, Positions
<1>7. Stored' BY DEF Inv, Stored
<1>8. WriterInv'
  <2>1. \A k : StoreOf(k)' = StoreOf(k) BY DEF StoreOf
  <2> QED BY <1>1, <1>3, <1>5, <2>1 DEF WriterInv
<1>9. ReaderInv' BY <1>5 DEF Inv, ReaderInv, LoadOf
<1> QED BY <1>4, <1>6, <1>7, <1>8, <1>9 DEF Inv

LEMMA PerformStoreInv ==
  ASSUME Inv, NEW store \in wStores, PerformStore(store)
  PROVE  Inv'
<1> USE Doubled DEF PerformStore, reader
<1>1. wpc = "copied" BY DEF Inv, WriterInv
<1>2. PICK j \in 0..wCount-1 : store = StoreOf(j) BY DEF Inv, WriterInv
<1>3. store.slot = (sent + j) % N /\ store.value = base + sent + j
      /\ store.slot \in 0..N-1 /\ store.value \in Int
  BY <1>2 DEF StoreOf, Inv, TypeOK
<1>4. TypeOK' BY <1>3 DEF Inv, TypeOK
<1>5. Freed' = Freed /\ Published' = Published /\ OwnWriteIndex' = OwnWriteIndex
      /\ OwnReadIndex' = OwnReadIndex
  BY DEF Freed, Published, OwnWriteIndex, OwnReadIndex
<1>6. Positions' BY <1>5 DEF Inv, Positions
<1>7. Stored'
  <2> SUFFICES ASSUME NEW p \in received..sent-1 PROVE buffer'[p % N] = base + p
    BY DEF Stored
  <2>0. p \in Int BY DEF Inv, TypeOK
  <2>1. p % N \in 0..N-1 BY <2>0, DivMod
  <2>2. p \in Int /\ sent + j \in Int /\ (sent + j) - p \in 1..N-1
    BY <1>1 DEF Inv, TypeOK, Positions, WriterInv
  <2>3. p % N # (sent + j) % N BY <2>2, ModDistinct
  <2> QED BY <1>3, <2>1, <2>3 DEF Inv, Stored, TypeOK
<1>8. WriterInv'
  <2>1. \A k : StoreOf(k)' = StoreOf(k) BY DEF StoreOf
  <2>2. ASSUME NEW k \in 0..wCount-1
        PROVE  StoreOf(k) \in wStores' \/ buffer'[(sent + k) % N] = base + sent + k
    <3>1. CASE StoreOf(k) \in wStores /\ StoreOf(k) # store BY <3>1
    <3>2. CASE StoreOf(k) = store
      <4>1. store.slot = (sent + k) % N /\ store.value = base + sent + k
        BY <3>2 DEF StoreOf
      <4> QED BY <1>3, <4>1 DEF Inv, TypeOK
    <3>3. CASE StoreOf(k) \notin wStores /\ StoreOf(k) # store
      <4>1. buffer[(sent + k) % N] = base + sent + k
        BY <1>1, <3>3 DEF Inv, WriterInv
      <4>2. k # j BY <1>2, <3>3
      <4>3. (sent + k) % N # (sent + j) % N
        <5>1. sent + k \in Int /\ sent + j \in Int BY DEF Inv, TypeOK
        <5>2. (sent + j) - (sent + k) \in 1..N-1 \/ (sent + k) - (sent + j) \in 1..N-1
          BY <4>2 DEF Inv, TypeOK
        <5> QED BY <5>1, <5>2, ModDistinct
      <4>4. (sent + k) % N \in 0..N-1
        <5>1. sent + k \in Int BY DEF Inv, TypeOK
        <5> QED BY <5>1, DivMod
      <4> QED BY <1>3, <4>1, <4>3, <4>4 DEF Inv, TypeOK
    <3> QED BY <3>1, <3>2, <3>3
  <2>3. \A st \in wStores' : \E k \in 0..wCount-1 : st = StoreOf(k)
    BY DEF Inv, WriterInv
  <2>4. wpc' = "copied" /\ sent' + wCount' <= Freed' + N
    BY <1>1, <1>5 DEF Inv, WriterInv
  <2> QED BY <2>1, <2>2, <2>3, <2>4 DEF WriterInv
<1>9. ReaderInv' BY <1>5 DEF Inv, ReaderInv, LoadOf
<1> QED BY <1>4, <1>6, <1>7, <1>8, <1>9 DEF Inv

LEMMA AdvanceWriteIndexInv == ASSUME Inv, AdvanceWriteIndex PROVE Inv'
<1> USE Doubled DEF AdvanceWriteIndex, memory, reader
<1> DEFINE index == Advance(OwnWriteIndex, wCount)
<1>1. /\ wPending = NoStore /\ wStores = {} /\ wpc = "copied" /\ wpc' = "idle"
      /\ wPending' = index /\ sent' = sent + wCount /\ wStores' = {}
      /\ writeIndex' = writeIndex
  BY DEF WriteMemoryBarrier
<1>2. /\ wCount \in 0..N /\ sent \in Nat /\ received \in Nat /\ base \in Nat
      /\ Freed \in Nat /\ received <= sent /\ sent + wCount <= Freed + N
      /\ Published = sent /\ writeIndex = sent % (2 * N)
      /\ OwnWriteIndex = sent % (2 * N)
  BY <1>1 DEF Inv, TypeOK, Positions, WriterInv, Published
<1>3. index = (sent + wCount) % (2 * N)
  BY <1>2, ModSum DEF Advance
<1>4. index \in 0..2*N-1 /\ index # NoStore
  <2>1. sent + wCount \in Int BY <1>2
  <2>2. index \in 0..2*N-1 BY <1>3, <2>1, Wrapped
  <2> QED BY <2>2 DEF NoStore
<1> HIDE DEF index
<1>5. GetReadAvailable(index, writeIndex) = wCount
  <2>1. /\ (sent + wCount) - sent = wCount /\ (sent + wCount) - sent \in 0..(2*N)-1
        /\ sent + wCount \in Int /\ sent \in Int
    BY <1>2
  <2>2. (((sent + wCount) % (2*N)) - (sent % (2*N))) % (2*N) = (sent + wCount) - sent
    BY <2>1, ModDifference
  <2> QED BY <1>2, <1>3, <2>1, <2>2 DEF GetReadAvailable
<1>6. Freed' = Freed /\ OwnReadIndex' = OwnReadIndex BY DEF Freed, OwnReadIndex
<1>7. OwnWriteIndex' = index /\ Published' = sent
  <2>1. Published' = sent' - GetReadAvailable(wPending', writeIndex')
    BY <1>1, <1>4 DEF Published
  <2>2. Published' = (sent + wCount) - wCount BY <1>1, <1>5, <2>1
  <2> QED BY <1>1, <1>2, <1>4, <2>2 DEF OwnWriteIndex
<1>8. TypeOK' BY <1>1, <1>2, <1>4 DEF Inv, TypeOK
<1>9. Positions'
  <2>1. sent <= sent + wCount /\ sent + wCount <= Freed + N BY <1>2
  <2>2. readIndex' = readIndex /\ received' = received BY DEF AdvanceWriteIndex
  <2>3. /\ readIndex = Freed % (2*N) /\ OwnReadIndex = received % (2*N)
        /\ Freed <= received
    BY DEF Inv, Positions
  <2> QED BY <1>1, <1>2, <1>3, <1>6, <1>7, <2>1, <2>2, <2>3 DEF Positions
<1>10. Stored'
  <2>1. ASSUME NEW p \in received..((sent + wCount) - 1)
        PROVE  buffer[p % N] = base + p
    <3>1. CASE p <= sent - 1 BY <1>2, <3>1 DEF Inv, Stored
    <3>2. CASE p > sent - 1
      <4>1. p - sent \in 0..wCount-1 /\ sent + (p - sent) = p
            /\ base + sent + (p - sent) = base + p
        BY <1>2, <3>2
      <4>2. buffer[(sent + (p - sent)) % N] = base + sent + (p - sent)
        BY <1>1, <4>1 DEF Inv, WriterInv
      <4> QED BY <4>1, <4>2
    <3> QED BY <1>2, <3>1, <3>2
  <2>2. received' = received /\ buffer' = buffer /\ base' = base OBVIOUS
  <2> QED BY <1>1, <2>1, <2>2, Zenon DEF Stored
<1>11. WriterInv' BY <1>1 DEF WriterInv
<1>12. ReaderInv'
  <2>1. Published' = Published BY <1>2, <1>7
  <2> QED BY <2>1 DEF Inv, ReaderInv, LoadOf
<1> QED BY <1>8, <1>9, <1>10, <1>11, <1>12 DEF Inv

LEMMA PerformWriteIndexStoreInv ==
  ASSUME Inv, PerformWriteIndexStore
  PROVE  Inv'
<1> USE Doubled DEF PerformWriteIndexStore, reader
<1>1. /\ writeIndex' = wPending /\ wPending' = NoStore /\ wPending # NoStore
      /\ sent' = sent /\ OwnWriteIndex = wPending
  BY DEF OwnWriteIndex
<1>2. TypeOK' BY <1>1 DEF Inv, TypeOK
<1>3. Freed' = Freed /\ Published' = sent /\ OwnWriteIndex' = OwnWriteIndex
      /\ OwnReadIndex' = OwnReadIndex
  BY <1>1 DEF Freed, Published, OwnWriteIndex, OwnReadIndex
<1>4. Published <= sent /\ Published \in Int /\ sent \in Nat /\ received \in Nat
      /\ received <= Published
  BY DEF Inv, Positions, TypeOK
<1>5. Positions'
  <2>1. received <= sent BY <1>4
  <2> QED BY <1>1, <1>3, <1>4, <2>1 DEF Inv, Positions
<1>6. Stored' BY DEF Inv, Stored
<1>7. WriterInv'
  <2>1. \A k : StoreOf(k)' = StoreOf(k) BY DEF StoreOf
  <2> QED BY <1>3, <2>1 DEF Inv, WriterInv
<1>8. ReaderInv'
  <2>1. rpc # "idle" /\ rAvail # Unknown => received + rAvail <= sent
    <3> SUFFICES ASSUME rpc # "idle", rAvail # Unknown PROVE received + rAvail <= sent
      OBVIOUS
    <3>1. received + rAvail <= Published /\ rAvail \in Int
      BY DEF Inv, ReaderInv, TypeOK
    <3> QED BY <1>4, <3>1
  <2>2. \A k : LoadOf(k)' = LoadOf(k) BY DEF LoadOf
  <2> QED BY <1>3, <2>1, <2>2 DEF Inv, ReaderInv
<1> QED BY <1>2, <1>5, <1>6, <1>7, <1>8 DEF Inv

LEMMA GetReadRegionsInv ==
  ASSUME Inv, NEW n \in 1..MaxRequest, GetReadRegions(n)
  PROVE  Inv'
<1> USE Doubled DEF GetReadRegions, memory, writer
<1>1. n \in Nat /\ rLoads = {} BY RequestAssumption DEF Inv, ReaderInv
<1>2. TypeOK' BY <1>1 DEF Inv, TypeOK
<1>3. Freed' = Freed /\ Published' = Published /\ OwnWriteIndex' = OwnWriteIndex
      /\ OwnReadIndex' = OwnReadIndex
  BY DEF Freed, Published, OwnWriteIndex, OwnReadIndex
<1>4. Positions' BY <1>3 DEF Inv, Positions
<1>5. Stored' BY DEF Inv, Stored
<1>6. WriterInv'
  <2>1. \A k : StoreOf(k)' = StoreOf(k) BY DEF StoreOf
  <2> QED BY <1>3, <2>1 DEF Inv, WriterInv
<1>7. ReaderInv' BY <1>1 DEF ReaderInv
<1> QED BY <1>2, <1>4, <1>5, <1>6, <1>7 DEF Inv

LEMMA PerformWriteIndexLoadInv ==
  ASSUME Inv, PerformWriteIndexLoad
  PROVE  Inv'
<1> USE Doubled DEF PerformWriteIndexLoad, memory, writer
<1> DEFINE available == GetReadAvailable(writeIndex, OwnReadIndex)
<1>1. available = Published - received /\ available \in 0..N
      /\ Published \in Int /\ received \in Int
  BY Available DEF Inv
<1>2. received + available <= Published /\ available # Unknown
  BY <1>1 DEF Unknown
<1>3. rAvail' = available /\ rWant' = rWant /\ rCount' = rCount OBVIOUS
<1>4. rpc = "copied" => rCount = 0 BY DEF Inv, ReaderInv
<1>5. rLoads = {}
  BY <1>4 DEF Inv, ReaderInv, TypeOK
<1> HIDE DEF available
<1>6. rLoads' = {} /\ rpc' \in {"regions", "copied"}
  BY <1>5 DEF Inv, TypeOK
<1>7. rpc' = "copied" => rCount = Clip(rWant, available) /\ rCount = 0
  BY <1>3, <1>4
<1>8. TypeOK' BY <1>1, <1>3, <1>6 DEF Inv, TypeOK
<1>9. Freed' = Freed /\ Published' = Published /\ OwnWriteIndex' = OwnWriteIndex
      /\ OwnReadIndex' = OwnReadIndex
  BY DEF Freed, Published, OwnWriteIndex, OwnReadIndex
<1>10. Positions' BY <1>9 DEF Inv, Positions
<1>11. Stored' BY DEF Inv, Stored
<1>12. WriterInv'
  <2>1. \A k : StoreOf(k)' = StoreOf(k) BY DEF StoreOf
  <2> QED BY <1>9, <2>1 DEF Inv, WriterInv
<1>13. ReaderInv' BY <1>2, <1>3, <1>6, <1>7, <1>9 DEF ReaderInv
<1> QED BY <1>8, <1>10, <1>11, <1>12, <1>13 DEF Inv

LEMMA CopyOutInv == ASSUME Inv, CopyOut PROVE Inv'
<1> USE Doubled DEF CopyOut, memory, writer
<1>1. PICK available \in (IF rAvail = Unknown THEN 0..N ELSE {rAvail}) :
        /\ available > 0 => ReadMemoryBarrier
        /\ rCount' = Clip(rWant, available)
        /\ rLoads' = {[offset |-> k, slot |-> RegionSlot(OwnReadIndex, rCount', k)]
                       : k \in 0..rCount'-1}
  OBVIOUS
<1> DEFINE count == Clip(rWant, available)
<1>2. available \in 0..N /\ rWant \in Nat /\ received \in Nat
      /\ OwnReadIndex = received % (2 * N)
  BY <1>1 DEF Inv, TypeOK, Positions
<1>3. count \in 0..N /\ rCount' = count BY <1>1, <1>2 DEF Clip
<1>4. rAvail = Unknown => count = 0
  <2>1. rAvail = Unknown => ~(available > 0) BY <1>1 DEF ReadMemoryBarrier
  <2> QED BY <1>2, <2>1 DEF Clip
<1>5. rAvail # Unknown => count = Clip(rWant, rAvail) BY <1>1
<1> HIDE DEF count
<1>6. \A k \in 0..count-1 :
        /\ RegionSlot(OwnReadIndex, count, k) = (received + k) % N
        /\ (received + k) % N \in 0..N-1
  BY <1>2, <1>3, SlotLemma
<1>7. rLoads' = {LoadOf(k) : k \in 0..count-1} BY <1>1, <1>3, <1>6 DEF LoadOf
<1>8. TypeOK'
  <2>1. \A k \in 0..count-1 : LoadOf(k) \in [offset : 0..N-1, slot : 0..N-1]
    BY <1>3, <1>6 DEF LoadOf
  <2> QED BY <1>3, <1>7, <2>1 DEF Inv, TypeOK
<1>9. Freed' = Freed /\ Published' = Published /\ OwnWriteIndex' = OwnWriteIndex
      /\ OwnReadIndex' = OwnReadIndex
  BY DEF Freed, Published, OwnWriteIndex, OwnReadIndex
<1>10. Positions' BY <1>9 DEF Inv, Positions
<1>11. Stored' BY DEF Inv, Stored
<1>12. WriterInv'
  <2>1. \A k : StoreOf(k)' = StoreOf(k) BY DEF StoreOf
  <2> QED BY <1>9, <2>1 DEF Inv, WriterInv
<1>13. ReaderInv'
  <2>1. \A k : LoadOf(k)' = LoadOf(k) BY DEF LoadOf
  <2>2. /\ rpc = "regions" /\ rpc' = "copied" /\ rAvail' = rAvail
        /\ rWant' = rWant /\ received' = received
    OBVIOUS
  <2>3. rAvail # Unknown => received + rAvail <= Published
    BY <2>2 DEF Inv, ReaderInv
  <2> QED BY <1>3, <1>4, <1>5, <1>7, <1>9, <2>1, <2>2, <2>3 DEF ReaderInv
<1> QED BY <1>8, <1>10, <1>11, <1>12, <1>13 DEF Inv

\* What the reader is copying lies within what has been published.
LEMMA CopiedPublished ==
  ASSUME Inv, rpc = "copied"
  PROVE  rCount \in 0..N /\ received + rCount <= Published
<1>1. /\ rCount \in 0..N /\ rWant \in Nat /\ received \in Nat /\ Published \in Nat
      /\ received <= Published
  BY DEF Inv, TypeOK, Positions
<1>2. CASE rAvail = Unknown
  <2>1. rCount = 0 BY <1>2 DEF Inv, ReaderInv
  <2> QED BY <1>1, <2>1
<1>3. CASE rAvail # Unknown
  <2>1. rCount = Clip(rWant, rAvail) /\ received + rAvail <= Published
        /\ rAvail \in 0..N
    BY <1>3 DEF Inv, ReaderInv, TypeOK
  <2>2. rCount <= rAvail BY <1>1, <2>1 DEF Clip
  <2> QED BY <1>1, <2>1, <2>2
<1> QED BY <1>2, <1>3

LEMMA PerformLoadInv ==
  ASSUME Inv, NEW load \in rLoads, PerformLoad(load)
  PROVE  Inv'
<1> USE Doubled DEF PerformLoad, memory, writer
<1>1. rpc = "copied" BY DEF Inv, ReaderInv
<1>2. PICK j \in 0..rCount-1 : load = LoadOf(j) BY DEF Inv, ReaderInv
<1>3. /\ load.offset = j /\ load.slot = (received + j) % N
      /\ load.offset \in 0..N-1 /\ load.slot \in 0..N-1
  BY <1>2 DEF LoadOf, Inv, TypeOK
<1>4. buffer[load.slot] = base + received + j
  <2>1. /\ rCount \in Int /\ received \in Int /\ Published \in Int /\ sent \in Int
        /\ base \in Int /\ Published <= sent
    BY DEF Inv, TypeOK, Positions
  <2>4. received + rCount <= Published BY <1>1, CopiedPublished
  <2>2. received + j \in received..sent-1 BY <2>1, <2>4
  <2>3. buffer[(received + j) % N] = base + (received + j)
    BY <2>2 DEF Inv, Stored
  <2> QED BY <1>3, <2>1, <2>3
<1>5. buffer[load.slot] \in Int BY <1>3 DEF Inv, TypeOK
<1>6. TypeOK' BY <1>3, <1>5 DEF Inv, TypeOK
<1>7. Freed' = Freed /\ Published' = Published /\ OwnWriteIndex' = OwnWriteIndex
      /\ OwnReadIndex' = OwnReadIndex
  BY DEF Freed, Published, OwnWriteIndex, OwnReadIndex
<1>8. Positions' BY <1>7 DEF Inv, Positions
<1>9. Stored' BY DEF Inv, Stored
<1>10. WriterInv'
  <2>1. \A k : StoreOf(k)' = StoreOf(k) BY DEF StoreOf
  <2> QED BY <1>7, <2>1 DEF Inv, WriterInv
<1>11. ReaderInv'
  <2>1. \A k : LoadOf(k)' = LoadOf(k) BY DEF LoadOf
  <2>2. ASSUME NEW k \in 0..rCount-1
        PROVE  LoadOf(k) \in rLoads' \/ got'[k] = base + received + k
    <3>1. k \in 0..N-1 BY DEF Inv, TypeOK
    <3>2. CASE k = j BY <1>3, <1>4, <3>1, <3>2 DEF Inv, TypeOK
    <3>3. CASE k # j
      <4>1. LoadOf(k) # load /\ got'[k] = got[k]
        BY <1>3, <3>1, <3>3, SMTT(30) DEF LoadOf, Inv, TypeOK
      <4> QED BY <1>1, <4>1 DEF Inv, ReaderInv
    <3> QED BY <3>2, <3>3
  <2>3. \A l \in rLoads' : \E k \in 0..rCount-1 : l = LoadOf(k)
    BY DEF Inv, ReaderInv
  <2>4. /\ rpc' = rpc /\ rAvail' = rAvail /\ rCount' = rCount /\ rWant' = rWant
        /\ received' = received /\ base' = base
    OBVIOUS
  <2> QED BY <1>1, <1>7, <2>1, <2>2, <2>3, <2>4 DEF Inv, ReaderInv
<1> QED BY <1>6, <1>8, <1>9, <1>10, <1>11 DEF Inv

LEMMA AdvanceReadIndexInv == ASSUME Inv, AdvanceReadIndex PROVE Inv'
<1> USE Doubled DEF AdvanceReadIndex, memory, writer
<1> DEFINE index == Advance(OwnReadIndex, rCount)
<1>1. /\ rPending = NoStore /\ rLoads = {} /\ rpc = "copied" /\ rpc' = "idle"
      /\ rPending' = index /\ received' = received + rCount /\ rLoads' = {}
      /\ readIndex' = readIndex
  BY DEF ReaderFullMemoryBarrier
<1>2. /\ rCount \in 0..N /\ received \in Nat /\ Freed = received
      /\ Published \in Nat /\ received + rCount <= Published
      /\ readIndex = received % (2 * N) /\ OwnReadIndex = received % (2 * N)
  BY <1>1, CopiedPublished DEF Inv, TypeOK, Positions, Freed
<1>3. index = (received + rCount) % (2 * N) BY <1>2, ModSum DEF Advance
<1>4. index \in 0..2*N-1 /\ index # NoStore
  <2>1. received + rCount \in Int BY <1>2
  <2>2. index \in 0..2*N-1 BY <1>3, <2>1, Wrapped
  <2> QED BY <2>2 DEF NoStore
<1> HIDE DEF index
<1>5. GetReadAvailable(index, readIndex) = rCount
  <2>1. /\ (received + rCount) - received = rCount
        /\ (received + rCount) - received \in 0..(2*N)-1
        /\ received + rCount \in Int /\ received \in Int
    BY <1>2
  <2>2. (((received + rCount) % (2*N)) - (received % (2*N))) % (2*N)
          = (received + rCount) - received
    BY <2>1, ModDifference
  <2> QED BY <1>2, <1>3, <2>1, <2>2 DEF GetReadAvailable
<1>6. Published' = Published /\ OwnWriteIndex' = OwnWriteIndex
  BY DEF Published, OwnWriteIndex
<1>7. OwnReadIndex' = index /\ Freed' = received
  <2>1. Freed' = received' - GetReadAvailable(rPending', readIndex')
    BY <1>1, <1>4 DEF Freed
  <2>2. Freed' = (received + rCount) - rCount BY <1>1, <1>5, <2>1
  <2> QED BY <1>1, <1>2, <1>4, <2>2 DEF OwnReadIndex
<1>8. TypeOK' BY <1>1, <1>2, <1>4 DEF Inv, TypeOK
<1>9. Positions'
  <2>1. received <= received + rCount /\ received + rCount <= Published BY <1>2
  <2>2. writeIndex' = writeIndex /\ sent' = sent OBVIOUS
  <2>3. /\ writeIndex = Published % (2*N) /\ OwnWriteIndex = sent % (2*N)
        /\ Published <= sent /\ sent <= received + N
    BY <1>2 DEF Inv, Positions
  <2> QED BY <1>1, <1>2, <1>3, <1>6, <1>7, <2>1, <2>2, <2>3 DEF Positions
<1>10. Stored'
  <2>1. ASSUME NEW p \in (received + rCount)..(sent - 1)
        PROVE  buffer[p % N] = base + p
    <3>1. p \in received..sent-1 BY <1>2
    <3> QED BY <3>1 DEF Inv, Stored
  <2>2. sent' = sent /\ buffer' = buffer /\ base' = base OBVIOUS
  <2> QED BY <1>1, <2>1, <2>2, Zenon DEF Stored
<1>11. WriterInv'
  <2>1. \A k : StoreOf(k)' = StoreOf(k) BY DEF StoreOf
  <2>2. Freed' = Freed BY <1>2, <1>7
  <2> QED BY <2>1, <2>2 DEF Inv, WriterInv
<1>12. ReaderInv' BY <1>1 DEF ReaderInv
<1> QED BY <1>8, <1>9, <1>10, <1>11, <1>12 DEF Inv

LEMMA PerformReadIndexStoreInv ==
  ASSUME Inv, PerformReadIndexStore
  PROVE  Inv'
<1> USE Doubled DEF PerformReadIndexStore, writer
<1>1. /\ readIndex' = rPending /\ rPending' = NoStore /\ rPending # NoStore
      /\ received' = received /\ OwnReadIndex = rPending
  BY DEF OwnReadIndex
<1>2. TypeOK' BY <1>1 DEF Inv, TypeOK
<1>3. Freed' = received /\ Published' = Published
      /\ OwnWriteIndex' = OwnWriteIndex /\ OwnReadIndex' = OwnReadIndex
  BY <1>1 DEF Freed, Published, OwnWriteIndex, OwnReadIndex
<1>4. /\ Freed \in Nat /\ received \in Nat /\ sent \in Nat /\ Freed <= received
      /\ sent <= Freed + N /\ wCount \in Nat
  BY DEF Inv, TypeOK, Positions
<1>5. sent <= received + N BY <1>4
<1>6. Positions' BY <1>1, <1>3, <1>4, <1>5 DEF Inv, Positions
<1>7. Stored' BY DEF Inv, Stored
<1>8. WriterInv'
  <2>1. wpc # "idle" => sent + wCount <= received + N
    BY <1>4 DEF Inv, WriterInv
  <2>2. \A k : StoreOf(k)' = StoreOf(k) BY DEF StoreOf
  <2> QED BY <1>3, <2>1, <2>2 DEF Inv, WriterInv
<1>9. ReaderInv'
  <2>1. \A k : LoadOf(k)' = LoadOf(k) BY DEF LoadOf
  <2> QED BY <1>3, <2>1 DEF Inv, ReaderInv
<1> QED BY <1>2, <1>6, <1>7, <1>8, <1>9 DEF Inv

LEMMA FlushInv == ASSUME Inv, Flush PROVE Inv'
<1> USE Doubled DEF Flush
<1>1. TypeOK' BY DEF Inv, TypeOK
<1>2. 0 % (2 * N) = 0
  <2>1. ((2 * N) * 0 + 0) % (2 * N) = 0 BY ModUnique
  <2> QED BY <2>1
<1>3. /\ Freed' = 0 /\ Published' = 0 /\ OwnWriteIndex' = 0 /\ OwnReadIndex' = 0
  BY DEF Freed, Published, OwnWriteIndex, OwnReadIndex
<1>4. Positions' BY <1>2, <1>3 DEF Positions
<1>5. Stored' BY DEF Stored
<1>6. WriterInv' BY DEF WriterInv
<1>7. ReaderInv' BY DEF ReaderInv
<1> QED BY <1>1, <1>4, <1>5, <1>6, <1>7 DEF Inv

LEMMA StutterInv == ASSUME Inv, UNCHANGED vars PROVE Inv'
<1> USE DEF vars, memory, writer, reader
<1>1. Freed' = Freed /\ Published' = Published /\ OwnWriteIndex' = OwnWriteIndex
      /\ OwnReadIndex' = OwnReadIndex
  BY DEF Freed, Published, OwnWriteIndex, OwnReadIndex
<1>2. TypeOK' BY DEF Inv, TypeOK
<1>3. Positions' BY <1>1 DEF Inv, Positions
<1>4. Stored' BY DEF Inv, Stored
<1>5. WriterInv'
  <2>1. \A k : StoreOf(k)' = StoreOf(k) BY DEF StoreOf
  <2> QED BY <1>1, <2>1 DEF Inv, WriterInv
<1>6. ReaderInv'
  <2>1. \A k : LoadOf(k)' = LoadOf(k) BY DEF LoadOf
  <2> QED BY <1>1, <2>1 DEF Inv, ReaderInv
<1> QED BY <1>2, <1>3, <1>4, <1>5, <1>6 DEF Inv

LEMMA NextInv == ASSUME Inv, [Next]_vars PROVE Inv'
<1>1. CASE \E n \in 1..MaxRequest : GetWriteRegions(n) BY <1>1, GetWriteRegionsInv
<1>2. CASE CopyIn BY <1>2, CopyInInv
<1>3. CASE \E store \in wStores : PerformStore(store) BY <1>3, PerformStoreInv
<1>4. CASE AdvanceWriteIndex BY <1>4, AdvanceWriteIndexInv
<1>5. CASE PerformWriteIndexStore BY <1>5, PerformWriteIndexStoreInv
<1>6. CASE \E n \in 1..MaxRequest : GetReadRegions(n) BY <1>6, GetReadRegionsInv
<1>7. CASE PerformWriteIndexLoad BY <1>7, PerformWriteIndexLoadInv
<1>8. CASE CopyOut BY <1>8, CopyOutInv
<1>9. CASE \E load \in rLoads : PerformLoad(load) BY <1>9, PerformLoadInv
<1>10. CASE AdvanceReadIndex BY <1>10, AdvanceReadIndexInv
<1>11. CASE PerformReadIndexStore BY <1>11, PerformReadIndexStoreInv
<1>12. CASE Flush BY <1>12, FlushInv
<1>13. CASE UNCHANGED vars BY <1>13, StutterInv
<1> QED
  BY <1>1, <1>2, <1>3, <1>4, <1>5, <1>6, <1>7, <1>8, <1>9, <1>10, <1>11, <1>12,
     <1>13 DEF Next

LEMMA Invariance == Spec => []Inv
<1>1. Init => Inv BY InitInv
<1>2. Inv /\ [Next]_vars => Inv' BY NextInv
<1> QED BY <1>1, <1>2, PTL DEF Spec

-----------------------------------------------------------------------------
(* The theorems.                                                           *)

\* Every index, count and pending access of pa_ringbuffer.c stays in range,
\* for every buffer size.
THEOREM TypeCorrect == Spec => []TypeOK
<1>1. Inv => TypeOK BY DEF Inv
<1> QED BY <1>1, Invariance, PTL

\* PaUtil_ReadRingBuffer returns the written elements in order, whole and
\* once, whatever order the barriers leave the accesses in.
THEOREM ReadsInOrderTheorem == Spec => []ReadsInOrder
<1>1. ASSUME Inv PROVE ReadsInOrder
  <2> SUFFICES ASSUME rpc = "copied", rAvail # Unknown, NEW k \in 0..rCount-1,
                      \A load \in rLoads : load.offset # k
               PROVE  got[k] = base + received + k
    BY DEF ReadsInOrder
  <2>1. LoadOf(k).offset = k BY DEF LoadOf
  <2>2. LoadOf(k) \notin rLoads BY <2>1
  <2> QED BY <1>1, <2>2 DEF Inv, ReaderInv
<1> QED BY <1>1, Invariance, PTL

\* The copy into the buffer and the copy out of it never touch one slot at
\* the same time.
THEOREM NoDataRaceTheorem == Spec => []NoDataRace
<1>1. ASSUME Inv PROVE NoDataRace
  <2> SUFFICES ASSUME NEW store \in wStores, NEW load \in rLoads
               PROVE  store.slot # load.slot
    BY DEF NoDataRace
  <2>1. wpc = "copied" /\ rpc = "copied" BY <1>1 DEF Inv, WriterInv, ReaderInv
  <2>2. PICK j \in 0..wCount-1 : store = StoreOf(j) BY <1>1 DEF Inv, WriterInv
  <2>3. PICK k \in 0..rCount-1 : load = LoadOf(k) BY <1>1 DEF Inv, ReaderInv
  <2>4. /\ wCount \in Int /\ rCount \in Int /\ sent \in Int /\ received \in Int
        /\ Published \in Int /\ Freed \in Int /\ N \in Nat \ {0}
        /\ Freed <= received /\ Published <= sent
    BY <1>1, Doubled DEF Inv, TypeOK, Positions
  <2>5. sent + wCount <= Freed + N BY <1>1, <2>1 DEF Inv, WriterInv
  <2>6. received + rCount <= Published BY <1>1, <2>1, CopiedPublished
  <2>7. /\ sent + j \in Int /\ received + k \in Int
        /\ (sent + j) - (received + k) \in 1..N-1
    BY <2>4, <2>5, <2>6
  <2>8. (received + k) % N # (sent + j) % N BY <2>4, <2>7, ModDistinct
  <2> QED BY <2>2, <2>3, <2>8 DEF StoreOf, LoadOf
<1> QED BY <1>1, Invariance, PTL

\* However stale the index it reads, neither thread overestimates what it may
\* read or write.
THEOREM EstimatesAreSafeTheorem == Spec => []EstimatesAreSafe
<1>1. ASSUME Inv PROVE EstimatesAreSafe
  <2>1. /\ GetReadAvailable(writeIndex, OwnReadIndex) = Published - received
        /\ GetWriteAvailable(OwnWriteIndex, readIndex) = N - (sent - Freed)
    BY <1>1, Available DEF Inv
  <2>2. /\ sent \in Int /\ received \in Int /\ Published \in Int /\ Freed \in Int
        /\ N \in Int /\ Freed <= received /\ Published <= sent
    BY <1>1, Doubled DEF Inv, TypeOK, Positions
  <2>3. /\ Published - received <= sent - received
        /\ N - (sent - Freed) <= N - (sent - received)
    BY <2>2
  <2>4. wPending = NoStore => Published = sent BY DEF Published
  <2>5. rPending = NoStore => Freed = received BY DEF Freed
  <2> QED BY <2>1, <2>3, <2>4, <2>5 DEF EstimatesAreSafe
<1> QED BY <1>1, Invariance, PTL

-----------------------------------------------------------------------------
(* Sequences of consecutive numbers.                                       *)

Numbers(first, n) == [i \in 1..n |-> first + i - 1]

LEMMA NumbersSeq ==
  ASSUME NEW first \in Int, NEW n \in Nat
  PROVE  /\ Numbers(first, n) \in Seq(Int) /\ Len(Numbers(first, n)) = n
         /\ \A i \in 1..n : Numbers(first, n)[i] = first + i - 1
<1>1. Numbers(first, n) \in [1..n -> Int] BY DEF Numbers
<1>2. Numbers(first, n) \in Seq(Int) BY <1>1, SeqDef
<1>3. Len(Numbers(first, n)) = n BY <1>2, LenProperties DEF Numbers
<1> QED BY <1>2, <1>3 DEF Numbers

LEMMA NumbersEmpty ==
  ASSUME NEW first \in Int
  PROVE  Numbers(first, 0) = <<>>
<1>1. Numbers(first, 0) \in Seq(Int) /\ Len(Numbers(first, 0)) = 0 BY NumbersSeq
<1> QED BY <1>1, EmptySeq

LEMMA NumbersConcat ==
  ASSUME NEW first \in Int, NEW n \in Nat, NEW k \in Nat
  PROVE  Numbers(first, n) \o Numbers(first + n, k) = Numbers(first, n + k)
<1> DEFINE a == Numbers(first, n)
           b == Numbers(first + n, k)
           c == Numbers(first, n + k)
<1>1. a \in Seq(Int) /\ Len(a) = n /\ \A i \in 1..n : a[i] = first + i - 1
  BY NumbersSeq
<1>2. b \in Seq(Int) /\ Len(b) = k /\ \A i \in 1..k : b[i] = (first + n) + i - 1
  <2>1. first + n \in Int OBVIOUS
  <2> QED BY <2>1, NumbersSeq
<1>3. c \in Seq(Int) /\ Len(c) = n + k /\ \A i \in 1..n+k : c[i] = first + i - 1
  <2>1. n + k \in Nat OBVIOUS
  <2> QED BY <2>1, NumbersSeq
<1> HIDE DEF a, b, c
<1> DEFINE d == a \o b
<1>4. /\ d \in Seq(Int) /\ Len(d) = n + k
      /\ \A i \in 1..n+k : d[i] = IF i <= n THEN a[i] ELSE b[i - n]
  BY <1>1, <1>2, ConcatProperties
<1> HIDE DEF d
<1>5. ASSUME NEW i \in 1..n+k PROVE d[i] = c[i]
  <2>1. CASE i <= n BY <1>1, <1>3, <1>4, <2>1
  <2>2. CASE i > n
    <3>1. i - n \in 1..k BY <2>2
    <3>2. b[i - n] = (first + n) + (i - n) - 1 BY <1>2, <3>1
    <3>3. c[i] = first + i - 1 /\ d[i] = b[i - n] BY <1>3, <1>4, <2>2
    <3> QED BY <3>2, <3>3
  <2> QED BY <2>1, <2>2
<1>6. d = c BY <1>3, <1>4, <1>5, SeqEqual
<1> QED BY <1>6 DEF a, b, c, d

LEMMA NumbersSubSeq ==
  ASSUME NEW first \in Int, NEW n \in Nat, NEW k \in 0..n
  PROVE  /\ SubSeq(Numbers(first, n), 1, k) = Numbers(first, k)
         /\ SubSeq(Numbers(first, n), k + 1, n) = Numbers(first + k, n - k)
<1> DEFINE s == Numbers(first, n)
           p == Numbers(first, k)
           q == Numbers(first + k, n - k)
<1>1. s \in Seq(Int) /\ Len(s) = n /\ \A i \in 1..n : s[i] = first + i - 1
  BY NumbersSeq
<1>2. p \in Seq(Int) /\ Len(p) = k /\ \A i \in 1..k : p[i] = first + i - 1
  BY NumbersSeq
<1>3. /\ q \in Seq(Int) /\ Len(q) = n - k
      /\ \A i \in 1..n-k : q[i] = (first + k) + i - 1
  <2>1. first + k \in Int /\ n - k \in Nat OBVIOUS
  <2> QED BY <2>1, NumbersSeq
<1> HIDE DEF s, p, q
<1>4. SubSeq(s, 1, k) = p
  <2>1. \A i \in 1..k : s[i] \in Int BY <1>1
  <2>2. /\ SubSeq(s, 1, k) \in Seq(Int)
        /\ Len(SubSeq(s, 1, k)) = (IF 1 <= k THEN k - 1 + 1 ELSE 0)
        /\ \A i \in 1..(k-1+1) : SubSeq(s, 1, k)[i] = s[1+i-1]
    BY <2>1, SubSeqProperties
  <2>3. Len(SubSeq(s, 1, k)) = k BY <2>2
  <2>4. \A i \in 1..k : SubSeq(s, 1, k)[i] = p[i] BY <1>1, <1>2, <2>2
  <2> QED BY <1>2, <2>2, <2>3, <2>4, SeqEqual
<1>5. SubSeq(s, k + 1, n) = q
  <2>1. \A i \in k+1..n : s[i] \in Int BY <1>1
  <2>2. k + 1 \in Int /\ n \in Int OBVIOUS
  <2>3. /\ SubSeq(s, k+1, n) \in Seq(Int)
        /\ Len(SubSeq(s, k+1, n)) = (IF k + 1 <= n THEN n - (k + 1) + 1 ELSE 0)
        /\ \A i \in 1..(n-(k+1)+1) : SubSeq(s, k+1, n)[i] = s[(k+1)+i-1]
    BY <2>1, <2>2, SubSeqProperties
  <2>4. Len(SubSeq(s, k+1, n)) = n - k BY <2>3
  <2>5. ASSUME NEW i \in 1..n-k PROVE SubSeq(s, k+1, n)[i] = q[i]
    <3>1. i \in 1..(n-(k+1)+1) /\ (k+1)+i-1 \in 1..n OBVIOUS
    <3>2. SubSeq(s, k+1, n)[i] = s[(k+1)+i-1] BY <2>3, <3>1
    <3>3. s[(k+1)+i-1] = first + ((k+1)+i-1) - 1 BY <1>1, <3>1
    <3>4. q[i] = (first + k) + i - 1 BY <1>3
    <3> QED BY <3>2, <3>3, <3>4
  <2> QED BY <1>3, <2>3, <2>4, <2>5, SeqEqual
<1> QED BY <1>4, <1>5 DEF s, p, q

-----------------------------------------------------------------------------
(* The mapping.  A client sees queue, next and delivered of PaFifo.        *)

FifoQueue == Numbers(base + received, Published - received)
FifoNumber == base + Published

\* Fifo!FifoNext with the names of this module.
MappedPush(k) ==
  /\ Len(FifoQueue) + k <= N
  /\ FifoQueue' = FifoQueue \o Numbers(FifoNumber, k)
  /\ FifoNumber' = FifoNumber + k
  /\ delivered' = delivered
MappedPop(k) ==
  /\ k <= Len(FifoQueue)
  /\ delivered' = SubSeq(FifoQueue, 1, k)
  /\ FifoQueue' = SubSeq(FifoQueue, k + 1, Len(FifoQueue))
  /\ FifoNumber' = FifoNumber
MappedDrop ==
  /\ FifoQueue' = <<>> /\ FifoNumber' = FifoNumber /\ delivered' = delivered

LEMMA PushMapped ==
  ASSUME NEW k \in 1..N, MappedPush(k)
  PROVE  [Fifo!FifoNext]_(Fifo!fifoVars)
<1>1. Fifo!Push(k) BY DEF MappedPush, FifoQueue, FifoNumber, Numbers, Fifo!Push
<1> QED BY <1>1 DEF Fifo!FifoNext

LEMMA PopMapped ==
  ASSUME NEW k \in 0..N, MappedPop(k)
  PROVE  [Fifo!FifoNext]_(Fifo!fifoVars)
<1>1. Fifo!Pop(k) BY DEF MappedPop, FifoQueue, FifoNumber, Numbers, Fifo!Pop
<1> QED BY <1>1 DEF Fifo!FifoNext

LEMMA DropMapped == ASSUME MappedDrop PROVE [Fifo!FifoNext]_(Fifo!fifoVars)
<1>1. Fifo!Drop BY DEF MappedDrop, FifoQueue, FifoNumber, Numbers, Fifo!Drop
<1> QED BY <1>1 DEF Fifo!FifoNext

\* A step that publishes and returns nothing is a stutter.
LEMMA InvisibleMapped ==
  ASSUME base' = base, Published' = Published, received' = received,
         delivered' = delivered
  PROVE  [Fifo!FifoNext]_(Fifo!fifoVars)
BY DEF Fifo!fifoVars

-----------------------------------------------------------------------------
(* The visible steps.                                                      *)

LEMMA PublishMapped ==
  ASSUME Inv, PerformWriteIndexStore
  PROVE  [Fifo!FifoNext]_(Fifo!fifoVars)
<1> DEFINE k == sent - Published
<1>1. /\ Published \in Nat /\ sent \in Nat /\ received \in Nat /\ base \in Nat
      /\ Freed \in Nat /\ N \in Nat
      /\ Freed <= received /\ received <= Published /\ Published <= sent
      /\ sent <= Freed + N
  BY Doubled DEF Inv, TypeOK, Positions
<1>2. /\ base' = base /\ received' = received /\ delivered' = delivered
      /\ Published' = sent
  BY DEF PerformWriteIndexStore, Published, reader
<1>3. CASE k = 0
  <2>1. Published' = Published BY <1>1, <1>2, <1>3
  <2> QED BY <1>2, <2>1, InvisibleMapped
<1>4. CASE k # 0
  <2>1. k \in 1..N /\ Published - received \in Nat /\ base + received \in Int
    BY <1>1, <1>4
  <2>2. Len(FifoQueue) = Published - received
    BY <2>1, NumbersSeq DEF FifoQueue
  <2>3. FifoQueue' = FifoQueue \o Numbers(FifoNumber, k)
    <3>1. FifoNumber = (base + received) + (Published - received)
      BY <1>1 DEF FifoNumber
    <3>2. sent - received = (Published - received) + k BY <1>1
    <3>3. FifoQueue' = Numbers(base + received, sent - received)
      BY <1>2 DEF FifoQueue, Numbers
    <3>4. Numbers(base + received, Published - received)
            \o Numbers((base + received) + (Published - received), k)
          = Numbers(base + received, (Published - received) + k)
      <4>1. k \in Nat BY <2>1
      <4> QED BY <2>1, <4>1, NumbersConcat
    <3> QED BY <3>1, <3>2, <3>3, <3>4 DEF FifoQueue
  <2>4. FifoNumber' = FifoNumber + k BY <1>1, <1>2 DEF FifoNumber
  <2>5. Len(FifoQueue) + k <= N BY <1>1, <2>2
  <2>6. MappedPush(k) BY <1>2, <2>3, <2>4, <2>5 DEF MappedPush
  <2> QED BY <2>1, <2>6, PushMapped
<1> QED BY <1>3, <1>4

\* An advanced index that is still pending publishes nothing.
LEMMA AdvanceKeepsPublished ==
  ASSUME Inv, AdvanceWriteIndex
  PROVE  Published' = Published
<1> USE Doubled
<1> DEFINE index == Advance(OwnWriteIndex, wCount)
<1>1. /\ wPending = NoStore /\ wpc = "copied" /\ wPending' = index
      /\ sent' = sent + wCount /\ writeIndex' = writeIndex
  BY DEF AdvanceWriteIndex, WriteMemoryBarrier, memory
<1>2. /\ wCount \in 0..N /\ sent \in Nat /\ Published = sent
      /\ writeIndex = sent % (2 * N) /\ OwnWriteIndex = sent % (2 * N)
  BY <1>1 DEF Inv, TypeOK, Positions, Published
<1>3. index = (sent + wCount) % (2 * N) BY <1>2, ModSum DEF Advance
<1>4. index # NoStore
  <2>1. sent + wCount \in Int BY <1>2
  <2>2. index \in 0..2*N-1 BY <1>3, <2>1, Wrapped
  <2> QED BY <2>2 DEF NoStore
<1> HIDE DEF index
<1>5. GetReadAvailable(index, writeIndex) = wCount
  <2>1. /\ (sent + wCount) - sent = wCount /\ (sent + wCount) - sent \in 0..(2*N)-1
        /\ sent + wCount \in Int /\ sent \in Int
    BY <1>2
  <2>2. (((sent + wCount) % (2*N)) - (sent % (2*N))) % (2*N) = (sent + wCount) - sent
    BY <2>1, ModDifference
  <2> QED BY <1>2, <1>3, <2>1, <2>2 DEF GetReadAvailable
<1>6. Published' = sent' - GetReadAvailable(wPending', writeIndex')
  BY <1>1, <1>4 DEF Published
<1>7. Published' = (sent + wCount) - wCount BY <1>1, <1>5, <1>6
<1> QED BY <1>2, <1>7

LEMMA ReadMapped ==
  ASSUME Inv, AdvanceReadIndex
  PROVE  [Fifo!FifoNext]_(Fifo!fifoVars)
<1>1. /\ rpc = "copied" /\ rLoads = {} /\ base' = base
      /\ received' = received + rCount
      /\ delivered' = [i \in 1..rCount |-> got[i-1]]
  BY DEF AdvanceReadIndex, ReaderFullMemoryBarrier
<1>2. Published' = Published BY DEF AdvanceReadIndex, Published, memory, writer
<1>3. /\ rCount \in 0..N /\ received + rCount <= Published
      /\ Published \in Nat /\ received \in Nat /\ base \in Nat /\ N \in Nat
      /\ received <= Published
  BY <1>1, Doubled, CopiedPublished DEF Inv, TypeOK, Positions
<1> DEFINE first == base + received
           n == Published - received
<1>4. first \in Int /\ n \in Nat /\ rCount \in 0..n /\ rCount \in Nat BY <1>3
<1>5. Len(FifoQueue) = n BY <1>4, NumbersSeq DEF FifoQueue
<1>6. delivered' = Numbers(first, rCount)
  <2>1. ASSUME NEW i \in 1..rCount PROVE got[i-1] = first + i - 1
    <3>1. i - 1 \in 0..rCount-1 BY <1>3
    <3>2. got[i-1] = base + received + (i - 1)
      BY <1>1, <3>1 DEF Inv, ReaderInv
    <3> QED BY <1>3, <3>2
  <2> QED BY <1>1, <2>1 DEF Numbers
<1>7. FifoQueue' = Numbers(first + rCount, n - rCount)
  <2>1. base + (received + rCount) = first + rCount
        /\ Published - (received + rCount) = n - rCount
    BY <1>3
  <2>2. FifoQueue' = Numbers(base + (received + rCount),
                             Published - (received + rCount))
    BY <1>1, <1>2 DEF FifoQueue, Numbers
  <2> QED BY <2>1, <2>2
<1>8. /\ SubSeq(Numbers(first, n), 1, rCount) = Numbers(first, rCount)
      /\ SubSeq(Numbers(first, n), rCount + 1, n) = Numbers(first + rCount, n - rCount)
  BY <1>4, NumbersSubSeq
<1>9. FifoNumber' = FifoNumber BY <1>1, <1>2 DEF FifoNumber
<1>10. FifoQueue = Numbers(first, n) BY DEF FifoQueue
<1>11. rCount <= Len(FifoQueue) BY <1>4, <1>5
<1>12. MappedPop(rCount)
  BY <1>5, <1>6, <1>7, <1>8, <1>9, <1>10, <1>11 DEF MappedPop
<1> QED BY <1>3, <1>12, PopMapped

LEMMA FlushMapped == ASSUME Inv, Flush PROVE [Fifo!FifoNext]_(Fifo!fifoVars)
<1>1. /\ base' = base + sent /\ sent' = 0 /\ received' = 0
      /\ delivered' = delivered /\ wPending' = NoStore /\ Published = sent
  BY DEF Flush, Published
<1>2. Published' = 0 BY <1>1 DEF Published
<1>3. base \in Nat /\ sent \in Nat BY DEF Inv, TypeOK
<1>4. FifoQueue' = <<>>
  <2>1. FifoQueue' = Numbers(base + sent + 0, 0 - 0)
    BY <1>1, <1>2 DEF FifoQueue, Numbers
  <2>2. base + sent + 0 \in Int /\ 0 - 0 = 0 BY <1>3
  <2> QED BY <2>1, <2>2, NumbersEmpty
<1>5. FifoNumber' = FifoNumber BY <1>1, <1>2, <1>3 DEF FifoNumber
<1> QED BY <1>1, <1>4, <1>5, DropMapped DEF MappedDrop

-----------------------------------------------------------------------------
(* The theorem.                                                            *)

LEMMA InitMapped == Init => Fifo!FifoInit
<1> SUFFICES ASSUME Init PROVE Fifo!FifoInit OBVIOUS
<1>1. base = 0 /\ received = 0 /\ Published = 0 /\ delivered = <<>>
  BY DEF Init, Published
<1>2. FifoQueue = <<>>
  <2>1. FifoQueue = Numbers(0 + 0, 0 - 0) BY <1>1 DEF FifoQueue
  <2>2. 0 + 0 \in Int /\ 0 + 0 = 0 /\ 0 - 0 = 0 OBVIOUS
  <2> QED BY <2>1, <2>2, NumbersEmpty
<1>3. FifoNumber = 0 BY <1>1 DEF FifoNumber
<1> QED BY <1>1, <1>2, <1>3 DEF Fifo!FifoInit, FifoQueue, FifoNumber, Numbers

\* Every other step leaves what a client sees alone.
LEMMA StepMapped ==
  ASSUME Inv, [Next]_vars
  PROVE  [Fifo!FifoNext]_(Fifo!fifoVars)
<1> USE DEF memory, writer, reader
<1>1. CASE \E n \in 1..MaxRequest : GetWriteRegions(n)
  <2>1. Published' = Published BY <1>1 DEF GetWriteRegions, Published
  <2> QED BY <1>1, <2>1, InvisibleMapped DEF GetWriteRegions
<1>2. CASE CopyIn
  <2>1. Published' = Published BY <1>2 DEF CopyIn, Published
  <2> QED BY <1>2, <2>1, InvisibleMapped DEF CopyIn
<1>3. CASE \E store \in wStores : PerformStore(store)
  <2>1. Published' = Published BY <1>3 DEF PerformStore, Published
  <2> QED BY <1>3, <2>1, InvisibleMapped DEF PerformStore
<1>4. CASE AdvanceWriteIndex
  <2>1. Published' = Published BY <1>4, AdvanceKeepsPublished
  <2> QED BY <1>4, <2>1, InvisibleMapped DEF AdvanceWriteIndex
<1>5. CASE PerformWriteIndexStore BY <1>5, PublishMapped
<1>6. CASE \E n \in 1..MaxRequest : GetReadRegions(n)
  <2>1. Published' = Published BY <1>6 DEF GetReadRegions, Published
  <2> QED BY <1>6, <2>1, InvisibleMapped DEF GetReadRegions
<1>7. CASE PerformWriteIndexLoad
  <2>1. Published' = Published BY <1>7 DEF PerformWriteIndexLoad, Published
  <2> QED BY <1>7, <2>1, InvisibleMapped DEF PerformWriteIndexLoad
<1>8. CASE CopyOut
  <2>1. Published' = Published BY <1>8 DEF CopyOut, Published
  <2> QED BY <1>8, <2>1, InvisibleMapped DEF CopyOut
<1>9. CASE \E load \in rLoads : PerformLoad(load)
  <2>1. Published' = Published BY <1>9 DEF PerformLoad, Published
  <2> QED BY <1>9, <2>1, InvisibleMapped DEF PerformLoad
<1>10. CASE AdvanceReadIndex BY <1>10, ReadMapped
<1>11. CASE PerformReadIndexStore
  <2>1. Published' = Published BY <1>11 DEF PerformReadIndexStore, Published
  <2> QED BY <1>11, <2>1, InvisibleMapped DEF PerformReadIndexStore
<1>12. CASE Flush BY <1>12, FlushMapped
<1>13. CASE UNCHANGED vars
  <2>1. Published' = Published BY <1>13 DEF vars, Published
  <2> QED BY <1>13, <2>1, InvisibleMapped DEF vars
<1> QED
  BY <1>1, <1>2, <1>3, <1>4, <1>5, <1>6, <1>7, <1>8, <1>9, <1>10, <1>11, <1>12,
     <1>13 DEF Next

\* What pa_ringbuffer.h promises its two clients, for every buffer size: the
\* ring buffer behaves like one queue, with atomic writes, reads and flushes.
THEOREM ImplementsFifoTheorem == Spec => ImplementsFifo
<1>1. Init => Fifo!FifoInit BY InitMapped
<1>2. Inv /\ [Next]_vars => [Fifo!FifoNext]_(Fifo!fifoVars) BY StepMapped
<1> QED BY <1>1, <1>2, Invariance, PTL DEF Spec, ImplementsFifo, Fifo!FifoSpec
=============================================================================
