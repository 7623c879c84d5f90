---------------------------- MODULE PaRingBuffer ----------------------------
(***************************************************************************)
(* The lock-free ring buffer of common/pa_ringbuffer.c: one writer thread  *)
(* calling PaUtil_WriteRingBuffer, one reader thread calling               *)
(* PaUtil_ReadRingBuffer, and the memory barriers of pa_memorybarrier.h    *)
(* as their only synchronisation.                                          *)
(*                                                                         *)
(* Memory is relaxed.  A load or store is first issued by its thread and   *)
(* performed later, in any order the barriers and the dependencies allow:  *)
(* a store waits for the values it depends on, a load may be performed     *)
(* early on a predicted count and is thrown away when the prediction was   *)
(* wrong.  A barrier holds its thread until the accesses it covers have    *)
(* been performed.  A thread sees its own pending store to its own index.  *)
(*                                                                         *)
(* Elements are numbered in the order they are written, across flushes.    *)
(***************************************************************************)
EXTENDS Integers

CONSTANTS N,            \* bufferSize: elementCount, a power of two
          MaxRequest,   \* largest elementCount a client asks for in one call
          MaxElements   \* bound: number of elements the writer ever writes

ASSUME NAssumption == N \in Nat \ {0}
ASSUME RequestAssumption == MaxRequest \in Nat \ {0}
ASSUME ElementsAssumption == MaxElements \in Nat

NoStore == -1           \* no store to this index is pending
Unknown == -1           \* the load of writeIndex has not been performed
Garbage == -1           \* contents of a slot never written

VARIABLES
  writeIndex, readIndex, buffer,     \* the shared PaUtilRingBuffer, in memory
  wpc,               \* where the writer is in PaUtil_WriteRingBuffer
  wCount,            \* its elementCount, clipped to what is available
  wStores,           \* its data stores issued and not performed
  wPending,          \* its store to writeIndex not performed, or NoStore
  rpc,               \* where the reader is in PaUtil_ReadRingBuffer
  rWant,             \* the elementCount asked for
  rAvail,            \* available, or Unknown while its load is pending
  rCount,            \* elementCount clipped (to a predicted available)
  rLoads,            \* its data loads issued and not performed
  got,               \* the reader's destination memory
  rPending,          \* its store to readIndex not performed, or NoStore
  base,              \* elements written before the last flush
  sent, received,    \* since the flush: index advances of either thread
  delivered          \* what the last read returned

memory == <<writeIndex, readIndex, buffer>>
writer == <<wpc, wCount, wStores, wPending, sent>>
reader == <<rpc, rWant, rAvail, rCount, rLoads, got, rPending, received,
            delivered>>
vars   == <<memory, writer, reader, base>>

-----------------------------------------------------------------------------
(* Index arithmetic.  x & bigMask is x % (2 * N) and x & smallMask is      *)
(* x % N, N being a power of two.                                          *)

\* Mutants: one bit less in either index; an index never wrapped.
SmallMaskAvailable(w, r)   == (w - r) % N
SmallMaskAdvance(index, c) == (index + c) % N
UnmaskedAdvance(index, c)  == index + c

GetReadAvailable(w, r)  == (w - r) % (2 * N)
GetWriteAvailable(w, r) == N - GetReadAvailable(w, r)
Advance(index, c)       == (index + c) % (2 * N)
Clip(count, available)  == IF count > available THEN available ELSE count

\* The slot of element k of a batch of count elements that starts at index:
\* region 1 runs to the end of the buffer, region 2 from its beginning.
RegionSlot(index, count, k) ==
  LET start == index % N
      size1 == IF start + count > N THEN N - start ELSE count
  IN  IF k < size1 THEN start + k ELSE k - size1

OwnWriteIndex == IF wPending = NoStore THEN writeIndex ELSE wPending
OwnReadIndex  == IF rPending = NoStore THEN readIndex  ELSE rPending

\* Mutant: a barrier that is left out.
NoBarrier == TRUE

\* Barriers, as the condition under which their thread gets past them.
WriterFullMemoryBarrier == wStores = {} /\ wPending = NoStore
WriteMemoryBarrier      == wStores = {} /\ wPending = NoStore
ReadMemoryBarrier       == rLoads = {} /\ rAvail # Unknown
ReaderFullMemoryBarrier == rLoads = {} /\ rAvail # Unknown /\ rPending = NoStore

Init ==
  /\ writeIndex = 0 /\ readIndex = 0
  /\ buffer = [s \in 0..N-1 |-> Garbage]
  /\ wpc = "idle" /\ wCount = 0 /\ wStores = {} /\ wPending = NoStore
  /\ rpc = "idle" /\ rWant = 0 /\ rAvail = 0 /\ rCount = 0 /\ rLoads = {}
  /\ got = [k \in 0..N-1 |-> Garbage]
  /\ rPending = NoStore
  /\ base = 0 /\ sent = 0 /\ received = 0 /\ delivered = <<>>

-----------------------------------------------------------------------------
(* The writer: PaUtil_WriteRingBuffer.                                     *)

\* PaUtil_GetRingBufferWriteRegions up to its barrier: load readIndex, clip.
GetWriteRegions(n) ==
  /\ wpc = "idle"
  /\ base + sent + n <= MaxElements
  /\ wCount' = Clip(n, GetWriteAvailable(OwnWriteIndex, readIndex))
  /\ wpc' = "regions"
  /\ UNCHANGED <<memory, reader, base, wStores, wPending, sent>>

\* The full barrier (if anything is available), then memcpy into the regions.
CopyIn ==
  /\ wpc = "regions"
  /\ wCount > 0 => WriterFullMemoryBarrier
  /\ wStores' = wStores \cup
       {[slot  |-> RegionSlot(OwnWriteIndex, wCount, k),
         value |-> base + sent + k] : k \in 0..wCount-1}
  /\ wpc' = "copied"
  /\ UNCHANGED <<memory, reader, base, wCount, wPending, sent>>

PerformStore(store) ==
  /\ store \in wStores
  /\ buffer' = [buffer EXCEPT ![store.slot] = store.value]
  /\ wStores' = wStores \ {store}
  /\ UNCHANGED <<writeIndex, readIndex, reader, base, wpc, wCount, wPending,
                 sent>>

\* PaUtil_AdvanceRingBufferWriteIndex: write barrier, then issue the store.
AdvanceWriteIndex ==
  /\ wpc = "copied"
  /\ WriteMemoryBarrier
  /\ wPending' = Advance(OwnWriteIndex, wCount)
  /\ sent' = sent + wCount
  /\ wpc' = "idle"
  /\ UNCHANGED <<memory, reader, base, wCount, wStores>>

PerformWriteIndexStore ==
  /\ wPending # NoStore
  /\ writeIndex' = wPending
  /\ wPending' = NoStore
  /\ UNCHANGED <<readIndex, buffer, reader, base, wpc, wCount, wStores, sent>>

-----------------------------------------------------------------------------
(* The reader: PaUtil_ReadRingBuffer.                                      *)

\* PaUtil_GetRingBufferReadRegions: issue the load of writeIndex.
GetReadRegions(n) ==
  /\ rpc = "idle"
  /\ rpc' = "regions" /\ rWant' = n /\ rAvail' = Unknown
  /\ UNCHANGED <<memory, writer, base, rCount, rLoads, got, rPending, received,
                 delivered>>

\* The value arrives.  A copy made on a wrong prediction starts again.
PerformWriteIndexLoad ==
  /\ rpc # "idle" /\ rAvail = Unknown
  /\ rAvail' = GetReadAvailable(writeIndex, OwnReadIndex)
  /\ IF rpc = "copied" /\ Clip(rWant, rAvail') # rCount
       THEN rpc' = "regions" /\ rLoads' = {}
       ELSE UNCHANGED <<rpc, rLoads>>
  /\ UNCHANGED <<memory, writer, base, rWant, rCount, got, rPending, received,
                 delivered>>

\* The read barrier (if anything is available), then memcpy from the regions.
CopyOut ==
  /\ rpc = "regions"
  /\ \E available \in IF rAvail = Unknown THEN 0..N ELSE {rAvail} :
       /\ available > 0 => ReadMemoryBarrier
       /\ rCount' = Clip(rWant, available)
       /\ rLoads' = {[offset |-> k, slot |-> RegionSlot(OwnReadIndex, rCount', k)]
                      : k \in 0..rCount'-1}
  /\ rpc' = "copied"
  /\ UNCHANGED <<memory, writer, base, rWant, rAvail, got, rPending, received,
                 delivered>>

PerformLoad(load) ==
  /\ load \in rLoads
  /\ got' = [got EXCEPT ![load.offset] = buffer[load.slot]]
  /\ rLoads' = rLoads \ {load}
  /\ UNCHANGED <<memory, writer, base, rpc, rWant, rAvail, rCount, rPending,
                 received, delivered>>

\* PaUtil_AdvanceRingBufferReadIndex: full barrier, then issue the store.
AdvanceReadIndex ==
  /\ rpc = "copied"
  /\ ReaderFullMemoryBarrier
  /\ rPending' = Advance(OwnReadIndex, rCount)
  /\ received' = received + rCount
  /\ delivered' = [i \in 1..rCount |-> got[i-1]]
  /\ rpc' = "idle"
  /\ UNCHANGED <<memory, writer, base, rWant, rAvail, rCount, rLoads, got>>

PerformReadIndexStore ==
  /\ rPending # NoStore
  /\ readIndex' = rPending
  /\ rPending' = NoStore
  /\ UNCHANGED <<writeIndex, buffer, writer, base, rpc, rWant, rAvail, rCount,
                 rLoads, got, received, delivered>>

-----------------------------------------------------------------------------
\* PaUtil_FlushRingBuffer, called only when neither thread uses the buffer.
Flush ==
  /\ wpc = "idle" /\ rpc = "idle"
  /\ wStores = {} /\ wPending = NoStore
  /\ rLoads = {} /\ rPending = NoStore
  /\ writeIndex' = 0 /\ readIndex' = 0
  /\ base' = base + sent /\ sent' = 0 /\ received' = 0
  /\ UNCHANGED <<buffer, wpc, wCount, wStores, wPending, rpc, rWant, rAvail,
                 rCount, rLoads, got, rPending, delivered>>

Next ==
  \/ \E n \in 1..MaxRequest : GetWriteRegions(n)
  \/ CopyIn
  \/ \E store \in wStores : PerformStore(store)
  \/ AdvanceWriteIndex
  \/ PerformWriteIndexStore
  \/ \E n \in 1..MaxRequest : GetReadRegions(n)
  \/ PerformWriteIndexLoad
  \/ CopyOut
  \/ \E load \in rLoads : PerformLoad(load)
  \/ AdvanceReadIndex
  \/ PerformReadIndexStore
  \/ Flush

Spec == Init /\ [][Next]_vars

\* A thread inside a call goes on, issued accesses get performed, and the
\* reader keeps polling.  Nothing obliges the writer to write, or to flush.
Fairness ==
  /\ WF_vars(CopyIn) /\ WF_vars(AdvanceWriteIndex)
  /\ WF_vars(\E store \in wStores : PerformStore(store))
  /\ WF_vars(PerformWriteIndexStore)
  /\ WF_vars(\E n \in 1..MaxRequest : GetReadRegions(n))
  /\ WF_vars(PerformWriteIndexLoad) /\ WF_vars(CopyOut)
  /\ WF_vars(\E load \in rLoads : PerformLoad(load))
  /\ WF_vars(AdvanceReadIndex) /\ WF_vars(PerformReadIndexStore)

FairSpec == Spec /\ Fairness

-----------------------------------------------------------------------------
(* Properties.                                                             *)

TypeOK ==
  /\ writeIndex \in 0..2*N-1 /\ readIndex \in 0..2*N-1
  /\ buffer \in [0..N-1 -> Int]
  /\ wpc \in {"idle", "regions", "copied"}
  /\ wCount \in 0..N
  /\ wStores \subseteq [slot : 0..N-1, value : Int]
  /\ wPending \in 0..2*N-1 \cup {NoStore}
  /\ rpc \in {"idle", "regions", "copied"}
  /\ rWant \in Nat
  /\ rAvail \in 0..N \cup {Unknown}
  /\ rCount \in 0..N
  /\ rLoads \subseteq [offset : 0..N-1, slot : 0..N-1]
  /\ got \in [0..N-1 -> Int]
  /\ rPending \in 0..2*N-1 \cup {NoStore}
  /\ base \in Nat /\ sent \in Nat /\ received \in Nat

\* What a read returns is exactly the elements that follow those already
\* read, in order and completely stored: PaUtil_ReadRingBuffer never hands
\* out a torn, stale, skipped or repeated element.
ReadsInOrder ==
  rpc = "copied" /\ rAvail # Unknown =>
    \A k \in 0..rCount-1 :
      (\A load \in rLoads : load.offset # k) => got[k] = base + received + k

\* No slot is stored to by the writer while the reader still has to load it:
\* the two memcpy calls never touch the same element.
NoDataRace ==
  \A store \in wStores, load \in rLoads : store.slot # load.slot

\* Either thread's estimate errs on the safe side however stale the index it
\* reads: never more readable than published, never more room than is free.
\* One bit more than the buffer needs keeps full and empty apart.
EstimatesAreSafe ==
  /\ GetReadAvailable(writeIndex, OwnReadIndex) <= sent - received
  /\ GetWriteAvailable(OwnWriteIndex, readIndex) <= N - (sent - received)
  /\ wPending = NoStore => GetReadAvailable(writeIndex, OwnReadIndex) = sent - received
  /\ rPending = NoStore => GetWriteAvailable(OwnWriteIndex, readIndex) = N - (sent - received)

\* The ring buffer implements the bounded FIFO.  A batch is pushed when the
\* store to writeIndex is performed, and popped when the read returns it.
Published ==
  IF wPending = NoStore THEN sent
                        ELSE sent - GetReadAvailable(wPending, writeIndex)

Fifo == INSTANCE PaFifo WITH
          Capacity <- N,
          queue <- [i \in 1..(Published - received) |-> base + received + i - 1],
          next  <- base + Published

ImplementsFifo == Fifo!FifoSpec

\* Every element whose write has returned is read, or flushed, in the end.
EveryElementDelivered ==
  \A m \in 1..MaxElements : (base + sent >= m) ~> (base + received >= m)
=============================================================================
