------------------------------- MODULE PaFifo -------------------------------
(***************************************************************************)
(* What PaUtilRingBuffer promises its two clients (pa_ringbuffer.h): a     *)
(* bounded first-in first-out queue of elements between one writer and one *)
(* reader.  Elements are numbered in the order in which the writer         *)
(* supplies them, so that a lost, duplicated, reordered or torn element is *)
(* a wrong number.                                                         *)
(***************************************************************************)
EXTENDS Integers, Sequences

CONSTANT Capacity     \* elementCount of PaUtil_InitializeRingBuffer

VARIABLES queue,      \* the elements the reader may still take, oldest first
          next,       \* the number of the next element the writer supplies
          delivered   \* the elements the last read returned

fifoVars == <<queue, next, delivered>>

FifoInit == queue = <<>> /\ next = 0 /\ delivered = <<>>

\* A batch of k elements becomes readable as a whole.
Push(k) ==
  /\ Len(queue) + k <= Capacity
  /\ queue' = queue \o [i \in 1..k |-> next + i - 1]
  /\ next' = next + k
  /\ UNCHANGED delivered

\* A read returns the k oldest elements, and their room becomes free.
Pop(k) ==
  /\ k <= Len(queue)
  /\ delivered' = SubSeq(queue, 1, k)
  /\ queue' = SubSeq(queue, k + 1, Len(queue))
  /\ UNCHANGED next

\* PaUtil_FlushRingBuffer: nothing written so far will be read.
Drop ==
  /\ queue' = <<>>
  /\ UNCHANGED <<next, delivered>>

FifoNext == \/ \E k \in 1..Capacity : Push(k)
            \/ \E k \in 0..Capacity : Pop(k)
            \/ Drop

FifoSpec == FifoInit /\ [][FifoNext]_fifoVars
=============================================================================
