--------------------------- MODULE PaWmmeBlocking ---------------------------
(***************************************************************************)
(* Blocking streams of hostapi/wmme/pa_win_wmme.c: ReadStream, WriteStream *)
(* and the available frames, next to the calls that start, stop, abort and *)
(* close a stream of either kind (PaWmmeStream), for which this module     *)
(* follows the data.  Frames are numbered from 1 in the order in which the *)
(* input device captures them and the application writes them; 0 is        *)
(* silence.                                                                *)
(***************************************************************************)
EXTENDS PaWmmeStream, SequencesExt, FiniteSetsExt

CONSTANTS
  MaxFrames,      \* bound: frames captured, read or written per Pa_StartStream
  MaxTransfer     \* bound: frames asked for by one call

ASSUME BlockingAssumption ==
  /\ MaxFrames \in Nat /\ MaxTransfer \in Nat
  /\ \A c \in OpenStreams : c.blocking => MaxFrames % c.chunks["in"] = 0

VARIABLES
  starts,         \* calls of Pa_StartStream
  content,        \* the frames in each buffer
  captured,       \* how many frames the input device has captured
  read, written,  \* the frames ReadStream has returned; how many were written
  played,         \* the frames the output device has played
  left,           \* frames - framesRead, or frames - framesWritten
  covered         \* the call asked for no more than the available frames

frames == <<content, captured, read, written, played>>
request == <<left, covered>>

allVars == <<vars, starts, frames, request>>

FramesPerBuffer(d) == Chunks(d)
Silence(n) == [i \in 1..n |-> 0]
CountedFrom(k, n) == [i \in 1..n |-> k + i]

NoFrames ==
  /\ captured = 0 /\ read = <<>> /\ written = 0 /\ played = <<>>

BlockingInit ==
  /\ Init /\ starts = 0
  /\ content = [d \in Direction |-> [b \in Buffer(d) |-> Silence(FramesPerBuffer(d))]]
  /\ NoFrames
  /\ left = 0 /\ covered = FALSE

-----------------------------------------------------------------------------
\* The oldest buffer of the driver is filled, or played.
DriverTransfers(d) ==
  /\ DriverDone(d)
  /\ IF d = "in"
       THEN /\ captured + FramesPerBuffer(d) <= MaxFrames
            /\ captured' = captured + FramesPerBuffer(d)
            /\ content' = [content EXCEPT ![d][Head(queue[d])] =
                             CountedFrom(captured, FramesPerBuffer(d))]
            /\ UNCHANGED played
       ELSE /\ played' = played \o content[d][Head(queue[d])]
            /\ UNCHANGED <<captured, content>>
  /\ UNCHANGED <<starts, read, written, request>>

\* The frames are counted anew.
BlockingStart ==
  /\ starts < config.starts
  /\ StartStream
  /\ starts' = starts + 1
  /\ captured' = 0 /\ read' = <<>> /\ written' = 0 /\ played' = <<>>
  /\ UNCHANGED <<content, request>>

\* Each output buffer is zeroed before it is written.
BlockingStartOutput ==
  /\ StartOutput
  /\ content' = [content EXCEPT !["out"] =
                   [b \in Buffer("out") |-> Silence(FramesPerBuffer("out"))]]
  /\ UNCHANGED <<starts, captured, read, written, played, request>>

\* PaUtil_ZeroOutput clears what is left of the partly filled buffer.
BlockingStopFlush ==
  /\ StopFlush
  /\ content' =
       IF used["out"] > 0
         THEN [content EXCEPT !["out"][cur["out"]] =
                 [i \in DOMAIN @ |-> IF i > used["out"] THEN 0 ELSE @[i]]]
         ELSE content
  /\ UNCHANGED <<starts, captured, read, written, played, request>>

\* The other steps of the calls PaWmmeStream has for streams of either kind.
OtherSteps ==
  /\ \/ StartInput \/ StartFlags \/ StartDevices
     \/ StopStream \/ StopDrain \/ StopDrainWait \/ StopReset \/ StopDone
     \/ AbortStream \/ AbortReset \/ AbortWait \/ CloseStream
  /\ UNCHANGED <<starts, frames, request>>

-----------------------------------------------------------------------------
(* ReadStream and WriteStream, each for its direction.                     *)

\* GetAvailableFrames: up to the first buffer, in ring order, that is not done.
AvailableFrames(d) ==
  LET n == BufferCount(d)
      IsDone(i) == BuffersAreDone(d, (cur[d] + i) % n)
      pending == {i \in 0..n-1 : ~IsDone(i)}
      count == IF pending = {} THEN n ELSE Min(pending)
  IN  IF count = 0 THEN 0 ELSE count * FramesPerBuffer(d) - used[d]

CallOf(d) == IF d = "in" THEN "read" ELSE "write"
WaitOf(d) == IF d = "in" THEN "readWait" ELSE "writeWait"
Transferred(d) == IF d = "in" THEN Len(read) ELSE written

\* Pa_ReadStream or Pa_WriteStream on a stream that is not stopped; any other
\* call, and one for a direction the stream does not have, is an error.
BeginTransfer(d, n) ==
  /\ app = "idle" /\ open /\ ~isStopped /\ Uses(d)
  /\ Transferred(d) + n <= MaxFrames
  /\ app' = CallOf(d)
  /\ left' = n /\ covered' = (n <= AvailableFrames(d))
  /\ UNCHANGED <<shared, buffers, driver, event, local, starts, frames>>

\* PaUtil_CopyInput or PaUtil_CopyOutput of n frames of the current buffer.
CopyFrames(d, n) ==
  LET b == cur[d] IN
  IF d = "in"
    THEN /\ read' = read \o SubSeq(content[d][b], used[d] + 1, used[d] + n)
         /\ UNCHANGED <<content, written>>
    ELSE /\ content' = [content EXCEPT ![d][b] = [i \in DOMAIN @ |->
              IF i \in used[d]+1..used[d]+n THEN written + i - used[d] ELSE @[i]]]
         /\ written' = written + n
         /\ UNCHANGED read

\* PaUtil_SetInputFrameCount or PaUtil_SetOutputFrameCount.
HostFrames(d) == FramesPerBuffer(d) - used[d]

\* A round of the do-while with a host buffer.
Transfer(d) ==
  /\ app = CallOf(d) /\ BuffersAreDone(d, cur[d])
  /\ LET n == Min({left, HostFrames(d)}) IN
       /\ CopyFrames(d, n)
       /\ left' = left - n
       /\ IF used[d] + n = FramesPerBuffer(d)
            THEN \E ok \in BOOLEAN :
                   /\ AdvanceToNextBuffer(d, ok)
                   /\ app' = IF ok /\ left' > 0 THEN app ELSE "idle"
            ELSE /\ used' = [used EXCEPT ![d] = @ + n]
                 /\ app' = IF left' > 0 THEN app ELSE "idle"
                 /\ UNCHANGED <<cur, queue, whdrDone>>
  /\ covered' = (covered /\ app' # "idle")
  /\ UNCHANGED <<shared, running, event, local, starts, captured, played>>

\* A round without one waits for bufferEvent.
TransferWait(d) ==
  \/ /\ app = CallOf(d) /\ ~BuffersAreDone(d, cur[d])
     /\ app' = WaitOf(d)
     /\ UNCHANGED <<shared, buffers, driver, event, local, starts, frames, request>>
  \/ /\ app = WaitOf(d)
     /\ event[d]
     /\ event' = [event EXCEPT ![d] = FALSE]
     /\ app' = CallOf(d)
     /\ UNCHANGED <<shared, buffers, driver, local, starts, frames, request>>

\* The wait times out and the loop goes on, or it fails and the call returns.
TransferTimeout(d) ==
  /\ app = WaitOf(d)
  /\ app' \in {CallOf(d)} \cup IF MayFail THEN {"idle"} ELSE {}
  /\ UNCHANGED <<shared, buffers, driver, event, local, starts, frames, request>>

-----------------------------------------------------------------------------
BlockingCall ==
  \/ BlockingStartOutput \/ BlockingStopFlush
  \/ (app # "idle" /\ OtherSteps)
  \/ \E d \in Direction : Transfer(d) \/ TransferWait(d)

BlockingNext ==
  \/ \E d \in Direction : DriverTransfers(d)
  \/ BlockingStart
  \/ \E d \in Direction, n \in 1..MaxTransfer : BeginTransfer(d, n)
  \/ \E d \in Direction : TransferTimeout(d)
  \/ (app = "idle" /\ OtherSteps)
  \/ BlockingCall

\* A stream of the kind its configuration says.
StreamNext ==
  \/ config.blocking /\ BlockingNext
  \/ ~config.blocking /\ Next /\ UNCHANGED <<starts, frames, request>>

StreamSpec == BlockingInit /\ [][StreamNext]_allVars

\* As in FairSpec: nothing obliges a wait to time out.
FairStreamSpec ==
  /\ StreamSpec
  /\ \A t \in Threads : WF_allVars(~config.blocking /\ ThreadStep(t) /\ UNCHANGED <<starts, frames, request>>)
  /\ \A d \in Direction : WF_allVars(~config.blocking /\ DriverDone(d) /\ UNCHANGED <<starts, frames, request>>)
  /\ WF_allVars(~config.blocking /\ InCall /\ UNCHANGED <<starts, frames, request>>)
  /\ \A d \in Direction : WF_allVars(config.blocking /\ DriverTransfers(d))
  /\ WF_allVars(config.blocking /\ BlockingCall)

-----------------------------------------------------------------------------
(* Properties.                                                             *)

\* The application copies to and from buffers only while no driver has them.
ApplicationOwnsBuffers ==
  \A d \in Direction :
    config.blocking /\ app = CallOf(d) /\ BuffersAreDone(d, cur[d]) => ~InQueue(d, cur[d])

\* The output device played the first n frames, with silence before and after.
Plays(n) ==
  \E lead \in 0..Len(played)-n :
    played = Silence(lead) \o CountedFrom(0, n) \o Silence(Len(played) - lead - n)

\* Reads return what was captured, and what was written is played, each frame
\* once and in order, however the calls cut the buffers; the output is silent
\* only before the first frame and after the last.
TransfersInOrder ==
  config.blocking /\ ~MayFail =>
    /\ read = CountedFrom(0, Len(read)) /\ Len(read) <= captured
    /\ \E n \in 0..written : Plays(n)

\* Pa_StopStream plays all that was written before it resets the device, unless
\* a wait timed out: it waits often enough, with events merged or left over.
StopPlaysEverything ==
  config.blocking /\ app = "stopReset" /\ Uses("out") /\ ~MayFail /\ ~waitTimedOut =>
    Plays(written)

\* As many frames as Pa_GetStreamReadAvailable or WriteAvailable returns can be
\* transferred without waiting.
AvailableWithoutWaiting ==
  \A d \in Direction : covered => app # WaitOf(d)

\* ReadStream and WriteStream lose, repeat and reorder nothing, own the buffers
\* they copy, wait only if they must, and StopStream plays the rest.
BlockingTransfers ==
  /\ ApplicationOwnsBuffers
  /\ TransfersInOrder
  /\ StopPlaysEverything
  /\ AvailableWithoutWaiting
=============================================================================
