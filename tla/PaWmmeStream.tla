---------------------------- MODULE PaWmmeStream ----------------------------
(***************************************************************************)
(* A stream of hostapi/wmme/pa_win_wmme.c with one device per direction:   *)
(* the application thread in Pa_StartStream, Pa_StopStream, Pa_AbortStream *)
(* and Pa_CloseStream (with the guards of pa_front.c), the processing      *)
(* threads of a callback stream in ProcessingThreadProc, and the two wave  *)
(* drivers.  PaWmmeBlocking adds the calls of a blocking stream.           *)
(*                                                                         *)
(* A thread takes one step per group of shared accesses, so that flags,    *)
(* WHDR_DONE bits and driver queues can change between a check and its     *)
(* use.  Times are abstract: a wait may or may not time out.  Frames are   *)
(* counted in calls of the buffer processor (framesPerBufferProcessorCall).*)
(***************************************************************************)
EXTENDS Integers, Sequences

CONSTANTS
  OpenStreams,             \* what streams may have been opened
  CallbackResults,         \* what the stream callback may return
  MaxStarts,               \* bound: processing threads there ever are
  AbortTimeout             \* may Pa_AbortStream's wait time out

Direction == {"in", "out"}

\* bufferCount, 0 for a direction that is not used, and framesPerBuffer: in
\* frames for a blocking stream, which has no streamCallback, and else as a
\* multiple of framesPerBufferProcessorCall, the smaller of the two.  starts
\* bounds the calls of Pa_StartStream that get a thread; mayFail is whether
\* driver and thread calls can fail, and stopTimeouts how many of Pa_StopStream's
\* two waits for the thread may time out.
Configuration ==
  {c \in [bufferCount : [Direction -> Nat], chunks : [Direction -> Nat \ {0}],
         blocking : BOOLEAN, starts : 1..MaxStarts, mayFail : BOOLEAN,
         stopTimeouts : 0..2] :
     /\ \E d \in Direction : c.bufferCount[d] > 0
     /\ ~c.blocking =>
          /\ \E d \in Direction : c.chunks[d] = 1
          /\ \A d, e \in Direction : c.bufferCount[d] = 0 => c.chunks[e] = 1}

ASSUME StreamAssumption ==
  /\ OpenStreams \subseteq Configuration
  /\ CallbackResults \subseteq {"paContinue", "paComplete", "paAbort"}
  /\ MaxStarts \in Nat \ {0} /\ AbortTimeout \in BOOLEAN

VARIABLES
  config,                  \* the configuration Pa_OpenStream has chosen
  open,                    \* the PaWinMmeStream is allocated
  isStopped, isActive, stopProcessing, abortProcessing,
  processingThread,        \* handle: a thread, or NoThread
  cur,                     \* currentBufferIndex of either direction
  used,                    \* framesUsedInCurrentBuffer of either direction
  queue,                   \* the driver's queue of buffers, oldest first
  whdrDone,                \* WHDR_DONE of each buffer
  running,                 \* waveInStart / waveOutRestart took effect
  event,                   \* signalled: bufferEvent of either direction, abortEvent
  app,                     \* where the application thread is
  closing,                 \* it is aborting within Pa_CloseStream
  waitCount, waitTimedOut, \* waits for output of StopStream without a thread
  orphans,                 \* history: threads whose handle StopStream closed
                           \* while they ran
  tpc,                     \* where each processing thread is
  done,                    \* its local: done
  host,                    \* its locals hostInput/OutputBufferIndex # -1
  outputUnderflow,         \* its local
  todo, return             \* loop counter of a catch-up, and where it goes on

shared  == <<config, open, isStopped, isActive, stopProcessing, abortProcessing,
             processingThread>>
buffers == <<cur, used>>
driver  == <<queue, whdrDone, running>>
thread  == <<tpc, done, host, outputUnderflow, todo, return>>
call    == <<app, closing, waitCount, waitTimedOut, orphans>>
vars    == <<shared, buffers, driver, event, call, thread>>

Threads == 1..MaxStarts
NoThread == 0

BufferCount(d) == config.bufferCount[d]
Chunks(d) == config.chunks[d]
Uses(d) == BufferCount(d) > 0
Buffer(d) == 0..BufferCount(d)-1
IsFullDuplex == Uses("in") /\ Uses("out")
MayFail == config.mayFail

Init ==
  /\ config \in OpenStreams
  /\ open = TRUE /\ isStopped = TRUE /\ isActive = FALSE
  /\ stopProcessing = FALSE /\ abortProcessing = FALSE
  /\ processingThread = NoThread
  /\ cur = [d \in Direction |-> 0] /\ used = [d \in Direction |-> 0]
  /\ queue = [d \in Direction |-> <<>>]
  /\ whdrDone = [d \in Direction |-> [b \in Buffer(d) |-> FALSE]]
  /\ running = [d \in Direction |-> d = "out"]
  /\ event = [e \in Direction \cup {"abort"} |-> FALSE]
  /\ app = "idle" /\ closing = FALSE
  /\ waitCount = 0 /\ waitTimedOut = FALSE /\ orphans = {}
  /\ tpc = [t \in Threads |-> "unborn"]
  /\ done = [t \in Threads |-> FALSE]
  /\ host = [t \in Threads |-> {}]
  /\ outputUnderflow = [t \in Threads |-> FALSE]
  /\ todo = [t \in Threads |-> 0]
  /\ return = [t \in Threads |-> "wait"]

-----------------------------------------------------------------------------
(* The wave drivers, as the code uses them.                                *)

InQueue(d, b) == \E i \in 1..Len(queue[d]) : queue[d][i] = b

\* The driver is through with its oldest buffer: WHDR_DONE, then the event.
DriverDone(d) ==
  /\ running[d] /\ queue[d] # <<>>
  /\ whdrDone' = [whdrDone EXCEPT ![d][Head(queue[d])] = TRUE]
  /\ queue' = [queue EXCEPT ![d] = Tail(queue[d])]
  /\ event' = [event EXCEPT ![d] = TRUE]
  /\ UNCHANGED <<shared, buffers, running, call, thread>>

\* waveInReset and waveOutReset of the directions in dirs: every queued buffer
\* is given back; input stops, output is no longer paused.
Reset(dirs) ==
  /\ whdrDone' = [d \in Direction |-> [b \in Buffer(d) |->
       whdrDone[d][b] \/ (d \in dirs /\ InQueue(d, b))]]
  /\ queue' = [d \in Direction |-> IF d \in dirs THEN <<>> ELSE queue[d]]
  /\ running' = [d \in Direction |-> IF d \in dirs THEN d = "out" ELSE running[d]]
  /\ event' = [e \in DOMAIN event |->
       event[e] \/ (e \in dirs /\ e \in Direction /\ queue[e] # <<>>)]

-----------------------------------------------------------------------------
(* Helpers of the processing thread.                                       *)

\* Mutant: one buffer is looked at instead of all.
FirstBufferIsDone(d)     == Uses(d) => whdrDone[d][0]
BuffersAreDone(d, index) == whdrDone[d][index]
NoBuffersAreQueued(d) == \A b \in Buffer(d) : whdrDone[d][b]
\* Mutant: the index runs one past the last buffer.
OverrunIncrement(index, max) == IF index + 1 > max THEN 0 ELSE index + 1
CircularIncrement(index, max) == IF index + 1 >= max THEN 0 ELSE index + 1

\* AdvanceToNextInputBuffer and AdvanceToNextOutputBuffer: give the current
\* buffer to the driver (input clears WHDR_DONE first; a queued one is
\* refused) and go on to the next, also after an error.
AdvanceToNextBuffer(d, ok) ==
  LET b == cur[d] IN
  /\ ok => ~InQueue(d, b)
  /\ ~ok => MayFail \/ InQueue(d, b)
  /\ queue' = IF ok THEN [queue EXCEPT ![d] = Append(@, b)] ELSE queue
  /\ whdrDone' = IF ok \/ d = "in" THEN [whdrDone EXCEPT ![d][b] = FALSE] ELSE whdrDone
  /\ cur' = [cur EXCEPT ![d] = CircularIncrement(b, BufferCount(d))]
  /\ used' = [used EXCEPT ![d] = 0]

\* PaUtil_ZeroOutput, called for a partly filled buffer, which only a full
\* duplex stream has: there PaUtil_EndBufferProcessing has counted
\* hostOutputFrameCount[0] down to zero, so no frame remains to be zeroed.
ZeroOutput == 0

Goto(t, label) == tpc' = [tpc EXCEPT ![t] = label]
\* The end of the do-while: wait again, or leave.
LoopEnd(t, isDone) == Goto(t, IF isDone THEN "exit" ELSE "wait")

\* Start a catch-up of direction d that goes on at label.
BeginCatchUp(t, d, label) ==
  /\ Goto(t, IF d = "in" THEN "catchIn" ELSE "catchOut")
  /\ todo' = [todo EXCEPT ![t] = BufferCount(d) - 1]
  /\ return' = [return EXCEPT ![t] = label]

-----------------------------------------------------------------------------
(* ProcessingThreadProc.                                                   *)

\* WaitForMultipleObjects returns the first signalled object; bufferEvents are
\* reset by it, abortEvent is not.  With none signalled the wait times out.
\* A failed wait (WAIT_FAILED) sets done, and the round goes on.
ThreadWait(t) ==
  /\ tpc[t] = "wait"
  /\ \/ /\ event' = IF event["in"] THEN [event EXCEPT !["in"] = FALSE]
                    ELSE [event EXCEPT !["out"] = FALSE]
        /\ UNCHANGED done
     \/ /\ MayFail
        /\ done' = [done EXCEPT ![t] = TRUE]
        /\ UNCHANGED event
  /\ Goto(t, "check")
  /\ UNCHANGED <<shared, buffers, driver, call, host, outputUnderflow,
                 todo, return>>

ThreadCheck(t) ==
  /\ tpc[t] = "check"
  /\ \/ /\ abortProcessing
        /\ done' = [done EXCEPT ![t] = TRUE]
        /\ LoopEnd(t, TRUE)
     \/ /\ ~abortProcessing /\ stopProcessing
        /\ done' = [done EXCEPT ![t] = @ \/ ~Uses("out") \/ NoBuffersAreQueued("out")]
        /\ LoopEnd(t, done'[t])
     \/ /\ ~abortProcessing /\ ~stopProcessing
        /\ Goto(t, "pollIn")
        /\ UNCHANGED done
  /\ UNCHANGED <<shared, buffers, driver, event, call, host,
                 outputUnderflow, todo, return>>

\* Is there a host buffer, and have all the others run out as well?
Poll(t, d, label) ==
  LET ready == Uses(d) /\ BuffersAreDone(d, cur[d])
  IN  /\ host' = [host EXCEPT ![t] =
                    (IF d = "in" THEN {} ELSE @) \cup (IF ready THEN {d} ELSE {})]
      /\ IF ready /\ NoBuffersAreQueued(d)
           THEN BeginCatchUp(t, d, label)
           ELSE Goto(t, label) /\ UNCHANGED <<todo, return>>
      /\ UNCHANGED <<shared, buffers, driver, event, call, done,
                     outputUnderflow>>

ThreadPollIn(t)  == tpc[t] = "pollIn"  /\ Poll(t, "in", "pollOut")
ThreadPollOut(t) == tpc[t] = "pollOut" /\ Poll(t, "out", "process")

\* One round of CatchUpInputBuffers or CatchUpOutputBuffers.
CatchUp(t, d, label) ==
  /\ tpc[t] = label
  /\ IF todo[t] = 0
       THEN Goto(t, return[t]) /\ UNCHANGED <<buffers, driver, done, todo>>
       ELSE \E ok \in BOOLEAN :
              /\ AdvanceToNextBuffer(d, ok)
              /\ todo' = [todo EXCEPT ![t] = IF ok THEN @ - 1 ELSE 0]
              /\ done' = [done EXCEPT ![t] = @ \/ ~ok]
              /\ UNCHANGED <<running, tpc>>
  /\ UNCHANGED <<shared, event, call, host, outputUnderflow, return>>

ThreadCatchUpIn(t)  == CatchUp(t, "in", "catchIn")
ThreadCatchUpOut(t) == CatchUp(t, "out", "catchOut")

\* Mutant: a full duplex stream is processed with either buffer.
HasEitherBuffer(t) == host[t] # {}

HasBuffers(t) ==
  IF IsFullDuplex THEN host[t] = Direction ELSE host[t] # {}

\* The stream callback, by way of PaUtil_EndBufferProcessing.  Bound: what two
\* threads of a stream do to a buffer that is full already is not followed.
ThreadProcess(t, result) ==
  /\ tpc[t] = "process" /\ HasBuffers(t)
  /\ orphans # {} => \A d \in Direction : used[d] < Chunks(d)
  /\ used' = [d \in Direction |-> IF Uses(d) THEN used[d] + 1 ELSE used[d]]
  /\ abortProcessing' = (abortProcessing \/ result = "paAbort")
  /\ stopProcessing' = (stopProcessing \/ result = "paComplete")
  /\ done' = [done EXCEPT ![t] = @ \/ result = "paAbort"]
  /\ Goto(t, "input")
  /\ UNCHANGED <<config, open, isStopped, isActive, processingThread, cur, driver,
                 event, call, host, outputUnderflow, todo, return>>

ThreadNoBuffers(t) ==
  /\ tpc[t] = "process" /\ ~HasBuffers(t)
  /\ LoopEnd(t, done[t])
  /\ UNCHANGED <<shared, buffers, driver, event, call, done, host,
                 outputUnderflow, todo, return>>

\* Return a consumed input buffer to the driver, catching up if it has none.
ThreadInput(t) ==
  /\ tpc[t] = "input"
  /\ IF /\ Uses("in") /\ ~stopProcessing /\ ~abortProcessing
        /\ used["in"] = Chunks("in")
       THEN IF NoBuffersAreQueued("in")
              THEN BeginCatchUp(t, "in", "advance")
              ELSE Goto(t, "advance") /\ UNCHANGED <<todo, return>>
       ELSE Goto(t, "output") /\ UNCHANGED <<todo, return>>
  /\ UNCHANGED <<shared, buffers, driver, event, call, done, host,
                 outputUnderflow>>

ThreadAdvanceInput(t) ==
  /\ tpc[t] = "advance"
  /\ \E ok \in BOOLEAN :
       /\ AdvanceToNextBuffer("in", ok)
       /\ done' = [done EXCEPT ![t] = @ \/ ~ok]
  /\ Goto(t, "output")
  /\ UNCHANGED <<shared, running, event, call, host, outputUnderflow,
                 todo, return>>

\* Flush a partial buffer when stopping; note an underflow before enqueuing.
ThreadOutput(t) ==
  /\ tpc[t] = "output"
  /\ IF Uses("out") /\ ~abortProcessing
       THEN /\ used' = [used EXCEPT !["out"] =
                 IF stopProcessing /\ @ < Chunks("out") THEN @ + ZeroOutput ELSE @]
            /\ IF used'["out"] = Chunks("out")
                 THEN /\ outputUnderflow' = [outputUnderflow EXCEPT ![t] =
                                               NoBuffersAreQueued("out")]
                      /\ Goto(t, "write")
                 ELSE Goto(t, "again") /\ UNCHANGED outputUnderflow
       ELSE Goto(t, "again") /\ UNCHANGED <<used, outputUnderflow>>
  /\ UNCHANGED <<shared, cur, driver, event, call, done, host, todo,
                 return>>

ThreadWrite(t) ==
  /\ tpc[t] = "write"
  /\ \E ok \in BOOLEAN :
       /\ AdvanceToNextBuffer("out", ok)
       /\ done' = [done EXCEPT ![t] = @ \/ ~ok]
       /\ IF outputUnderflow[t] /\ ~done'[t] /\ ~stopProcessing
            THEN BeginCatchUp(t, "out", "again")
            ELSE Goto(t, "again") /\ UNCHANGED <<todo, return>>
  /\ UNCHANGED <<shared, running, event, call, host, outputUnderflow>>

\* Mutant: the inner loop does not look at stopProcessing and abortProcessing.
KeepsProcessing(t) ==
  /\ tpc[t] = "again"
  /\ IF ~done[t] THEN Goto(t, "pollIn") ELSE LoopEnd(t, done[t])
  /\ UNCHANGED <<shared, buffers, driver, event, call, done, host,
                 outputUnderflow, todo, return>>

\* The end of the inner do-while (the throttling before it is left out).
ThreadAgain(t) ==
  /\ tpc[t] = "again"
  /\ IF ~stopProcessing /\ ~abortProcessing /\ ~done[t]
       THEN Goto(t, "pollIn")
       ELSE LoopEnd(t, done[t])
  /\ UNCHANGED <<shared, buffers, driver, event, call, done, host,
                 outputUnderflow, todo, return>>

ThreadExit(t) ==
  /\ tpc[t] = "exit"
  /\ isActive' = FALSE
  /\ Goto(t, "finished")
  /\ UNCHANGED <<config, open, isStopped, stopProcessing, abortProcessing,
                 processingThread, buffers, driver, event, call, done,
                 host, outputUnderflow, todo, return>>

\* streamFinishedCallback, then the thread returns.
ThreadFinished(t) ==
  /\ tpc[t] = "finished"
  /\ Goto(t, "dead")
  /\ UNCHANGED <<shared, buffers, driver, event, call, done, host,
                 outputUnderflow, todo, return>>

ThreadStep(t) ==
  \/ ThreadWait(t) \/ ThreadCheck(t)
  \/ ThreadPollIn(t) \/ ThreadPollOut(t)
  \/ ThreadCatchUpIn(t) \/ ThreadCatchUpOut(t)
  \/ \E result \in CallbackResults : ThreadProcess(t, result)
  \/ ThreadNoBuffers(t)
  \/ ThreadInput(t) \/ ThreadAdvanceInput(t)
  \/ ThreadOutput(t) \/ ThreadWrite(t) \/ ThreadAgain(t)
  \/ ThreadExit(t) \/ ThreadFinished(t)

-----------------------------------------------------------------------------
(* The application thread.                                                 *)

local == <<thread, closing, waitCount, waitTimedOut, orphans>>
Alive(t) == tpc[t] \notin {"unborn", "dead"}
UnbornThreads == {t \in 1..config.starts : tpc[t] = "unborn"}

\* Pa_StartStream on a stopped stream; on any other it returns an error.
StartStream ==
  /\ app = "idle" /\ open /\ isStopped
  /\ UnbornThreads # {}
  /\ app' = "startIn"
  /\ UNCHANGED <<shared, buffers, driver, event, local>>

\* The first n buffers of direction d are given to the driver, from the first
\* on.  n < BufferCount(d) is an error return: the next one was refused.
QueueBuffers(d, n) ==
  LET given(b)   == b < n
      cleared(b) == b < n \/ (d = "in" /\ b = n)
  IN  /\ \A b \in Buffer(d) : given(b) => ~InQueue(d, b)
      /\ n < BufferCount(d) => MayFail \/ InQueue(d, n)
      /\ queue' = [queue EXCEPT ![d] = @ \o [i \in 1..n |-> i - 1]]
      /\ whdrDone' = [whdrDone EXCEPT ![d] =
                        [b \in Buffer(d) |-> @[b] /\ ~cleared(b)]]
      /\ IF n = BufferCount(d) /\ Uses(d)
           THEN /\ cur' = [cur EXCEPT ![d] = 0]
                /\ used' = [used EXCEPT ![d] = 0]
           ELSE UNCHANGED <<cur, used>>

StartInput ==
  /\ app = "startIn"
  /\ \E n \in 0..BufferCount("in") :
       /\ QueueBuffers("in", n)
       /\ app' = IF n = BufferCount("in") THEN "startOut" ELSE "idle"
  /\ UNCHANGED <<shared, running, event, local>>

\* waveOutPause, then the buffers, zeroed.
StartOutput ==
  /\ app = "startOut"
  /\ running' = [running EXCEPT !["out"] = FALSE]
  /\ \E n \in 0..BufferCount("out") :
       /\ QueueBuffers("out", n)
       /\ app' = IF n = BufferCount("out") THEN "startFlags" ELSE "idle"
  /\ UNCHANGED <<shared, event, local>>

StartFlags ==
  /\ app = "startFlags"
  /\ isStopped' = FALSE /\ isActive' = TRUE
  /\ stopProcessing' = FALSE /\ abortProcessing' = FALSE
  /\ event' = [e \in DOMAIN event |-> FALSE]
  /\ app' \in {IF config.blocking THEN "startDevices" ELSE "startThread"}
              \cup IF MayFail THEN {"idle"} ELSE {}
  /\ UNCHANGED <<config, open, processingThread, buffers, driver, local>>

\* CREATE_THREAD and SetThreadPriority; an error leaves what is done as it is.
StartThread ==
  /\ app = "startThread"
  /\ \/ LET t == CHOOSE u \in UnbornThreads : \A v \in UnbornThreads : u <= v IN
          /\ processingThread' = t
          /\ tpc' = [tpc EXCEPT ![t] = "wait"]
          /\ app' \in {"startDevices"} \cup IF MayFail THEN {"idle"} ELSE {}
     \/ MayFail /\ processingThread' = NoThread /\ app' = "idle" /\ UNCHANGED tpc
  /\ UNCHANGED <<config, open, isStopped, isActive, stopProcessing, abortProcessing,
                 buffers, driver, event, closing, waitCount, waitTimedOut, orphans,
                 done, host, outputUnderflow, todo, return>>

\* waveInStart, then waveOutRestart.
StartDevices ==
  /\ app = "startDevices"
  /\ \E dirs \in {Direction} \cup IF MayFail THEN {{}, {"in"}} ELSE {} :
       running' = [d \in Direction |-> running[d] \/ d \in dirs]
  /\ app' = "idle"
  /\ UNCHANGED <<shared, buffers, queue, whdrDone, event, local>>

-----------------------------------------------------------------------------
\* Pa_StopStream on a stream that is not stopped.  Without a processing thread
\* (a blocking stream, or StartStream failed to create it) the output that is
\* there is flushed and waited for.
StopStream ==
  /\ app = "idle" /\ open /\ ~isStopped
  /\ IF processingThread # NoThread
       THEN stopProcessing' = TRUE /\ app' = "stopWait"
       ELSE /\ app' = IF Uses("out") THEN "stopFlush" ELSE "stopReset"
            /\ UNCHANGED stopProcessing
  /\ UNCHANGED <<config, open, isStopped, isActive, abortProcessing, processingThread,
                 buffers, driver, event, local>>

\* A partly filled buffer is given to the driver; an error is ignored.
StopFlush ==
  /\ app = "stopFlush"
  /\ IF used["out"] > 0
       THEN \E ok \in BOOLEAN : AdvanceToNextBuffer("out", ok)
       ELSE UNCHANGED <<buffers, queue, whdrDone>>
  /\ waitCount' = 0 /\ waitTimedOut' = FALSE
  /\ app' = "stopDrain"
  /\ UNCHANGED <<shared, running, event, closing, orphans, thread>>

\* Mutant: as many waits as there are buffers.
OneWaitPerBuffer(count) == count < BufferCount("out")
WaitsAreLeft(count) == count <= BufferCount("out")

StopDrain ==
  /\ app = "stopDrain"
  /\ app' = IF ~NoBuffersAreQueued("out") /\ WaitsAreLeft(waitCount)
              THEN "stopDrainWait" ELSE "stopReset"
  /\ UNCHANGED <<shared, buffers, driver, event, local>>

\* A wait takes one event, or times out; a failed one ends the loop.
StopDrainWait ==
  /\ app = "stopDrainWait"
  /\ \/ /\ event["out"]
        /\ event' = [event EXCEPT !["out"] = FALSE]
        /\ app' = "stopDrain"
        /\ UNCHANGED waitTimedOut
     \/ /\ ~event["out"]
        /\ config.stopTimeouts >= 1 \/ ~running["out"] \/ queue["out"] = <<>>
        /\ waitTimedOut' = TRUE
        /\ app' = "stopDrain"
        /\ UNCHANGED event
     \/ /\ MayFail
        /\ app' = "stopReset"
        /\ UNCHANGED <<event, waitTimedOut>>
  /\ waitCount' = waitCount + 1
  /\ UNCHANGED <<shared, buffers, driver, closing, orphans, thread>>

\* Mutant: the wait for the processing thread returns at once.
ThreadMayRun == TRUE

\* WaitForSingleObject on the thread's handle, if there is one.
ThreadHasEnded == processingThread # NoThread => tpc[processingThread] = "dead"

\* The first wait.  When it times out: try to abort.
StopWait ==
  /\ app = "stopWait"
  /\ \/ /\ ThreadHasEnded
        /\ processingThread' = NoThread
        /\ app' = "stopReset"
        /\ UNCHANGED <<abortProcessing, event>>
     \/ /\ ~ThreadHasEnded /\ config.stopTimeouts >= 1
        /\ abortProcessing' = TRUE
        /\ event' = [event EXCEPT !["abort"] = TRUE]
        /\ app' = "stopWaitAgain"
        /\ UNCHANGED processingThread
  /\ UNCHANGED <<config, open, isStopped, isActive, stopProcessing, buffers, driver,
                 local>>

\* The second wait.  When it times out, the result is paTimedOut, but the
\* handle is closed all the same and the thread, told to abort, runs on.
StopWaitAgain ==
  /\ app = "stopWaitAgain"
  /\ \/ ThreadHasEnded /\ UNCHANGED orphans
     \/ /\ ~ThreadHasEnded /\ config.stopTimeouts >= 2
        /\ orphans' = orphans \cup {processingThread}
  /\ processingThread' = NoThread
  /\ app' = "stopReset"
  /\ UNCHANGED <<config, open, isStopped, isActive, stopProcessing, abortProcessing,
                 buffers, driver, event, closing, waitCount, waitTimedOut, thread>>

\* waveOutReset and waveInReset, whose errors are only reported.
StopReset ==
  /\ app = "stopReset"
  /\ \E dirs \in IF MayFail THEN SUBSET Direction ELSE {Direction} : Reset(dirs)
  /\ app' = "stopDone"
  /\ UNCHANGED <<shared, buffers, local>>

StopDone ==
  /\ app = "stopDone"
  /\ isStopped' = TRUE /\ isActive' = FALSE
  /\ app' = "idle"
  /\ UNCHANGED <<config, open, stopProcessing, abortProcessing, processingThread,
                 buffers, driver, event, local>>

-----------------------------------------------------------------------------
\* Pa_AbortStream on a stream that is not stopped, or Pa_CloseStream aborting
\* such a stream first.
AbortStream ==
  /\ app = "idle" /\ open /\ ~isStopped
  /\ closing' \in BOOLEAN
  /\ IF processingThread # NoThread
       THEN /\ abortProcessing' = TRUE
            /\ event' = [event EXCEPT !["abort"] = TRUE]
       ELSE UNCHANGED <<abortProcessing, event>>
  /\ app' = "abortReset"
  /\ UNCHANGED <<config, open, isStopped, isActive, stopProcessing, processingThread,
                 buffers, driver, waitCount, waitTimedOut, orphans, thread>>

\* An error of a reset returns at once.
AbortReset ==
  /\ app = "abortReset"
  /\ \/ Reset(Direction) /\ app' = "abortWait"
     \/ /\ MayFail
        /\ \E dirs \in {{}, {"out"}} : Reset(dirs)
        /\ app' = "idle"
  /\ closing' = (closing /\ app' # "idle")
  /\ UNCHANGED <<shared, buffers, waitCount, waitTimedOut, orphans, thread>>

\* Wait for the thread; a timeout returns paTimedOut and changes nothing.
AbortWait ==
  /\ app = "abortWait"
  /\ \/ /\ ThreadHasEnded
        /\ processingThread' = NoThread
        /\ isStopped' = TRUE /\ isActive' = FALSE
        /\ app' = IF closing THEN "close" ELSE "idle"
     \/ /\ ~ThreadHasEnded /\ AbortTimeout
        /\ app' = "idle"
        /\ UNCHANGED <<processingThread, isStopped, isActive>>
  /\ closing' = FALSE
  /\ UNCHANGED <<config, open, stopProcessing, abortProcessing, buffers, driver, event,
                 waitCount, waitTimedOut, orphans, thread>>

\* Pa_CloseStream on a stopped stream, or once aborted: everything is freed.
CloseStream ==
  /\ open
  /\ app = "close" \/ (app = "idle" /\ isStopped)
  /\ open' = FALSE
  /\ app' = "idle"
  /\ UNCHANGED <<config, isStopped, isActive, stopProcessing, abortProcessing,
                 processingThread, buffers, driver, event, local>>

InCall ==
  \/ StartInput \/ StartOutput \/ StartFlags \/ StartThread \/ StartDevices
  \/ StopWait \/ StopWaitAgain \/ StopFlush \/ StopDrain \/ StopDrainWait
  \/ StopReset \/ StopDone
  \/ AbortReset \/ AbortWait
  \/ (app = "close" /\ CloseStream)

Next ==
  \/ \E t \in Threads : ThreadStep(t)
  \/ \E d \in Direction : DriverDone(d)
  \/ StartStream \/ StopStream \/ AbortStream \/ CloseStream
  \/ InCall

Spec == Init /\ [][Next]_vars

\* Threads are scheduled, drivers go through their queues, a call goes on.
\* Nothing obliges the application to call, or the callback to finish.
FairSpec ==
  /\ Spec
  /\ \A t \in Threads : WF_vars(ThreadStep(t))
  /\ \A d \in Direction : WF_vars(DriverDone(d))
  /\ WF_vars(InCall)

-----------------------------------------------------------------------------
(* Properties.                                                             *)

TypeOK ==
  /\ config \in OpenStreams
  /\ {open, isStopped, isActive, stopProcessing, abortProcessing, closing,
      waitTimedOut} \subseteq BOOLEAN
  /\ waitCount \in 0..BufferCount("out") + 1
  /\ processingThread \in Threads \cup {NoThread}
  /\ \A d \in Direction :
       /\ cur[d] = 0 \/ cur[d] \in Buffer(d)
       /\ used[d] \in 0..Chunks(d)
       /\ queue[d] \in Seq(Buffer(d)) /\ Len(queue[d]) <= BufferCount(d)
       /\ whdrDone[d] \in [Buffer(d) -> BOOLEAN]
  /\ running \in [Direction -> BOOLEAN]
  /\ event \in [Direction \cup {"abort"} -> BOOLEAN]
  /\ app \in {"idle", "startIn", "startOut", "startFlags", "startThread",
              "startDevices", "stopWait", "stopWaitAgain", "stopFlush",
              "stopDrain", "stopDrainWait", "stopReset", "stopDone",
              "abortReset", "abortWait", "close", "read", "readWait", "write",
              "writeWait"}
  /\ tpc \in [Threads -> {"unborn", "wait", "check", "pollIn", "pollOut",
              "catchIn", "catchOut", "process", "input", "advance", "output",
              "write", "again", "exit", "finished", "dead"}]
  /\ done \in [Threads -> BOOLEAN] /\ outputUnderflow \in [Threads -> BOOLEAN]
  /\ host \in [Threads -> SUBSET Direction]
  /\ todo \in [Threads -> Nat]
  /\ orphans \subseteq Threads

\* A stopped stream has no processing thread left but those Pa_StopStream gave
\* up: Pa_IsStreamStopped is 1 only before a start and after a stop or abort
\* that has seen the thread end, or whose two waits for it both timed out.
NoThreadWhenStopped == isStopped => \A t \in Threads : Alive(t) => t \in orphans

\* The memory freed by Pa_CloseStream is not used by a processing thread, unless
\* Pa_StopStream gave the thread up.
NoThreadWhenClosed == ~open => \A t \in Threads : Alive(t) => t \in orphans

\* However streams are stopped, aborted and restarted, one processing thread
\* at a time works on a stream, and it is the one the handle refers to, next to
\* those that were given up.
OneProcessingThread ==
  \A t \in Threads : Alive(t) /\ open => t = processingThread \/ t \in orphans

\* While the callback has a host buffer, the driver does not: the thread never
\* works on a buffer that is queued, however the two race.
CallbackOwnsBuffers ==
  \A t \in Threads : tpc[t] = "process" /\ HasBuffers(t) =>
    \A d \in Direction : Uses(d) => ~InQueue(d, cur[d]) /\ whdrDone[d][cur[d]]

\* The driver's queue always is the run of buffers just before the current one,
\* in ring order: audio is neither repeated nor played out of order, through
\* catch-ups, partial wake-ups and blocking calls.
RingOrder ==
  ~MayFail /\ ~isStopped =>
    \A d \in Direction : \A i \in 1..Len(queue[d]) :
      queue[d][i] = (cur[d] - Len(queue[d]) + i - 1) % BufferCount(d)

\* An inactive stream has nothing left to do: once Pa_IsStreamActive is 0 the
\* thread is past its last access of a buffer and Pa_StopStream will not block.
InactiveMeansFinished ==
  ~isActive => \A t \in Threads : Alive(t) => tpc[t] = "finished"

\* When nobody aborts, the stream finished callback is called only after all
\* generated output has been played but for what does not fill a buffer, which
\* is dropped.
FinishedAfterPlayed ==
  \A t \in Threads :
    tpc[t] = "finished" /\ ~MayFail /\ ~abortProcessing /\ Uses("out") =>
      queue["out"] = <<>> /\ used["out"] < Chunks("out")

\* Pa_CloseStream discards pending buffers before it frees them.
NothingQueuedWhenClosed == ~open => \A d \in Direction : queue[d] = <<>>

\* Every API call returns.
CallsReturn == (app # "idle") ~> (app = "idle")

\* Once the callback has returned paComplete or paAbort, or a stop was asked
\* for, the stream becomes inactive: the finished callback is reached.
StoppingStreamFinishes ==
  \A t \in Threads :
    (Alive(t) /\ (stopProcessing \/ abortProcessing)) ~> tpc[t] = "dead"

\* Processing threads live as long as their stream runs: however a stream is
\* started, stopped, aborted and closed, one thread works on it, and none on a
\* stream that is stopped or freed.  The one exception is a thread that outlasts
\* both waits of Pa_StopStream, which closes its handle and reports the stream
\* as stopped over it.
OneThreadPerStream ==
  /\ NoThreadWhenStopped
  /\ NoThreadWhenClosed
  /\ OneProcessingThread

\* A host buffer is the driver's or the callback's, and goes round in order.
\* Nothing is claimed once Pa_StopStream gave a thread up, which then shares the
\* buffers with the calls and the next thread.
BuffersGoRound ==
  orphans = {} =>
    /\ TypeOK
    /\ CallbackOwnsBuffers
    /\ RingOrder

\* Finished means finished: inactive streams have nothing left to do, and have
\* played everything before the finished callback, if Pa_StopStream never gave a
\* thread up.
FinishedMeansPlayed ==
  orphans = {} =>
    /\ InactiveMeansFinished
    /\ FinishedAfterPlayed
=============================================================================
