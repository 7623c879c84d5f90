------------------------- MODULE PaWmmeStreamProofs -------------------------
(***************************************************************************)
(* Proofs about WMME streams, callback and blocking (StreamSpec), for      *)
(* every configuration, number of threads and bound: one processing thread *)
(* per stream, host buffers that go round between driver and callback in   *)
(* ring order, finished streams that have played everything, and blocking  *)
(* transfers that lose, repeat and reorder no frame.                       *)
(***************************************************************************)
EXTENDS PaWmmeBlocking, NumberTheorems, FiniteSetTheorems, TLAPS

-----------------------------------------------------------------------------
(* The inductive invariant.                                                *)

Labels ==
  {"unborn", "wait", "check", "pollIn", "pollOut", "catchIn", "catchOut",
   "process", "input", "advance", "output", "write", "again", "exit",
   "finished", "dead"}
TypeInv ==
  /\ config \in OpenStreams
  /\ open \in BOOLEAN /\ isStopped \in BOOLEAN /\ isActive \in BOOLEAN
  /\ stopProcessing \in BOOLEAN /\ abortProcessing \in BOOLEAN
  /\ processingThread \in Threads \cup {NoThread}
  /\ running \in [Direction -> BOOLEAN]
  /\ event \in [Direction \cup {"abort"} -> BOOLEAN]
  /\ app \in {"idle", "startIn", "startOut", "startFlags", "startThread",
              "startDevices", "stopWait", "stopWaitAgain", "stopFlush",
              "stopDrain", "stopDrainWait", "stopReset", "stopDone",
              "abortReset", "abortWait", "close", "read", "readWait", "write",
              "writeWait"}
  /\ closing \in BOOLEAN /\ waitTimedOut \in BOOLEAN
  /\ waitCount \in 0..BufferCount("out") + 1
  /\ app = "stopDrainWait" => waitCount <= BufferCount("out")
  /\ tpc \in [Threads -> Labels]
  /\ done \in [Threads -> BOOLEAN] /\ outputUnderflow \in [Threads -> BOOLEAN]
  /\ host \in [Threads -> SUBSET Direction]
  /\ todo \in [Threads -> Nat]
  /\ return \in [Threads -> {"wait", "pollOut", "process", "advance", "again"}]

\* A buffer is never queued twice, and a queued one is not done.
QueueOk(d) ==
  /\ queue[d] \in Seq(Buffer(d)) /\ whdrDone[d] \in [Buffer(d) -> BOOLEAN]
  /\ \A i \in 1..Len(queue[d]) : ~whdrDone[d][queue[d][i]]
  /\ \A i, j \in 1..Len(queue[d]) : queue[d][i] = queue[d][j] => i = j
QueueInv ==
  /\ DOMAIN queue = Direction /\ DOMAIN whdrDone = Direction
  /\ \A d \in Direction : QueueOk(d)

\* Positions in the buffers: unused directions stay where they are.
CursorInv ==
  /\ cur \in [Direction -> Nat] /\ used \in [Direction -> Nat]
  /\ \A d \in Direction :
       /\ cur[d] = 0 \/ cur[d] < BufferCount(d)
       /\ used[d] <= Chunks(d)
       /\ ~Uses(d) => used[d] = 0

\* Where the application is while a thread lives.
Attended == {"idle", "startDevices", "stopWait", "stopWaitAgain",
             "abortReset", "abortWait"}
Starting == {"startIn", "startOut", "startFlags"}

\* The thread that lives is the one the handle refers to, its stream is open
\* and not stopped, and no call is past the wait for it, unless Pa_StopStream
\* gave it up.
LifeInv ==
  /\ \A t \in Threads : Alive(t) /\ t \notin orphans =>
       /\ t = processingThread /\ open /\ ~isStopped /\ ~config.blocking
       /\ app \in Attended
  /\ ~open => isStopped /\ app = "idle"
  /\ app \in Starting \cup {"close"} => isStopped
  /\ app \notin Starting \cup {"close", "idle"} => ~isStopped
  /\ app \in Starting \cup {"startThread"} => UnbornThreads # {}
  /\ app = "startThread" => ~config.blocking
  /\ app \in {"read", "readWait", "write", "writeWait"} => config.blocking
  /\ app \in {"stopWait", "stopWaitAgain"} => processingThread # NoThread
  /\ app \in {"stopFlush", "stopDrain", "stopDrainWait"} => processingThread = NoThread
  /\ ~MayFail /\ ~config.blocking /\ ~isStopped =>
       processingThread # NoThread \/ app \in {"startThread", "stopReset", "stopDone"}

\* The k-th buffer before the current one, in ring order, and the k-th after.
PreviousTo(b, k, n) == IF k <= b THEN b - k ELSE b - k + n
Before(d, k) == PreviousTo(cur[d], k, BufferCount(d))
After(d, k) ==
  IF cur[d] + k < BufferCount(d) THEN cur[d] + k ELSE cur[d] + k - BufferCount(d)

\* The queue of direction d is the run of buffers just before the current one.
InOrder(d) ==
  \A i \in 1..Len(queue[d]) : queue[d][i] = Before(d, Len(queue[d]) + 1 - i)

OrderInv ==
  ~MayFail =>
    /\ ~isStopped \/ app = "startFlags" => \A d \in Direction : InOrder(d)
    /\ app = "startOut" => InOrder("in")

\* A start that goes on begins with untouched buffers; the application works
\* on buffers that are done.
UsedInv ==
  /\ app = "startOut" => used["in"] = 0
  /\ app \in {"startFlags", "startThread"} => \A d \in Direction : used[d] = 0
  /\ config.blocking /\ ~isStopped =>
       \A d \in Direction : used[d] > 0 => whdrDone[d][cur[d]]
  /\ config.blocking => \A d \in Direction : used[d] < Chunks(d)

HasHostBuffer(d) == Uses(d) /\ whdrDone[d][cur[d]]

\* A catch-up goes on with buffers that are done; after one at the end of a
\* round, all but the last.
CatchUpInv(t, d) ==
  /\ Uses(d) /\ todo[t] < BufferCount(d)
  /\ \A k \in 0..todo[t] :
       whdrDone[d][After(d, k)] \/ (return[t] = "again" /\ k = todo[t])

\* What a thread knows of the buffers at every step.
HostInv(t) ==
  /\ tpc[t] = "catchIn" =>
       /\ return[t] \in {"pollOut", "advance"} /\ CatchUpInv(t, "in")
       /\ return[t] = "pollOut" => host[t] = {"in"}
       /\ return[t] = "advance" /\ Uses("out") => HasHostBuffer("out")
  /\ tpc[t] = "pollOut" => \A d \in host[t] : d = "in" /\ HasHostBuffer(d)
  /\ tpc[t] = "catchOut" =>
       /\ return[t] \in {"process", "again"} /\ CatchUpInv(t, "out")
       /\ return[t] = "process" /\ "in" \in host[t] => HasHostBuffer("in")
  /\ tpc[t] = "process" => \A d \in host[t] : HasHostBuffer(d)
  /\ tpc[t] \in {"input", "advance"} =>
       \A d \in Direction : Uses(d) => HasHostBuffer(d)
  /\ tpc[t] = "advance" => Uses("in")
  /\ tpc[t] \in {"output", "write"} /\ Uses("out") => HasHostBuffer("out")
  /\ tpc[t] = "write" =>
       Uses("out") /\ (outputUnderflow[t] => NoBuffersAreQueued("out"))

\* The thread goes on with buffers that have frames left.
RoomInv(t) ==
  LET polling == \/ tpc[t] \in {"pollIn", "pollOut", "process"}
                 \/ tpc[t] \in {"catchIn", "catchOut"} /\ return[t] \in {"pollOut", "process"}
      between == \/ tpc[t] \in {"wait", "check", "again"}
                 \/ tpc[t] = "catchOut" /\ return[t] = "again"
  IN  /\ polling => \A d \in Direction : used[d] < Chunks(d)
      /\ between \/ tpc[t] \in {"output", "write"} =>
           used["in"] < Chunks("in") \/ stopProcessing \/ abortProcessing
      /\ between => used["out"] < Chunks("out") \/ abortProcessing

\* A thread stops when its output has been played, is aborted, or failed.
FinishInv(t) ==
  /\ isActive \/ tpc[t] = "finished"
  /\ ~MayFail /\ ~abortProcessing =>
       IF tpc[t] \in {"exit", "finished"}
         THEN /\ Uses("out") => queue["out"] = <<>>
              /\ used["out"] < Chunks("out")
         ELSE ~done[t]

\* Threads are created with their locals as they were initialised, in a stream
\* that is active.
FreshInv ==
  /\ app = "startThread" => isActive
  /\ \A t \in Threads : tpc[t] = "unborn" => ~done[t]

\* A blocking call is for a direction the stream has.
CallInv ==
  /\ left \in Nat
  /\ \A d \in Direction : app \in {CallOf(d), WaitOf(d)} => Uses(d)

\* What holds whether or not Pa_StopStream gave a thread up: only callback
\* streams have threads, and only blocking calls ask for available frames.
BaseInv ==
  /\ TypeInv /\ LifeInv
  /\ \A t \in Threads : tpc[t] = "write" => Uses("out")
  /\ config.blocking => orphans = {} /\ processingThread = NoThread
  /\ covered => config.blocking

\* What holds until it does.
IInv ==
  /\ orphans = {}
  /\ TypeInv /\ QueueInv /\ CursorInv /\ LifeInv /\ OrderInv /\ UsedInv
  /\ FreshInv /\ CallInv
  /\ \A t \in Threads : Alive(t) => HostInv(t) /\ RoomInv(t) /\ FinishInv(t)

-----------------------------------------------------------------------------
(* The configuration.                                                      *)

LEMMA ConfigType ==
  ASSUME config \in OpenStreams
  PROVE  /\ config \in Configuration
         /\ \A d \in Direction : BufferCount(d) \in Nat /\ Chunks(d) \in Nat \ {0}
         /\ MayFail \in BOOLEAN /\ config.blocking \in BOOLEAN
         /\ config.starts \in 1..MaxStarts
  BY StreamAssumption DEF StreamAssumption, Configuration, BufferCount, Chunks, MayFail

LEMMA InitInv == BlockingInit => IInv
<1> SUFFICES ASSUME BlockingInit PROVE IInv OBVIOUS
<1> USE DEF BlockingInit
<1> USE DEF Init
<1>0. /\ config \in OpenStreams
      /\ \A d \in Direction : BufferCount(d) \in Nat /\ Chunks(d) \in Nat \ {0}
      /\ config.starts \in 1..MaxStarts
  BY ConfigType
<1>1. TypeInv
  <2>1. running \in [Direction -> BOOLEAN] OBVIOUS
  <2>2. event \in [Direction \cup {"abort"} -> BOOLEAN] OBVIOUS
  <2>3. done \in [Threads -> BOOLEAN] /\ outputUnderflow \in [Threads -> BOOLEAN] OBVIOUS
  <2>4. waitCount \in 0..BufferCount("out") + 1 BY <1>0 DEF Direction
  <2> QED BY <1>0, <2>1, <2>2, <2>3, <2>4 DEF TypeInv, NoThread, Labels
<1>2. QueueInv BY <1>0 DEF QueueInv, QueueOk, Direction, Buffer
<1>3. CursorInv BY <1>0 DEF CursorInv
<1>4. LifeInv BY <1>0 DEF LifeInv, Alive, Starting, Threads, Attended
<1>5. OrderInv BY DEF OrderInv
<1>6. UsedInv BY <1>0 DEF UsedInv
<1>7. FreshInv BY DEF FreshInv
<1>8. CallInv /\ orphans = {} BY DEF CallInv, CallOf, WaitOf, BlockingInit
<1>9. \A t \in Threads : ~Alive(t) BY DEF Alive
<1> QED BY <1>1, <1>2, <1>3, <1>4, <1>5, <1>6, <1>7, <1>8, <1>9 DEF IInv

LEMMA InitBase == BlockingInit => BaseInv
<1> SUFFICES ASSUME BlockingInit PROVE BaseInv OBVIOUS
<1>1. TypeInv /\ LifeInv BY InitInv DEF IInv
<1>2. \A t \in Threads : tpc[t] # "write" BY DEF BlockingInit, Init
<1>3. orphans = {} /\ processingThread = NoThread /\ ~covered BY DEF BlockingInit, Init
<1> QED BY <1>1, <1>2, <1>3 DEF BaseInv

-----------------------------------------------------------------------------
(* What the steps do.                                                      *)

\* The calls of PaWmmeStream, and those of a blocking stream.
Calls ==
  \/ StartStream \/ StartInput \/ StartOutput \/ StartFlags \/ StartThread
  \/ StartDevices \/ StopStream \/ StopFlush \/ StopDrain \/ StopDrainWait
  \/ StopWait \/ StopWaitAgain \/ StopReset \/ StopDone
  \/ AbortStream \/ AbortReset \/ AbortWait \/ CloseStream
Transfers(d) ==
  \/ \E n \in 1..MaxTransfer : BeginTransfer(d, n)
  \/ Transfer(d) \/ TransferWait(d) \/ TransferTimeout(d)

\* A step is one of a thread, of a driver, or of a call.
LEMMA StepCases ==
  ASSUME StreamNext
  PROVE  \/ ~config.blocking /\ \E t \in Threads : ThreadStep(t)
         \/ \E d \in Direction : DriverDone(d)
         \/ Calls
         \/ config.blocking /\ \E d \in Direction : Transfers(d)
<1>1. CASE ~config.blocking /\ Next BY <1>1 DEF Next, InCall, Calls
<1>2. CASE config.blocking /\ BlockingNext
  <2>1. CASE \E d \in Direction : DriverTransfers(d) BY <2>1 DEF DriverTransfers
  <2>2. CASE BlockingStart BY <2>2 DEF BlockingStart, Calls
  <2>3. CASE OtherSteps BY <2>3 DEF OtherSteps, Calls
  <2>4. CASE BlockingCall
      BY <1>2, <2>3, <2>4
      DEF BlockingCall, BlockingStartOutput, BlockingStopFlush, Calls, Transfers
  <2> QED BY <1>2, <2>1, <2>2, <2>3, <2>4 DEF BlockingNext, Transfers
<1> QED BY <1>1, <1>2 DEF StreamNext

\* A thread changes its own locals, and sets flags of the stream.
LEMMA ThreadFrame ==
  ASSUME TypeInv, NEW t \in Threads, ThreadStep(t)
  PROVE  /\ UNCHANGED <<config, open, isStopped, processingThread, running, call>>
         /\ Alive(t)
         /\ stopProcessing' \in BOOLEAN /\ (stopProcessing => stopProcessing')
         /\ abortProcessing' \in BOOLEAN /\ (abortProcessing => abortProcessing')
         /\ isActive' = (isActive /\ tpc[t] # "exit")
         /\ event' \in [Direction \cup {"abort"} -> BOOLEAN]
         /\ tpc' \in [Threads -> Labels] /\ done' \in [Threads -> BOOLEAN]
         /\ host' \in [Threads -> SUBSET Direction]
         /\ outputUnderflow' \in [Threads -> BOOLEAN]
         /\ return' \in [Threads -> {"wait", "pollOut", "process", "advance", "again"}]
         /\ tpc'[t] # "unborn"
         /\ \A u \in Threads \ {t} : tpc'[u] = tpc[u]
<1>
  USE DEF TypeInv, shared, driver, call, Goto, LoopEnd, Poll, CatchUp, BeginCatchUp,
      buffers, Direction, Alive, Labels
<1>1. CASE ThreadWait(t)
  <2>1. UNCHANGED <<shared, call, host, outputUnderflow, return>> /\ tpc[t] = "wait"
    BY <1>1 DEF ThreadWait
  <2>2. tpc' = [tpc EXCEPT ![t] = "check"] BY <1>1 DEF ThreadWait
  <2>3. event' \in [Direction \cup {"abort"} -> BOOLEAN] BY <1>1 DEF ThreadWait
  <2>4. done' \in [Threads -> BOOLEAN] BY <1>1 DEF ThreadWait
  <2>5. tpc' \in [Threads -> Labels] /\ tpc'[t] = "check"
        /\ \A u \in Threads \ {t} : tpc'[u] = tpc[u]
    BY <2>2
  <2>6. /\ Alive(t) /\ isActive' = (isActive /\ tpc[t] # "exit")
        /\ stopProcessing' \in BOOLEAN /\ (stopProcessing => stopProcessing')
        /\ abortProcessing' \in BOOLEAN /\ (abortProcessing => abortProcessing')
    BY <2>1
  <2>7. /\ host' \in [Threads -> SUBSET Direction]
        /\ outputUnderflow' \in [Threads -> BOOLEAN]
        /\ return' \in [Threads -> {"wait", "pollOut", "process", "advance", "again"}]
    BY <2>1
  <2>8. UNCHANGED <<config, open, isStopped, processingThread, running, call>>
    <3>1. UNCHANGED <<config, open, isStopped, processingThread>> BY <2>1
    <3>2. UNCHANGED driver BY <1>1 DEF ThreadWait
    <3>3. running' = running BY <3>2
    <3>4. UNCHANGED call BY <2>1
    <3> QED BY <3>1, <3>3, <3>4
  <2>9. tpc'[t] # "unborn" BY <2>5
  <2> HIDE DEF TypeInv, shared, driver, call, Goto, LoopEnd, Poll, CatchUp, BeginCatchUp,
               buffers, Direction, Alive, Labels
  <2> QED BY <2>3, <2>4, <2>5, <2>6, <2>7, <2>8, <2>9
<1>2. CASE ThreadCheck(t) BY <1>2 DEF ThreadCheck
<1>3. CASE ThreadPollIn(t) BY <1>3 DEF ThreadPollIn
<1>4. CASE ThreadPollOut(t) BY <1>4 DEF ThreadPollOut
<1>c. ASSUME NEW d \in Direction, NEW label \in {"catchIn", "catchOut"},
             CatchUp(t, d, label)
      PROVE  /\ UNCHANGED <<config, open, isStopped, processingThread, running, call>>
             /\ Alive(t) /\ UNCHANGED <<stopProcessing, abortProcessing, isActive>>
             /\ tpc[t] # "exit"
             /\ UNCHANGED <<event, host, outputUnderflow, return>>
             /\ tpc' \in [Threads -> Labels] /\ done' \in [Threads -> BOOLEAN]
             /\ tpc'[t] # "unborn"
             /\ \A u \in Threads \ {t} : tpc'[u] = tpc[u]
  <2>1. UNCHANGED <<shared, event, call, host, outputUnderflow, return>> /\ tpc[t] = label
    BY <1>c
  <2>2. \/ tpc' = [tpc EXCEPT ![t] = return[t]] /\ UNCHANGED <<running, done>>
        \/ \E ok \in BOOLEAN : /\ done' = [done EXCEPT ![t] = @ \/ ~ok]
                              /\ UNCHANGED <<running, tpc>>
    BY <1>c
  <2>3. return[t] \in Labels \ {"unborn"} /\ tpc[t] # "unborn" BY <2>1
  <2>4. tpc' \in [Threads -> Labels] /\ tpc'[t] # "unborn"
        /\ \A u \in Threads \ {t} : tpc'[u] = tpc[u]
    BY <2>2, <2>3
  <2>5. done' \in [Threads -> BOOLEAN] BY <2>2
  <2>6. running' = running BY <2>2
  <2>7. UNCHANGED <<config, open, isStopped, processingThread, call, stopProcessing,
                    abortProcessing, isActive>>
    BY <2>1
  <2>8. Alive(t) /\ tpc[t] # "exit" BY <2>1
  <2> HIDE DEF TypeInv, shared, driver, call, Goto, LoopEnd, Poll, CatchUp, BeginCatchUp,
               buffers, Direction, Alive, Labels
  <2> QED BY <2>1, <2>4, <2>5, <2>6, <2>7, <2>8
<1>5. CASE ThreadCatchUpIn(t) BY <1>5, <1>c DEF ThreadCatchUpIn
<1>6. CASE ThreadCatchUpOut(t) BY <1>6, <1>c DEF ThreadCatchUpOut
<1>7. CASE \E result \in CallbackResults : ThreadProcess(t, result) BY <1>7 DEF ThreadProcess
<1>8. CASE ThreadNoBuffers(t) BY <1>8 DEF ThreadNoBuffers
<1>9. CASE ThreadInput(t) BY <1>9 DEF ThreadInput
<1>10. CASE ThreadAdvanceInput(t) BY <1>10 DEF ThreadAdvanceInput
<1>11. CASE ThreadOutput(t)
  <2>1. outputUnderflow' \in [Threads -> BOOLEAN]
    <3>1. NoBuffersAreQueued("out") \in BOOLEAN BY DEF NoBuffersAreQueued
    <3>2. \/ UNCHANGED outputUnderflow
          \/ outputUnderflow' = [outputUnderflow EXCEPT ![t] = NoBuffersAreQueued("out")]
      BY <1>11 DEF ThreadOutput
    <3> QED BY <3>1, <3>2
  <2> QED BY <1>11, <2>1 DEF ThreadOutput
<1>12. CASE ThreadWrite(t) BY <1>12 DEF ThreadWrite
<1>13. CASE ThreadAgain(t) BY <1>13 DEF ThreadAgain
<1>14. CASE ThreadExit(t) BY <1>14 DEF ThreadExit
<1>15. CASE ThreadFinished(t) BY <1>15 DEF ThreadFinished
<1> QED
  BY <1>1, <1>2, <1>3, <1>4, <1>5, <1>6, <1>7, <1>8, <1>9, <1>10, <1>11, <1>12, <1>13,
      <1>14, <1>15
  DEF ThreadStep

-----------------------------------------------------------------------------
(* Buffers that are done, and queues.                                      *)

LEMMA QueueFacts ==
  ASSUME TypeInv, QueueInv, NEW d \in Direction
  PROVE  /\ Len(queue[d]) \in Nat
         /\ \A i \in 1..Len(queue[d]) : queue[d][i] \in Buffer(d)
         /\ \A b \in Buffer(d) : whdrDone[d][b] => ~InQueue(d, b)
  BY DEF QueueInv, QueueOk, InQueue

\* The driver gives a buffer back.
LEMMA DoneKeepsQueue ==
  ASSUME TypeInv, QueueInv, NEW d \in Direction, DriverDone(d)
  PROVE  /\ QueueInv'
         /\ \A e \in Direction : \A b \in Buffer(e) : whdrDone[e][b] => whdrDone'[e][b]
         /\ \A e \in Direction : queue[e] = <<>> => queue'[e] = <<>>
<1> DEFINE q == queue[d]
<1>1. config' = config /\ Buffer(d)' = Buffer(d) BY DEF DriverDone, shared, Buffer, BufferCount
<1>2. q \in Seq(Buffer(d)) /\ q # <<>> BY DEF QueueInv, QueueOk, DriverDone
<1>3. /\ Head(q) \in Buffer(d) /\ Tail(q) \in Seq(Buffer(d)) /\ Len(q) \in Nat \ {0}
      /\ Len(Tail(q)) = Len(q) - 1 /\ Head(q) = q[1]
      /\ \A i \in 1..Len(Tail(q)) : Tail(q)[i] = q[i+1]
  BY <1>2
<1>4. /\ queue' = [queue EXCEPT ![d] = Tail(q)]
      /\ whdrDone' = [whdrDone EXCEPT ![d][q[1]] = TRUE]
  BY <1>3 DEF DriverDone
<1>7. \A e \in Direction : Buffer(e)' = Buffer(e) BY <1>1 DEF Buffer, BufferCount
<1>5. ASSUME NEW e \in Direction
      PROVE  /\ QueueOk(e)'
             /\ \A b \in Buffer(e) : whdrDone[e][b] => whdrDone'[e][b]
             /\ queue[e] = <<>> => queue'[e] = <<>>
  <2>1. CASE e # d BY <1>4, <1>7, <2>1 DEF QueueInv, QueueOk
  <2>2. CASE e = d
    <3>1. queue'[d] = Tail(q) /\ whdrDone'[d] = [whdrDone[d] EXCEPT ![q[1]] = TRUE]
      BY <1>4 DEF QueueInv
    <3>2. \A i \in 1..Len(Tail(q)) : q[i+1] # q[1] /\ ~whdrDone[d][q[i+1]] /\ q[i+1] \in Buffer(d)
      BY <1>2, <1>3 DEF QueueInv, QueueOk
    <3> QED BY <1>2, <1>3, <1>7, <2>2, <3>1, <3>2 DEF QueueInv, QueueOk
  <2> QED BY <2>1, <2>2
<1>6. DOMAIN queue' = Direction /\ DOMAIN whdrDone' = Direction BY <1>4 DEF QueueInv
<1> HIDE DEF q
<1> QED BY <1>5, <1>6, <1>7 DEF QueueInv

\* Resets give back the queued buffers of some directions.
LEMMA ResetKeepsQueue ==
  ASSUME TypeInv, QueueInv, config' = config, NEW dirs \in SUBSET Direction, Reset(dirs)
  PROVE  /\ QueueInv'
         /\ \A e \in Direction : \A b \in Buffer(e) : whdrDone[e][b] => whdrDone'[e][b]
         /\ \A e \in Direction : queue'[e] = queue[e] \/ queue'[e] = <<>>
         /\ \A e \in dirs : queue'[e] = <<>>
<1>1. \A e \in Direction : Buffer(e)' = Buffer(e) BY DEF Buffer, BufferCount
<1>2. DOMAIN queue' = Direction /\ DOMAIN whdrDone' = Direction BY DEF Reset
<1>3. ASSUME NEW e \in Direction
      PROVE  /\ QueueOk(e)'
             /\ \A b \in Buffer(e) : whdrDone[e][b] => whdrDone'[e][b]
             /\ queue'[e] = queue[e] \/ queue'[e] = <<>>
             /\ e \in dirs => queue'[e] = <<>>
  <2>1. CASE e \in dirs BY <1>1, <2>1 DEF QueueInv, QueueOk, Reset
  <2>2. CASE e \notin dirs BY <1>1, <2>2 DEF QueueInv, QueueOk, Reset
  <2> QED BY <2>1, <2>2
<1> QED BY <1>1, <1>2, <1>3 DEF QueueInv

\* A thread or a blocking call gives the current buffer to the driver, or fails
\* to, and goes on to the next.
LEMMA AdvanceEffect ==
  ASSUME TypeInv, QueueInv, CursorInv, config' = config,
         NEW d \in Direction, Uses(d), NEW ok \in BOOLEAN, AdvanceToNextBuffer(d, ok)
  PROVE  /\ QueueInv' /\ CursorInv'
         /\ \A e \in Direction \ {d} :
              UNCHANGED <<cur[e], used[e], queue[e], whdrDone[e]>>
         /\ cur'[d] = After(d, 1) /\ used'[d] = 0
         /\ \A b \in Buffer(d) : b # cur[d] => whdrDone'[d][b] = whdrDone[d][b]
         /\ IF ok THEN queue'[d] = Append(queue[d], cur[d]) ELSE queue'[d] = queue[d]
         /\ ok \/ MayFail \/ InQueue(d, cur[d])
<1> DEFINE n == BufferCount(d)
           b == cur[d]
<1>1. n \in Nat \ {0} /\ \A e \in Direction : BufferCount(e) \in Nat /\ Chunks(e) \in Nat \ {0}
  BY ConfigType DEF TypeInv, Uses
<1>2. b \in 0..n-1 BY <1>1 DEF CursorInv
<1>3. \A e \in Direction : /\ Buffer(e)' = Buffer(e) /\ BufferCount(e)' = BufferCount(e)
                           /\ Chunks(e)' = Chunks(e) /\ Uses(e)' = Uses(e)
  BY DEF Buffer, BufferCount, Chunks, Uses
<1>4. cur' = [cur EXCEPT ![d] = After(d, 1)] /\ used' = [used EXCEPT ![d] = 0]
  <2>1. CircularIncrement(b, n) = After(d, 1) BY <1>1, <1>2 DEF CircularIncrement, After
  <2> QED BY <2>1 DEF AdvanceToNextBuffer
<1>5. CursorInv'
  <2>1. After(d, 1) \in 0..n-1 BY <1>1, <1>2 DEF After
  <2> QED BY <1>1, <1>3, <1>4, <2>1 DEF CursorInv
<1>6. CASE ok
  <2>1. /\ queue' = [queue EXCEPT ![d] = Append(queue[d], b)]
        /\ whdrDone' = [whdrDone EXCEPT ![d] = [@ EXCEPT ![b] = FALSE]]
        /\ ~InQueue(d, b)
    BY <1>6 DEF AdvanceToNextBuffer
  <2>2. /\ queue'[d] = Append(queue[d], b) /\ whdrDone'[d] = [whdrDone[d] EXCEPT ![b] = FALSE]
        /\ DOMAIN queue' = Direction /\ DOMAIN whdrDone' = Direction
        /\ \A e \in Direction \ {d} : queue'[e] = queue[e] /\ whdrDone'[e] = whdrDone[e]
    BY <2>1 DEF QueueInv
  <2>3. /\ queue[d] \in Seq(Buffer(d)) /\ Len(queue[d]) \in Nat
        /\ Append(queue[d], b) \in Seq(Buffer(d))
        /\ Len(Append(queue[d], b)) = Len(queue[d]) + 1
        /\ Append(queue[d], b)[Len(queue[d]) + 1] = b
        /\ \A i \in 1..Len(queue[d]) : Append(queue[d], b)[i] = queue[d][i] /\ queue[d][i] # b
    BY <1>2, <2>1 DEF QueueInv, QueueOk, Buffer, InQueue
  <2>4. ASSUME NEW e \in Direction PROVE QueueOk(e)'
    <3>1. CASE e = d
      <4> DEFINE q == queue[d]
                 r == Append(queue[d], b)
      <4>1. /\ r \in Seq(Buffer(d)) /\ Len(q) \in Nat /\ Len(r) = Len(q) + 1
            /\ r[Len(q) + 1] = b /\ \A i \in 1..Len(q) : r[i] = q[i] /\ q[i] # b
            /\ queue'[d] = r /\ b \in Buffer(d)
        BY <1>2, <2>2, <2>3 DEF Buffer
      <4>4. /\ \A i \in 1..Len(q) : ~whdrDone[d][q[i]]
            /\ \A i, j \in 1..Len(q) : q[i] = q[j] => i = j
        BY DEF QueueInv, QueueOk
      <4>5. \A i \in 1..Len(q) : q[i] \in Buffer(d) BY <2>3
      <4> HIDE DEF q, r
      <4>2. \A i \in 1..Len(r) : i \in 1..Len(q) \/ i = Len(q) + 1 BY <4>1
      <4>3. whdrDone[d] \in [Buffer(d) -> BOOLEAN] BY DEF QueueInv, QueueOk
      <4> HIDE DEF b
      <4>6. whdrDone'[d] \in [Buffer(d) -> BOOLEAN] BY <2>2, <4>1, <4>3
      <4>7. \A i \in 1..Len(r) : ~whdrDone'[d][r[i]] BY <2>2, <4>1, <4>2, <4>3, <4>4, <4>5
      <4>8. \A i, j \in 1..Len(r) : r[i] = r[j] => i = j BY <4>1, <4>2, <4>4
      <4> QED BY <1>3, <3>1, <4>1, <4>6, <4>7, <4>8 DEF QueueOk
    <3>2. CASE e # d BY <1>3, <2>2, <3>2 DEF QueueInv, QueueOk
    <3> QED BY <3>1, <3>2
  <2> QED BY <1>4, <1>5, <1>6, <2>2, <2>4 DEF CursorInv, QueueInv
<1>7. CASE ~ok
  <2>1. /\ queue' = queue
        /\ whdrDone' = whdrDone \/ whdrDone' = [whdrDone EXCEPT ![d] = [@ EXCEPT ![b] = FALSE]]
        /\ MayFail \/ InQueue(d, b)
    BY <1>7 DEF AdvanceToNextBuffer
  <2>2. /\ DOMAIN whdrDone' = Direction
        /\ whdrDone'[d] = whdrDone[d] \/ whdrDone'[d] = [whdrDone[d] EXCEPT ![b] = FALSE]
        /\ \A e \in Direction \ {d} : whdrDone'[e] = whdrDone[e]
    BY <2>1 DEF QueueInv
  <2>3. ASSUME NEW e \in Direction PROVE QueueOk(e)'
    <3>1. CASE e = d
      <4>1. whdrDone[d] \in [Buffer(d) -> BOOLEAN] /\ b \in Buffer(d)
        BY <1>2 DEF QueueInv, QueueOk, Buffer
      <4> HIDE DEF b
      <4>2. whdrDone'[d] \in [Buffer(d) -> BOOLEAN] BY <2>2, <4>1
      <4>3. \A c \in Buffer(d) : ~whdrDone[d][c] => ~whdrDone'[d][c] BY <2>2, <4>1
      <4>4. \A i \in 1..Len(queue[d]) : queue[d][i] \in Buffer(d) BY DEF QueueInv, QueueOk
      <4> QED BY <1>3, <2>1, <3>1, <4>2, <4>3, <4>4 DEF QueueInv, QueueOk
    <3>2. CASE e # d BY <1>3, <2>1, <2>2, <3>2 DEF QueueInv, QueueOk
    <3> QED BY <3>1, <3>2
  <2> QED BY <1>4, <1>5, <1>7, <2>1, <2>2, <2>3 DEF CursorInv, QueueInv, QueueOk
<1> QED BY <1>6, <1>7

LEMMA PreviousStep ==
  ASSUME NEW n \in Nat \ {0}, NEW b \in 0..n-1, NEW k \in 1..n-1
  PROVE  PreviousTo(IF b + 1 < n THEN b + 1 ELSE 0, k + 1, n) = PreviousTo(b, k, n)
  BY DEF PreviousTo

\* Queued in order behind the current one, the queue goes on.
LEMMA AdvanceKeepsOrder ==
  ASSUME TypeInv, QueueInv, CursorInv, config' = config,
         NEW d \in Direction, Uses(d), NEW ok \in BOOLEAN, AdvanceToNextBuffer(d, ok),
         InOrder(d), ok
  PROVE  InOrder(d)'
<1> DEFINE n == BufferCount(d)
           b == cur[d]
           q == queue[d]
<1>1. n \in Nat \ {0} BY ConfigType DEF TypeInv, Uses
<1>2. b \in 0..n-1 BY <1>1 DEF CursorInv
<1>3. q \in Seq(Buffer(d)) /\ Len(q) \in Nat BY DEF QueueInv, QueueOk
<1>4. \A i \in 1..Len(q) : q[i] # b BY DEF AdvanceToNextBuffer, InQueue
<1>5. Len(q) < n
  <2> SUFFICES ASSUME Len(q) >= n PROVE FALSE BY <1>1, <1>3
  <2>1. Len(q) + 1 - n \in 1..Len(q) BY <1>1, <1>3
  <2>2. q[Len(q) + 1 - n] = Before(d, n) BY <1>1, <1>3, <2>1 DEF InOrder
  <2>3. Before(d, n) = b BY <1>1, <1>2 DEF Before, PreviousTo
  <2> QED BY <1>4, <2>1, <2>2, <2>3
<1>6. /\ cur'[d] = IF b + 1 < n THEN b + 1 ELSE 0
      /\ queue'[d] = Append(q, b) /\ BufferCount(d)' = n
  <2>1. cur'[d] = After(d, 1) /\ queue'[d] = Append(q, b) BY AdvanceEffect
  <2> QED BY <1>1, <1>2, <2>1 DEF After, BufferCount
<1>7. ASSUME NEW i \in 1..Len(q)+1
      PROVE  Append(q, b)[i] = PreviousTo(cur'[d], Len(q) + 2 - i, n)
  <2>1. CASE i = Len(q) + 1
    BY <1>1, <1>2, <1>3, <1>6, <2>1, SMTT(30) DEF PreviousTo
  <2>2. CASE i \in 1..Len(q)
    <3>1. Append(q, b)[i] = Before(d, Len(q) + 1 - i) BY <1>2, <1>3, <2>2 DEF InOrder, Buffer
    <3>2. Len(q) + 1 - i \in 1..n-1 BY <1>1, <1>3, <1>5, <2>2
    <3>3. Len(q) + 2 - i = (Len(q) + 1 - i) + 1 BY <1>3, <2>2
    <3> QED BY <1>1, <1>2, <1>6, <3>1, <3>2, <3>3, PreviousStep DEF Before
  <2> QED BY <1>3, <2>1, <2>2
<1>8. Len(Append(q, b)) = Len(q) + 1 BY <1>2, <1>3
<1> HIDE DEF q, b, n
<1> QED BY <1>3, <1>6, <1>7, <1>8 DEF InOrder, Before

\* Pa_StartStream gives the driver the first n buffers of a direction.
LEMMA QueueBuffersEffect ==
  ASSUME TypeInv, QueueInv, CursorInv, config' = config,
         NEW d \in Direction, NEW n \in 0..BufferCount(d), QueueBuffers(d, n)
  PROVE  /\ QueueInv' /\ CursorInv'
         /\ \A e \in Direction \ {d} :
              UNCHANGED <<cur[e], used[e], queue[e], whdrDone[e]>>
         /\ n = BufferCount(d) => used'[d] = 0 /\ InOrder(d)'
<1> DEFINE q == queue[d]
           r == q \o [i \in 1..n |-> i - 1]
<1>1. \A e \in Direction : BufferCount(e) \in Nat /\ Chunks(e) \in Nat \ {0}
  BY ConfigType DEF TypeInv
<1>2. \A e \in Direction : /\ Buffer(e)' = Buffer(e) /\ BufferCount(e)' = BufferCount(e)
                           /\ Chunks(e)' = Chunks(e) /\ Uses(e)' = Uses(e)
  BY DEF Buffer, BufferCount, Chunks, Uses
<1>3. /\ q \in Seq(Buffer(d)) /\ Len(q) \in Nat
      /\ \A i \in 1..Len(q) : q[i] \in Buffer(d)
      /\ \A i \in 1..Len(q) : ~whdrDone[d][q[i]]
      /\ \A i, j \in 1..Len(q) : q[i] = q[j] => i = j
      /\ whdrDone[d] \in [Buffer(d) -> BOOLEAN]
  BY DEF QueueInv, QueueOk
<1>4. \A b \in Buffer(d) : b < n => \A i \in 1..Len(q) : q[i] # b
  BY DEF QueueBuffers, InQueue
<1>5. /\ r \in Seq(Buffer(d)) /\ Len(r) = Len(q) + n
      /\ \A i \in 1..Len(q) : r[i] = q[i]
      /\ \A i \in Len(q)+1..Len(q)+n : r[i] = i - Len(q) - 1
  <2> DEFINE s == [i \in 1..n |-> i - 1]
  <2>1. s \in Seq(Buffer(d)) /\ Len(s) = n BY <1>1 DEF Buffer
  <2>2. \A i \in 1..n : s[i] = i - 1 OBVIOUS
  <2> HIDE DEF s
  <2>3. q \o s \in Seq(Buffer(d)) /\ Len(q \o s) = Len(q) + Len(s) BY <1>3, <2>1, SMTT(30)
  <2>4. \A i \in 1..Len(q)+n : (q \o s)[i] = IF i <= Len(q) THEN q[i] ELSE s[i - Len(q)]
    BY <1>3, <2>1
  <2> USE DEF s
  <2> QED BY <1>3, <2>1, <2>2, <2>3, <2>4
<1>6. /\ queue' = [queue EXCEPT ![d] = r]
      /\ queue'[d] = r /\ DOMAIN queue' = Direction /\ DOMAIN whdrDone' = Direction
      /\ \A e \in Direction \ {d} : queue'[e] = queue[e] /\ whdrDone'[e] = whdrDone[e]
      /\ DOMAIN whdrDone'[d] = Buffer(d)
      /\ \A b \in Buffer(d) :
           whdrDone'[d][b] = (whdrDone[d][b] /\ ~(b < n \/ (d = "in" /\ b = n)))
  BY DEF QueueBuffers, QueueInv
<1>7. QueueOk(d)'
  <2> HIDE DEF q, r
  <2>1. whdrDone'[d] \in [Buffer(d) -> BOOLEAN]
    BY DEF QueueBuffers, QueueInv
  <2>2. ASSUME NEW i \in 1..Len(r) PROVE ~whdrDone'[d][r[i]]
    <3>1. CASE i \in 1..Len(q) BY <1>3, <1>5, <1>6, <3>1
    <3>2. CASE i \in Len(q)+1..Len(q)+n
      <4>1. r[i] = i - Len(q) - 1 /\ r[i] \in 0..n-1 BY <1>3, <1>5, <3>2
      <4>2. r[i] \in Buffer(d) BY <1>1, <4>1 DEF Buffer
      <4>3. r[i] < n BY <4>1
      <4>4. \A b \in Buffer(d) : b < n => ~whdrDone'[d][b] BY <1>6
      <4> QED BY <4>2, <4>3, <4>4
    <3> QED BY <1>3, <1>5, <3>1, <3>2
  <2>3. ASSUME NEW i \in 1..Len(r), NEW j \in 1..Len(r), r[i] = r[j] PROVE i = j
    <3>1. \A k \in 1..Len(r) : k \in 1..Len(q) \/ k \in Len(q)+1..Len(q)+n BY <1>3, <1>5
    <3>2. \A k \in Len(q)+1..Len(q)+n : r[k] \in Buffer(d) /\ r[k] < n
      BY <1>1, <1>3, <1>5, SMTT(30) DEF Buffer
    <3>3. CASE i \in 1..Len(q) /\ j \in 1..Len(q) BY <1>3, <1>5, <2>3, <3>3
    <3>4. CASE i \in 1..Len(q) /\ j \in Len(q)+1..Len(q)+n BY <1>4, <1>5, <2>3, <3>2, <3>4
    <3>5. CASE i \in Len(q)+1..Len(q)+n /\ j \in 1..Len(q) BY <1>4, <1>5, <2>3, <3>2, <3>5
    <3>6. CASE i \in Len(q)+1..Len(q)+n /\ j \in Len(q)+1..Len(q)+n BY <1>3, <1>5, <2>3, <3>6
    <3> QED BY <3>1, <3>3, <3>4, <3>5, <3>6
  <2> QED BY <1>2, <1>5, <1>6, <2>1, <2>2, <2>3 DEF QueueOk
<1>8. \A e \in Direction \ {d} : QueueOk(e)' BY <1>2, <1>6, ZenonT(30) DEF QueueOk, QueueInv
<1>9. QueueInv' BY <1>6, <1>7, <1>8 DEF QueueInv
<1>10. CursorInv' /\ \A e \in Direction \ {d} : UNCHANGED <<cur[e], used[e]>>
  <2>1. CASE UNCHANGED <<cur, used>> BY <1>2, <2>1 DEF CursorInv
  <2>2. CASE cur' = [cur EXCEPT ![d] = 0] /\ used' = [used EXCEPT ![d] = 0]
    BY <1>1, <1>2, <2>2 DEF CursorInv
  <2> QED BY <2>1, <2>2 DEF QueueBuffers
<1>11. ASSUME n = BufferCount(d) PROVE used'[d] = 0 /\ InOrder(d)'
  <2>1. used'[d] = 0 /\ cur'[d] = 0
    BY <1>1, <1>11 DEF CursorInv, QueueBuffers, Uses
  <2>2. Len(q) = 0
    <3> SUFFICES ASSUME 1 \in 1..Len(q) PROVE FALSE BY <1>3
    <3>1. q[1] \in Buffer(d) /\ q[1] < n BY <1>1, <1>3, <1>11 DEF Buffer
    <3> QED BY <1>4, <3>1
  <2>3. \A i \in 1..n : r[i] = i - 1 /\ Len(r) = n BY <1>5, <2>2
  <2>4. \A i \in 1..n : i - 1 = PreviousTo(0, n + 1 - i, n) BY <1>1, <1>11 DEF PreviousTo
  <2> HIDE DEF r
  <2> QED BY <1>2, <1>5, <1>6, <1>11, <2>1, <2>2, <2>3, <2>4 DEF InOrder, Before
<1> QED BY <1>6, <1>9, <1>10, <1>11

-----------------------------------------------------------------------------
(* The life of threads.                                                    *)

LEMMA LifeThread ==
  ASSUME TypeInv, LifeInv, NEW t \in Threads, ThreadStep(t)
  PROVE  LifeInv'
<1>1. /\ UNCHANGED <<config, open, isStopped, processingThread, app>>
      /\ Alive(t) /\ tpc'[t] # "unborn" /\ \A u \in Threads \ {t} : tpc'[u] = tpc[u]
  BY ThreadFrame DEF call
<1>2. orphans' = orphans BY ThreadFrame DEF call
<1>3. \A u \in Threads : Alive(u)' => Alive(u) BY <1>1 DEF Alive
<1>4. UnbornThreads' = UnbornThreads
  <2>1. tpc[t] # "unborn" BY <1>1 DEF Alive
  <2>2. config.starts \in 1..MaxStarts /\ MaxStarts \in Nat
    BY ConfigType, StreamAssumption DEF TypeInv, StreamAssumption
  <2>3. \A u \in 1..config.starts : u \in Threads BY <2>2 DEF Threads
  <2>4. \A u \in 1..config.starts : tpc'[u] = "unborn" <=> tpc[u] = "unborn"
    BY <1>1, <2>1, <2>3
  <2> QED BY <1>1, <2>4 DEF UnbornThreads
<1> QED BY <1>1, <1>2, <1>3, <1>4 DEF LifeInv, MayFail, Attended, Starting

\* The thread that StartStream creates.
FirstUnborn == CHOOSE u \in UnbornThreads : \A v \in UnbornThreads : u <= v

LEMMA FirstUnbornExists ==
  ASSUME TypeInv, UnbornThreads # {}
  PROVE  FirstUnborn \in UnbornThreads /\ FirstUnborn \in Threads
<1>1. config.starts \in 1..MaxStarts /\ MaxStarts \in Nat
  BY ConfigType, StreamAssumption DEF TypeInv, StreamAssumption
<1>2. UnbornThreads \in SUBSET Threads /\ UnbornThreads \in SUBSET Nat
  BY <1>1 DEF UnbornThreads, Threads
<1>3. \E u \in UnbornThreads : \A v \in UnbornThreads : u <= v BY <1>2, SmallestExists
<1> QED BY <1>2, <1>3 DEF FirstUnborn

LEMMA LifeCalls ==
  ASSUME TypeInv, LifeInv, Calls
  PROVE  LifeInv'
<1>
  USE DEF LifeInv, MayFail, Attended, Starting, shared, local, thread, Alive,
      UnbornThreads, TypeInv
<1>1. CASE StartStream BY <1>1 DEF StartStream
<1>2. CASE StartInput BY <1>2 DEF StartInput
<1>3. CASE StartOutput BY <1>3 DEF StartOutput
<1>4. CASE StartFlags BY <1>4 DEF StartFlags
<1>5. CASE StartThread
  <2>1. /\ UnbornThreads # {} /\ UNCHANGED <<config, open, isStopped>>
        /\ app' \in {"startDevices", "idle"} /\ orphans' = orphans
        /\ \A t \in Threads : Alive(t) => t \in orphans
    BY <1>5 DEF StartThread
  <2>2. CASE MayFail /\ processingThread' = NoThread /\ app' = "idle" /\ UNCHANGED tpc
    BY <2>1, <2>2
  <2>3. CASE /\ processingThread' = FirstUnborn /\ tpc' = [tpc EXCEPT ![FirstUnborn] = "wait"]
    <3>1. FirstUnborn \in Threads BY <2>1, FirstUnbornExists
    <3>2. \A u \in Threads : Alive(u)' => u = FirstUnborn \/ u \in orphans
      BY <2>1, <2>3
    <3> QED BY <1>5, <2>1, <2>3, <3>1, <3>2 DEF NoThread, Threads, StartThread
  <2> QED BY <1>5, <2>2, <2>3 DEF StartThread, FirstUnborn
<1>6. CASE StartDevices BY <1>6 DEF StartDevices
<1>7. CASE StopStream BY <1>7 DEF StopStream, NoThread, Threads
<1>8. CASE StopFlush BY <1>8 DEF StopFlush
<1>9. CASE StopDrain BY <1>9 DEF StopDrain
<1>10. CASE StopDrainWait BY <1>10 DEF StopDrainWait
<1>11. CASE StopWait BY <1>11 DEF StopWait, ThreadHasEnded, NoThread, Threads
<1>12. CASE StopWaitAgain
  BY <1>12 DEF StopWaitAgain, ThreadHasEnded
<1>13. CASE StopReset BY <1>13 DEF StopReset
<1>14. CASE StopDone BY <1>14 DEF StopDone
<1>15. CASE AbortStream BY <1>15 DEF AbortStream
<1>16. CASE AbortReset BY <1>16 DEF AbortReset
<1>17. CASE AbortWait BY <1>17 DEF AbortWait, ThreadHasEnded, NoThread, Threads
<1>18. CASE CloseStream BY <1>18 DEF CloseStream
<1> QED
  BY <1>1, <1>2, <1>3, <1>4, <1>5, <1>6, <1>7, <1>8, <1>9, <1>10, <1>11, <1>12, <1>13,
      <1>14, <1>15, <1>16, <1>17, <1>18
  DEF Calls

\* What a blocking transfer leaves alone.
LEMMA TransferFrame ==
  ASSUME TypeInv, LifeInv, config.blocking, NEW d \in Direction, Transfers(d)
  PROVE  /\ UNCHANGED <<shared, running, thread, closing, waitCount, waitTimedOut, orphans>>
         /\ open /\ ~isStopped
         /\ app \in {"idle", CallOf(d), WaitOf(d)} /\ app' \in {"idle", CallOf(d), WaitOf(d)}
         /\ event' \in [Direction \cup {"abort"} -> BOOLEAN]
<1> USE DEF local, CallOf, WaitOf, driver, LifeInv, Starting
<1>1. CASE \E n \in 1..MaxTransfer : BeginTransfer(d, n) BY <1>1 DEF BeginTransfer, TypeInv
<1>2. CASE Transfer(d) BY <1>2 DEF Transfer, TypeInv
<1>3. CASE TransferWait(d) BY <1>3 DEF TransferWait, TypeInv
<1>4. CASE TransferTimeout(d) BY <1>4 DEF TransferTimeout, TypeInv
<1> QED BY <1>1, <1>2, <1>3, <1>4 DEF Transfers

\* Drivers do not touch it, and blocking calls only where the application is.
LEMMA LifeDriver ==
  ASSUME LifeInv, NEW d \in Direction, DriverDone(d)
  PROVE  LifeInv'
  BY DEF DriverDone, LifeInv, Alive, UnbornThreads, MayFail, shared, call, thread

LEMMA LifeTransfers ==
  ASSUME TypeInv, LifeInv, config.blocking, NEW d \in Direction, Transfers(d)
  PROVE  LifeInv'
  BY TransferFrame
  DEF LifeInv, Alive, UnbornThreads, MayFail, shared, thread, CallOf, WaitOf, Starting

-----------------------------------------------------------------------------
(* Types.                                                                  *)

LEMMA ResetTypes ==
  ASSUME TypeInv, NEW dirs, Reset(dirs)
  PROVE  /\ running' \in [Direction -> BOOLEAN]
         /\ event' \in [Direction \cup {"abort"} -> BOOLEAN]
<1>1. \A d \in Direction : (IF d \in dirs THEN d = "out" ELSE running[d]) \in BOOLEAN
  BY DEF TypeInv
<1>2. \A e \in DOMAIN event :
        (event[e] \/ (e \in dirs /\ e \in Direction /\ queue[e] # <<>>)) \in BOOLEAN
  OBVIOUS
<1>3. running' \in [Direction -> BOOLEAN] BY <1>1 DEF Reset
<1>4. event' \in [DOMAIN event -> BOOLEAN] BY <1>2 DEF Reset
<1>5. DOMAIN event = Direction \cup {"abort"} BY DEF TypeInv
<1> QED BY <1>3, <1>4, <1>5

LEMMA TypeCalls ==
  ASSUME TypeInv, LifeInv, Calls
  PROVE  TypeInv'
<1>
  USE DEF TypeInv, shared, local, thread, driver, AdvanceToNextBuffer, QueueBuffers,
      NoThread, BufferCount, Direction
<1>0. BufferCount("out") \in Nat BY ConfigType
<1>1. CASE StartStream BY <1>1 DEF StartStream
<1>2. CASE StartInput BY <1>2 DEF StartInput
<1>3. CASE StartOutput BY <1>3 DEF StartOutput
<1>4. CASE StartFlags BY <1>4 DEF StartFlags
<1>5. CASE StartThread
  <2>1. FirstUnborn \in Threads BY <1>5, FirstUnbornExists DEF StartThread, LifeInv
  <2>2. tpc' = tpc \/ tpc' = [tpc EXCEPT ![FirstUnborn] = "wait"]
    BY <1>5 DEF StartThread, FirstUnborn
  <2>3. tpc' \in [Threads -> Labels] BY <2>1, <2>2 DEF Labels
  <2>4. processingThread' \in Threads \cup {NoThread}
    BY <1>5, <2>1 DEF StartThread, FirstUnborn
  <2> QED BY <1>5, <2>3, <2>4 DEF StartThread
<1>6. CASE StartDevices BY <1>6 DEF StartDevices
<1>7. CASE StopStream BY <1>7 DEF StopStream
<1>8. CASE StopFlush
  <2>1. /\ UNCHANGED <<shared, running, event, closing, orphans, thread>>
        /\ waitCount' = 0 /\ waitTimedOut' = FALSE /\ app' = "stopDrain"
    BY <1>8 DEF StopFlush
  <2>2. waitCount' \in 0..BufferCount("out")' + 1 BY <1>0, <2>1
  <2> QED BY <2>1, <2>2
<1>9. CASE StopDrain BY <1>0, <1>9 DEF StopDrain, WaitsAreLeft
<1>10. CASE StopDrainWait
  <2>1. /\ UNCHANGED <<shared, buffers, driver, closing, orphans, thread>>
        /\ event' \in [Direction \cup {"abort"} -> BOOLEAN]
        /\ app' \in {"stopDrain", "stopReset"} /\ waitTimedOut' \in BOOLEAN
    BY <1>10 DEF StopDrainWait
  <2>2. waitCount' = waitCount + 1 /\ waitCount <= BufferCount("out")
    BY <1>10 DEF StopDrainWait
  <2>3. waitCount' \in 0..BufferCount("out")' + 1 BY <1>0, <2>1, <2>2
  <2> QED BY <2>1, <2>3
<1>11. CASE StopWait BY <1>11, ZenonT(30) DEF StopWait
<1>12. CASE StopWaitAgain BY <1>12 DEF StopWaitAgain
<1>13. CASE StopReset
  <2>1. running' \in [Direction -> BOOLEAN] /\ event' \in [Direction \cup {"abort"} -> BOOLEAN]
    BY <1>13, ResetTypes DEF StopReset
  <2> QED BY <1>13, <2>1 DEF StopReset
<1>14. CASE StopDone BY <1>14 DEF StopDone
<1>15. CASE AbortStream BY <1>15 DEF AbortStream
<1>16. CASE AbortReset
  <2>1. running' \in [Direction -> BOOLEAN] /\ event' \in [Direction \cup {"abort"} -> BOOLEAN]
    BY <1>16, ResetTypes DEF AbortReset
  <2> QED BY <1>16, <2>1 DEF AbortReset
<1>17. CASE AbortWait BY <1>17 DEF AbortWait
<1>18. CASE CloseStream BY <1>18 DEF CloseStream
<1> QED
  BY <1>1, <1>2, <1>3, <1>4, <1>5, <1>6, <1>7, <1>8, <1>9, <1>10, <1>11, <1>12, <1>13,
      <1>14, <1>15, <1>16, <1>17, <1>18
  DEF Calls

LEMMA TypeTransfers ==
  ASSUME TypeInv, LifeInv, config.blocking, NEW d \in Direction, Transfers(d)
  PROVE  TypeInv'
  BY TransferFrame DEF TypeInv, CallOf, WaitOf, shared, thread, BufferCount, NoThread

LEMMA TypeDriver ==
  ASSUME TypeInv, NEW d \in Direction, DriverDone(d)
  PROVE  TypeInv'
  BY DEF TypeInv, DriverDone, shared, call, thread, BufferCount, NoThread

-----------------------------------------------------------------------------
(* The buffers of the processing thread.                                   *)

LEMMA AfterFacts ==
  ASSUME TypeInv, CursorInv, NEW d \in Direction, Uses(d)
  PROVE  /\ BufferCount(d) \in Nat \ {0} /\ cur[d] \in Buffer(d) /\ After(d, 0) = cur[d]
         /\ \A k \in 0..BufferCount(d)-1 : After(d, k) \in Buffer(d)
         /\ \A k \in 1..BufferCount(d)-1 : After(d, k) # cur[d]
<1>1. BufferCount(d) \in Nat \ {0} BY ConfigType DEF TypeInv, Uses
<1>2. cur[d] \in 0..BufferCount(d)-1 BY <1>1 DEF CursorInv
<1> QED BY <1>1, <1>2 DEF After, Buffer

\* The current buffer may be given to the driver.
LEMMA CatchUpCurrent ==
  ASSUME TypeInv, CursorInv, NEW t \in Threads, NEW d \in Direction, CatchUpInv(t, d),
         todo[t] > 0 \/ return[t] # "again"
  PROVE  HasHostBuffer(d)
<1>1. todo[t] \in Nat BY DEF TypeInv
<1>2. 0 \in 0..todo[t] BY <1>1
<1>3. whdrDone[d][After(d, 0)] BY <1>1, <1>2 DEF CatchUpInv
<1> QED BY <1>3, AfterFacts DEF CatchUpInv, HasHostBuffer

\* All buffers are done: a catch-up may begin.
LEMMA CatchUpBegins ==
  ASSUME TypeInv, CursorInv, NEW t \in Threads, NEW d \in Direction, Uses(d),
         NoBuffersAreQueued(d), UNCHANGED <<config, cur, whdrDone>>,
         todo'[t] = BufferCount(d) - 1
  PROVE  CatchUpInv(t, d)'
<1>1. BufferCount(d)' = BufferCount(d) /\ Uses(d)' /\ \A k : After(d, k)' = After(d, k)
  BY DEF BufferCount, Uses, After
<1>2. \A k \in 0..BufferCount(d)-1 : whdrDone[d][After(d, k)]
  BY AfterFacts DEF NoBuffersAreQueued
<1>3. BufferCount(d) \in Nat \ {0} BY AfterFacts
<1> QED BY <1>1, <1>2, <1>3 DEF CatchUpInv

\* One round of a catch-up.
LEMMA CatchUpGoesOn ==
  ASSUME TypeInv, QueueInv, CursorInv, config' = config,
         NEW t \in Threads, NEW d \in Direction, CatchUpInv(t, d), todo[t] > 0,
         NEW ok \in BOOLEAN, AdvanceToNextBuffer(d, ok),
         todo'[t] = IF ok THEN todo[t] - 1 ELSE 0, return'[t] = return[t]
  PROVE  CatchUpInv(t, d)'
<1> DEFINE n == BufferCount(d)
<1>1. todo[t] \in 1..n-1 /\ Uses(d) /\ n \in Nat \ {0}
  BY AfterFacts DEF TypeInv, CatchUpInv
<1>2. /\ cur'[d] = After(d, 1)
      /\ \A b \in Buffer(d) : b # cur[d] => whdrDone'[d][b] = whdrDone[d][b]
  BY <1>1, AdvanceEffect
<1>3. BufferCount(d)' = n /\ Uses(d)' BY <1>1 DEF BufferCount, Uses
<1>4. cur[d] \in 0..n-1 BY <1>1, AfterFacts DEF Buffer
<1>5. \A k \in 0..n-2 : After(d, k)' = After(d, k + 1)
  BY <1>1, <1>2, <1>3, <1>4 DEF After
<1>6. ASSUME NEW k \in 0..todo'[t]
      PROVE  whdrDone'[d][After(d, k)'] \/ (return'[t] = "again" /\ k = todo'[t])
  <2>1. k \in 0..n-2 /\ k + 1 \in 1..n-1 /\ k + 1 \in 0..todo[t] BY <1>1
  <2>2. CASE whdrDone[d][After(d, k + 1)]
    <3>1. After(d, k + 1) \in Buffer(d) /\ After(d, k + 1) # cur[d] BY <1>1, <2>1, AfterFacts
    <3> QED BY <1>2, <1>5, <2>1, <2>2, <3>1
  <2>3. CASE return[t] = "again" /\ k + 1 = todo[t] BY <1>1, <2>1, <2>3
  <2> QED BY <2>1, <2>2, <2>3 DEF CatchUpInv
<1>7. todo'[t] < n BY <1>1
<1> QED BY <1>3, <1>6, <1>7 DEF CatchUpInv

-----------------------------------------------------------------------------
(* Steps of a processing thread.                                           *)

\* A thread leaves the buffers alone, has them processed, or gives one that is
\* done to the driver.
Processes(t) ==
  /\ tpc[t] = "process" /\ HasBuffers(t)
  /\ used' = [d \in Direction |-> IF Uses(d) THEN used[d] + 1 ELSE used[d]]
  /\ UNCHANGED <<cur, queue, whdrDone>>
Gives(d, ok) == HasHostBuffer(d) /\ AdvanceToNextBuffer(d, ok)

LEMMA ThreadBuffers ==
  ASSUME TypeInv, CursorInv, NEW t \in Threads, HostInv(t), ThreadStep(t)
  PROVE  \/ UNCHANGED <<cur, used, queue, whdrDone>>
         \/ Processes(t)
         \/ \E d \in Direction, ok \in BOOLEAN : Gives(d, ok)
<1> USE DEF buffers, driver
<1>1. CASE ThreadWait(t) BY <1>1 DEF ThreadWait
<1>2. CASE ThreadCheck(t) BY <1>2 DEF ThreadCheck
<1>3. CASE ThreadPollIn(t) BY <1>3 DEF ThreadPollIn, Poll
<1>4. CASE ThreadPollOut(t) BY <1>4 DEF ThreadPollOut, Poll
<1>5. ASSUME NEW d \in Direction, NEW label, CatchUp(t, d, label), CatchUpInv(t, d)
      PROVE  \/ UNCHANGED <<cur, used, queue, whdrDone>>
             \/ \E ok \in BOOLEAN : Gives(d, ok)
  <2>1. CASE todo[t] = 0 BY <1>5, <2>1 DEF CatchUp
  <2>2. CASE todo[t] # 0
    <3>1. todo[t] > 0 BY <2>2 DEF TypeInv
    <3>2. HasHostBuffer(d) BY <1>5, <3>1, CatchUpCurrent
    <3> QED BY <1>5, <2>2, <3>2 DEF CatchUp, Gives
  <2> QED BY <2>1, <2>2
<1>6. CASE ThreadCatchUpIn(t) BY <1>5, <1>6 DEF ThreadCatchUpIn, CatchUp, HostInv, Direction
<1>7. CASE ThreadCatchUpOut(t) BY <1>5, <1>7 DEF ThreadCatchUpOut, CatchUp, HostInv, Direction
<1>8. CASE \E result \in CallbackResults : ThreadProcess(t, result)
  BY <1>8 DEF ThreadProcess, Processes
<1>9. CASE ThreadNoBuffers(t) BY <1>9 DEF ThreadNoBuffers
<1>10. CASE ThreadInput(t) BY <1>10 DEF ThreadInput
<1>11. CASE ThreadAdvanceInput(t)
  BY <1>11 DEF ThreadAdvanceInput, Gives, HostInv, Direction
<1>12. CASE ThreadOutput(t)
  <2>1. used["out"] \in Nat /\ used' = used
    BY <1>12 DEF ThreadOutput, CursorInv, ZeroOutput, Direction
  <2> QED BY <1>12, <2>1 DEF ThreadOutput
<1>13. CASE ThreadWrite(t) BY <1>13 DEF ThreadWrite, Gives, HostInv, Direction
<1>14. CASE ThreadAgain(t) BY <1>14 DEF ThreadAgain
<1>15. CASE ThreadExit(t) BY <1>15 DEF ThreadExit
<1>16. CASE ThreadFinished(t) BY <1>16 DEF ThreadFinished
<1> QED
  BY <1>1, <1>2, <1>3, <1>4, <1>6, <1>7, <1>8, <1>9, <1>10, <1>11, <1>12, <1>13, <1>14,
      <1>15, <1>16
  DEF ThreadStep

LEMMA ThreadKeepsTypes ==
  ASSUME TypeInv, NEW t \in Threads, tpc[t] = "write" => Uses("out"), ThreadStep(t)
  PROVE  TypeInv'
<1>1. \A d \in Direction : BufferCount(d) \in Nat BY ConfigType DEF TypeInv
<1>2. todo' \in [Threads -> Nat]
  <2>1. ASSUME NEW d \in Direction, Uses(d), NEW label, BeginCatchUp(t, d, label)
        PROVE  todo' \in [Threads -> Nat]
    <3>1. BufferCount(d) - 1 \in Nat BY <1>1, <2>1 DEF Uses
    <3> QED BY <2>1, <3>1 DEF BeginCatchUp, TypeInv
  <2>2. ASSUME UNCHANGED todo PROVE todo' \in [Threads -> Nat] BY <2>2 DEF TypeInv
  <2> USE DEF Direction
  <2>3. ASSUME NEW d \in Direction, NEW label, CatchUp(t, d, label) PROVE todo' \in [Threads -> Nat]
    BY <2>3 DEF CatchUp, TypeInv
  <2>4. ASSUME NEW d \in Direction, NEW label, Poll(t, d, label) PROVE todo' \in [Threads -> Nat]
    BY <2>1, <2>2, <2>4 DEF Poll
  <2>5. CASE ThreadPollIn(t) \/ ThreadPollOut(t) BY <2>4, <2>5 DEF ThreadPollIn, ThreadPollOut
  <2>6. CASE ThreadCatchUpIn(t) \/ ThreadCatchUpOut(t)
    BY <2>3, <2>6 DEF ThreadCatchUpIn, ThreadCatchUpOut
  <2>7. CASE ThreadInput(t) BY <2>1, <2>2, <2>7 DEF ThreadInput
  <2>8. CASE ThreadWrite(t) BY <2>1, <2>2, <2>8 DEF ThreadWrite
  <2> QED
    BY <2>2, <2>5, <2>6, <2>7, <2>8
    DEF ThreadStep, ThreadWait, ThreadCheck, ThreadProcess, ThreadNoBuffers, ThreadAdvanceInput,
        ThreadOutput, ThreadAgain, ThreadExit, ThreadFinished
<1>3. /\ UNCHANGED <<config, open, isStopped, processingThread, running, call>>
      /\ stopProcessing' \in BOOLEAN /\ abortProcessing' \in BOOLEAN
      /\ isActive' \in BOOLEAN /\ event' \in [Direction \cup {"abort"} -> BOOLEAN]
      /\ tpc' \in [Threads -> Labels] /\ done' \in [Threads -> BOOLEAN]
      /\ host' \in [Threads -> SUBSET Direction]
      /\ outputUnderflow' \in [Threads -> BOOLEAN]
      /\ return' \in [Threads -> {"wait", "pollOut", "process", "advance", "again"}]
  BY ThreadFrame DEF TypeInv
<1>4. BufferCount("out")' = BufferCount("out") BY <1>3 DEF BufferCount
<1> QED BY <1>2, <1>3, <1>4 DEF TypeInv, call

\* A thread keeps the buffers in order.
LEMMA ThreadKeepsBuffers ==
  ASSUME orphans = {}, TypeInv, QueueInv, CursorInv, LifeInv, OrderInv, NEW t \in Threads,
         HostInv(t), RoomInv(t), ThreadStep(t)
  PROVE  QueueInv' /\ CursorInv' /\ OrderInv' /\ UsedInv'
<1>1. /\ UNCHANGED <<config, isStopped, app>> /\ app \in Attended /\ ~isStopped /\ ~config.blocking
  BY ThreadFrame DEF call, LifeInv
<1>2. \A d \in Direction : /\ Buffer(d)' = Buffer(d) /\ BufferCount(d)' = BufferCount(d)
                           /\ Chunks(d)' = Chunks(d) /\ Uses(d)' = Uses(d)
                           /\ Chunks(d) \in Nat \ {0}
  BY <1>1, ConfigType DEF Buffer, BufferCount, Chunks, Uses, TypeInv
<1>3. MayFail' = MayFail /\ (MayFail \/ \A d \in Direction : InOrder(d))
  BY <1>1 DEF OrderInv, MayFail
<1>4. UsedInv' BY <1>1 DEF UsedInv, Attended
<1>5. SUFFICES QueueInv' /\ CursorInv' /\ (MayFail \/ \A d \in Direction : InOrder(d)')
  BY <1>1, <1>3, <1>4 DEF OrderInv, Attended
<1>6. ASSUME UNCHANGED <<cur, queue, whdrDone>>
      PROVE  QueueInv' /\ (MayFail \/ \A d \in Direction : InOrder(d)')
  <2>1. QueueInv' BY <1>2, <1>6 DEF QueueInv, QueueOk
  <2>2. \A d \in Direction : InOrder(d)' = InOrder(d) BY <1>2, <1>6 DEF InOrder, Before
  <2> QED BY <1>3, <2>1, <2>2
<1>7. CASE UNCHANGED <<cur, used, queue, whdrDone>>
  BY <1>2, <1>6, <1>7 DEF CursorInv
<1>8. CASE Processes(t)
  <2>1. \A d \in Direction : used[d] < Chunks(d) BY <1>8 DEF Processes, RoomInv
  <2>2. CursorInv' BY <1>2, <1>8, <2>1 DEF Processes, CursorInv
  <2> QED BY <1>6, <1>8, <2>2 DEF Processes
<1>9. ASSUME NEW d \in Direction, NEW ok \in BOOLEAN, Gives(d, ok)
      PROVE  QueueInv' /\ CursorInv' /\ (MayFail \/ \A e \in Direction : InOrder(e)')
  <2>1. /\ QueueInv' /\ CursorInv'
        /\ \A e \in Direction \ {d} : UNCHANGED <<cur[e], used[e], queue[e], whdrDone[e]>>
        /\ ok \/ MayFail \/ InQueue(d, cur[d])
    BY <1>1, <1>9, AdvanceEffect DEF Gives, HasHostBuffer
  <2>2. ~InQueue(d, cur[d]) BY <1>9, QueueFacts, AfterFacts DEF Gives, HasHostBuffer
  <2>3. ASSUME ~MayFail, NEW e \in Direction PROVE InOrder(e)'
    <3>1. CASE e = d
      <4>1. ok /\ InOrder(d) BY <1>3, <2>1, <2>2, <2>3
      <4> QED BY <1>1, <1>9, <3>1, <4>1, AdvanceKeepsOrder DEF Gives, HasHostBuffer
    <3>2. CASE e # d BY <1>2, <1>3, <2>1, <2>3, <3>2 DEF InOrder, Before
    <3> QED BY <3>1, <3>2
  <2> QED BY <2>1, <2>3
<1> QED BY <1>7, <1>8, <1>9, ThreadBuffers

LEMMA HostFrame ==
  ASSUME NEW d \in Direction, config' = config, cur'[d] = cur[d], whdrDone'[d] = whdrDone[d]
  PROVE  /\ Uses(d)' = Uses(d)
         /\ HasHostBuffer(d)' = HasHostBuffer(d)
         /\ NoBuffersAreQueued(d)' = NoBuffersAreQueued(d)
  BY DEF Uses, BufferCount, HasHostBuffer, NoBuffersAreQueued, Buffer

\* After a write that used the last buffer the driver had not, all buffers are
\* done but the one written, the last in ring order.
LEMMA CatchUpAfterWrite ==
  ASSUME TypeInv, QueueInv, CursorInv, config' = config,
         NEW t \in Threads, NEW d \in Direction, Uses(d), NoBuffersAreQueued(d),
         NEW ok \in BOOLEAN, AdvanceToNextBuffer(d, ok),
         todo'[t] = BufferCount(d) - 1, return'[t] = "again"
  PROVE  CatchUpInv(t, d)'
<1> DEFINE n == BufferCount(d)
<1>1. n \in Nat \ {0} /\ cur[d] \in 0..n-1 BY AfterFacts DEF Buffer
<1>2. /\ cur'[d] = After(d, 1)
      /\ \A b \in Buffer(d) : b # cur[d] => whdrDone'[d][b] = whdrDone[d][b]
  BY <1>1, AdvanceEffect
<1>3. BufferCount(d)' = n /\ Uses(d)' BY DEF BufferCount, Uses
<1>4. \A k \in 0..n-2 : After(d, k)' = After(d, k + 1)
  BY <1>1, <1>2, <1>3 DEF After
<1>5. ASSUME NEW k \in 0..n-2 PROVE whdrDone'[d][After(d, k)']
  <2>1. k + 1 \in 1..n-1 /\ k + 1 \in 0..n-1 BY <1>1
  <2>2. After(d, k + 1) \in Buffer(d) /\ After(d, k + 1) # cur[d] BY <2>1, AfterFacts
  <2> QED BY <1>2, <1>4, <2>2 DEF NoBuffersAreQueued
<1>6. \A k \in 0..todo'[t] : k \in 0..n-2 \/ k = todo'[t] BY <1>1
<1>7. todo'[t] < n BY <1>1
<1> QED BY <1>3, <1>5, <1>6, <1>7 DEF CatchUpInv

\* The last round of a catch-up leaves a buffer that is done.
LEMMA CatchUpEnds ==
  ASSUME TypeInv, CursorInv, NEW t \in Threads, NEW d \in Direction, CatchUpInv(t, d),
         return[t] # "again", UNCHANGED <<config, cur, whdrDone>>
  PROVE  HasHostBuffer(d)'
  BY CatchUpCurrent, HostFrame

LEMMA ThreadHost ==
  ASSUME orphans = {}, TypeInv, QueueInv, CursorInv, LifeInv, NEW t \in Threads,
         HostInv(t), ThreadStep(t)
  PROVE  HostInv(t)'
<1>1. config' = config BY ThreadFrame
<1>2. ASSUME UNCHANGED <<cur, whdrDone>>
      PROVE  \A d \in Direction : /\ Uses(d)' = Uses(d)
                                  /\ HasHostBuffer(d)' = HasHostBuffer(d)
                                  /\ NoBuffersAreQueued(d)' = NoBuffersAreQueued(d)
  BY <1>1, <1>2, HostFrame
<1>3. ASSUME NEW d \in Direction, Uses(d), NEW ok \in BOOLEAN, AdvanceToNextBuffer(d, ok)
      PROVE  \A e \in Direction \ {d} : Uses(e)' = Uses(e) /\ HasHostBuffer(e)' = HasHostBuffer(e)
  BY <1>1, <1>3, AdvanceEffect, HostFrame
<1>t. tpc \in [Threads -> Labels] /\ host \in [Threads -> SUBSET Direction]
      /\ todo \in [Threads -> Nat]
      /\ return \in [Threads -> {"wait", "pollOut", "process", "advance", "again"}]
      /\ outputUnderflow \in [Threads -> BOOLEAN]
  BY DEF TypeInv
<1> USE DEF buffers, driver, Goto, LoopEnd
<1>4. CASE ThreadWait(t) BY <1>t, <1>4 DEF ThreadWait, HostInv
<1>5. CASE ThreadCheck(t) BY <1>t, <1>5 DEF ThreadCheck, HostInv
<1>6. CASE ThreadPollIn(t)
  <2>1. Poll(t, "in", "pollOut") /\ UNCHANGED <<cur, whdrDone>>
    BY <1>6 DEF ThreadPollIn, Poll
  <2>2. \A d \in host'[t] : d = "in" /\ HasHostBuffer("in")
    BY <1>t, <2>1 DEF Poll, HasHostBuffer, BuffersAreDone
  <2>3. CASE host'[t] = {"in"} /\ NoBuffersAreQueued("in") /\ BeginCatchUp(t, "in", "pollOut")
    <3>1. tpc'[t] = "catchIn" /\ return'[t] = "pollOut" /\ todo'[t] = BufferCount("in") - 1
      BY <1>t, <2>3 DEF BeginCatchUp
    <3>2. Uses("in") BY <2>2, <2>3 DEF HasHostBuffer
    <3>3. CatchUpInv(t, "in")' BY <1>1, <2>1, <2>3, <3>1, <3>2, CatchUpBegins DEF Direction
    <3> QED BY <2>3, <3>1, <3>3 DEF HostInv
  <2>4. CASE tpc'[t] = "pollOut" BY <1>2, <2>1, <2>2, <2>4 DEF HostInv, Direction
  <2> QED BY <1>t, <2>1, <2>3, <2>4 DEF Poll
<1>7. CASE ThreadPollOut(t)
  <2>1. Poll(t, "out", "process") /\ UNCHANGED <<cur, whdrDone>> /\ tpc[t] = "pollOut"
    BY <1>7 DEF ThreadPollOut, Poll
  <2>2. \A d \in host'[t] : HasHostBuffer(d)
    BY <1>t, <2>1 DEF Poll, HasHostBuffer, BuffersAreDone, HostInv
  <2>3. CASE HasHostBuffer("out") /\ NoBuffersAreQueued("out") /\ BeginCatchUp(t, "out", "process")
    <3>1. tpc'[t] = "catchOut" /\ return'[t] = "process" /\ todo'[t] = BufferCount("out") - 1
      BY <1>t, <2>3 DEF BeginCatchUp
    <3>2. Uses("out") BY <2>3 DEF HasHostBuffer
    <3>3. CatchUpInv(t, "out")' BY <1>1, <2>1, <2>3, <3>1, <3>2, CatchUpBegins DEF Direction
    <3> QED BY <1>2, <2>1, <2>2, <3>1, <3>3 DEF HostInv, Direction
  <2>4. CASE tpc'[t] = "process"
    <3>1. host'[t] \subseteq Direction BY <1>t, <2>1 DEF Poll, Direction
    <3> QED BY <1>2, <2>1, <2>2, <2>4, <3>1 DEF HostInv
  <2> QED BY <1>t, <2>1, <2>3, <2>4 DEF Poll, HasHostBuffer, BuffersAreDone
<1>8. ASSUME NEW d \in Direction, NEW label, CatchUp(t, d, label), CatchUpInv(t, d)
      PROVE  /\ UNCHANGED <<host, return>>
             /\ \/ /\ tpc'[t] = return[t] /\ UNCHANGED <<cur, whdrDone>>
                   /\ return[t] # "again" => HasHostBuffer(d)'
                \/ /\ tpc'[t] = tpc[t] /\ CatchUpInv(t, d)'
                   /\ \A e \in Direction \ {d} :
                        Uses(e)' = Uses(e) /\ HasHostBuffer(e)' = HasHostBuffer(e)
  <2>1. CASE todo[t] = 0
    <3>1. UNCHANGED <<cur, whdrDone>> /\ tpc'[t] = return[t] BY <1>t, <1>8, <2>1 DEF CatchUp
    <3> QED BY <1>1, <1>8, <2>1, <3>1, CatchUpEnds DEF CatchUp
  <2>2. CASE todo[t] # 0
    <3>1. PICK ok \in BOOLEAN :
            /\ AdvanceToNextBuffer(d, ok)
            /\ todo' = [todo EXCEPT ![t] = IF ok THEN @ - 1 ELSE 0]
      BY <1>8, <2>2 DEF CatchUp
    <3>2. todo[t] > 0 /\ todo'[t] = IF ok THEN todo[t] - 1 ELSE 0 BY <1>t, <2>2, <3>1
    <3>3. UNCHANGED <<host, return, tpc>> BY <1>8, <2>2 DEF CatchUp
    <3>4. CatchUpInv(t, d)' BY <1>1, <1>8, <3>1, <3>2, <3>3, CatchUpGoesOn
    <3> QED BY <1>3, <1>8, <3>1, <3>3, <3>4 DEF CatchUpInv
  <2> QED BY <2>1, <2>2
<1>9. CASE ThreadCatchUpIn(t)
  <2>1. CatchUp(t, "in", "catchIn") /\ tpc[t] = "catchIn" BY <1>9 DEF ThreadCatchUpIn, CatchUp
  <2>2. /\ return[t] \in {"pollOut", "advance"} /\ CatchUpInv(t, "in")
        /\ return[t] = "pollOut" => host[t] = {"in"}
        /\ return[t] = "advance" /\ Uses("out") => HasHostBuffer("out")
    BY <2>1 DEF HostInv
  <2>3. CASE tpc'[t] = return[t] /\ UNCHANGED <<cur, whdrDone>> /\ HasHostBuffer("in")'
    BY <1>2, <1>8, <2>1, <2>2, <2>3 DEF HostInv, Direction, HasHostBuffer
  <2>4. CASE /\ tpc'[t] = tpc[t] /\ CatchUpInv(t, "in")'
             /\ Uses("out")' = Uses("out") /\ HasHostBuffer("out")' = HasHostBuffer("out")
    BY <1>8, <2>1, <2>2, <2>4 DEF HostInv, Direction
  <2> QED BY <1>8, <2>1, <2>2, <2>3, <2>4 DEF Direction
<1>10. CASE ThreadCatchUpOut(t)
  <2>1. CatchUp(t, "out", "catchOut") /\ tpc[t] = "catchOut"
    BY <1>10 DEF ThreadCatchUpOut, CatchUp
  <2>2. /\ return[t] \in {"process", "again"} /\ CatchUpInv(t, "out")
        /\ return[t] = "process" /\ "in" \in host[t] => HasHostBuffer("in")
    BY <2>1 DEF HostInv
  <2>3. CASE /\ tpc'[t] = return[t] /\ UNCHANGED <<cur, whdrDone>>
             /\ return[t] # "again" => HasHostBuffer("out")'
    <3>1. host'[t] = host[t] /\ host[t] \subseteq {"in", "out"}
      BY <1>t, <1>8, <2>1, <2>2 DEF Direction
    <3> QED BY <1>2, <2>2, <2>3, <3>1 DEF HostInv, Direction
  <2>4. CASE /\ tpc'[t] = tpc[t] /\ CatchUpInv(t, "out")'
             /\ Uses("in")' = Uses("in") /\ HasHostBuffer("in")' = HasHostBuffer("in")
    BY <1>8, <2>1, <2>2, <2>4 DEF HostInv, Direction
  <2> QED BY <1>8, <2>1, <2>2, <2>3, <2>4 DEF Direction
<1>11. CASE \E result \in CallbackResults : ThreadProcess(t, result)
  <2>1. tpc[t] = "process" /\ HasBuffers(t) /\ tpc'[t] = "input" /\ UNCHANGED <<cur, whdrDone>>
    BY <1>t, <1>11 DEF ThreadProcess
  <2>2. host[t] \subseteq Direction /\ \A d \in host[t] : HasHostBuffer(d)
    BY <1>t, <2>1 DEF HostInv
  <2>3. \A d \in Direction : Uses(d) => HasHostBuffer(d)
    BY <2>1, <2>2 DEF HasBuffers, IsFullDuplex, HasHostBuffer, Direction
  <2> QED BY <1>2, <2>1, <2>3 DEF HostInv
<1>12. CASE ThreadNoBuffers(t) BY <1>t, <1>12 DEF ThreadNoBuffers, HostInv
<1>13. CASE ThreadInput(t)
  <2>1. tpc[t] = "input" /\ UNCHANGED <<cur, whdrDone, host>> BY <1>13 DEF ThreadInput
  <2>2. \A d \in Direction : Uses(d) => HasHostBuffer(d) BY <2>1 DEF HostInv
  <2>3. CASE Uses("in") /\ NoBuffersAreQueued("in") /\ BeginCatchUp(t, "in", "advance")
    <3>1. tpc'[t] = "catchIn" /\ return'[t] = "advance" /\ todo'[t] = BufferCount("in") - 1
      BY <1>t, <2>3 DEF BeginCatchUp
    <3>2. CatchUpInv(t, "in")' BY <1>1, <2>1, <2>3, <3>1, CatchUpBegins DEF Direction
    <3> QED BY <1>2, <2>1, <2>2, <3>1, <3>2 DEF HostInv, Direction
  <2>4. CASE Uses("in") /\ tpc'[t] = "advance" BY <1>2, <2>1, <2>2, <2>4 DEF HostInv, Direction
  <2>5. CASE tpc'[t] = "output" BY <1>2, <2>1, <2>2, <2>5 DEF HostInv, Direction
  <2> QED BY <1>t, <1>13, <2>3, <2>4, <2>5 DEF ThreadInput
<1>14. CASE ThreadAdvanceInput(t)
  <2>1. PICK ok \in BOOLEAN : AdvanceToNextBuffer("in", ok) BY <1>14 DEF ThreadAdvanceInput
  <2>2. tpc[t] = "advance" /\ tpc'[t] = "output" BY <1>t, <1>14 DEF ThreadAdvanceInput
  <2>3. Uses("in") /\ (Uses("out") => HasHostBuffer("out")) BY <2>2 DEF HostInv, Direction
  <2> QED BY <1>3, <2>1, <2>2, <2>3 DEF HostInv, Direction
<1>15. CASE ThreadOutput(t)
  <2>1. tpc[t] = "output" /\ UNCHANGED <<cur, whdrDone, host>> BY <1>15 DEF ThreadOutput
  <2>2. Uses("out") => HasHostBuffer("out") BY <2>1 DEF HostInv
  <2>3. CASE /\ Uses("out") /\ tpc'[t] = "write"
             /\ outputUnderflow' = [outputUnderflow EXCEPT ![t] = NoBuffersAreQueued("out")]
    <3>1. outputUnderflow'[t] = NoBuffersAreQueued("out") BY <1>t, <2>3
    <3> QED BY <1>2, <2>1, <2>2, <2>3, <3>1 DEF HostInv, Direction
  <2>4. CASE tpc'[t] = "again" BY <2>4 DEF HostInv
  <2> QED BY <1>t, <1>15, <2>3, <2>4 DEF ThreadOutput
<1>16. CASE ThreadWrite(t)
  <2>1. tpc[t] = "write" /\ Uses("out") /\ (outputUnderflow[t] => NoBuffersAreQueued("out"))
    BY <1>16 DEF ThreadWrite, HostInv
  <2>2. PICK ok \in BOOLEAN :
          /\ AdvanceToNextBuffer("out", ok)
          /\ done' = [done EXCEPT ![t] = @ \/ ~ok]
          /\ IF outputUnderflow[t] /\ ~done'[t] /\ ~stopProcessing
               THEN BeginCatchUp(t, "out", "again")
               ELSE Goto(t, "again") /\ UNCHANGED <<todo, return>>
    BY <1>16 DEF ThreadWrite
  <2>3. CASE outputUnderflow[t] /\ BeginCatchUp(t, "out", "again")
    <3>1. tpc'[t] = "catchOut" /\ return'[t] = "again" /\ todo'[t] = BufferCount("out") - 1
      BY <1>t, <2>3 DEF BeginCatchUp
    <3>2. CatchUpInv(t, "out")'
      BY <1>1, <2>1, <2>2, <2>3, <3>1, CatchUpAfterWrite DEF Direction
    <3> QED BY <3>1, <3>2 DEF HostInv
  <2>4. CASE tpc'[t] = "again" BY <2>4 DEF HostInv
  <2> QED BY <1>t, <2>2, <2>3, <2>4
<1>17. CASE ThreadAgain(t) BY <1>t, <1>17 DEF ThreadAgain, HostInv
<1>18. CASE ThreadExit(t) BY <1>t, <1>18 DEF ThreadExit, HostInv
<1>19. CASE ThreadFinished(t) BY <1>t, <1>19 DEF ThreadFinished, HostInv
<1> QED
  BY <1>4, <1>5, <1>6, <1>7, <1>9, <1>10, <1>11, <1>12, <1>13, <1>14, <1>15, <1>16, <1>17,
      <1>18, <1>19
  DEF ThreadStep

LEMMA ThreadRoom ==
  ASSUME orphans = {}, TypeInv, QueueInv, CursorInv, NEW t \in Threads,
         HostInv(t), RoomInv(t), ThreadStep(t)
  PROVE  RoomInv(t)'
<1>1. /\ config' = config /\ \A d \in Direction : Chunks(d)' = Chunks(d) /\ Chunks(d) \in Nat \ {0}
      /\ stopProcessing => stopProcessing'
      /\ abortProcessing => abortProcessing'
  BY ThreadFrame, ConfigType DEF Chunks, TypeInv
<1>2. used \in [Direction -> Nat] /\ \A d \in Direction : used[d] <= Chunks(d) /\ (~Uses(d) => used[d] = 0)
  BY DEF CursorInv
<1>t. tpc \in [Threads -> Labels]
      /\ return \in [Threads -> {"wait", "pollOut", "process", "advance", "again"}]
  BY DEF TypeInv
<1>3. ASSUME NEW d \in Direction, HasHostBuffer(d), NEW ok \in BOOLEAN, AdvanceToNextBuffer(d, ok)
      PROVE  used'[d] = 0 /\ \A e \in Direction \ {d} : used'[e] = used[e]
  BY <1>1, <1>3, AdvanceEffect DEF HasHostBuffer
<1>4. ASSUME NEW d \in Direction, NEW label, CatchUp(t, d, label), CatchUpInv(t, d)
      PROVE  /\ return' = return /\ UNCHANGED <<stopProcessing, abortProcessing>>
             /\ tpc'[t] \in {tpc[t], return[t]}
             /\ \/ UNCHANGED used
                \/ used'[d] = 0 /\ \A e \in Direction \ {d} : used'[e] = used[e]
  <2>1. CASE todo[t] = 0 BY <1>t, <1>4, <2>1 DEF CatchUp, Goto, buffers, shared
  <2>2. CASE todo[t] # 0
    <3>1. todo[t] > 0 BY <2>2 DEF TypeInv
    <3>2. HasHostBuffer(d) BY <1>4, <3>1, CatchUpCurrent
    <3> QED BY <1>3, <1>4, <2>2, <3>2 DEF CatchUp, shared
  <2> QED BY <2>1, <2>2
<1> USE DEF buffers, driver, shared, Goto, LoopEnd
<1>5. CASE ThreadWait(t)
  <2>1. /\ tpc[t] = "wait" /\ tpc'[t] = "check"
        /\ UNCHANGED <<used, stopProcessing, abortProcessing>>
    BY <1>t, <1>5 DEF ThreadWait
  <2>2. /\ used["in"] < Chunks("in") \/ stopProcessing \/ abortProcessing
        /\ used["out"] < Chunks("out") \/ abortProcessing
    BY <2>1 DEF RoomInv
  <2> QED BY <1>1, <2>1, <2>2 DEF RoomInv, Direction
<1>6. CASE ThreadCheck(t)
  <2>1. tpc[t] = "check" /\ UNCHANGED <<used, stopProcessing, abortProcessing>>
    BY <1>6 DEF ThreadCheck
  <2>2. /\ used["in"] < Chunks("in") \/ stopProcessing \/ abortProcessing
        /\ used["out"] < Chunks("out") \/ abortProcessing
    BY <2>1 DEF RoomInv
  <2>3. tpc'[t] \in {"exit", "wait"} \/ (tpc'[t] = "pollIn" /\ ~stopProcessing /\ ~abortProcessing)
    BY <1>t, <1>6 DEF ThreadCheck
  <2> QED BY <1>1, <2>1, <2>2, <2>3 DEF RoomInv, Direction
<1>7. ASSUME NEW d, NEW label, Poll(t, d, label)
      PROVE  /\ UNCHANGED used
             /\ \/ tpc'[t] = label
                \/ tpc'[t] = (IF d = "in" THEN "catchIn" ELSE "catchOut") /\ return'[t] = label
  BY <1>t, <1>7 DEF Poll, BeginCatchUp
<1>8. CASE ThreadPollIn(t)
  <2>1. \A d \in Direction : used[d] < Chunks(d) BY <1>8 DEF ThreadPollIn, RoomInv
  <2>2. Poll(t, "in", "pollOut") BY <1>8 DEF ThreadPollIn
  <2>3. UNCHANGED used /\ tpc'[t] \in {"pollOut", "catchIn"} /\ (tpc'[t] = "catchIn" => return'[t] = "pollOut")
    BY <1>7, <2>2
  <2> QED BY <1>1, <2>1, <2>3 DEF RoomInv
<1>9. CASE ThreadPollOut(t)
  <2>1. \A d \in Direction : used[d] < Chunks(d) BY <1>9 DEF ThreadPollOut, RoomInv
  <2>2. Poll(t, "out", "process") BY <1>9 DEF ThreadPollOut
  <2>3. UNCHANGED used /\ tpc'[t] \in {"process", "catchOut"} /\ (tpc'[t] = "catchOut" => return'[t] = "process")
    BY <1>7, <2>2
  <2> QED BY <1>1, <2>1, <2>3 DEF RoomInv
<1>10. CASE ThreadCatchUpIn(t)
  <2>1. CatchUp(t, "in", "catchIn") /\ tpc[t] = "catchIn" BY <1>10 DEF ThreadCatchUpIn, CatchUp
  <2>2. return[t] \in {"pollOut", "advance"} /\ CatchUpInv(t, "in") BY <2>1 DEF HostInv
  <2>3. return[t] = "pollOut" => \A d \in Direction : used[d] < Chunks(d) BY <2>1 DEF RoomInv
  <2>4. /\ return' = return /\ tpc'[t] \in {"catchIn", return[t]}
        /\ UNCHANGED used \/ (used'["in"] = 0 /\ used'["out"] = used["out"])
    BY <1>4, <2>1, <2>2 DEF Direction
  <2> QED BY <1>1, <2>2, <2>3, <2>4 DEF RoomInv, Direction
<1>11. CASE ThreadCatchUpOut(t)
  <2>1. CatchUp(t, "out", "catchOut") /\ tpc[t] = "catchOut"
    BY <1>11 DEF ThreadCatchUpOut, CatchUp
  <2>2. return[t] \in {"process", "again"} /\ CatchUpInv(t, "out") BY <2>1 DEF HostInv
  <2>3. /\ return[t] = "process" => \A d \in Direction : used[d] < Chunks(d)
        /\ return[t] = "again" =>
             /\ used["in"] < Chunks("in") \/ stopProcessing \/ abortProcessing
             /\ used["out"] < Chunks("out") \/ abortProcessing
    BY <2>1 DEF RoomInv
  <2>4. /\ return' = return /\ tpc'[t] \in {"catchOut", return[t]}
        /\ UNCHANGED <<stopProcessing, abortProcessing>>
        /\ UNCHANGED used \/ (used'["out"] = 0 /\ used'["in"] = used["in"])
    BY <1>4, <2>1, <2>2 DEF Direction
  <2> QED BY <1>1, <2>2, <2>3, <2>4 DEF RoomInv, Direction
<1>12. CASE \E result \in CallbackResults : ThreadProcess(t, result)
  BY <1>t, <1>12 DEF ThreadProcess, RoomInv
<1>13. CASE ThreadNoBuffers(t)
  BY <1>t, <1>1, <1>13 DEF ThreadNoBuffers, RoomInv, Direction
<1>14. CASE ThreadInput(t)
  <2>1. UNCHANGED <<used, stopProcessing, abortProcessing>> BY <1>14 DEF ThreadInput
  <2>2. \/ tpc'[t] = "catchIn" /\ return'[t] = "advance"
        \/ tpc'[t] = "advance"
        \/ /\ tpc'[t] = "output"
           /\ ~Uses("in") \/ stopProcessing \/ abortProcessing \/ used["in"] # Chunks("in")
    BY <1>t, <1>14 DEF ThreadInput, BeginCatchUp
  <2>3. /\ used["in"] \in Nat /\ used["in"] <= Chunks("in") /\ (~Uses("in") => used["in"] = 0)
        /\ Chunks("in") \in Nat \ {0} /\ Chunks("in")' = Chunks("in")
    BY <1>1, <1>2 DEF Direction
  <2> QED BY <2>1, <2>2, <2>3 DEF RoomInv
<1>15. CASE ThreadAdvanceInput(t)
  <2>1. PICK ok \in BOOLEAN : AdvanceToNextBuffer("in", ok) BY <1>15 DEF ThreadAdvanceInput
  <2>2. tpc[t] = "advance" /\ tpc'[t] = "output" BY <1>t, <1>15 DEF ThreadAdvanceInput
  <2>3. HasHostBuffer("in") BY <2>2 DEF HostInv, Direction
  <2>4. used'["in"] = 0 BY <1>3, <2>1, <2>3 DEF Direction
  <2> QED BY <1>1, <2>2, <2>4 DEF RoomInv, Direction
<1>16. CASE ThreadOutput(t)
  <2>1. tpc[t] = "output" /\ UNCHANGED <<stopProcessing, abortProcessing>>
    BY <1>16 DEF ThreadOutput
  <2>2. used["in"] < Chunks("in") \/ stopProcessing \/ abortProcessing BY <2>1 DEF RoomInv
  <2>3. used' = used BY <1>2, <1>16 DEF ThreadOutput, ZeroOutput, Direction
  <2>4. \/ tpc'[t] = "write"
        \/ /\ tpc'[t] = "again"
           /\ ~Uses("out") \/ abortProcessing \/ used["out"] # Chunks("out")
    BY <1>t, <1>16, <2>3 DEF ThreadOutput
  <2> QED BY <1>1, <1>2, <2>1, <2>2, <2>3, <2>4 DEF RoomInv, Direction
<1>17. CASE ThreadWrite(t)
  <2>1. PICK ok \in BOOLEAN : AdvanceToNextBuffer("out", ok) BY <1>17 DEF ThreadWrite
  <2>2. /\ tpc[t] = "write" /\ UNCHANGED <<stopProcessing, abortProcessing>>
        /\ tpc'[t] = "again" \/ (tpc'[t] = "catchOut" /\ return'[t] = "again")
    BY <1>t, <1>17 DEF ThreadWrite, BeginCatchUp
  <2>3. HasHostBuffer("out") /\ (used["in"] < Chunks("in") \/ stopProcessing \/ abortProcessing)
    BY <2>2 DEF HostInv, RoomInv
  <2>4. used'["out"] = 0 /\ used'["in"] = used["in"] BY <1>3, <2>1, <2>3 DEF Direction
  <2> QED BY <1>1, <2>2, <2>3, <2>4 DEF RoomInv, Direction
<1>18. CASE ThreadAgain(t)
  <2>1. tpc[t] = "again" /\ UNCHANGED <<used, stopProcessing, abortProcessing>>
    BY <1>18 DEF ThreadAgain
  <2>2. /\ used["in"] < Chunks("in") \/ stopProcessing \/ abortProcessing
        /\ used["out"] < Chunks("out") \/ abortProcessing
    BY <2>1 DEF RoomInv
  <2>3. tpc'[t] \in {"exit", "wait"} \/ (tpc'[t] = "pollIn" /\ ~stopProcessing /\ ~abortProcessing)
    BY <1>t, <1>18 DEF ThreadAgain
  <2> QED BY <1>1, <2>1, <2>2, <2>3 DEF RoomInv, Direction
<1>19. CASE ThreadExit(t) BY <1>t, <1>19 DEF ThreadExit, RoomInv
<1>20. CASE ThreadFinished(t) BY <1>t, <1>20 DEF ThreadFinished, RoomInv
<1> QED
  BY <1>5, <1>6, <1>8, <1>9, <1>10, <1>11, <1>12, <1>13, <1>14, <1>15, <1>16, <1>17, <1>18,
      <1>19, <1>20
  DEF ThreadStep

\* Nothing that is done is queued: with all buffers done, nothing is.
LEMMA AllDoneNoneQueued ==
  ASSUME TypeInv, QueueInv, NEW d \in Direction, NoBuffersAreQueued(d)
  PROVE  queue[d] = <<>>
<1>1. queue[d] \in Seq(Buffer(d)) BY DEF QueueInv, QueueOk
<1>2. ~(1 \in 1..Len(queue[d])) BY DEF QueueInv, QueueOk, NoBuffersAreQueued
<1> QED BY <1>1, <1>2

LEMMA ThreadFinish ==
  ASSUME orphans = {}, TypeInv, QueueInv, CursorInv, NEW t \in Threads,
         HostInv(t), RoomInv(t), FinishInv(t),
         ThreadStep(t), Alive(t)'
  PROVE  FinishInv(t)'
<1>1. /\ config' = config /\ MayFail' = MayFail /\ (Uses("out"))' = Uses("out") /\ Chunks("out")' = Chunks("out")
      /\ abortProcessing => abortProcessing'
      /\ isActive' = (isActive /\ tpc[t] # "exit")
  BY ThreadFrame DEF MayFail, Uses, BufferCount, Chunks
<1>t. tpc \in [Threads -> Labels] /\ done \in [Threads -> BOOLEAN]
      /\ return \in [Threads -> {"wait", "pollOut", "process", "advance", "again"}]
  BY DEF TypeInv
<1> USE DEF buffers, driver, shared, Goto, LoopEnd
<1>2. isActive' \/ tpc'[t] = "finished"
  <2>1. tpc[t] # "finished"
    <3> SUFFICES ASSUME tpc[t] = "finished" PROVE FALSE OBVIOUS
    <3>1. ThreadFinished(t)
      BY DEF ThreadStep, ThreadWait, ThreadCheck, ThreadPollIn, ThreadPollOut, ThreadCatchUpIn,
         ThreadCatchUpOut, CatchUp, ThreadProcess, ThreadNoBuffers, ThreadInput, ThreadAdvanceInput,
         ThreadOutput, ThreadWrite, ThreadAgain, ThreadExit
    <3> QED BY <1>t, <3>1 DEF ThreadFinished, Alive
  <2>2. CASE tpc[t] = "exit"
    <3>1. ThreadExit(t)
        BY <2>2
        DEF ThreadStep, ThreadWait, ThreadCheck, ThreadPollIn, ThreadPollOut,
            ThreadCatchUpIn,
         ThreadCatchUpOut, CatchUp, ThreadProcess, ThreadNoBuffers, ThreadInput, ThreadAdvanceInput,
         ThreadOutput, ThreadWrite, ThreadAgain, ThreadFinished
    <3> QED BY <1>t, <3>1 DEF ThreadExit
  <2> QED BY <1>1, <2>1, <2>2 DEF FinishInv
<1>3. SUFFICES ASSUME ~MayFail, ~abortProcessing'
               PROVE  IF tpc'[t] \in {"exit", "finished"}
                        THEN /\ Uses("out") => queue'["out"] = <<>>
                             /\ used'["out"] < Chunks("out")
                        ELSE ~done'[t]
  BY <1>1, <1>2 DEF FinishInv
<1>4. ~abortProcessing BY <1>1, <1>3
<1>5. IF tpc[t] \in {"exit", "finished"}
        THEN (Uses("out") => queue["out"] = <<>>) /\ used["out"] < Chunks("out")
        ELSE ~done[t]
  BY <1>3, <1>4 DEF FinishInv
<1>6. ASSUME NEW d \in Direction, NEW ok \in BOOLEAN, Gives(d, ok) PROVE ok
  <2>1. ~InQueue(d, cur[d]) BY <1>6, QueueFacts, AfterFacts DEF Gives, HasHostBuffer
  <2> QED BY <1>3, <1>6, <2>1 DEF Gives, AdvanceToNextBuffer
<1>7. SUFFICES ASSUME tpc'[t] \notin {"exit", "finished"} => done'[t],
                      tpc[t] \notin {"exit", "finished"}
               PROVE /\ tpc'[t] \in {"exit", "finished"}
                     /\ Uses("out") => queue'["out"] = <<>>
                     /\ used'["out"] < Chunks("out")
  <2>1. CASE tpc[t] \in {"exit", "finished"}
    <3>1. ThreadExit(t) \/ ThreadFinished(t)
        BY <2>1
        DEF ThreadStep, ThreadWait, ThreadCheck, ThreadPollIn, ThreadPollOut,
            ThreadCatchUpIn,
         ThreadCatchUpOut, CatchUp, ThreadProcess, ThreadNoBuffers, ThreadInput, ThreadAdvanceInput,
         ThreadOutput, ThreadWrite, ThreadAgain
    <3> QED BY <1>t, <1>5, <2>1, <3>1 DEF ThreadExit, ThreadFinished, Alive
  <2>2. CASE tpc'[t] \notin {"exit", "finished"} /\ ~done'[t] BY <2>2
  <2> QED BY <2>1, <2>2
<1>8. ~done[t] BY <1>5, <1>7
<1>9. CASE ThreadWait(t) BY <1>t, <1>3, <1>7, <1>8, <1>9 DEF ThreadWait
<1>10. CASE ThreadCheck(t)
  <2>1. tpc[t] = "check" /\ UNCHANGED <<queue, used>> BY <1>10 DEF ThreadCheck
  <2>2. used["out"] < Chunks("out") BY <1>4, <2>1 DEF RoomInv
  <2>3. CASE stopProcessing
    <3>1. /\ done'[t] = (~Uses("out") \/ NoBuffersAreQueued("out"))
          /\ tpc'[t] = IF done'[t] THEN "exit" ELSE "wait"
      BY <1>t, <1>4, <1>8, <1>10, <2>3 DEF ThreadCheck
    <3> QED BY <1>7, <2>1, <2>2, <3>1, AllDoneNoneQueued DEF Direction
  <2>4. CASE ~stopProcessing BY <1>t, <1>4, <1>7, <1>8, <1>10, <2>4 DEF ThreadCheck
  <2> QED BY <2>3, <2>4
<1>11. CASE ThreadPollIn(t) BY <1>t, <1>7, <1>8, <1>11 DEF ThreadPollIn, Poll, BeginCatchUp
<1>12. CASE ThreadPollOut(t) BY <1>t, <1>7, <1>8, <1>12 DEF ThreadPollOut, Poll, BeginCatchUp
<1>13. ASSUME NEW d \in Direction, NEW label, CatchUp(t, d, label), CatchUpInv(t, d)
       PROVE  ~done'[t] /\ tpc'[t] \in {tpc[t], return[t]}
  <2>1. CASE todo[t] = 0 BY <1>t, <1>8, <1>13, <2>1 DEF CatchUp
  <2>2. CASE todo[t] # 0
    <3>1. todo[t] > 0 BY <2>2 DEF TypeInv
    <3>2. HasHostBuffer(d) BY <1>13, <3>1, CatchUpCurrent
    <3>3. PICK ok \in BOOLEAN : AdvanceToNextBuffer(d, ok) /\ done' = [done EXCEPT ![t] = @ \/ ~ok]
      BY <1>13, <2>2 DEF CatchUp
    <3>4. ok BY <1>6, <3>2, <3>3 DEF Gives
    <3> QED BY <1>t, <1>8, <1>13, <2>2, <3>3, <3>4 DEF CatchUp
  <2> QED BY <2>1, <2>2
<1>14. CASE ThreadCatchUpIn(t)
  <2>1. CatchUp(t, "in", "catchIn") /\ tpc[t] = "catchIn" BY <1>14 DEF ThreadCatchUpIn, CatchUp
  <2>2. CatchUpInv(t, "in") BY <2>1 DEF HostInv
  <2> QED BY <1>t, <1>7, <1>13, <2>1, <2>2 DEF Direction
<1>15. CASE ThreadCatchUpOut(t)
  <2>1. CatchUp(t, "out", "catchOut") /\ tpc[t] = "catchOut"
    BY <1>15 DEF ThreadCatchUpOut, CatchUp
  <2>2. CatchUpInv(t, "out") BY <2>1 DEF HostInv
  <2> QED BY <1>t, <1>7, <1>13, <2>1, <2>2 DEF Direction
<1>16. CASE \E result \in CallbackResults : ThreadProcess(t, result)
  BY <1>t, <1>3, <1>7, <1>8, <1>16 DEF ThreadProcess
<1>17. CASE ThreadNoBuffers(t) BY <1>t, <1>7, <1>8, <1>17 DEF ThreadNoBuffers
<1>18. CASE ThreadInput(t) BY <1>t, <1>7, <1>8, <1>18 DEF ThreadInput, BeginCatchUp
<1>19. CASE ThreadAdvanceInput(t)
  <2>1. PICK ok \in BOOLEAN : AdvanceToNextBuffer("in", ok) /\ done' = [done EXCEPT ![t] = @ \/ ~ok]
    BY <1>19 DEF ThreadAdvanceInput
  <2>2. HasHostBuffer("in") BY <1>19 DEF ThreadAdvanceInput, HostInv, Direction
  <2>3. ok BY <1>6, <2>1, <2>2 DEF Gives, Direction
  <2> QED BY <1>t, <1>7, <1>8, <1>19, <2>1, <2>3 DEF ThreadAdvanceInput
<1>20. CASE ThreadOutput(t) BY <1>t, <1>7, <1>8, <1>20 DEF ThreadOutput
<1>21. CASE ThreadWrite(t)
  <2>1. PICK ok \in BOOLEAN : AdvanceToNextBuffer("out", ok) /\ done' = [done EXCEPT ![t] = @ \/ ~ok]
    BY <1>21 DEF ThreadWrite
  <2>2. HasHostBuffer("out") BY <1>21 DEF ThreadWrite, HostInv
  <2>3. ok BY <1>6, <2>1, <2>2 DEF Gives, Direction
  <2> QED BY <1>t, <1>7, <1>8, <1>21, <2>1, <2>3 DEF ThreadWrite, BeginCatchUp
<1>22. CASE ThreadAgain(t) BY <1>t, <1>7, <1>8, <1>22 DEF ThreadAgain
<1>23. CASE ThreadExit(t) \/ ThreadFinished(t) BY <1>7, <1>23 DEF ThreadExit, ThreadFinished
<1> QED
  BY <1>9, <1>10, <1>11, <1>12, <1>14, <1>15, <1>16, <1>17, <1>18, <1>19, <1>20, <1>21,
      <1>22, <1>23
  DEF ThreadStep

LEMMA ThreadFresh ==
  ASSUME orphans = {}, TypeInv, LifeInv, FreshInv, NEW t \in Threads, ThreadStep(t)
  PROVE  FreshInv'
<1>1. /\ app' = app /\ tpc'[t] # "unborn" /\ \A u \in Threads \ {t} : tpc'[u] = tpc[u]
      /\ app \in Attended
  BY ThreadFrame DEF call, LifeInv
<1>2. \A u \in Threads \ {t} : done'[u] = done[u]
    BY
    DEF TypeInv, ThreadStep, ThreadWait, ThreadCheck, ThreadPollIn, ThreadPollOut,
        ThreadCatchUpIn,
     ThreadCatchUpOut, CatchUp, Poll, ThreadProcess, ThreadNoBuffers, ThreadInput, ThreadAdvanceInput,
     ThreadOutput, ThreadWrite, ThreadAgain, ThreadExit, ThreadFinished
<1> QED BY <1>1, <1>2 DEF FreshInv, Attended

\* A step of a thread keeps the invariant.
LEMMA ThreadInv ==
  ASSUME IInv, CallInv', NEW t \in Threads, ThreadStep(t)
  PROVE  IInv'
<1>1. Alive(t) BY ThreadFrame DEF IInv
<1>2. HostInv(t) /\ RoomInv(t) /\ FinishInv(t) BY <1>1 DEF IInv
<1>3. /\ TypeInv /\ QueueInv /\ CursorInv /\ LifeInv /\ OrderInv /\ FreshInv
      /\ orphans = {}
  BY DEF IInv
<1>4. TypeInv' BY <1>2, <1>3, ThreadKeepsTypes DEF HostInv
<1>0. orphans' = {} BY <1>3, ThreadFrame DEF call
<1>5. LifeInv' BY <1>3, LifeThread
<1>6. QueueInv' /\ CursorInv' /\ OrderInv' /\ UsedInv' BY <1>2, <1>3, ThreadKeepsBuffers
<1>7. FreshInv' BY <1>3, ThreadFresh
<1>8. ASSUME NEW u \in Threads, Alive(u)' PROVE u = t
  BY <1>1, <1>3, <1>8, ThreadFrame DEF LifeInv, Alive
<1>9. HostInv(t)' BY <1>2, <1>3, ThreadHost
<1>10. RoomInv(t)' BY <1>2, <1>3, ThreadRoom
<1>11. Alive(t)' => FinishInv(t)' BY <1>2, <1>3, ThreadFinish
<1> QED BY <1>0, <1>4, <1>5, <1>6, <1>7, <1>8, <1>9, <1>10, <1>11 DEF IInv

-----------------------------------------------------------------------------
(* Steps of the drivers and of calls, next to a thread.                    *)

\* Buffers that come back and flags that are raised do not disturb it.
LEMMA OthersKeepThread ==
  ASSUME TypeInv, QueueInv, CursorInv, NEW t \in Threads,
         HostInv(t), RoomInv(t), FinishInv(t),
         UNCHANGED <<config, isActive, cur, used, thread>>,
         stopProcessing => stopProcessing', abortProcessing => abortProcessing',
         \A d \in Direction : \A b \in Buffer(d) : whdrDone[d][b] => whdrDone'[d][b],
         \A d \in Direction : queue[d] = <<>> => queue'[d] = <<>>
  PROVE  HostInv(t)' /\ RoomInv(t)' /\ FinishInv(t)'
<1>1. /\ UNCHANGED <<tpc, done, host, outputUnderflow, todo, return, cur, used, config>>
      /\ MayFail' = MayFail
      /\ \A d \in Direction : Uses(d)' = Uses(d) /\ Chunks(d)' = Chunks(d) /\ BufferCount(d)' = BufferCount(d)
  BY DEF thread, MayFail, Uses, Chunks, BufferCount
<1>2. \A d \in Direction : HasHostBuffer(d) => HasHostBuffer(d)'
  BY <1>1, AfterFacts DEF HasHostBuffer
<1>3. \A d \in Direction : NoBuffersAreQueued(d) => NoBuffersAreQueued(d)'
  BY <1>1 DEF NoBuffersAreQueued, Buffer
<1>4. ASSUME NEW d \in Direction, CatchUpInv(t, d) PROVE CatchUpInv(t, d)'
  <2>1. Uses(d) /\ todo[t] \in Nat /\ todo[t] < BufferCount(d) /\ BufferCount(d) \in Nat
    BY <1>4, ConfigType DEF TypeInv, CatchUpInv
  <2>2. \A k \in 0..todo[t] : After(d, k) \in Buffer(d) /\ After(d, k)' = After(d, k)
    BY <1>1, <2>1, AfterFacts DEF After
  <2> QED BY <1>1, <1>4, <2>2 DEF CatchUpInv
<1>5. HostInv(t)'
  <2>1. host[t] \subseteq Direction BY DEF TypeInv
  <2>2. (tpc[t] = "catchIn" =>
       /\ return[t] \in {"pollOut", "advance"} /\ CatchUpInv(t, "in")
       /\ return[t] = "pollOut" => host[t] = {"in"}
       /\ return[t] = "advance" /\ Uses("out") => HasHostBuffer("out"))'
    BY <1>1, <1>2, <1>4 DEF HostInv, Direction
  <2>3. (tpc[t] = "pollOut" => \A d \in host[t] : d = "in" /\ HasHostBuffer(d))'
    BY <1>1, <1>2, <2>1 DEF HostInv
  <2>4. (tpc[t] = "catchOut" =>
       /\ return[t] \in {"process", "again"} /\ CatchUpInv(t, "out")
       /\ return[t] = "process" /\ "in" \in host[t] => HasHostBuffer("in"))'
    BY <1>1, <1>2, <1>4 DEF HostInv, Direction
  <2>5. (tpc[t] = "process" => \A d \in host[t] : HasHostBuffer(d))'
    BY <1>1, <1>2, <2>1 DEF HostInv
  <2>6. (tpc[t] \in {"input", "advance"} => \A d \in Direction : Uses(d) => HasHostBuffer(d))'
    BY <1>1, <1>2 DEF HostInv
  <2>7. (/\ tpc[t] = "advance" => Uses("in")
         /\ tpc[t] \in {"output", "write"} /\ Uses("out") => HasHostBuffer("out")
         /\ tpc[t] = "write" =>
              Uses("out") /\ (outputUnderflow[t] => NoBuffersAreQueued("out")))'
    BY <1>1, <1>2, <1>3 DEF HostInv, Direction
  <2> QED BY <2>2, <2>3, <2>4, <2>5, <2>6, <2>7 DEF HostInv
<1>6. RoomInv(t)' BY <1>1 DEF RoomInv, Direction
<1>7. FinishInv(t)' BY <1>1 DEF FinishInv, Direction
<1> QED BY <1>5, <1>6, <1>7

\* A driver gives a buffer back.
LEMMA DriverInv ==
  ASSUME IInv, CallInv', NEW d \in Direction, DriverDone(d)
  PROVE  IInv'
<1>1. /\ UNCHANGED <<shared, buffers, running, call, thread>>
      /\ queue[d] # <<>> /\ queue' = [queue EXCEPT ![d] = Tail(queue[d])]
  BY DEF DriverDone
<1>2. /\ TypeInv /\ QueueInv /\ CursorInv /\ LifeInv /\ OrderInv /\ UsedInv /\ FreshInv
      /\ orphans = {}
  BY DEF IInv
<1>0. orphans' = {} BY <1>1, <1>2 DEF call
<1>3. TypeInv' /\ LifeInv' BY <1>2, TypeDriver, LifeDriver
<1>4. /\ QueueInv'
      /\ \A e \in Direction : \A b \in Buffer(e) : whdrDone[e][b] => whdrDone'[e][b]
      /\ \A e \in Direction : queue[e] = <<>> => queue'[e] = <<>>
  BY <1>2, DoneKeepsQueue
<1>5. /\ UNCHANGED <<config, isStopped, isActive, cur, used, app>> /\ MayFail' = MayFail
      /\ \A e \in Direction : /\ BufferCount(e)' = BufferCount(e) /\ Uses(e)' = Uses(e)
                              /\ Chunks(e)' = Chunks(e)
      /\ DOMAIN queue = Direction
      /\ \A e \in Direction : queue[e] \in Seq(Buffer(e))
    BY <1>1, <1>2
    DEF shared, buffers, call, MayFail, BufferCount, Uses, Chunks, QueueInv, QueueOk
<1>6. CursorInv' BY <1>2, <1>5 DEF CursorInv
<1>7. ASSUME NEW e \in Direction, InOrder(e) PROVE InOrder(e)'
  <2>1. CASE e = d
    <3> DEFINE q == queue[d]
    <3>1. /\ Len(q) \in Nat \ {0} /\ queue'[d] = Tail(q) /\ Len(Tail(q)) = Len(q) - 1
          /\ \A i \in 1..Len(Tail(q)) : Tail(q)[i] = q[i+1]
      BY <1>1, <1>5
    <3>2. \A i \in 1..Len(q) : q[i] = Before(d, Len(q) + 1 - i) BY <1>7, <2>1 DEF InOrder
    <3> DEFINE m == Len(q)
    <3>4. m \in Nat \ {0} BY <3>1
    <3> HIDE DEF q, m
    <3>3. ASSUME NEW i \in 1..m-1 PROVE Tail(q)[i] = Before(d, m - 1 + 1 - i)
      <4>1. i + 1 \in 1..m /\ m + 1 - (i + 1) = m - 1 + 1 - i BY <3>4
      <4>2. q[i+1] = Before(d, m + 1 - (i + 1)) BY <3>2, <4>1 DEF m
      <4> QED BY <3>1, <4>1, <4>2 DEF m
    <3> QED BY <1>5, <2>1, <3>1, <3>3 DEF InOrder, Before, m
  <2>2. CASE e # d BY <1>1, <1>5, <1>7, <2>2 DEF InOrder, Before
  <2> QED BY <2>1, <2>2
<1>8. OrderInv' BY <1>2, <1>5, <1>7 DEF OrderInv, Direction
<1>9. UsedInv'
  <2>1. \A e \in Direction : used[e] > 0 /\ whdrDone[e][cur[e]] => whdrDone'[e][cur[e]]
    BY <1>2, <1>4, AfterFacts DEF CursorInv
  <2> QED BY <1>2, <1>5, <2>1 DEF UsedInv, Direction
<1>10. FreshInv' BY <1>1, <1>2, <1>5 DEF FreshInv, thread
<1>11. ASSUME NEW t \in Threads, Alive(t)' PROVE HostInv(t)' /\ RoomInv(t)' /\ FinishInv(t)'
  <2>1. Alive(t) BY <1>1, <1>11 DEF Alive, thread
  <2>2. UNCHANGED <<stopProcessing, abortProcessing>> BY <1>1 DEF shared
  <2> QED BY <1>1, <1>2, <1>4, <1>5, <2>1, <2>2, OthersKeepThread DEF IInv
<1> QED BY <1>0, <1>3, <1>4, <1>6, <1>8, <1>9, <1>10, <1>11 DEF IInv

LEMMA SameBuffers ==
  ASSUME QueueInv, CursorInv, UNCHANGED <<config, cur, used, queue, whdrDone>>
  PROVE  /\ QueueInv' /\ CursorInv'
         /\ \A d \in Direction : InOrder(d)' = InOrder(d) /\ Chunks(d)' = Chunks(d)
  BY DEF QueueInv, QueueOk, CursorInv, InOrder, Before, Buffer, BufferCount, Uses, Chunks

LEMMA ResetBuffers ==
  ASSUME TypeInv, QueueInv, CursorInv, UNCHANGED <<config, cur, used>>,
         NEW dirs \in SUBSET Direction, Reset(dirs)
  PROVE  /\ QueueInv' /\ CursorInv'
         /\ \A d \in Direction : InOrder(d) => InOrder(d)'
         /\ \A d \in Direction : used[d] > 0 /\ whdrDone[d][cur[d]] => whdrDone'[d][cur[d]]
         /\ \A d \in Direction : Chunks(d)' = Chunks(d)
<1>1. \A d \in Direction : /\ BufferCount(d)' = BufferCount(d) /\ Uses(d)' = Uses(d)
                           /\ Chunks(d)' = Chunks(d)
  BY DEF BufferCount, Uses, Chunks
<1>2. /\ QueueInv'
      /\ \A e \in Direction : \A b \in Buffer(e) : whdrDone[e][b] => whdrDone'[e][b]
      /\ \A e \in Direction : queue'[e] = queue[e] \/ queue'[e] = <<>>
  BY ResetKeepsQueue
<1>3. CursorInv' BY <1>1 DEF CursorInv
<1>4. \A d \in Direction : InOrder(d) => InOrder(d)' BY <1>1, <1>2 DEF InOrder, Before
<1>5. \A d \in Direction : used[d] > 0 /\ whdrDone[d][cur[d]] => whdrDone'[d][cur[d]]
  BY <1>2, AfterFacts DEF CursorInv
<1> QED BY <1>1, <1>2, <1>3, <1>4, <1>5

\* Calls keep the buffers in order.
LEMMA CallsKeepBuffers ==
  ASSUME TypeInv, QueueInv, CursorInv, LifeInv, OrderInv, UsedInv, Calls
  PROVE  QueueInv' /\ CursorInv' /\ OrderInv' /\ UsedInv'
<1>c. config' = config
  BY DEF Calls, StartStream, StartInput, StartOutput, StartFlags, StartThread, StartDevices,
     StopStream, StopFlush, StopDrain, StopDrainWait, StopWait, StopWaitAgain, StopReset,
     StopDone, AbortStream, AbortReset, AbortWait, CloseStream, shared
<1>m. MayFail' = MayFail BY <1>c DEF MayFail
<1>n. \A d \in Direction : /\ BufferCount(d)' = BufferCount(d) /\ Uses(d)' = Uses(d)
                           /\ Chunks(d)' = Chunks(d) /\ Chunks(d) \in Nat \ {0}
                           /\ BufferCount(d) \in Nat
  BY <1>c, ConfigType DEF BufferCount, Uses, Chunks, TypeInv
<1>1. ASSUME UNCHANGED <<cur, used, queue, whdrDone>>,
             ~isStopped' => ~isStopped \/ app = "startFlags",
             app' \notin {"startOut", "startFlags"},
             app' = "startThread" => app = "startFlags"
      PROVE  QueueInv' /\ CursorInv' /\ OrderInv' /\ UsedInv'
  <2>1. /\ QueueInv' /\ CursorInv'
        /\ \A d \in Direction : InOrder(d)' = InOrder(d) /\ Chunks(d)' = Chunks(d)
    BY <1>c, <1>1, SameBuffers
  <2>2. OrderInv' BY <1>m, <1>1, <2>1 DEF OrderInv
  <2>3. app = "startFlags" => \A d \in Direction : used[d] = 0 BY DEF UsedInv
  <2>4. UsedInv' BY <1>c, <1>1, <2>1, <2>3 DEF UsedInv
  <2> QED BY <2>1, <2>2, <2>4
<1>2. ASSUME NEW dirs \in SUBSET Direction, Reset(dirs), UNCHANGED <<cur, used, isStopped>>,
             app' \notin {"startOut", "startFlags", "startThread"}
      PROVE  QueueInv' /\ CursorInv' /\ OrderInv' /\ UsedInv'
  <2>1. /\ QueueInv' /\ CursorInv'
        /\ \A d \in Direction : InOrder(d) => InOrder(d)'
        /\ \A d \in Direction : used[d] > 0 /\ whdrDone[d][cur[d]] => whdrDone'[d][cur[d]]
        /\ \A d \in Direction : Chunks(d)' = Chunks(d)
    BY <1>c, <1>2, ResetBuffers
  <2>2. OrderInv' BY <1>m, <1>2, <2>1 DEF OrderInv
  <2>3. config.blocking' = config.blocking BY <1>c
  <2>4. ASSUME config.blocking, ~isStopped, NEW d \in Direction, used[d] > 0
        PROVE  whdrDone'[d][cur[d]]
    <3>1. whdrDone[d][cur[d]] BY <2>4 DEF UsedInv
    <3> QED BY <2>1, <2>4, <3>1
  <2>6. config.blocking => \A d \in Direction : used[d] < Chunks(d) BY DEF UsedInv
  <2>5. UsedInv' BY <1>2, <2>1, <2>3, <2>4, <2>6 DEF UsedInv
  <2> QED BY <2>1, <2>2, <2>5
<1> USE DEF buffers, shared, driver, local
<1>3. CASE StartStream BY <1>1, <1>3 DEF StartStream
<1>4. CASE StartInput
  <2>1. PICK n \in 0..BufferCount("in") :
          /\ QueueBuffers("in", n)
          /\ app' = IF n = BufferCount("in") THEN "startOut" ELSE "idle"
    BY <1>4 DEF StartInput
  <2>2. isStopped' /\ isStopped' = isStopped BY <1>4 DEF StartInput, LifeInv, Starting
  <2>3. /\ QueueInv' /\ CursorInv'
        /\ \A e \in Direction \ {"in"} :
              UNCHANGED <<cur[e], used[e], queue[e], whdrDone[e]>>
        /\ n = BufferCount("in") => used'["in"] = 0 /\ InOrder("in")'
    BY <1>c, <2>1, QueueBuffersEffect DEF Direction
  <2>4. used'["in"] \in {0, used["in"]} BY <2>1 DEF QueueBuffers, CursorInv, Direction
  <2>5. OrderInv' BY <2>1, <2>2, <2>3 DEF OrderInv
  <2>6. UsedInv' BY <1>c, <1>n, <2>1, <2>2, <2>3, <2>4 DEF UsedInv, Direction
  <2> QED BY <2>3, <2>5, <2>6
<1>5. CASE StartOutput
  <2>1. PICK n \in 0..BufferCount("out") :
          /\ QueueBuffers("out", n)
          /\ app' = IF n = BufferCount("out") THEN "startFlags" ELSE "idle"
    BY <1>5 DEF StartOutput
  <2>2. isStopped' /\ isStopped' = isStopped BY <1>5 DEF StartOutput, LifeInv, Starting
  <2>3. /\ QueueInv' /\ CursorInv'
        /\ \A e \in Direction \ {"out"} :
              UNCHANGED <<cur[e], used[e], queue[e], whdrDone[e]>>
        /\ n = BufferCount("out") => used'["out"] = 0 /\ InOrder("out")'
    BY <1>c, <2>1, QueueBuffersEffect DEF Direction
  <2>4. used'["out"] \in {0, used["out"]} BY <2>1 DEF QueueBuffers, CursorInv, Direction
  <2>5. InOrder("in")' = InOrder("in")
    <3>1. UNCHANGED <<cur["in"], used["in"], queue["in"]>> BY <2>3 DEF Direction
    <3>2. UNCHANGED <<Uses("in"), BufferCount("in")>> BY <1>n DEF Direction
    <3> QED BY <3>1, <3>2 DEF InOrder, Before
  <2>6. OrderInv' BY <1>5, <1>m, <2>1, <2>2, <2>3, <2>5 DEF OrderInv, StartOutput, Direction
  <2>7. UsedInv'
    BY <1>5, <1>c, <1>n, <2>1, <2>2, <2>3, <2>4 DEF UsedInv, StartOutput, Direction
  <2> QED BY <2>3, <2>6, <2>7
<1>6. CASE StartFlags BY <1>1, <1>6 DEF StartFlags
<1>7. CASE StartThread BY <1>1, <1>7 DEF StartThread
<1>8. CASE StartDevices BY <1>1, <1>8 DEF StartDevices
<1>9. CASE StopStream BY <1>1, <1>9 DEF StopStream
<1>10. CASE StopFlush
  <2>1. app = "stopFlush" /\ app' = "stopDrain" /\ UNCHANGED isStopped /\ ~isStopped
    BY <1>10 DEF StopFlush, LifeInv, Starting
  <2>2. CASE used["out"] > 0
    <3>1. PICK ok \in BOOLEAN : AdvanceToNextBuffer("out", ok) BY <1>10, <2>2 DEF StopFlush
    <3>2. Uses("out") BY <2>2 DEF CursorInv, Direction
    <3>3. /\ QueueInv' /\ CursorInv'
          /\ \A e \in Direction \ {"out"} : UNCHANGED <<cur[e], used[e], queue[e], whdrDone[e]>>
          /\ used'["out"] = 0
          /\ ok \/ MayFail \/ InQueue("out", cur["out"])
      BY <1>c, <3>1, <3>2, AdvanceEffect DEF Direction
    <3>4. ASSUME ~MayFail PROVE \A d \in Direction : InOrder(d)'
      <4>1. config.blocking
        BY <2>1, <3>4 DEF LifeInv
      <4>2. whdrDone["out"][cur["out"]] BY <2>1, <2>2, <4>1 DEF UsedInv, Direction
      <4>3. ~InQueue("out", cur["out"]) BY <3>2, <4>2, QueueFacts, AfterFacts DEF Direction
      <4>4. ok /\ \A d \in Direction : InOrder(d) BY <2>1, <3>3, <3>4, <4>3 DEF OrderInv
      <4>5. InOrder("out")' BY <1>c, <3>1, <3>2, <4>4, AdvanceKeepsOrder DEF Direction
      <4>6. InOrder("in")' = InOrder("in")
        <5>1. UNCHANGED <<cur["in"], used["in"], queue["in"]>> BY <3>3 DEF Direction
        <5>2. UNCHANGED <<Uses("in"), BufferCount("in")>> BY <1>n DEF Direction
        <5> QED BY <5>1, <5>2 DEF InOrder, Before
      <4> QED BY <4>4, <4>5, <4>6 DEF Direction
    <3>5. OrderInv' BY <1>m, <2>1, <3>4 DEF OrderInv
    <3>6. UsedInv' BY <1>c, <1>n, <2>1, <3>3 DEF UsedInv, Direction
    <3> QED BY <3>3, <3>5, <3>6
  <2>3. CASE ~(used["out"] > 0) BY <1>1, <1>10, <2>1, <2>3 DEF StopFlush
  <2> QED BY <2>2, <2>3
<1>11. CASE StopDrain BY <1>1, <1>11 DEF StopDrain
<1>12. CASE StopDrainWait BY <1>1, <1>12 DEF StopDrainWait
<1>13. CASE StopWait BY <1>1, <1>13 DEF StopWait
<1>14. CASE StopWaitAgain BY <1>1, <1>14 DEF StopWaitAgain
<1>15. CASE StopReset BY <1>2, <1>15 DEF StopReset
<1>16. CASE StopDone BY <1>1, <1>16 DEF StopDone
<1>17. CASE AbortStream BY <1>1, <1>17 DEF AbortStream
<1>18. CASE AbortReset
  <2>1. UNCHANGED <<cur, used, isStopped>> /\ app' \in {"abortWait", "idle"}
    BY <1>18 DEF AbortReset
  <2>2. \E dirs \in SUBSET Direction : Reset(dirs) BY <1>18 DEF AbortReset, Direction
  <2> QED BY <1>2, <2>1, <2>2
<1>19. CASE AbortWait BY <1>1, <1>19 DEF AbortWait
<1>20. CASE CloseStream BY <1>1, <1>20 DEF CloseStream
<1> QED
  BY <1>3, <1>4, <1>5, <1>6, <1>7, <1>8, <1>9, <1>10, <1>11, <1>12, <1>13, <1>14, <1>15,
      <1>16, <1>17, <1>18, <1>19, <1>20
  DEF Calls

LEMMA CallsFresh ==
  ASSUME TypeInv, LifeInv, FreshInv, Calls
  PROVE  FreshInv'
<1> USE DEF FreshInv, shared, local, thread
<1>1. CASE StartThread
  <2>1. FirstUnborn \in Threads /\ tpc \in [Threads -> Labels]
    BY <1>1, FirstUnbornExists DEF StartThread, LifeInv, TypeInv
  <2>2. tpc' = tpc \/ tpc' = [tpc EXCEPT ![FirstUnborn] = "wait"]
    BY <1>1 DEF StartThread, FirstUnborn
  <2>3. \A t \in Threads : tpc'[t] = "unborn" => tpc[t] = "unborn" BY <2>1, <2>2
  <2> QED BY <1>1, <2>3 DEF StartThread
<1>2. CASE StartFlags BY <1>2 DEF StartFlags
<1>3. ASSUME UNCHANGED thread, app' # "startThread" PROVE FreshInv' BY <1>3
<1> QED
  BY <1>1, <1>2, <1>3
  DEF Calls, StartStream, StartInput, StartOutput, StartDevices, StopStream, StopFlush, StopDrain,
      StopDrainWait, StopWait, StopWaitAgain, StopReset, StopDone, AbortStream, AbortReset,
      AbortWait, CloseStream

\* A call that is made while a thread lives does not disturb it, and a thread
\* that is created finds what it expects.
LEMMA CallsKeepThreads ==
  ASSUME IInv, Calls, NEW t \in Threads, Alive(t)'
  PROVE  HostInv(t)' /\ RoomInv(t)' /\ FinishInv(t)'
<1> USE DEF shared, local, driver, thread, buffers, Starting
<1>1. /\ TypeInv /\ QueueInv /\ CursorInv /\ LifeInv /\ UsedInv /\ FreshInv
      /\ orphans = {}
  BY DEF IInv
<1>2. CASE StartThread
  <2>1. FirstUnborn \in Threads /\ tpc \in [Threads -> Labels] /\ tpc[FirstUnborn] = "unborn"
    BY <1>1, <1>2, FirstUnbornExists DEF StartThread, LifeInv, TypeInv, UnbornThreads
  <2>2. \A u \in Threads : ~Alive(u) BY <1>1, <1>2 DEF StartThread, LifeInv, Attended
  <2>3. tpc' = tpc \/ tpc' = [tpc EXCEPT ![FirstUnborn] = "wait"]
    BY <1>2 DEF StartThread, FirstUnborn
  <2>4. t = FirstUnborn /\ tpc'[t] = "wait" BY <2>1, <2>2, <2>3 DEF Alive
  <2>5. isActive' /\ ~done'[t] BY <1>1, <1>2, <2>1, <2>4 DEF FreshInv, StartThread
  <2>6. HostInv(t)' BY <2>4 DEF HostInv
  <2>7. \A d \in Direction : used'[d] = 0 /\ Chunks(d)' \in Nat \ {0}
    BY <1>1, <1>2, ConfigType DEF UsedInv, StartThread, Chunks, TypeInv
  <2>8. RoomInv(t)' BY <2>4, <2>7 DEF RoomInv, Direction
  <2>9. FinishInv(t)' BY <2>4, <2>5 DEF FinishInv
  <2> QED BY <2>6, <2>8, <2>9
<1>3. CASE UNCHANGED thread
  <2>1. Alive(t) /\ HostInv(t) /\ RoomInv(t) /\ FinishInv(t) BY <1>3 DEF Alive, IInv
  <2>2. t = processingThread /\ ~isStopped /\ app \in Attended BY <1>1, <2>1 DEF LifeInv
  <2>a. tpc[t] # "dead" BY <2>1 DEF Alive
  <2>3. ASSUME UNCHANGED <<config, isActive, cur, used, queue, whdrDone>>,
               stopProcessing => stopProcessing', abortProcessing => abortProcessing'
        PROVE  HostInv(t)' /\ RoomInv(t)' /\ FinishInv(t)'
    BY <1>1, <1>3, <2>1, <2>3, OthersKeepThread
  <2>4. CASE StartStream \/ StartInput \/ StartOutput \/ StartFlags \/ StopFlush \/ StopDrain
             \/ StopDrainWait \/ StopReset \/ StopDone \/ CloseStream
    BY <2>2, <2>4 DEF Attended, StartStream, StartInput, StartOutput, StartFlags, StopFlush,
       StopDrain, StopDrainWait, StopReset, StopDone, CloseStream
  <2>5. CASE StartDevices BY <2>3, <2>5 DEF StartDevices
  <2>6. CASE StopStream BY <2>3, <2>6 DEF StopStream
  <2>7. CASE StopWait BY <2>3, <2>7 DEF StopWait
  <2>8. CASE StopWaitAgain BY <2>3, <2>8 DEF StopWaitAgain
  <2>9. CASE AbortStream BY <2>3, <2>9 DEF AbortStream
  <2>10. CASE AbortReset
    <3>1. PICK dirs \in SUBSET Direction : Reset(dirs) BY <2>10 DEF AbortReset, Direction
    <3>2. UNCHANGED <<config, isActive, cur, used, stopProcessing, abortProcessing>>
      BY <2>10 DEF AbortReset
    <3>3. /\ \A e \in Direction : \A b \in Buffer(e) : whdrDone[e][b] => whdrDone'[e][b]
          /\ \A e \in Direction : queue[e] = <<>> => queue'[e] = <<>>
      BY <1>1, <3>1, <3>2, ResetKeepsQueue
    <3> QED BY <1>1, <1>3, <2>1, <3>2, <3>3, OthersKeepThread
  <2>11. CASE AbortWait
    <3>1. ~ThreadHasEnded BY <2>2, <2>a, <1>1 DEF ThreadHasEnded, NoThread, Threads, TypeInv
    <3> QED BY <2>3, <2>11, <3>1 DEF AbortWait
  <2> QED BY <1>2, <2>4, <2>5, <2>6, <2>7, <2>8, <2>9, <2>10, <2>11 DEF Calls
<1> QED
  BY <1>2, <1>3
  DEF Calls, StartStream, StartInput, StartOutput, StartFlags, StartDevices, StopStream, StopFlush,
      StopDrain, StopDrainWait, StopWait, StopWaitAgain, StopReset, StopDone, AbortStream,
      AbortReset, AbortWait, CloseStream

LEMMA CallsInv ==
  ASSUME IInv, orphans' = {}, CallInv', Calls
  PROVE  IInv'
<1>1. TypeInv /\ QueueInv /\ CursorInv /\ LifeInv /\ OrderInv /\ UsedInv /\ FreshInv
  BY DEF IInv
<1>2. TypeInv' /\ LifeInv' BY <1>1, TypeCalls, LifeCalls
<1>3. QueueInv' /\ CursorInv' /\ OrderInv' /\ UsedInv' BY <1>1, CallsKeepBuffers
<1>4. FreshInv' BY <1>1, CallsFresh
<1> QED BY <1>2, <1>3, <1>4, CallsKeepThreads DEF IInv

-----------------------------------------------------------------------------
(* Steps of blocking calls.                                                *)

LEMMA TransferAmount ==
  ASSUME TypeInv, CursorInv, UsedInv, CallInv, config.blocking, NEW d \in Direction
  PROVE  /\ Min({left, HostFrames(d)}) \in Nat
         /\ Min({left, HostFrames(d)}) <= left
         /\ used[d] + Min({left, HostFrames(d)}) <= FramesPerBuffer(d)
         /\ FramesPerBuffer(d) = Chunks(d) /\ Chunks(d) \in Nat /\ used[d] \in Nat
<1> DEFINE S == {left, HostFrames(d)}
           k == IF left <= HostFrames(d) THEN left ELSE HostFrames(d)
<1>1. used[d] \in Nat /\ Chunks(d) \in Nat \ {0} /\ used[d] < Chunks(d)
  BY ConfigType DEF CursorInv, TypeInv, UsedInv
<1>2. HostFrames(d) \in Nat /\ left \in Nat BY <1>1 DEF HostFrames, FramesPerBuffer, CallInv
<1>3. k \in S /\ \A x \in S : k <= x BY <1>2
<1>4. \E x \in S : \A y \in S : x <= y BY <1>3
<1>5. Min(S) \in S /\ \A x \in S : Min(S) <= x BY <1>4 DEF Min
<1> QED BY <1>1, <1>2, <1>5 DEF HostFrames, FramesPerBuffer

\* A round of ReadStream or WriteStream takes no more frames than the current
\* buffer has, and gives it to the driver when they are its last.
LEMMA TransferBuffers ==
  ASSUME TypeInv, CursorInv, UsedInv, CallInv, config.blocking,
         NEW d \in Direction, Transfers(d)
  PROVE  \/ UNCHANGED <<cur, used, queue, whdrDone>>
         \/ /\ UNCHANGED <<cur, queue, whdrDone>>
            /\ BuffersAreDone(d, cur[d])
            /\ \E n \in Nat : used' = [used EXCEPT ![d] = @ + n] /\ used[d] + n < Chunks(d)
         \/ \E ok \in BOOLEAN : BuffersAreDone(d, cur[d]) /\ AdvanceToNextBuffer(d, ok)
<1> USE DEF buffers, driver, CallInv
<1>1. CASE \E n \in 1..MaxTransfer : BeginTransfer(d, n) BY <1>1 DEF BeginTransfer
<1>2. CASE TransferWait(d) \/ TransferTimeout(d) BY <1>2 DEF TransferWait, TransferTimeout
<1>3. CASE Transfer(d)
  <2> DEFINE m == Min({left, HostFrames(d)})
  <2>4. m \in Nat /\ used[d] + m <= Chunks(d) /\ FramesPerBuffer(d) = Chunks(d)
        /\ Chunks(d) \in Nat /\ used[d] \in Nat
    BY TransferAmount
  <2>5. BuffersAreDone(d, cur[d]) BY <1>3 DEF Transfer
  <2>6. CASE used[d] + m = FramesPerBuffer(d) BY <1>3, <2>5, <2>6 DEF Transfer
  <2>7. CASE used[d] + m # FramesPerBuffer(d)
    <3>1. used' = [used EXCEPT ![d] = @ + m] /\ UNCHANGED <<cur, queue, whdrDone>>
      BY <1>3, <2>7 DEF Transfer
    <3>2. used[d] + m < Chunks(d) BY <2>4, <2>7
    <3> QED BY <2>4, <2>5, <3>1, <3>2
  <2> QED BY <2>6, <2>7
<1> QED BY <1>1, <1>2, <1>3 DEF Transfers

LEMMA CallStep ==
  ASSUME IInv, StreamNext
  PROVE  CallInv'
<1>1. TypeInv /\ CursorInv /\ LifeInv /\ UsedInv /\ CallInv /\ MaxTransfer \in Nat
  BY BlockingAssumption DEF IInv, BlockingAssumption
<1>2. config' = config /\ \A d \in Direction : Uses(d)' = Uses(d)
  <2> SUFFICES config' = config BY DEF Uses, BufferCount
  <2>1. CASE \E t \in Threads : ThreadStep(t) BY <1>1, <2>1, ThreadFrame
  <2>2. CASE \E d \in Direction : DriverDone(d) BY <2>2 DEF DriverDone, shared
  <2>3. CASE Calls
    BY <2>3
    DEF Calls, StartStream, StartInput, StartOutput, StartFlags, StartThread, StartDevices,
        StopStream, StopFlush, StopDrain, StopDrainWait, StopWait, StopWaitAgain, StopReset,
        StopDone, AbortStream, AbortReset, AbortWait, CloseStream, shared
  <2>4. CASE config.blocking /\ \E d \in Direction : Transfers(d)
    BY <1>1, <2>4, TransferFrame DEF shared
  <2> QED BY <2>1, <2>2, <2>3, <2>4, StepCases
<1>3. left' \in Nat
  <2>1. CASE ~config.blocking BY <1>1, <2>1 DEF StreamNext, CallInv, request
  <2>2. CASE config.blocking /\ BlockingNext
    <3>1. ASSUME NEW d \in Direction, Transfers(d) PROVE left' \in Nat
      <4>1. CASE \E n \in 1..MaxTransfer : BeginTransfer(d, n) BY <1>1, <4>1 DEF BeginTransfer
      <4>2. CASE TransferWait(d) \/ TransferTimeout(d)
        BY <1>1, <4>2 DEF TransferWait, TransferTimeout, CallInv, request
      <4>3. CASE Transfer(d)
        <5>1. left' = left - Min({left, HostFrames(d)}) BY <4>3 DEF Transfer
        <5>2. /\ Min({left, HostFrames(d)}) \in Nat /\ Min({left, HostFrames(d)}) <= left
              /\ left \in Nat
          BY <1>1, <2>2, TransferAmount DEF CallInv
        <5> QED BY <5>1, <5>2
      <4> QED BY <3>1, <4>1, <4>2, <4>3 DEF Transfers
    <3>2. CASE UNCHANGED request BY <1>1, <3>2 DEF CallInv, request
    <3> QED
      BY <2>2, <3>1, <3>2
      DEF BlockingNext, DriverTransfers, BlockingStart, OtherSteps, BlockingCall, Transfers,
          BlockingStartOutput, BlockingStopFlush
  <2> QED BY <2>1, <2>2 DEF StreamNext
<1>4. ASSUME NEW d \in Direction, app' \in {CallOf(d), WaitOf(d)} PROVE Uses(d)
  <2> USE DEF CallOf, WaitOf, Direction
  <2>1. CASE app' = app BY <1>1, <1>4, <2>1 DEF CallInv
  <2>2. CASE Calls
    BY <1>4, <2>2
    DEF Calls, StartStream, StartInput, StartOutput, StartFlags, StartThread, StartDevices,
        StopStream, StopFlush, StopDrain, StopDrainWait, StopWait, StopWaitAgain, StopReset,
        StopDone, AbortStream, AbortReset, AbortWait, CloseStream
  <2>3. ASSUME NEW e \in Direction, config.blocking, Transfers(e) PROVE Uses(d)
    <3>1. CASE \E n \in 1..MaxTransfer : BeginTransfer(e, n) BY <1>4, <3>1 DEF BeginTransfer
    <3>2. app' \in {"idle", CallOf(e), WaitOf(e)} BY <1>1, <2>3, TransferFrame
    <3>3. d = e BY <1>4, <3>2
    <3>4. CASE Transfer(e) \/ TransferWait(e) \/ TransferTimeout(e)
      BY <1>1, <3>3, <3>4 DEF CallInv, Transfer, TransferWait, TransferTimeout
    <3> QED BY <2>3, <3>1, <3>4 DEF Transfers
  <2>4. CASE \E t \in Threads : ThreadStep(t) BY <1>1, <2>1, <2>4, ThreadFrame DEF call
  <2>5. CASE \E e \in Direction : DriverDone(e) BY <2>1, <2>5 DEF DriverDone, call
  <2> QED BY <2>2, <2>3, <2>4, <2>5, StepCases
<1> QED BY <1>2, <1>3, <1>4 DEF CallInv, CallOf, WaitOf

LEMMA TransferInv ==
  ASSUME IInv, CallInv', config.blocking, NEW d \in Direction, Transfers(d)
  PROVE  IInv'
<1>1. /\ TypeInv /\ QueueInv /\ CursorInv /\ LifeInv /\ OrderInv /\ UsedInv /\ FreshInv
      /\ CallInv /\ orphans = {}
  BY DEF IInv
<1>2. /\ UNCHANGED <<config, isStopped, isActive, tpc, done>> /\ ~isStopped
      /\ app' \in {"idle", CallOf(d), WaitOf(d)}
  BY <1>1, TransferFrame DEF shared, thread
<1>0. orphans' = {} BY <1>1, TransferFrame
<1>3. TypeInv' /\ LifeInv' BY <1>1, TypeTransfers, LifeTransfers
<1>4. FreshInv' BY <1>1, <1>2 DEF FreshInv, CallOf, WaitOf
<1>5. \A t \in Threads : ~Alive(t)' BY <1>1, <1>2 DEF LifeInv, Alive
<1>6. \A e \in Direction : /\ Buffer(e)' = Buffer(e) /\ BufferCount(e)' = BufferCount(e)
                           /\ Chunks(e)' = Chunks(e) /\ Uses(e)' = Uses(e)
                           /\ Chunks(e) \in Nat \ {0}
  BY <1>1, <1>2, ConfigType DEF Buffer, BufferCount, Chunks, Uses, TypeInv
<1>7. MayFail' = MayFail /\ (MayFail \/ \A e \in Direction : InOrder(e))
  BY <1>1, <1>2 DEF OrderInv, MayFail
<1>8. SUFFICES /\ QueueInv' /\ CursorInv' /\ (MayFail \/ \A e \in Direction : InOrder(e)')
               /\ \A e \in Direction : used'[e] < Chunks(e)
               /\ \A e \in Direction : used'[e] > 0 => whdrDone'[e][cur'[e]]
  <2>1. OrderInv' BY <1>2, <1>7, <1>8 DEF OrderInv, CallOf, WaitOf
  <2>2. UsedInv' BY <1>2, <1>6, <1>8 DEF UsedInv, CallOf, WaitOf
  <2> QED BY <1>0, <1>3, <1>4, <1>5, <1>8, <2>1, <2>2 DEF IInv
<1>9. /\ \A e \in Direction : used[e] < Chunks(e)
      /\ \A e \in Direction : used[e] > 0 => whdrDone[e][cur[e]]
  BY <1>1, <1>2 DEF UsedInv
<1>10. ASSUME UNCHANGED <<cur, queue, whdrDone>>
       PROVE  QueueInv' /\ (MayFail \/ \A e \in Direction : InOrder(e)')
  <2>1. QueueInv' BY <1>1, <1>6, <1>10 DEF QueueInv, QueueOk
  <2>2. \A e \in Direction : InOrder(e)' = InOrder(e) BY <1>6, <1>10 DEF InOrder, Before
  <2> QED BY <1>7, <2>1, <2>2
<1>11. CASE UNCHANGED <<cur, used, queue, whdrDone>>
  <2>1. CursorInv' BY <1>1, <1>6, <1>11 DEF CursorInv
  <2> QED BY <1>9, <1>10, <1>11, <2>1
<1>12. Uses(d) \/ UNCHANGED <<cur, used, queue, whdrDone>>
    BY <1>1
    DEF Transfers, CallInv, BeginTransfer, Transfer, TransferWait, TransferTimeout,
        buffers, driver
<1>13. CASE /\ UNCHANGED <<cur, queue, whdrDone>> /\ Uses(d)
            /\ BuffersAreDone(d, cur[d])
            /\ \E n \in Nat : used' = [used EXCEPT ![d] = @ + n] /\ used[d] + n < Chunks(d)
  <2>1. PICK n \in Nat : used' = [used EXCEPT ![d] = @ + n] /\ used[d] + n < Chunks(d) BY <1>13
  <2>2. used \in [Direction -> Nat] BY <1>1 DEF CursorInv
  <2>3. /\ used' \in [Direction -> Nat] /\ used'[d] = used[d] + n
        /\ \A e \in Direction \ {d} : used'[e] = used[e]
    BY <2>1, <2>2
  <2>4. CursorInv' BY <1>1, <1>6, <1>13, <2>1, <2>2, <2>3 DEF CursorInv
  <2>5. \A e \in Direction : used'[e] < Chunks(e) BY <1>9, <2>1, <2>3
  <2>6. \A e \in Direction : used'[e] > 0 => whdrDone'[e][cur'[e]]
    BY <1>9, <1>13, <2>3 DEF BuffersAreDone
  <2> QED BY <1>10, <1>13, <2>4, <2>5, <2>6
<1>14. ASSUME NEW ok \in BOOLEAN, BuffersAreDone(d, cur[d]), AdvanceToNextBuffer(d, ok), Uses(d)
       PROVE  /\ QueueInv' /\ CursorInv' /\ (MayFail \/ \A e \in Direction : InOrder(e)')
              /\ \A e \in Direction : used'[e] < Chunks(e)
              /\ \A e \in Direction : used'[e] > 0 => whdrDone'[e][cur'[e]]
  <2>1. /\ QueueInv' /\ CursorInv'
        /\ \A e \in Direction \ {d} : UNCHANGED <<cur[e], used[e], queue[e], whdrDone[e]>>
        /\ used'[d] = 0
        /\ ok \/ MayFail \/ InQueue(d, cur[d])
    BY <1>1, <1>2, <1>14, AdvanceEffect
  <2>2. ~InQueue(d, cur[d]) BY <1>1, <1>14, QueueFacts, AfterFacts DEF BuffersAreDone
  <2>3. ASSUME ~MayFail, NEW e \in Direction PROVE InOrder(e)'
    <3>1. CASE e = d
      <4>1. ok /\ InOrder(d) BY <1>7, <2>1, <2>2, <2>3
      <4> QED BY <1>1, <1>2, <1>14, <3>1, <4>1, AdvanceKeepsOrder
    <3>2. CASE e # d BY <1>6, <1>7, <2>1, <2>3, <3>2 DEF InOrder, Before
    <3> QED BY <3>1, <3>2
  <2>4. \A e \in Direction : used'[e] < Chunks(e) BY <1>6, <1>9, <2>1
  <2>5. \A e \in Direction : used'[e] > 0 => whdrDone'[e][cur'[e]] BY <1>9, <2>1
  <2> QED BY <2>1, <2>3, <2>4, <2>5
<1> QED BY <1>1, <1>11, <1>12, <1>13, <1>14, TransferBuffers

-----------------------------------------------------------------------------
(* The invariant.                                                          *)

LEMMA StutterInv == IInv /\ UNCHANGED allVars => IInv'
<1> SUFFICES ASSUME IInv, UNCHANGED allVars PROVE IInv' OBVIOUS
<1> USE DEF allVars, vars, shared, buffers, driver, call, thread, request, frames
<1>1. \A d \in Direction : /\ BufferCount(d)' = BufferCount(d) /\ Uses(d)' = Uses(d)
                           /\ Chunks(d)' = Chunks(d) /\ Buffer(d)' = Buffer(d)
                           /\ HasHostBuffer(d)' = HasHostBuffer(d)
  BY DEF BufferCount, Uses, Chunks, Buffer, HasHostBuffer
<1>2. MayFail' = MayFail BY DEF MayFail
<1>3. TypeInv' BY <1>1 DEF IInv, TypeInv, BufferCount
<1>4. QueueInv' /\ CursorInv' /\ (\A d \in Direction : InOrder(d)' = InOrder(d))
  BY SameBuffers DEF IInv
<1>5. LifeInv' BY <1>2 DEF IInv, LifeInv, Alive, UnbornThreads
<1>6. OrderInv' /\ UsedInv' BY <1>1, <1>2, <1>4 DEF IInv, OrderInv, UsedInv, Direction
<1>7. FreshInv' /\ CallInv' /\ orphans' = {} BY <1>1 DEF IInv, FreshInv, CallInv, CallOf, WaitOf
<1>8. ASSUME NEW t \in Threads, Alive(t)' PROVE HostInv(t)' /\ RoomInv(t)' /\ FinishInv(t)'
  BY <1>8, OthersKeepThread DEF IInv, Alive
<1> QED BY <1>3, <1>4, <1>5, <1>6, <1>7, <1>8 DEF IInv

LEMMA StepInv ==
  ASSUME IInv, orphans' = {}, [StreamNext]_allVars
  PROVE  IInv'
<1>1. CASE StreamNext
  <2>1. CallInv' BY <1>1, CallStep
  <2> QED BY <1>1, <2>1, StepCases, ThreadInv, DriverInv, CallsInv, TransferInv
<1>2. CASE UNCHANGED allVars BY <1>2, StutterInv
<1> QED BY <1>1, <1>2

\* A thread that was given up stays so.
LEMMA OrphansGrow ==
  ASSUME BaseInv, [StreamNext]_allVars
  PROVE  orphans \subseteq orphans'
<1>1. TypeInv /\ LifeInv BY DEF BaseInv
<1>2. CASE UNCHANGED allVars BY <1>2 DEF allVars, vars, call
<1>3. CASE \E t \in Threads : ThreadStep(t) BY <1>1, <1>3, ThreadFrame DEF call
<1>4. CASE \E d \in Direction : DriverDone(d) BY <1>4 DEF DriverDone, call
<1>5. CASE Calls
  BY <1>5
  DEF Calls, StartStream, StartInput, StartOutput, StartFlags, StartThread, StartDevices,
      StopStream, StopFlush, StopDrain, StopDrainWait, StopWait, StopWaitAgain, StopReset,
      StopDone, AbortStream, AbortReset, AbortWait, CloseStream, local
<1>6. CASE config.blocking /\ \E d \in Direction : Transfers(d)
  BY <1>1, <1>6, TransferFrame
<1> QED BY <1>2, <1>3, <1>4, <1>5, <1>6, StepCases

\* The part that needs nothing of the buffers.
LEMMA BaseStep ==
  ASSUME BaseInv, [StreamNext]_allVars
  PROVE  BaseInv'
<1>1. TypeInv /\ LifeInv BY DEF BaseInv
<1>2. ASSUME UNCHANGED <<config, processingThread, orphans>>, UNCHANGED tpc, TypeInv', LifeInv',
             covered' => config.blocking
      PROVE  BaseInv'
  BY <1>2 DEF BaseInv, Uses, BufferCount
<1>3. CASE UNCHANGED allVars
  <2> USE DEF allVars, vars, shared, buffers, driver, call, thread, request, frames
  <2>1. TypeInv' BY <1>1, <1>3 DEF TypeInv, BufferCount
  <2>2. LifeInv' BY <1>1, <1>3 DEF LifeInv, Alive, UnbornThreads, MayFail
  <2> QED BY <1>2, <1>3, <2>1, <2>2 DEF BaseInv
<1>4. CASE StreamNext
  <2>0. covered' => config.blocking BY <1>4 DEF StreamNext, request, BaseInv
  <2>1. CASE ~config.blocking /\ \E t \in Threads : ThreadStep(t)
    <3>1. PICK t \in Threads : ThreadStep(t) BY <2>1
    <3>2. tpc[t] = "write" => Uses("out") BY DEF BaseInv
    <3>3. TypeInv' /\ LifeInv' BY <1>1, <3>1, <3>2, ThreadKeepsTypes, LifeThread
    <3>4. UNCHANGED <<config, processingThread, orphans>>
      BY <1>1, <3>1, ThreadFrame DEF call
    <3>5. \A u \in Threads \ {t} : tpc'[u] = tpc[u] BY <1>1, <3>1, ThreadFrame
    <3>6. tpc'[t] = "write" => Uses("out")
      <4> USE DEF TypeInv, Goto, LoopEnd, BeginCatchUp
      <4>1. CASE ThreadPollIn(t) \/ ThreadPollOut(t)
        BY <1>1, <4>1 DEF ThreadPollIn, ThreadPollOut, Poll
      <4>2. CASE ThreadCatchUpIn(t) \/ ThreadCatchUpOut(t)
        BY <1>1, <3>2, <4>2 DEF ThreadCatchUpIn, ThreadCatchUpOut, CatchUp
      <4>3. CASE ThreadOutput(t) BY <1>1, <4>3 DEF ThreadOutput
      <4>4. CASE ThreadInput(t) \/ ThreadWrite(t) BY <1>1, <4>4 DEF ThreadInput, ThreadWrite
      <4> QED
        BY <1>1, <3>1, <4>1, <4>2, <4>3, <4>4
        DEF ThreadStep, ThreadWait, ThreadCheck, ThreadProcess, ThreadNoBuffers,
            ThreadAdvanceInput, ThreadAgain, ThreadExit, ThreadFinished
    <3> QED BY <2>0, <3>3, <3>4, <3>5, <3>6 DEF BaseInv, Uses, BufferCount
  <2>2. CASE \E d \in Direction : DriverDone(d)
    <3>1. TypeInv' /\ LifeInv' BY <1>1, <2>2, TypeDriver, LifeDriver
    <3> QED BY <1>2, <2>0, <2>2, <3>1 DEF DriverDone, shared, call, thread
  <2>3. CASE Calls
    <3>1. TypeInv' /\ LifeInv' BY <1>1, <2>3, TypeCalls, LifeCalls
    <3>2. config' = config
      BY <2>3
      DEF Calls, StartStream, StartInput, StartOutput, StartFlags, StartThread, StartDevices,
          StopStream, StopFlush, StopDrain, StopDrainWait, StopWait, StopWaitAgain, StopReset,
          StopDone, AbortStream, AbortReset, AbortWait, CloseStream, shared
    <3>3. \A t \in Threads : tpc'[t] = "write" => tpc[t] = "write"
      <4>1. CASE StartThread
        <5>1. FirstUnborn \in Threads
          BY <1>1, <4>1, FirstUnbornExists DEF StartThread, LifeInv, Starting
        <5>2. tpc' = tpc \/ tpc' = [tpc EXCEPT ![FirstUnborn] = "wait"]
          BY <4>1 DEF StartThread, FirstUnborn
        <5> QED BY <1>1, <5>1, <5>2 DEF TypeInv
      <4> QED
        BY <2>3, <4>1
        DEF Calls, StartStream, StartInput, StartOutput, StartFlags, StartDevices,
            StopStream, StopFlush, StopDrain, StopDrainWait, StopWait, StopWaitAgain, StopReset,
            StopDone, AbortStream, AbortReset, AbortWait, CloseStream, local, thread
    <3>4. config.blocking => UNCHANGED <<processingThread, orphans>>
      BY <1>1, <2>3
      DEF BaseInv, LifeInv, Starting, Calls, StartStream, StartInput, StartOutput, StartFlags,
          StartThread, StartDevices, StopStream, StopFlush, StopDrain, StopDrainWait, StopWait,
          StopWaitAgain, StopReset, StopDone, AbortStream, AbortReset, AbortWait, CloseStream,
          local, shared
    <3> QED BY <2>0, <3>1, <3>2, <3>3, <3>4 DEF BaseInv, Uses, BufferCount
  <2>4. CASE config.blocking /\ \E d \in Direction : Transfers(d)
    <3>1. TypeInv' /\ LifeInv' BY <1>1, <2>4, TypeTransfers, LifeTransfers
    <3>2. UNCHANGED <<config, processingThread, orphans, tpc>>
      BY <1>1, <2>4, TransferFrame DEF shared, thread
    <3> QED BY <1>2, <2>0, <3>1, <3>2
  <2> QED BY <1>4, <2>1, <2>2, <2>3, <2>4, StepCases
<1> QED BY <1>3, <1>4

THEOREM Invariant == StreamSpec => [](BaseInv /\ (orphans = {} => IInv))
<1>1. BlockingInit => BaseInv /\ (orphans = {} => IInv) BY InitInv, InitBase
<1>2. BaseInv /\ (orphans = {} => IInv) /\ [StreamNext]_allVars
        => (BaseInv /\ (orphans = {} => IInv))'
  <2> SUFFICES ASSUME BaseInv, orphans = {} => IInv, [StreamNext]_allVars
               PROVE  BaseInv' /\ (orphans' = {} => IInv')
    OBVIOUS
  <2>1. orphans' = {} => orphans = {} BY OrphansGrow
  <2> QED BY <2>1, BaseStep, StepInv
<1> QED BY <1>1, <1>2, PTL DEF StreamSpec

-----------------------------------------------------------------------------
(* What it says of streams.                                                *)

LEMMA QueueLength ==
  ASSUME TypeInv, QueueInv, NEW d \in Direction
  PROVE  Len(queue[d]) <= BufferCount(d)
<1> DEFINE q == queue[d]
           n == BufferCount(d)
<1>1. n \in Nat /\ q \in Seq(Buffer(d)) /\ Len(q) \in Nat /\ q \in [1..Len(q) -> Buffer(d)]
  BY ConfigType DEF TypeInv, QueueInv, QueueOk
<1>2. \A i, j \in 1..Len(q) : q[i] = q[j] => i = j BY DEF QueueInv, QueueOk
<1>3. IsFiniteSet(1..Len(q)) /\ Cardinality(1..Len(q)) = Len(q)
  <2> DEFINE m == Len(q)
  <2>1. m \in Nat BY <1>1
  <2> HIDE DEF q, m
  <2>2. /\ IsFiniteSet(1..m)
        /\ Cardinality(1..m) = IF 1 > m THEN 0 ELSE m - 1 + 1
    <3>1. 1 \in Int /\ m \in Int BY <2>1
    <3> QED BY <3>1, FS_Interval
  <2>3. Cardinality(1..m) = m BY <2>1, <2>2
  <2> QED BY <2>2, <2>3 DEF m
<1>4. IsFiniteSet(0..n-1) /\ Cardinality(0..n-1) = n
  <2>1. n \in Nat BY <1>1
  <2> HIDE DEF n
  <2>2. /\ IsFiniteSet(0..n-1)
        /\ Cardinality(0..n-1) = IF 0 > n - 1 THEN 0 ELSE (n - 1) - 0 + 1
    <3>1. 0 \in Int /\ n - 1 \in Int BY <2>1
    <3> QED BY <3>1, FS_Interval
  <2>3. Cardinality(0..n-1) = n BY <2>1, <2>2
  <2> QED BY <2>2, <2>3
<1>5. SUFFICES ASSUME ~(Len(q) <= n) PROVE FALSE OBVIOUS
<1>6. Cardinality(0..n-1) < Cardinality(1..Len(q)) BY <1>1, <1>3, <1>4, <1>5
<1>7. \E i, j \in 1..Len(q) : i # j /\ q[i] = q[j]
  <2>1. q \in [1..Len(q) -> 0..n-1] BY <1>1 DEF Buffer
  <2> HIDE DEF q, n
  <2> QED BY <1>3, <1>4, <1>6, <2>1, FS_PigeonHole
<1> QED BY <1>2, <1>7

LEMMA InOrderMeansRing ==
  ASSUME TypeInv, QueueInv, CursorInv, NEW d \in Direction, InOrder(d),
         NEW i \in 1..Len(queue[d])
  PROVE  queue[d][i] = (cur[d] - Len(queue[d]) + i - 1) % BufferCount(d)
<1> DEFINE n == BufferCount(d)
           m == Len(queue[d])
           b == cur[d]
           k == m + 1 - i
<1>1. n \in Nat /\ m \in Nat /\ m <= n BY ConfigType, QueueLength, QueueFacts DEF TypeInv
<1>2. b \in Nat /\ (b = 0 \/ b < n) BY DEF CursorInv
<1>3. n \in Nat \ {0} /\ k \in 1..n /\ b \in 0..n-1 BY <1>1, <1>2
<1>4. queue[d][i] = PreviousTo(b, k, n) BY DEF InOrder, Before
<1>5. b - m + i - 1 = b - k BY <1>1, <1>2
<1>6. (b - k) % n = IF b - k < 0 THEN b - k + n ELSE b - k
  <2>1. b - k \in Int /\ -n <= b - k /\ b - k < n BY <1>3
  <2> HIDE DEF b, k, n
  <2> QED BY <1>3, <2>1, ModSmall
<1>7. PreviousTo(b, k, n) = IF b - k < 0 THEN b - k + n ELSE b - k BY <1>3 DEF PreviousTo
<1> QED BY <1>4, <1>5, <1>6, <1>7

LEMMA InvTypeOK == IInv => TypeOK
<1> SUFFICES ASSUME IInv PROVE TypeOK OBVIOUS
<1>1. TypeInv /\ QueueInv /\ CursorInv /\ orphans = {} BY DEF IInv
<1>2. ASSUME NEW d \in Direction
      PROVE  /\ cur[d] = 0 \/ cur[d] \in Buffer(d)
             /\ used[d] \in 0..Chunks(d)
             /\ queue[d] \in Seq(Buffer(d)) /\ Len(queue[d]) <= BufferCount(d)
             /\ whdrDone[d] \in [Buffer(d) -> BOOLEAN]
  <2>1. BufferCount(d) \in Nat /\ Chunks(d) \in Nat BY <1>1, ConfigType DEF TypeInv
  <2>2. cur[d] \in Nat /\ used[d] \in Nat BY <1>1 DEF CursorInv
  <2>3. cur[d] = 0 \/ cur[d] \in Buffer(d) BY <1>1, <2>1, <2>2 DEF CursorInv, Buffer
  <2>4. used[d] \in 0..Chunks(d) BY <1>1, <2>1, <2>2 DEF CursorInv
  <2> QED BY <1>1, <2>3, <2>4, QueueLength DEF QueueInv, QueueOk
<1>3. {open, isStopped, isActive, stopProcessing, abortProcessing, closing,
       waitTimedOut} \subseteq BOOLEAN
  BY <1>1 DEF TypeInv
<1> QED BY <1>1, <1>2, <1>3 DEF TypeInv, TypeOK, Labels

\* However a stream is started, stopped, aborted and closed, and whatever fails,
\* one processing thread at a time works on it, and none on a stream that is
\* stopped or freed, but for threads for which both waits of Pa_StopStream timed
\* out.
THEOREM StreamLife == StreamSpec => []OneThreadPerStream
<1>1. BaseInv => OneThreadPerStream
  BY DEF BaseInv, LifeInv, OneThreadPerStream, NoThreadWhenStopped, NoThreadWhenClosed,
     OneProcessingThread
<1> QED BY <1>1, Invariant, PTL

\* The variables have their types, the callback works only on buffers the
\* drivers do not have, and the buffers they have are queued in ring order, as
\* long as Pa_StopStream gave no thread up.
THEOREM StreamBuffers == StreamSpec => []BuffersGoRound
<1>1. ASSUME orphans = {} => IInv PROVE BuffersGoRound
  <2> SUFFICES ASSUME IInv PROVE TypeOK /\ CallbackOwnsBuffers /\ RingOrder
    BY <1>1 DEF BuffersGoRound
  <2>1. TypeInv /\ QueueInv /\ CursorInv /\ OrderInv BY DEF IInv
  <2>2. TypeOK BY InvTypeOK
  <2>3. CallbackOwnsBuffers
    <3> SUFFICES ASSUME NEW t \in Threads, tpc[t] = "process", HasBuffers(t),
                        NEW d \in Direction, Uses(d)
                 PROVE  ~InQueue(d, cur[d]) /\ whdrDone[d][cur[d]]
      BY DEF CallbackOwnsBuffers
    <3>1. \A e \in host[t] : HasHostBuffer(e) BY DEF IInv, HostInv, Alive
    <3>2. host[t] \subseteq Direction BY <2>1 DEF TypeInv
    <3>3. HasHostBuffer(d) BY <3>1, <3>2 DEF HasBuffers, IsFullDuplex, HasHostBuffer, Direction
    <3> QED BY <2>1, <3>3, QueueFacts, AfterFacts DEF HasHostBuffer
  <2>4. RingOrder BY <2>1, InOrderMeansRing DEF RingOrder, OrderInv
  <2> QED BY <2>2, <2>3, <2>4
<1> QED BY <1>1, Invariant, PTL

\* An inactive stream's thread is past its last access of a buffer, and has
\* played every full buffer unless it was aborted or a driver failed, as long as
\* Pa_StopStream gave no thread up.
THEOREM StreamFinish == StreamSpec => []FinishedMeansPlayed
<1>1. (orphans = {} => IInv) => FinishedMeansPlayed
  BY
  DEF IInv, FinishInv, FinishedMeansPlayed, InactiveMeansFinished, FinishedAfterPlayed,
      Alive
<1> QED BY <1>1, Invariant, PTL

-----------------------------------------------------------------------------
(* The frames of blocking streams.                                         *)

\* Between the start of a direction and its reset.
Streaming(d) ==
  \/ ~isStopped /\ app \notin {"stopDone", "abortWait"}
  \/ app = "startFlags"
  \/ app = "startOut" /\ d = "in"

\* The buffers the application may work on, the current one first.
Ready(d) == BufferCount(d) - Len(queue[d])

ContentInv ==
  /\ DOMAIN content = Direction
  /\ \A d \in Direction : content[d] \in [Buffer(d) -> [1..Chunks(d) -> Nat]]

\* What was captured is what was read and what the buffers hold from there on.
InputData ==
  /\ captured + used["in"] = Len(read) + Ready("in") * Chunks("in")
  /\ \A k \in 0..Ready("in")-1 :
       content["in"][After("in", k)] =
         CountedFrom(Len(read) - used["in"] + k * Chunks("in"), Chunks("in"))

ReadInv ==
  /\ captured \in Nat /\ Len(read) \in Nat /\ Len(read) <= captured
  /\ read = CountedFrom(0, Len(read))

\* The p-th frame the output device is going to play: StartStream queues
\* silence in all buffers, and a flush fills up with silence.
Lead == BufferCount("out") * Chunks("out")
Frame(p, lead, n) == IF lead < p /\ p <= lead + n THEN p - lead ELSE 0

PlayedInv ==
  /\ written \in Nat /\ played \in Seq(Nat)
  /\ \A p \in 1..Len(played) : played[p] = Frame(p, Lead, written)

\* The frames given to the device, and those after them in the current buffer.
Given == Len(played) + Len(queue["out"]) * Chunks("out")
Draining == {"stopDrain", "stopDrainWait", "stopReset"}

OutputData ==
  /\ \A i \in 1..Len(queue["out"]), j \in 1..Chunks("out") :
       content["out"][queue["out"][i]][j] =
         Frame(Len(played) + (i - 1) * Chunks("out") + j, Lead, written)
  /\ \A j \in 1..used["out"] : content["out"][cur["out"]][j] = Frame(Given + j, Lead, written)

WrittenInv ==
  IF app \in Draining THEN used["out"] = 0 /\ Given >= Lead + written
                      ELSE Given + used["out"] = Lead + written

StartedInv ==
  /\ app = "startIn" => captured = 0 /\ read = <<>>
  /\ app \in {"startIn", "startOut"} => written = 0 /\ played = <<>>

\* Every wait that did not time out took an event, and but for one that was left
\* over an event means that a buffer was played.
DrainInv ==
  ~waitTimedOut =>
    /\ app \in {"stopDrain", "stopDrainWait"} =>
         Len(queue["out"]) + waitCount + (IF event["out"] THEN 1 ELSE 0)
           <= BufferCount("out") + 1
    /\ app = "stopReset" /\ Uses("out") => queue["out"] = <<>>

DataInv ==
  /\ ContentInv /\ ReadInv /\ PlayedInv /\ StartedInv /\ DrainInv
  /\ IF Streaming("in") THEN InputData ELSE queue["in"] = <<>>
  /\ IF Streaming("out") THEN OutputData /\ WrittenInv ELSE queue["out"] = <<>>

\* What the call of ReadStream or WriteStream asked for is there: it ends in one
\* of the first c buffers, which are done.
Covers(d, c) ==
  /\ left + used[d] <= c * Chunks(d)
  /\ \A i \in 0..c-1 : whdrDone[d][After(d, i)]
CoverInv ==
  covered =>
    \E d \in Direction :
      /\ config.blocking /\ app = CallOf(d)
      /\ \E c \in 1..BufferCount(d) : Covers(d, c)

TransferData ==
  /\ CoverInv
  /\ config.blocking => processingThread = NoThread
  /\ config.blocking /\ ~MayFail => DataInv

-----------------------------------------------------------------------------
(* Frames that are counted, and positions in the buffers.                  *)

LEMMA Times ==
  ASSUME NEW k \in Int, NEW m \in Int
  PROVE  /\ k * m \in Int /\ (k + 1) * m = k * m + m /\ (k - 1) * m = k * m - m
         /\ 0 * m = 0 /\ 1 * m = m
         /\ k >= 0 /\ m >= 0 => k * m >= 0
         /\ k >= 1 /\ m >= 0 => k * m >= m
<1>1. k >= 1 /\ m >= 0 => k * m >= m
  <2> SUFFICES ASSUME k >= 1, m >= 0 PROVE k * m >= m OBVIOUS
  <2>1. (k - 1) * m >= 0 BY SMT
  <2>2. (k - 1) * m = k * m - m BY SMT
  <2> QED BY <2>1, <2>2, SMT
<1> QED BY <1>1, SMT

LEMMA CountedFacts ==
  ASSUME NEW a \in Int, NEW n \in Nat
  PROVE  /\ CountedFrom(a, n) \in Seq(Int) /\ Len(CountedFrom(a, n)) = n
         /\ \A i \in 1..n : CountedFrom(a, n)[i] = a + i
  BY DEF CountedFrom

LEMMA CountedPart ==
  ASSUME NEW a \in Int, NEW n \in Nat, NEW u \in Nat, NEW m \in Nat, u + m <= n
  PROVE  SubSeq(CountedFrom(a, n), u + 1, u + m) = CountedFrom(a + u, m)
<1> DEFINE s == CountedFrom(a, n)
           r == SubSeq(s, u + 1, u + m)
<1>1. s \in Seq(Int) /\ Len(s) = n /\ \A i \in 1..n : s[i] = a + i BY CountedFacts
<1> HIDE DEF s
<1>2. r \in Seq(Int) /\ Len(r) = m /\ \A i \in 1..m : r[i] = s[u + i] BY <1>1
<1>3. \A i \in 1..m : r[i] = a + u + i BY <1>1, <1>2
<1> HIDE DEF r
<1>4. r = [i \in 1..m |-> a + u + i] BY <1>2, <1>3
<1> QED BY <1>4 DEF CountedFrom, r, s

LEMMA CountedJoin ==
  ASSUME NEW a \in Int, NEW n \in Nat, NEW m \in Nat
  PROVE  CountedFrom(a, n) \o CountedFrom(a + n, m) = CountedFrom(a, n + m)
<1> DEFINE s == CountedFrom(a, n)
           t == CountedFrom(a + n, m)
           r == s \o t
<1>1. s \in Seq(Int) /\ Len(s) = n /\ \A i \in 1..n : s[i] = a + i BY CountedFacts
<1>2. t \in Seq(Int) /\ Len(t) = m /\ \A i \in 1..m : t[i] = a + n + i
  <2>1. a + n \in Int OBVIOUS
  <2> QED BY <2>1, CountedFacts
<1> HIDE DEF s, t
<1>3. /\ r \in Seq(Int) /\ Len(r) = n + m
      /\ \A i \in 1..n+m : r[i] = IF i <= n THEN s[i] ELSE t[i - n]
  <2>0. s \in Seq(Int) /\ t \in Seq(Int) BY <1>1, <1>2
  <2>1. r \in Seq(Int) /\ Len(r) = Len(s) + Len(t) BY <2>0, SMTT(30)
  <2>2. \A i \in 1..Len(s) + Len(t) : r[i] = IF i <= Len(s) THEN s[i] ELSE t[i - Len(s)]
    BY <2>0, SMTT(30)
  <2> QED BY <1>1, <1>2, <2>1, <2>2
<1>4. ASSUME NEW i \in 1..n+m PROVE r[i] = a + i
  <2>1. CASE i <= n BY <1>1, <1>3, <2>1
  <2>2. CASE ~(i <= n)
    <3>1. i - n \in 1..m /\ r[i] = t[i - n] BY <1>3, <2>2
    <3> QED BY <1>2, <3>1
  <2> QED BY <2>1, <2>2
<1> HIDE DEF r
<1>5. r = [i \in 1..n+m |-> a + i] BY <1>3, <1>4
<1> QED BY <1>5 DEF CountedFrom, r, s, t

LEMMA DataTypes ==
  ASSUME IInv, NEW d \in Direction
  PROVE  /\ TypeInv /\ QueueInv /\ CursorInv /\ LifeInv /\ OrderInv /\ UsedInv /\ CallInv
         /\ BufferCount(d) \in Nat /\ Chunks(d) \in Nat \ {0}
         /\ queue[d] \in Seq(Buffer(d)) /\ Len(queue[d]) \in 0..BufferCount(d)
         /\ Ready(d) \in 0..BufferCount(d) /\ Ready(d) = BufferCount(d) - Len(queue[d])
         /\ cur[d] \in Nat /\ (cur[d] = 0 \/ cur[d] < BufferCount(d))
         /\ used[d] \in Nat /\ (config.blocking => used[d] < Chunks(d))
         /\ ~Uses(d) => used[d] = 0
<1>1. TypeInv /\ QueueInv /\ CursorInv /\ LifeInv /\ OrderInv /\ UsedInv /\ CallInv
  BY DEF IInv
<1>2. BufferCount(d) \in Nat /\ Chunks(d) \in Nat \ {0} BY <1>1, ConfigType DEF TypeInv
<1>3. queue[d] \in Seq(Buffer(d)) BY <1>1 DEF QueueInv, QueueOk
<1>4. Len(queue[d]) \in Nat /\ Len(queue[d]) <= BufferCount(d)
  BY <1>1, QueueFacts, QueueLength
<1>5. cur[d] \in Nat /\ (cur[d] = 0 \/ cur[d] < BufferCount(d)) BY <1>1 DEF CursorInv
<1>6. used[d] \in Nat /\ (config.blocking => used[d] < Chunks(d)) /\ (~Uses(d) => used[d] = 0)
  BY <1>1 DEF CursorInv, UsedInv
<1>7. Ready(d) \in 0..BufferCount(d) /\ Ready(d) = BufferCount(d) - Len(queue[d])
  BY <1>2, <1>4 DEF Ready
<1> QED BY <1>1, <1>2, <1>3, <1>4, <1>5, <1>6, <1>7

\* The buffers ahead are not those of the queue: they are all different.
LEMMA AfterDiffers ==
  ASSUME IInv, NEW d \in Direction,
         NEW i \in 0..BufferCount(d)-1, NEW j \in 0..BufferCount(d)-1, i # j
  PROVE  After(d, i) # After(d, j) /\ After(d, i) \in Buffer(d)
<1>1. /\ BufferCount(d) \in Nat /\ cur[d] \in Nat
      /\ cur[d] = 0 \/ cur[d] < BufferCount(d)
  BY DataTypes
<1> QED BY <1>1 DEF After, Buffer

\* In ring order, the oldest queued buffer comes after all that are ready.
LEMMA OldestIsNext ==
  ASSUME IInv, NEW d \in Direction, InOrder(d)
  PROVE  /\ queue[d] # <<>> =>
              /\ queue[d][1] = After(d, Ready(d)) /\ Ready(d) < BufferCount(d)
              /\ Head(queue[d]) = queue[d][1]
         /\ Uses(d) /\ ~InQueue(d, cur[d]) => Ready(d) >= 1
<1> DEFINE n == BufferCount(d)
           L == Len(queue[d])
<1>1. /\ n \in Nat /\ L \in 0..n /\ Ready(d) = n - L /\ queue[d] \in Seq(Buffer(d))
      /\ cur[d] \in Nat /\ (cur[d] = 0 \/ cur[d] < n)
  BY DataTypes
<1>2. ASSUME queue[d] # <<>>
      PROVE  /\ queue[d][1] = After(d, Ready(d)) /\ Ready(d) < n /\ Head(queue[d]) = queue[d][1]
  <2>1. L >= 1 /\ 1 \in 1..L /\ Head(queue[d]) = queue[d][1] BY <1>1, <1>2
  <2>2. queue[d][1] = Before(d, L + 1 - 1) BY <2>1 DEF InOrder
  <2>3. L + 1 - 1 = L /\ n - L < n BY <1>1, <2>1
  <2>4. Before(d, L) = After(d, n - L) BY <1>1, <2>1 DEF Before, PreviousTo, After
  <2> QED BY <1>1, <2>1, <2>2, <2>3, <2>4
<1>3. ASSUME Uses(d), ~InQueue(d, cur[d]) PROVE Ready(d) >= 1
  <2> SUFFICES ASSUME L = n PROVE FALSE BY <1>1
  <2>1. n >= 1 /\ 1 \in 1..L BY <1>1, <1>3 DEF Uses
  <2>2. queue[d][1] = Before(d, L + 1 - 1) BY <2>1 DEF InOrder
  <2>3. Before(d, n) = cur[d] BY <1>1, <2>1 DEF Before, PreviousTo
  <2>4. L + 1 - 1 = n BY <1>1
  <2>5. queue[d][1] = cur[d] BY <2>2, <2>3, <2>4
  <2> QED BY <1>3, <2>1, <2>5 DEF InQueue
<1> QED BY <1>2, <1>3

\* A direction that streams is in ring order.
LEMMA StreamingInOrder ==
  ASSUME IInv, ~MayFail, NEW d \in Direction, Streaming(d)
  PROVE  InOrder(d)
  BY DataTypes DEF Streaming, OrderInv

-----------------------------------------------------------------------------
(* What leaves the frames of a direction as they are.                      *)

LEMMA SameDirection ==
  ASSUME NEW d \in Direction, UNCHANGED <<config, cur[d], used[d], queue[d]>>
  PROVE  /\ BufferCount(d)' = BufferCount(d) /\ Chunks(d)' = Chunks(d) /\ Uses(d)' = Uses(d)
         /\ Ready(d)' = Ready(d) /\ Buffer(d)' = Buffer(d)
         /\ \A k : After(d, k)' = After(d, k)
  BY DEF BufferCount, Chunks, Uses, Ready, After, Buffer

LEMMA SameInput ==
  ASSUME UNCHANGED <<config, cur["in"], used["in"], queue["in"], content["in"], captured, read>>
  PROVE  (InputData => InputData') /\ (ReadInv => ReadInv')
<1>1. /\ Chunks("in")' = Chunks("in") /\ Ready("in")' = Ready("in")
      /\ \A k : After("in", k)' = After("in", k)
  BY SameDirection DEF Direction
<1> QED BY <1>1 DEF InputData, ReadInv

LEMMA SameOutput ==
  ASSUME UNCHANGED <<config, cur["out"], used["out"], queue["out"], content["out"],
                     written, played>>
  PROVE  /\ OutputData => OutputData'
         /\ PlayedInv => PlayedInv'
         /\ Given' = Given /\ Lead' = Lead
         /\ (app' \in Draining <=> app \in Draining) => (WrittenInv => WrittenInv')
<1>1. BufferCount("out")' = BufferCount("out") /\ Chunks("out")' = Chunks("out")
  BY SameDirection DEF Direction
<1>2. Lead' = Lead /\ Given' = Given BY <1>1 DEF Lead, Given
<1>4. OutputData => OutputData' BY <1>1, <1>2 DEF OutputData
<1>5. PlayedInv => PlayedInv' BY <1>2 DEF PlayedInv
<1>6. (app' \in Draining <=> app \in Draining) => (WrittenInv => WrittenInv')
  BY <1>2 DEF WrittenInv
<1> QED BY <1>2, <1>4, <1>5, <1>6

-----------------------------------------------------------------------------
(* The drivers.                                                            *)

\* A captured buffer goes on where the one before it ended.
LEMMA DataAfterCapture ==
  ASSUME IInv, config.blocking, ~MayFail, DataInv, DriverTransfers("in")
  PROVE  DataInv'
<1> DEFINE q == queue["in"]
           F == Chunks("in")
           r == Ready("in")
           b == After("in", r)
           new == CountedFrom(captured, F)
<1> USE DEF Direction, FramesPerBuffer
<1>1. /\ BufferCount("in") \in Nat /\ F \in Nat \ {0} /\ r \in 0..BufferCount("in")
      /\ Len(q) \in Nat /\ q \in Seq(Buffer("in")) /\ r = BufferCount("in") - Len(q)
      /\ used["in"] \in Nat /\ TypeInv /\ QueueInv /\ LifeInv
  BY DataTypes
<1>2. q # <<>> /\ Streaming("in") BY DEF DriverTransfers, DriverDone, DataInv
<1>3. InputData /\ ReadInv /\ ContentInv BY <1>2 DEF DataInv
<1>4. Head(q) = b /\ r < BufferCount("in") BY <1>2, StreamingInOrder, OldestIsNext
<1>5. /\ queue' = [queue EXCEPT !["in"] = Tail(q)]
      /\ event' = [event EXCEPT !["in"] = TRUE]
      /\ UNCHANGED <<config, cur, used, app, isStopped, waitCount, waitTimedOut, read,
                     written, played>>
      /\ captured' = captured + F
      /\ content' = [content EXCEPT !["in"][b] = new]
  BY <1>4 DEF DriverTransfers, DriverDone, shared, buffers, call
<1>6. /\ queue'["in"] = Tail(q) /\ Len(Tail(q)) = Len(q) - 1 /\ queue'["out"] = queue["out"]
  BY <1>1, <1>2, <1>5 DEF QueueInv
<1>7. /\ BufferCount("in")' = BufferCount("in") /\ Chunks("in")' = F
      /\ \A k : After("in", k)' = After("in", k)
      /\ \A d \in Direction : Buffer(d)' = Buffer(d) /\ Chunks(d)' = Chunks(d)
                              /\ Uses(d)' = Uses(d) /\ BufferCount(d)' = BufferCount(d)
  BY <1>5 DEF BufferCount, Chunks, After, Buffer, Uses
<1>8. Ready("in")' = r + 1 BY <1>1, <1>6, <1>7 DEF Ready
<1>9. b \in Buffer("in") /\ \A k \in 0..r-1 : After("in", k) # b
  BY <1>1, <1>4, AfterDiffers
<1>10. /\ content'["in"] = [content["in"] EXCEPT ![b] = new]
       /\ content'["out"] = content["out"] /\ DOMAIN content' = Direction
       /\ content["in"] \in [Buffer("in") -> [1..F -> Nat]]
       /\ content["out"] \in [Buffer("out") -> [1..Chunks("out") -> Nat]]
  BY <1>3, <1>5 DEF ContentInv
<1>11. captured \in Nat /\ Len(read) \in Nat /\ Len(read) <= captured BY <1>3 DEF ReadInv
<1>12. new \in [1..F -> Nat] BY <1>1, <1>11 DEF CountedFrom
<1>13. ContentInv'
  <2>1. content'["in"] \in [Buffer("in") -> [1..F -> Nat]]
    <3> HIDE DEF new, b, F
    <3> QED BY <1>10, <1>12
  <2> QED BY <1>7, <1>10, <2>1 DEF ContentInv
<1>14. InputData'
  <2> DEFINE x == r * F
  <2>1. captured + used["in"] = Len(read) + x BY <1>3 DEF InputData
  <2>2. x \in Int /\ (r + 1) * F = x + F
    <3>1. r \in Int /\ F \in Int BY <1>1
    <3> QED BY <3>1, Times
  <2>6. captured \in Int /\ used["in"] \in Int /\ Len(read) \in Int /\ F \in Int
    BY <1>1, <1>11
  <2>7. captured' = captured + F BY <1>5
  <2>5. captured = Len(read) - used["in"] + r * F
    <3>1. captured = Len(read) - used["in"] + x
      <4> HIDE DEF x
      <4> QED BY <2>1, <2>2, <2>6
    <3> QED BY <3>1
  <2>3. captured' + used["in"] = Len(read) + (r + 1) * F
    <3> HIDE DEF x, F
    <3> QED BY <2>1, <2>2, <2>6, <2>7
  <2>4. ASSUME NEW k \in 0..(r + 1) - 1
        PROVE  content'["in"][After("in", k)] = CountedFrom(Len(read) - used["in"] + k * F, F)
    <3>1. CASE k \in 0..r-1
      <4>1. content["in"][After("in", k)] = CountedFrom(Len(read) - used["in"] + k * F, F)
        BY <1>3, <3>1 DEF InputData
      <4>2. After("in", k) # b BY <1>9, <3>1
      <4> HIDE DEF b, new
      <4> QED BY <1>10, <4>1, <4>2
    <3>2. CASE k = r
      <4>1. content'["in"][b] = new BY <1>9, <1>10
      <4> QED BY <2>5, <3>2, <4>1
    <3> QED BY <1>1, <2>4, <3>1, <3>2
  <2> HIDE DEF F, r
  <2> QED BY <1>5, <1>7, <1>8, <2>3, <2>4 DEF InputData
<1>15. ReadInv' BY <1>1, <1>5, <1>11, <1>3 DEF ReadInv
<1>16. \A d \in Direction : Streaming(d)' = Streaming(d) BY <1>5 DEF Streaming
<1>17. /\ (OutputData => OutputData') /\ (PlayedInv => PlayedInv') /\ (WrittenInv => WrittenInv')
  BY <1>5, <1>6, <1>10, SameOutput
<1>18. app # "startIn" BY <1>1, <1>2 DEF LifeInv, Starting, Streaming
<1>19. StartedInv' BY <1>5, <1>18 DEF DataInv, StartedInv
<1>20. event'["out"] = event["out"] BY <1>1, <1>5 DEF TypeInv
<1>21. DrainInv' BY <1>5, <1>6, <1>7, <1>20 DEF DataInv, DrainInv
<1> QED
  BY <1>2, <1>6, <1>13, <1>14, <1>15, <1>16, <1>17, <1>19, <1>21 DEF DataInv

\* A buffer that is played is the next one of what was given to the device.
LEMMA DataAfterPlaying ==
  ASSUME IInv, config.blocking, ~MayFail, DataInv, DriverTransfers("out")
  PROVE  DataInv'
<1> DEFINE q == queue["out"]
           F == Chunks("out")
           L == Len(queue["out"])
           P == Len(played)
           old == content["out"][q[1]]
<1> USE DEF Direction, FramesPerBuffer
<1>1. /\ BufferCount("out") \in Nat /\ F \in Nat \ {0}
      /\ L \in Nat /\ q \in Seq(Buffer("out"))
      /\ used["out"] \in Nat /\ TypeInv /\ QueueInv /\ LifeInv
  BY DataTypes
<1>2. q # <<>> /\ Streaming("out") BY DEF DriverTransfers, DriverDone, DataInv
<1>3. OutputData /\ WrittenInv /\ PlayedInv /\ ContentInv BY <1>2 DEF DataInv
<1>4. Head(q) = q[1] /\ L >= 1 /\ q[1] \in Buffer("out") BY <1>1, <1>2
<1>5. /\ queue' = [queue EXCEPT !["out"] = Tail(q)]
      /\ event' = [event EXCEPT !["out"] = TRUE]
      /\ UNCHANGED <<config, cur, used, app, isStopped, waitCount, waitTimedOut, read,
                     written, captured, content>>
      /\ played' = played \o old
  BY <1>4 DEF DriverTransfers, DriverDone, shared, buffers, call
<1>6. /\ queue'["out"] = Tail(q) /\ Len(Tail(q)) = L - 1 /\ queue'["in"] = queue["in"]
      /\ \A i \in 1..L-1 : Tail(q)[i] = q[i+1]
  BY <1>1, <1>2, <1>5 DEF QueueInv
<1>7. \A d \in Direction : Buffer(d)' = Buffer(d) /\ Chunks(d)' = Chunks(d)
                           /\ Uses(d)' = Uses(d) /\ BufferCount(d)' = BufferCount(d)
  BY <1>5 DEF BufferCount, Chunks, Buffer, Uses
<1>8. /\ old \in [1..F -> Nat] /\ played \in Seq(Nat) /\ P \in Nat
  BY <1>3, <1>4 DEF ContentInv, PlayedInv
<1>9. /\ played' \in Seq(Nat) /\ Len(played') = P + F
      /\ \A p \in 1..P+F : played'[p] = IF p <= P THEN played[p] ELSE old[p - P]
  <2> HIDE DEF old, F
  <2>1. old \in Seq(Nat) /\ Len(old) = F
    <3>1. old = [i \in 1..F |-> old[i]] /\ \A i \in 1..F : old[i] \in Nat BY <1>8
    <3>2. [i \in 1..F |-> old[i]] \in Seq(Nat) /\ Len([i \in 1..F |-> old[i]]) = F
      BY <1>1, <3>1
    <3> QED BY <3>1, <3>2
  <2>2. /\ played \o old \in Seq(Nat) /\ Len(played \o old) = Len(played) + Len(old)
        /\ \A p \in 1..Len(played) + Len(old) :
             (played \o old)[p] = IF p <= Len(played) THEN played[p] ELSE old[p - Len(played)]
    BY <1>8, <2>1, SMTT(30)
  <2> QED BY <1>5, <2>1, <2>2
<1>10. Lead' = Lead /\ written' = written BY <1>5, <1>7 DEF Lead
<1>11. \A i \in 1..L, j \in 1..F : content["out"][q[i]][j] = Frame(P + (i - 1) * F + j, Lead, written)
  BY <1>3 DEF OutputData
<1>12. PlayedInv'
  <2>1. ASSUME NEW p \in 1..P+F PROVE played'[p] = Frame(p, Lead, written)
    <3>1. CASE p <= P
      <4>1. p \in 1..P BY <1>8, <3>1
      <4>2. played[p] = Frame(p, Lead, written) BY <1>3, <4>1 DEF PlayedInv
      <4> HIDE DEF P, F
      <4> QED BY <1>9, <3>1, <4>2
    <3>2. CASE ~(p <= P)
      <4>1. p - P \in 1..F /\ 1 \in 1..L BY <1>1, <1>4, <1>8, <3>2
      <4>2. old[p - P] = Frame(P + (1 - 1) * F + (p - P), Lead, written) BY <1>11, <4>1
      <4>3. P + (1 - 1) * F + (p - P) = p
        <5>1. (1 - 1) * F = 0 BY <1>1
        <5> QED BY <1>8, <5>1
      <4> QED BY <1>9, <3>2, <4>2, <4>3
    <3> QED BY <3>1, <3>2
  <2> QED BY <1>3, <1>5, <1>9, <1>10, <2>1 DEF PlayedInv
<1>13. /\ L * F \in Int /\ (L - 1) * F = L * F - F
  <2>1. L \in Int /\ F \in Int BY <1>1
  <2> QED BY <2>1, Times
<1>14. Given' = Given
  <2>1. Given' = P + F + (L - 1) * F BY <1>6, <1>7, <1>9 DEF Given
  <2>2. Given = P + L * F BY DEF Given
  <2> HIDE DEF F, L, P
  <2> QED BY <1>1, <1>8, <1>13, <2>1, <2>2
<1>15. OutputData'
  <2>1. ASSUME NEW i \in 1..L-1, NEW j \in 1..F
        PROVE  content["out"][Tail(q)[i]][j] = Frame(P + F + (i - 1) * F + j, Lead, written)
    <3>1. i + 1 \in 1..L /\ Tail(q)[i] = q[i+1] BY <1>1, <1>6
    <3>2. content["out"][q[i+1]][j] = Frame(P + ((i + 1) - 1) * F + j, Lead, written)
      BY <1>11, <3>1
    <3>3. P + ((i + 1) - 1) * F + j = P + F + (i - 1) * F + j
      <4>1. i \in Int /\ F \in Int /\ j \in Int /\ P \in Int BY <1>1, <1>8
      <4>2. (i - 1) * F = i * F - F /\ i * F \in Int BY <4>1, Times
      <4>3. (i + 1) - 1 = i BY <4>1
      <4> QED BY <4>1, <4>2, <4>3
    <3> QED BY <3>1, <3>2, <3>3
  <2>2. \A j \in 1..used["out"] : content["out"][cur["out"]][j] = Frame(Given + j, Lead, written)
    BY <1>3 DEF OutputData
  <2>3. /\ UNCHANGED <<cur, used, content>> /\ Chunks("out")' = F
        /\ Len(played') = P + F /\ queue'["out"] = Tail(q) /\ Len(Tail(q)) = L - 1
    BY <1>5, <1>6, <1>7, <1>9
  <2> HIDE DEF F, L, P, old, q
  <2> QED BY <1>10, <1>14, <2>1, <2>2, <2>3 DEF OutputData
<1>16. WrittenInv' BY <1>3, <1>5, <1>10, <1>14 DEF WrittenInv
<1>17. (InputData => InputData') /\ (ReadInv => ReadInv')
  BY <1>5, <1>6, SameInput
<1>18. \A d \in Direction : Streaming(d)' = Streaming(d) BY <1>5 DEF Streaming
<1>19. app \notin {"startIn", "startOut"} BY <1>1, <1>2 DEF LifeInv, Starting, Streaming
<1>20. StartedInv' BY <1>5, <1>19 DEF StartedInv
<1>21. DrainInv'
  <2>1. event'["out"] = TRUE BY <1>1, <1>5 DEF TypeInv
  <2>2. Len(queue'["out"]) = L - 1 /\ queue["out"] # <<>> BY <1>2, <1>6
  <2>3. waitCount \in Int BY <1>1 DEF TypeInv
  <2> DEFINE e == IF event["out"] THEN 1 ELSE 0
  <2>4. L - 1 + waitCount + 1 <= L + waitCount + e
    <3>1. e \in {0, 1} OBVIOUS
    <3> HIDE DEF e, L
    <3> QED BY <1>1, <2>3, <3>1
  <2>5. ASSUME ~waitTimedOut, app \in {"stopDrain", "stopDrainWait"}
        PROVE  L - 1 + waitCount + 1 <= BufferCount("out") + 1
    <3>1. L + waitCount + e <= BufferCount("out") + 1 BY <2>5 DEF DataInv, DrainInv
    <3>2. e \in {0, 1} OBVIOUS
    <3> HIDE DEF e, L
    <3> QED BY <1>1, <2>3, <2>4, <3>1, <3>2
  <2>6. ~waitTimedOut => ~(app = "stopReset" /\ Uses("out")) BY <2>2 DEF DataInv, DrainInv
  <2> QED BY <1>5, <1>7, <2>1, <2>2, <2>5, <2>6 DEF DrainInv
<1>22. ContentInv' BY <1>3, <1>5, <1>7 DEF ContentInv
<1> QED
  BY <1>2, <1>6, <1>12, <1>15, <1>16, <1>17, <1>18, <1>20, <1>21, <1>22 DEF DataInv

-----------------------------------------------------------------------------
(* ReadStream and WriteStream.                                             *)

\* A round copies m frames of a buffer that is ready, and queues it behind the
\* others when they were its last.
LEMMA TransferRound ==
  ASSUME IInv, config.blocking, ~MayFail, NEW d \in Direction, Transfer(d)
  PROVE  LET m == Min({left, HostFrames(d)})
         IN  /\ m \in Nat /\ m <= left /\ used[d] + m <= Chunks(d)
             /\ CopyFrames(d, m) /\ left' = left - m
             /\ UNCHANGED <<config, isStopped, processingThread, event, waitCount,
                            waitTimedOut, captured, played>>
             /\ app = CallOf(d) /\ app' \in {CallOf(d), "idle"} /\ ~isStopped /\ Uses(d)
             /\ whdrDone[d][cur[d]] /\ ~InQueue(d, cur[d])
             /\ InOrder(d) /\ Ready(d) >= 1
             /\ \A e \in Direction \ {d} : UNCHANGED <<cur[e], used[e], queue[e]>>
             /\ \/ /\ used[d] + m = Chunks(d)
                   /\ queue'[d] = Append(queue[d], cur[d])
                   /\ cur'[d] = After(d, 1) /\ used'[d] = 0
                \/ /\ used[d] + m < Chunks(d)
                   /\ queue'[d] = queue[d]
                   /\ cur'[d] = cur[d] /\ used'[d] = used[d] + m
<1> DEFINE m == Min({left, HostFrames(d)})
<1>1. /\ TypeInv /\ QueueInv /\ CursorInv /\ LifeInv /\ OrderInv /\ UsedInv /\ CallInv
      /\ Chunks(d) \in Nat \ {0} /\ used[d] \in Nat
  BY DataTypes
<1>2. m \in Nat /\ m <= left /\ used[d] + m <= Chunks(d) /\ FramesPerBuffer(d) = Chunks(d)
  BY <1>1, TransferAmount
<1> HIDE DEF m
<1>3. /\ CopyFrames(d, m) /\ left' = left - m
      /\ UNCHANGED <<config, isStopped, processingThread, event, waitCount, waitTimedOut,
                     captured, played>>
      /\ app = CallOf(d) /\ app' \in {CallOf(d), "idle"} /\ whdrDone[d][cur[d]]
  BY DEF Transfer, m, shared, local, BuffersAreDone
<1>4. Uses(d) /\ ~isStopped BY <1>1, <1>3 DEF CallInv, LifeInv, CallOf, Starting
<1>5. ~InQueue(d, cur[d]) BY <1>1, <1>3, <1>4, QueueFacts, AfterFacts
<1>6. InOrder(d) BY <1>1, <1>4 DEF OrderInv
<1>7. Ready(d) >= 1 BY <1>4, <1>5, <1>6, OldestIsNext
<1>8. CASE used[d] + m = Chunks(d)
  <2>1. PICK ok \in BOOLEAN : AdvanceToNextBuffer(d, ok) BY <1>2, <1>8 DEF Transfer, m
  <2>2. /\ \A e \in Direction \ {d} : UNCHANGED <<cur[e], used[e], queue[e]>>
        /\ cur'[d] = After(d, 1) /\ used'[d] = 0
        /\ ok => queue'[d] = Append(queue[d], cur[d])
        /\ ok \/ MayFail \/ InQueue(d, cur[d])
    BY <1>1, <1>3, <1>4, <2>1, AdvanceEffect
  <2> QED BY <1>2, <1>3, <1>4, <1>5, <1>6, <1>7, <1>8, <2>2 DEF m
<1>9. CASE used[d] + m # Chunks(d)
  <2>1. used' = [used EXCEPT ![d] = @ + m] /\ UNCHANGED <<cur, queue>>
    BY <1>2, <1>9 DEF Transfer, m
  <2>2. /\ used'[d] = used[d] + m
        /\ \A e \in Direction \ {d} : used'[e] = used[e]
    BY <1>1, <2>1 DEF CursorInv
  <2>3. used[d] + m < Chunks(d) BY <1>1, <1>2, <1>9
  <2> QED BY <1>2, <1>3, <1>4, <1>5, <1>6, <1>7, <2>1, <2>2, <2>3 DEF m
<1> QED BY <1>8, <1>9

\* Going on to the next buffer.
LEMMA AfterStep ==
  ASSUME IInv, NEW d \in Direction, config' = config, cur'[d] = After(d, 1),
         NEW k \in Nat, k + 1 < BufferCount(d)
  PROVE  After(d, k)' = After(d, k + 1)
<1>1. /\ BufferCount(d) \in Nat /\ cur[d] \in Nat
      /\ cur[d] = 0 \/ cur[d] < BufferCount(d)
  BY DataTypes
<1>2. BufferCount(d)' = BufferCount(d) BY DEF BufferCount
<1> QED BY <1>1, <1>2 DEF After

LEMMA DataAfterRead ==
  ASSUME IInv, config.blocking, ~MayFail, DataInv, Transfer("in")
  PROVE  DataInv'
<1> DEFINE m == Min({left, HostFrames("in")})
           F == Chunks("in")
           r == Ready("in")
           u == used["in"]
           R == Len(read)
           n == BufferCount("in")
           C == content["in"]
           q == queue["in"]
<1> USE DEF Direction
<1>1. /\ m \in Nat /\ u + m <= F /\ CopyFrames("in", m)
      /\ UNCHANGED <<config, isStopped, event, waitCount, waitTimedOut, captured, played>>
      /\ app = "read" /\ app' \in {"read", "idle"} /\ ~isStopped
      /\ r >= 1
      /\ UNCHANGED <<cur["out"], used["out"], queue["out"]>>
      /\ \/ /\ u + m = F /\ queue'["in"] = Append(q, cur["in"])
            /\ cur'["in"] = After("in", 1) /\ used'["in"] = 0
         \/ /\ u + m < F /\ queue'["in"] = q
            /\ cur'["in"] = cur["in"] /\ used'["in"] = u + m
  BY TransferRound DEF CallOf
<1> HIDE DEF m
<1>2. /\ n \in Nat /\ F \in Nat \ {0} /\ r \in 0..n /\ u \in Nat
      /\ q \in Seq(Buffer("in")) /\ r = n - Len(q) /\ Len(q) \in Nat
      /\ cur["in"] \in Nat /\ (cur["in"] = 0 \/ cur["in"] < n)
  BY DataTypes
<1>3. InputData /\ ReadInv /\ Streaming("in") /\ Streaming("out") /\ OutputData /\ WrittenInv
      /\ PlayedInv /\ ContentInv
  BY <1>1 DEF DataInv, Streaming
<1>4. /\ read' = read \o SubSeq(C[cur["in"]], u + 1, u + m)
      /\ UNCHANGED <<content, written>>
  BY <1>1 DEF CopyFrames
<1>5. R \in Nat /\ captured \in Nat /\ read = CountedFrom(0, R) BY <1>3 DEF ReadInv
<1>6. C[cur["in"]] = CountedFrom(R - u, F)
  <2>1. 0 \in 0..r-1 BY <1>1, <1>2
  <2>2. C[After("in", 0)] = CountedFrom(R - u + 0 * F, F) BY <1>3, <2>1 DEF InputData
  <2>3. After("in", 0) = cur["in"] BY <1>1, <1>2 DEF After
  <2>4. R - u + 0 * F = R - u
    <3>1. 0 * F = 0 BY <1>2
    <3> HIDE DEF F, R, u
    <3> QED BY <1>2, <1>5, <3>1
  <2> QED BY <2>2, <2>3, <2>4
<1>7. read' = CountedFrom(0, R + m)
  <2>1. SubSeq(CountedFrom(R - u, F), u + 1, u + m) = CountedFrom((R - u) + u, m)
    <3>1. /\ R - u \in Int /\ F \in Nat /\ u \in Nat /\ m \in Nat /\ u + m <= F
      BY <1>1, <1>2, <1>5
    <3> HIDE DEF R, u, F
    <3> QED BY <3>1, CountedPart
  <2>2. (R - u) + u = 0 + R BY <1>2, <1>5
  <2>3. CountedFrom(0, R) \o CountedFrom(0 + R, m) = CountedFrom(0, R + m)
    <3>1. 0 \in Int /\ R \in Nat /\ m \in Nat BY <1>1, <1>5
    <3> HIDE DEF R
    <3> QED BY <3>1, CountedJoin
  <2> HIDE DEF F, u, R
  <2> QED BY <1>4, <1>5, <1>6, <2>1, <2>2, <2>3 DEF C
<1>8. Len(read') = R + m
  <2>1. R + m \in Nat BY <1>1, <1>5
  <2> QED BY <1>7, <2>1, CountedFacts
<1>9. \A d \in Direction : Chunks(d)' = Chunks(d) /\ Buffer(d)' = Buffer(d)
                           /\ BufferCount(d)' = BufferCount(d) /\ Uses(d)' = Uses(d)
  BY <1>1 DEF Chunks, Buffer, BufferCount, Uses
<1> DEFINE x == r * F
<1>10. captured + u = R + x BY <1>3 DEF InputData
<1>11. x \in Int /\ (r - 1) * F = x - F /\ x >= F /\ (r - 1) * F >= 0
  <2>1. r \in Int /\ F \in Int /\ r >= 1 /\ F >= 0 /\ r - 1 \in Int /\ r - 1 >= 0 BY <1>1, <1>2
  <2> QED BY <2>1, Times
<1>12. \A k \in 0..r-1 : C[After("in", k)] = CountedFrom(R - u + k * F, F)
  BY <1>3 DEF InputData
<1>13. InputData' /\ R + m <= captured
  <2>1. CASE u + m = F
    <3>1. /\ queue'["in"] = Append(q, cur["in"]) /\ cur'["in"] = After("in", 1)
          /\ used'["in"] = 0
      <4>1. ~(u + m < F) BY <1>1, <1>2, <2>1
      <4> HIDE DEF u, F
      <4> QED BY <1>1, <4>1
    <3>2. Ready("in")' = r - 1
      <4>1. Len(queue'["in"]) = Len(q) + 1 BY <1>2, <3>1
      <4>2. Ready("in")' = n - Len(queue'["in"]) BY <1>9 DEF Ready
      <4> QED BY <1>2, <4>1, <4>2
    <3>3. captured + 0 = R + m + (r - 1) * F
      <4> DEFINE y == (r - 1) * F
      <4>1. y = x - F /\ x \in Int BY <1>11
      <4>2. u \in Int /\ F \in Int /\ R \in Int /\ captured \in Int /\ m \in Int
        BY <1>1, <1>2, <1>5
      <4> HIDE DEF x, y, u, F, R
      <4>3. captured + 0 = R + m + y BY <1>10, <2>1, <4>1, <4>2
      <4> QED BY <4>3 DEF y
    <3>4. ASSUME NEW k \in 0..(r - 1) - 1
          PROVE  C[After("in", k)'] = CountedFrom(R + m - 0 + k * F, F)
      <4>1. k \in Nat /\ k + 1 \in 0..r-1 /\ k + 1 < n BY <1>2
      <4>2. After("in", k)' = After("in", k + 1) BY <1>1, <3>1, <4>1, AfterStep
      <4>3. C[After("in", k + 1)] = CountedFrom(R - u + (k + 1) * F, F) BY <1>12, <4>1
      <4>4. R - u + (k + 1) * F = R + m - 0 + k * F
        <5> DEFINE y == k * F
                   z == (k + 1) * F
        <5>1. k \in Int /\ F \in Int BY <1>2
        <5>2. z = y + F /\ y \in Int BY <5>1, Times
        <5>3. u \in Int /\ R \in Int /\ m \in Int BY <1>1, <1>2, <1>5
        <5> HIDE DEF y, z, u, F, R
        <5>4. R - u + z = R + m - 0 + y BY <2>1, <5>1, <5>2, <5>3
        <5> QED BY <5>4 DEF y, z
      <4> QED BY <4>2, <4>3, <4>4
    <3>5. InputData'
      <4>1. Chunks("in")' = F /\ captured' = captured /\ content' = content
        BY <1>1, <1>4, <1>9
      <4>2. (captured + used["in"] = Len(read) + Ready("in") * Chunks("in"))'
        BY <1>8, <3>1, <3>2, <3>3, <4>1
      <4>3. (\A k \in 0..Ready("in")-1 :
               content["in"][After("in", k)] =
                 CountedFrom(Len(read) - used["in"] + k * Chunks("in"), Chunks("in")))'
        <5> SUFFICES ASSUME NEW k \in 0..Ready("in")' - 1
                       PROVE  content'["in"][After("in", k)'] =
                                CountedFrom(Len(read') - used'["in"] + k * Chunks("in")',
                                            Chunks("in")')
            BY DEF CountedFrom
        <5>1. k \in 0..(r - 1) - 1 BY <3>2
        <5>2. C[After("in", k)'] = CountedFrom(R + m - 0 + k * F, F) BY <3>4, <5>1
        <5>3. /\ content'["in"] = C /\ Len(read') = R + m /\ used'["in"] = 0
                /\ Chunks("in")' = F
            BY <1>8, <3>1, <4>1
        <5> HIDE DEF C, R, F
        <5>4. Len(read') - used'["in"] + k * Chunks("in")' = R + m - 0 + k * F
          BY <1>1, <1>2, <1>5, <5>1, <5>3, SMT
        <5> QED BY <5>2, <5>3, <5>4, Zenon
      <4> QED BY <4>2, <4>3 DEF InputData
    <3>6. R + m <= captured
      <4> DEFINE y == (r - 1) * F
      <4>1. y >= 0 /\ y \in Int BY <1>2, <1>11
      <4>2. captured = R + m + y BY <1>5, <3>3
      <4> HIDE DEF y
      <4> QED BY <1>1, <1>5, <4>1, <4>2
    <3> QED BY <3>5, <3>6
  <2>2. CASE u + m < F
    <3>1. queue'["in"] = q /\ cur'["in"] = cur["in"] /\ used'["in"] = u + m
      <4>1. ~(u + m = F) BY <1>1, <1>2, <2>2
      <4> HIDE DEF u, F
      <4> QED BY <1>1, <4>1
    <3>2. Ready("in")' = r /\ \A k : After("in", k)' = After("in", k)
      BY <1>9, <3>1 DEF Ready, After
    <3>3. u \in Int /\ F \in Int /\ R \in Int /\ captured \in Int /\ m \in Int
      BY <1>1, <1>2, <1>5
    <3>4. captured + (u + m) = R + m + x
      <4> HIDE DEF x, u, F, R
      <4> QED BY <1>10, <1>11, <3>3
    <3>5. R + m - (u + m) = R - u BY <3>3
    <3>6. InputData'
      <4>1. Chunks("in")' = F /\ captured' = captured /\ content' = content
        BY <1>1, <1>4, <1>9
      <4>2. (captured + used["in"] = Len(read) + Ready("in") * Chunks("in"))'
        BY <1>8, <3>1, <3>2, <3>4, <4>1
      <4>3. (\A k \in 0..Ready("in")-1 :
               content["in"][After("in", k)] =
                 CountedFrom(Len(read) - used["in"] + k * Chunks("in"), Chunks("in")))'
        <5> SUFFICES ASSUME NEW k \in 0..Ready("in")' - 1
                       PROVE  content'["in"][After("in", k)'] =
                                CountedFrom(Len(read') - used'["in"] + k * Chunks("in")',
                                            Chunks("in")')
            BY DEF CountedFrom
        <5>1. k \in 0..r-1 /\ After("in", k)' = After("in", k) BY <3>2
        <5>2. C[After("in", k)'] = CountedFrom(R - u + k * F, F) BY <1>12, <5>1
        <5>3. /\ content'["in"] = C /\ Len(read') = R + m /\ used'["in"] = u + m
                /\ Chunks("in")' = F
            BY <1>8, <3>1, <4>1
        <5> HIDE DEF C, R, F, u
        <5>4. Len(read') - used'["in"] + k * Chunks("in")' = R - u + k * F
          <6>1. Len(read') - used'["in"] = R - u BY <1>1, <1>2, <1>5, <5>3, SMT
          <6> QED BY <5>3, <6>1
        <5> QED BY <5>2, <5>3, <5>4, Zenon
      <4> QED BY <4>2, <4>3 DEF InputData
    <3>7. R + m <= captured
      <4> HIDE DEF x, u, F, R
      <4> QED BY <1>11, <2>2, <3>3, <3>4
    <3> QED BY <3>6, <3>7
  <2> QED BY <1>1, <2>1, <2>2
<1>14. ReadInv' BY <1>1, <1>5, <1>7, <1>8, <1>13 DEF ReadInv
<1>15. Streaming("in")' /\ Streaming("out")' BY <1>1 DEF Streaming
<1>16. /\ OutputData' /\ PlayedInv'
       /\ WrittenInv'
  <2>1. app \notin Draining /\ app' \notin Draining BY <1>1 DEF Draining
  <2>2. content'["out"] = content["out"] BY <1>4
  <2>3. /\ OutputData => OutputData'
        /\ PlayedInv => PlayedInv'
        /\ (app' \in Draining <=> app \in Draining) => (WrittenInv => WrittenInv')
    BY <1>1, <1>4, <2>2, SameOutput
  <2> QED BY <1>3, <2>1, <2>3
<1>17. StartedInv' BY <1>1 DEF StartedInv
<1>18. DrainInv' BY <1>1 DEF DrainInv
<1>19. ContentInv' BY <1>3, <1>4, <1>9 DEF ContentInv
<1> QED BY <1>13, <1>14, <1>15, <1>16, <1>17, <1>18, <1>19 DEF DataInv

\* What is written does not change what was given to the device before.
LEMMA FrameStays ==
  ASSUME NEW lead \in Nat, NEW n \in Nat, NEW m \in Nat
  PROVE  /\ \A p \in Int : p <= lead + n => Frame(p, lead, n + m) = Frame(p, lead, n)
         /\ \A i \in 1..m : Frame(lead + n + i, lead, n + m) = n + i
  BY DEF Frame

LEMMA LeadType == IInv => Lead \in Nat
<1> SUFFICES ASSUME IInv PROVE Lead \in Nat OBVIOUS
<1>1. BufferCount("out") \in Nat /\ Chunks("out") \in Nat \ {0} BY DataTypes DEF Direction
<1> QED BY <1>1, Times DEF Lead

\* Queued buffers are before the frames of the current one.
LEMMA PositionBounds ==
  ASSUME IInv, PlayedInv,
         NEW i \in 1..Len(queue["out"]), NEW j \in 1..Chunks("out")
  PROVE  /\ Len(played) + (i - 1) * Chunks("out") + j \in Int
         /\ Len(played) + (i - 1) * Chunks("out") + j <= Given
         /\ Given \in Nat /\ Len(played) \in Nat /\ Len(played) <= Given
<1> DEFINE F == Chunks("out")
           L == Len(queue["out"])
           P == Len(played)
<1>1. F \in Nat /\ L \in Nat BY DataTypes DEF Direction
<1>2. P \in Nat BY DEF PlayedInv
<1>3. F \in Int /\ L \in Int /\ i \in Int /\ j \in Int /\ P \in Int /\ i <= L /\ j <= F
      /\ L - i \in Int /\ i - 1 \in Int /\ i >= 1
  BY <1>1, <1>2
<1>4. /\ (i - 1) * F = i * F - F /\ i * F \in Int /\ L * F \in Int /\ L * F >= 0
  BY <1>1, <1>3, Times
<1>5. (L - i) * F >= 0 BY <1>1, <1>3, Times
<1>6. (L - i) * F = L * F - i * F
  <2> HIDE DEF F, L
  <2> QED BY <1>3, SMT
<1> DEFINE x == i * F
           y == L * F
           z == (i - 1) * F
           v == (L - i) * F
<1>7. Given = P + y BY DEF Given
<1>8. /\ P + z + j \in Int /\ P + z + j <= P + y /\ P + y \in Nat /\ P <= P + y
  <2>1. z = x - F /\ x \in Int /\ y \in Int /\ y >= 0 /\ v >= 0 /\ v = y - x
    BY <1>4, <1>5, <1>6
  <2> HIDE DEF F, L, P, x, y, z, v
  <2> QED BY <1>2, <1>3, <2>1
<1> QED BY <1>2, <1>7, <1>8

LEMMA GivenType == IInv /\ PlayedInv => Given \in Nat /\ Len(played) \in Nat /\ Len(played) <= Given
<1> SUFFICES ASSUME IInv, PlayedInv
             PROVE  Given \in Nat /\ Len(played) \in Nat /\ Len(played) <= Given
  OBVIOUS
<1> DEFINE y == Len(queue["out"]) * Chunks("out")
<1>1. Chunks("out") \in Nat /\ Len(queue["out"]) \in Nat BY DataTypes DEF Direction
<1>2. y \in Int /\ y >= 0 BY <1>1, Times
<1>3. Len(played) \in Nat BY DEF PlayedInv
<1>4. Given = Len(played) + y BY DEF Given
<1> HIDE DEF y
<1> QED BY <1>2, <1>3, <1>4

LEMMA DataAfterWrite ==
  ASSUME IInv, config.blocking, ~MayFail, DataInv, Transfer("out")
  PROVE  DataInv'
<1> DEFINE m == Min({left, HostFrames("out")})
           F == Chunks("out")
           u == used["out"]
           W == written
           n == BufferCount("out")
           b == cur["out"]
           C == content["out"]
           q == queue["out"]
           L == Len(queue["out"])
           P == Len(played)
           G == Given
           new == [i \in DOMAIN C[b] |-> IF i \in u+1..u+m THEN W + i - u ELSE C[b][i]]
<1> USE DEF Direction
<1>1. /\ m \in Nat /\ u + m <= F /\ CopyFrames("out", m)
      /\ UNCHANGED <<config, isStopped, event, waitCount, waitTimedOut, captured, played>>
      /\ app = "write" /\ app' \in {"write", "idle"} /\ ~isStopped
      /\ ~InQueue("out", b) /\ Uses("out")
      /\ UNCHANGED <<cur["in"], used["in"], queue["in"]>>
      /\ \/ /\ u + m = F /\ queue'["out"] = Append(q, b)
            /\ cur'["out"] = After("out", 1) /\ used'["out"] = 0
         \/ /\ u + m < F /\ queue'["out"] = q
            /\ cur'["out"] = b /\ used'["out"] = u + m
  BY TransferRound DEF CallOf
<1> HIDE DEF m
<1>2. /\ n \in Nat /\ F \in Nat \ {0} /\ u \in Nat /\ L \in Nat
      /\ q \in Seq(Buffer("out"))
      /\ b \in Nat /\ (b = 0 \/ b < n)
  BY DataTypes
<1>3. InputData /\ ReadInv /\ Streaming("in") /\ Streaming("out") /\ OutputData /\ WrittenInv
      /\ PlayedInv /\ ContentInv
  BY <1>1 DEF DataInv, Streaming
<1>4. /\ content' = [content EXCEPT !["out"][b] = new]
      /\ written' = W + m /\ read' = read
  BY <1>1 DEF CopyFrames
<1>5. b \in Buffer("out") BY <1>1, <1>2 DEF Uses, Buffer
<1>6. /\ DOMAIN content = Direction /\ C \in [Buffer("out") -> [1..F -> Nat]]
      /\ content["in"] \in [Buffer("in") -> [1..Chunks("in") -> Nat]]
  BY <1>3 DEF ContentInv
<1>7. /\ content'["out"] = [C EXCEPT ![b] = new] /\ content'["in"] = content["in"]
      /\ DOMAIN content' = Direction
  BY <1>4, <1>6
<1>8. /\ W \in Nat /\ P \in Nat /\ G \in Nat /\ P <= G /\ Lead \in Nat
      /\ played \in Seq(Nat)
  BY <1>3, LeadType, GivenType DEF PlayedInv
<1>9. \A d \in Direction : Chunks(d)' = Chunks(d) /\ Buffer(d)' = Buffer(d)
                           /\ BufferCount(d)' = BufferCount(d) /\ Uses(d)' = Uses(d)
  BY <1>1 DEF Chunks, Buffer, BufferCount, Uses
<1>10. /\ new \in [1..F -> Nat]
       /\ \A j \in 1..F : new[j] = IF j \in u+1..u+m THEN W + j - u ELSE C[b][j]
  <2>1. C[b] \in [1..F -> Nat] BY <1>5, <1>6
  <2>2. DOMAIN C[b] = 1..F BY <2>1
  <2>3. \A j \in u+1..u+m : W + j - u \in Nat BY <1>1, <1>2, <1>8
  <2>4. \A j \in 1..F : (IF j \in u+1..u+m THEN W + j - u ELSE C[b][j]) \in Nat
    BY <2>1, <2>3
  <2> HIDE DEF C, b, u, F, W
  <2> QED BY <2>2, <2>4
<1>11. ContentInv'
  <2>1. content'["out"] \in [Buffer("out") -> [1..F -> Nat]]
    <3> HIDE DEF new, b, F, C
    <3> QED BY <1>6, <1>7, <1>10
  <2> QED BY <1>6, <1>7, <1>9, <2>1 DEF ContentInv
<1>12. /\ content'["out"][b] = new
       /\ \A c \in Buffer("out") : c # b => content'["out"][c] = C[c]
  <2> HIDE DEF new, b, C
  <2> QED BY <1>5, <1>6, <1>7
<1>13. G + u = Lead + W /\ app \notin Draining /\ app' \notin Draining
  BY <1>1, <1>3 DEF WrittenInv, Draining
<1>14. Lead' = Lead BY <1>9 DEF Lead
<1>15. /\ \A p \in Int : p <= Lead + W => Frame(p, Lead, W + m) = Frame(p, Lead, written)
       /\ \A i \in 1..m : Frame(Lead + W + i, Lead, W + m) = W + i
  <2>1. Lead \in Nat /\ W \in Nat /\ m \in Nat BY <1>1, <1>8
  <2> HIDE DEF W
  <2>2. /\ \A p \in Int : p <= Lead + W => Frame(p, Lead, W + m) = Frame(p, Lead, W)
        /\ \A i \in 1..m : Frame(Lead + W + i, Lead, W + m) = W + i
    BY <2>1, FrameStays
  <2> QED BY <2>2 DEF W
<1>16. PlayedInv'
  <2>1. \A p \in 1..P : p \in Int /\ p <= Lead + W BY <1>2, <1>8, <1>13
  <2>2. \A p \in 1..P : played[p] = Frame(p, Lead, W + m) BY <1>3, <1>15, <2>1 DEF PlayedInv
  <2>3. written' \in Nat BY <1>1, <1>4, <1>8
  <2> HIDE DEF W
  <2> QED BY <1>1, <1>4, <1>8, <1>14, <2>2, <2>3 DEF PlayedInv, P
<1>17. \A i \in 1..L, j \in 1..F : content'["out"][q[i]][j] = Frame(P + (i - 1) * F + j, Lead, W + m)
  <2> SUFFICES ASSUME NEW i \in 1..L, NEW j \in 1..F
               PROVE  content'["out"][q[i]][j] = Frame(P + (i - 1) * F + j, Lead, W + m)
    OBVIOUS
  <2> DEFINE p == P + (i - 1) * F + j
  <2>1. p \in Int /\ p <= G BY <1>3, PositionBounds
  <2>2. C[q[i]][j] = Frame(p, Lead, written) BY <1>3 DEF OutputData
  <2>3. q[i] \in Buffer("out") /\ q[i] # b BY <1>1, <1>2 DEF InQueue
  <2> HIDE DEF p, q, b, C, G, F, L, P, u, W
  <2>4. p <= Lead + W BY <1>2, <1>8, <1>13, <2>1
  <2>5. Frame(p, Lead, W + m) = Frame(p, Lead, written) BY <1>15, <2>1, <2>4
  <2>6. content'["out"][q[i]] = C[q[i]] BY <1>12, <2>3
  <2>7. content'["out"][q[i]][j] = Frame(p, Lead, W + m) BY <2>2, <2>5, <2>6
  <2> QED BY <2>7 DEF p, P, F
<1>18. \A j \in 1..u+m : content'["out"][b][j] = Frame(G + j, Lead, W + m)
  <2> SUFFICES ASSUME NEW j \in 1..u+m PROVE content'["out"][b][j] = Frame(G + j, Lead, W + m)
    OBVIOUS
  <2>1. j \in 1..F /\ j \in Int BY <1>1, <1>2
  <2>2. CASE j <= u
    <3>1. C[b][j] = Frame(G + j, Lead, written)
      <4>1. j \in 1..u BY <1>2, <2>2
      <4> QED BY <1>3, <4>1 DEF OutputData
    <3>2. new[j] = C[b][j]
      <4>1. j \notin u+1..u+m BY <1>2, <2>2
      <4> QED BY <1>10, <2>1, <4>1
    <3>3. G + j \in Int /\ G + j <= Lead + W
      <4> HIDE DEF G, u, W
      <4> QED BY <1>2, <1>8, <1>13, <2>1, <2>2
    <3>4. Frame(G + j, Lead, W + m) = Frame(G + j, Lead, written) BY <1>15, <3>3
    <3> HIDE DEF new, b, C, G
    <3> QED BY <1>12, <3>1, <3>2, <3>4
  <2>3. CASE j > u
    <3> HIDE DEF G, u, W, F
    <3>1. j \in u+1..u+m /\ j - u \in 1..m BY <1>1, <1>2, <2>3
    <3>2. new[j] = W + j - u BY <1>10, <2>1, <3>1
    <3>3. Frame(Lead + W + (j - u), Lead, W + m) = W + (j - u) BY <1>15, <3>1
    <3>4. Lead + W + (j - u) = G + j BY <1>2, <1>8, <1>13, <2>1
    <3>5. W + (j - u) = W + j - u BY <1>2, <1>8, <2>1
    <3>6. Frame(G + j, Lead, W + m) = new[j] BY <3>2, <3>3, <3>4, <3>5
    <3> HIDE DEF new
    <3> QED BY <1>12, <3>6
  <2> QED BY <1>2, <2>1, <2>2, <2>3
<1>19. OutputData' /\ WrittenInv'
  <2>1. CASE u + m = F
    <3>1. /\ queue'["out"] = Append(q, b) /\ used'["out"] = 0
      <4>1. ~(u + m < F) BY <1>1, <1>2, <2>1
      <4> HIDE DEF u, F
      <4> QED BY <1>1, <4>1
    <3>2. /\ Len(Append(q, b)) = L + 1 /\ Append(q, b)[L + 1] = b
          /\ \A i \in 1..L : Append(q, b)[i] = q[i]
      BY <1>2, <1>5
    <3>3. L * F \in Int /\ (L + 1) * F = L * F + F
      <4>1. L \in Int /\ F \in Int BY <1>2
      <4> QED BY <4>1, Times
    <3>4. Given' = G + F
      <4> DEFINE y == L * F
                 z == (L + 1) * F
      <4>1. Given' = P + z BY <1>1, <1>9, <3>1, <3>2 DEF Given
      <4>2. G = P + y BY DEF Given
      <4>3. z = y + F /\ y \in Int /\ F \in Int /\ P \in Int BY <1>2, <1>8, <3>3
      <4> HIDE DEF y, z, F, P, G
      <4> QED BY <4>1, <4>2, <4>3
    <3>5. WrittenInv'
      <4>1. G + F + 0 = Lead + (W + m)
        <5> HIDE DEF G, F, W, u
        <5> QED BY <1>1, <1>2, <1>8, <1>13, <2>1
      <4> QED BY <1>4, <1>13, <1>14, <3>1, <3>4, <4>1 DEF WrittenInv
    <3>6. ASSUME NEW i \in 1..L+1, NEW j \in 1..F
          PROVE  content'["out"][Append(q, b)[i]][j] = Frame(P + (i - 1) * F + j, Lead, W + m)
      <4>1. CASE i \in 1..L BY <1>17, <3>2, <4>1
      <4>2. CASE i = L + 1
        <5>1. j \in 1..u+m BY <1>2, <2>1
        <5>2. content'["out"][b][j] = Frame(G + j, Lead, W + m) BY <1>18, <5>1
        <5>3. (L + 1) - 1 = L BY <1>2
        <5>4. P + (i - 1) * F + j = G + j BY <4>2, <5>3 DEF Given
        <5> QED BY <3>2, <4>2, <5>2, <5>4
      <4> QED BY <1>2, <4>1, <4>2
    <3>7. OutputData'
      <4>1. /\ Chunks("out")' = F /\ Len(played') = P
            /\ queue'["out"] = Append(q, b) /\ Len(Append(q, b)) = L + 1
        BY <1>1, <1>9, <3>1, <3>2
      <4>2. \A j \in 1..used'["out"] :
              content'["out"][cur'["out"]][j] = Frame(Given' + j, Lead, W + m)
        BY <3>1
      <4> HIDE DEF F, L, P, q, b, W
      <4> QED BY <1>4, <1>14, <3>6, <4>1, <4>2 DEF OutputData
    <3> QED BY <3>5, <3>7
  <2>2. CASE u + m < F
    <3>1. queue'["out"] = q /\ cur'["out"] = b /\ used'["out"] = u + m
      <4>1. ~(u + m = F) BY <1>1, <1>2, <2>2
      <4> HIDE DEF u, F
      <4> QED BY <1>1, <4>1
    <3>2. Given' = G BY <1>1, <1>9, <3>1 DEF Given
    <3>3. WrittenInv'
      <4>1. G + (u + m) = Lead + (W + m)
        <5> HIDE DEF G, W, u
        <5> QED BY <1>1, <1>2, <1>8, <1>13
      <4> QED BY <1>4, <1>13, <1>14, <3>1, <3>2, <4>1 DEF WrittenInv
    <3>4. OutputData'
      <4>1. Chunks("out")' = F /\ Len(played') = P BY <1>1, <1>9
      <4>2. \A j \in 1..u+m : content'["out"][b][j] = Frame(Given' + j, Lead, W + m)
        BY <1>18, <3>2
      <4>3. \A i \in 1..Len(q), j \in 1..F :
              content'["out"][q[i]][j] = Frame(P + (i - 1) * F + j, Lead, W + m)
        BY <1>17
      <4> HIDE DEF F, L, P, q, b, u, W
      <4> QED BY <1>4, <1>14, <3>1, <4>1, <4>2, <4>3 DEF OutputData
    <3> QED BY <3>3, <3>4
  <2> QED BY <1>1, <2>1, <2>2
<1>20. Streaming("in")' /\ Streaming("out")' BY <1>1 DEF Streaming
<1>21. InputData' /\ ReadInv' BY <1>1, <1>3, <1>4, <1>7, SameInput
<1>22. StartedInv' BY <1>1 DEF StartedInv
<1>23. DrainInv' BY <1>1 DEF DrainInv
<1> QED BY <1>11, <1>16, <1>19, <1>20, <1>21, <1>22, <1>23 DEF DataInv

-----------------------------------------------------------------------------
(* Steps that leave the frames as they are.                                *)

LEMMA DataSame ==
  ASSUME IInv, ~MayFail, DataInv, UNCHANGED <<config, cur, used, queue, frames>>,
         \A d \in Direction : Streaming(d)' <=> Streaming(d),
         app' \notin {"startIn", "startOut"},
         (app' \in Draining <=> app \in Draining) \/ WrittenInv',
         DrainInv'
  PROVE  DataInv'
<1> USE DEF frames
<1>1. \A d \in Direction : Buffer(d)' = Buffer(d) /\ Chunks(d)' = Chunks(d)
  BY SameDirection
<1>2. ContentInv' BY <1>1 DEF DataInv, ContentInv
<1>3. (InputData => InputData') /\ (ReadInv => ReadInv') BY SameInput
<1>4. /\ OutputData => OutputData'
      /\ PlayedInv => PlayedInv'
      /\ WrittenInv => WrittenInv'
  BY SameOutput
<1>5. StartedInv' BY DEF StartedInv
<1> QED BY <1>2, <1>3, <1>4, <1>5 DEF DataInv, Direction

\* A call begins, waits or goes on.
LEMMA DataAfterWait ==
  ASSUME IInv, config.blocking, ~MayFail, DataInv, NEW d \in Direction,
         (\E n \in 1..MaxTransfer : BeginTransfer(d, n)) \/ TransferWait(d) \/ TransferTimeout(d)
  PROVE  DataInv'
<1>1. /\ UNCHANGED <<config, cur, used, queue, frames, isStopped>> /\ ~isStopped
      /\ app \in {"idle", CallOf(d), WaitOf(d)} /\ app' \in {"idle", CallOf(d), WaitOf(d)}
  <2>1. TypeInv /\ LifeInv BY DEF IInv
  <2>2. Transfers(d) BY DEF Transfers
  <2>3. UNCHANGED <<config, cur, used, queue, frames, isStopped>>
    BY DEF BeginTransfer, TransferWait, TransferTimeout, shared, buffers, driver
  <2> QED BY <2>1, <2>2, <2>3, TransferFrame
<1>2. {app, app'} \subseteq {"idle", "read", "write", "readWait", "writeWait"}
  BY <1>1 DEF CallOf, WaitOf
<1>3. \A e \in Direction : Streaming(e)' <=> Streaming(e) BY <1>1, <1>2 DEF Streaming
<1>4. DrainInv' BY <1>2 DEF DrainInv
<1>5. app \notin Draining /\ app' \notin Draining BY <1>2 DEF Draining
<1>6. app' \notin {"startIn", "startOut"} BY <1>2
<1> QED BY <1>1, <1>3, <1>4, <1>5, <1>6, DataSame

\* The flags and the devices at the end of Pa_StartStream.
LEMMA DataAfterStart ==
  ASSUME IInv, config.blocking, ~MayFail, DataInv, UNCHANGED frames, StartFlags \/ StartDevices
  PROVE  DataInv'
<1>1. LifeInv BY DEF IInv
<1>2. /\ UNCHANGED <<config, cur, used, queue>> /\ isStopped' = FALSE
      /\ \/ app = "startFlags" /\ app' = "startDevices"
         \/ app = "startDevices" /\ app' = "idle" /\ ~isStopped
  BY <1>1 DEF StartFlags, StartDevices, shared, buffers, driver, LifeInv, Starting
<1>3. \A e \in Direction : Streaming(e)' <=> Streaming(e) BY <1>2 DEF Streaming
<1>4. DrainInv' BY <1>2 DEF DrainInv
<1>5. app \notin Draining /\ app' \notin Draining BY <1>2 DEF Draining
<1> QED BY <1>2, <1>3, <1>4, <1>5, DataSame

\* The frames in the buffers count until they are reset, and not after.
LEMMA DataAfterStop ==
  ASSUME IInv, config.blocking, ~MayFail, DataInv, processingThread = NoThread,
         UNCHANGED frames,
         StopStream \/ StopDone \/ AbortStream \/ AbortWait \/ CloseStream
  PROVE  DataInv'
<1>1. TypeInv /\ LifeInv BY DEF IInv
<1>2. /\ UNCHANGED <<config, cur, used, queue>>
      /\ \/ app = "idle" /\ ~isStopped /\ ~isStopped'
            /\ app' = IF Uses("out") THEN "stopFlush" ELSE "stopReset"
         \/ app = "stopDone" /\ isStopped' /\ app' = "idle"
         \/ app = "idle" /\ ~isStopped /\ ~isStopped' /\ app' = "abortReset"
         \/ app = "abortWait" /\ isStopped' /\ app' \in {"close", "idle"}
         \/ app \in {"close", "idle"} /\ isStopped /\ isStopped' /\ app' = "idle"
  <2>1. CASE StopStream BY <2>1 DEF StopStream, buffers, driver
  <2>2. CASE StopDone BY <2>2 DEF StopDone, buffers, driver
  <2>3. CASE AbortStream BY <2>3 DEF AbortStream, buffers, driver
  <2>4. CASE AbortWait BY <2>4 DEF AbortWait, buffers, driver, ThreadHasEnded
  <2>5. CASE CloseStream BY <1>1, <2>5 DEF CloseStream, buffers, driver, LifeInv, Starting
  <2> QED BY <2>1, <2>2, <2>3, <2>4, <2>5
<1>3. \A e \in Direction : Streaming(e)' <=> Streaming(e)
  <2>1. isStopped \in BOOLEAN BY <1>1 DEF TypeInv
  <2> QED BY <1>2, <2>1 DEF Streaming
<1>4. app' \notin {"startIn", "startOut"} BY <1>2
<1>5. DrainInv'
  <2>1. Uses("out")' = Uses("out") BY <1>2 DEF Uses, BufferCount
  <2> QED BY <1>2, <2>1 DEF DrainInv
<1>6. app \notin Draining BY <1>2 DEF Draining
<1>7. WrittenInv' \/ app' \notin Draining
  <2> SUFFICES ASSUME app' \in Draining PROVE WrittenInv' OBVIOUS
  <2>1. app = "idle" /\ ~isStopped /\ ~Uses("out") BY <1>2 DEF Draining
  <2>2. WrittenInv BY <2>1 DEF DataInv, Streaming
  <2>3. used["out"] = 0 BY <2>1, DataTypes DEF Direction
  <2>4. Given + 0 = Lead + written BY <1>6, <2>2, <2>3 DEF WrittenInv
  <2>5. Given' = Given /\ Lead' = Lead BY <1>2, SameOutput DEF frames
  <2>6. Given \in Nat /\ Lead \in Nat /\ written \in Nat
    BY GivenType, LeadType DEF DataInv, PlayedInv
  <2>7. Given' >= Lead' + written' /\ used'["out"] = 0
    BY <1>2, <2>3, <2>4, <2>5, <2>6 DEF frames
  <2> QED BY <2>7 DEF WrittenInv
<1> QED BY <1>2, <1>3, <1>4, <1>5, <1>6, <1>7, DataSame

\* With every wait there is one buffer less to be played, or one event less.
LEMMA DataAfterDrain ==
  ASSUME IInv, config.blocking, ~MayFail, DataInv, UNCHANGED frames, StopDrain \/ StopDrainWait
  PROVE  DataInv'
<1> DEFINE L == Len(queue["out"])
           n == BufferCount("out")
<1>1. TypeInv /\ QueueInv /\ LifeInv BY DEF IInv
<1>2. n \in Nat /\ L \in Nat /\ queue["out"] \in Seq(Buffer("out")) /\ waitCount \in Nat
  <2>1. waitCount \in 0..n+1 /\ n \in Nat BY <1>1, DataTypes DEF TypeInv, Direction
  <2> HIDE DEF n
  <2>2. waitCount \in Nat BY <2>1
  <2> USE DEF n
  <2> QED BY <2>1, <2>2, DataTypes DEF Direction
<1>3. /\ UNCHANGED <<config, cur, used, queue, isStopped>> /\ ~isStopped
      /\ app \in {"stopDrain", "stopDrainWait"}
      /\ app' \in {"stopDrain", "stopDrainWait", "stopReset"}
  BY <1>1 DEF StopDrain, StopDrainWait, buffers, driver, shared, LifeInv, Starting
<1>4. \A e \in Direction : Streaming(e)' <=> Streaming(e) BY <1>3 DEF Streaming
<1>5. app \in Draining /\ app' \in Draining BY <1>3 DEF Draining
<1>6. BufferCount("out")' = n BY <1>3 DEF BufferCount
<1>7. ~waitTimedOut => L + waitCount + (IF event["out"] THEN 1 ELSE 0) <= n + 1
  BY <1>3 DEF DataInv, DrainInv
<1>8. DrainInv'
  <2>1. CASE StopDrain
    <3>1. UNCHANGED <<event, waitCount, waitTimedOut>> BY <2>1 DEF StopDrain, local
    <3>2. ASSUME app' = "stopReset", ~waitTimedOut PROVE queue["out"] = <<>>
      <4>1. CASE NoBuffersAreQueued("out")
        BY <1>1, <4>1, AllDoneNoneQueued DEF Direction
      <4>2. CASE waitCount > n
        <5>1. L = 0
          <6> DEFINE e == IF event["out"] THEN 1 ELSE 0
          <6>1. L + waitCount + e <= n + 1 /\ e \in {0, 1} BY <1>7, <3>2
          <6> HIDE DEF L, n, e
          <6> QED BY <1>2, <4>2, <6>1
        <5> QED BY <1>2, <5>1
      <4> QED BY <1>2, <2>1, <3>2, <4>1, <4>2 DEF StopDrain, WaitsAreLeft
    <3> QED BY <1>3, <1>6, <1>7, <3>1, <3>2 DEF DrainInv
  <2>2. CASE StopDrainWait
    <3>1. waitCount' = waitCount + 1
          /\ \/ event["out"] /\ ~event'["out"] /\ app' = "stopDrain" /\ waitTimedOut' = waitTimedOut
             \/ waitTimedOut'
      BY <1>1, <2>2 DEF StopDrainWait, TypeInv, Direction
    <3>2. ASSUME ~waitTimedOut'
          PROVE  L + waitCount' + (IF event'["out"] THEN 1 ELSE 0) <= n + 1
      <4>1. L + waitCount + 1 <= n + 1 /\ ~event'["out"] BY <1>7, <3>1, <3>2
      <4> HIDE DEF L, n
      <4> QED BY <1>2, <3>1, <4>1
    <3> QED BY <1>3, <1>6, <3>1, <3>2 DEF DrainInv
  <2> QED BY <2>1, <2>2
<1> QED BY <1>3, <1>4, <1>5, <1>8, DataSame

-----------------------------------------------------------------------------
(* A start, a flush and a reset.                                           *)

\* What the steps do to the frames that are not in buffers.
LEMMA FramesStay ==
  ASSUME DataInv, UNCHANGED <<config, read, written, captured, played>>
  PROVE  /\ Lead' = Lead /\ ReadInv' /\ PlayedInv'
         /\ \A d \in Direction : BufferCount(d)' = BufferCount(d) /\ Chunks(d)' = Chunks(d)
                                 /\ Buffer(d)' = Buffer(d) /\ Uses(d)' = Uses(d)
<1>1. \A d \in Direction : BufferCount(d)' = BufferCount(d) /\ Chunks(d)' = Chunks(d)
                           /\ Buffer(d)' = Buffer(d) /\ Uses(d)' = Uses(d)
  BY DEF BufferCount, Chunks, Buffer, Uses
<1>2. Lead' = Lead BY <1>1 DEF Lead, Direction
<1> QED BY <1>1, <1>2 DEF DataInv, ReadInv, PlayedInv

LEMMA DataAfterBegin ==
  ASSUME IInv, config.blocking, ~MayFail, DataInv, BlockingStart
  PROVE  DataInv'
<1>1. /\ app = "idle" /\ isStopped /\ isStopped' /\ app' = "startIn"
      /\ UNCHANGED <<config, cur, used, queue, content>>
  BY DEF BlockingStart, StartStream, shared, buffers, driver
<1>2. captured' = 0 /\ read' = <<>> /\ written' = 0 /\ played' = <<>> BY DEF BlockingStart
<1>3. \A d \in Direction : ~Streaming(d) /\ ~Streaming(d)' BY <1>1 DEF Streaming
<1>4. queue'["in"] = <<>> /\ queue'["out"] = <<>> BY <1>1, <1>3 DEF DataInv, Direction
<1>5. ReadInv'
  <2>1. <<>> = CountedFrom(0, 0) BY DEF CountedFrom
  <2> QED BY <1>2, <2>1 DEF ReadInv
<1>6. PlayedInv' BY <1>2 DEF PlayedInv
<1>7. \A d \in Direction : Buffer(d)' = Buffer(d) /\ Chunks(d)' = Chunks(d)
  BY <1>1, SameDirection
<1>8. ContentInv' BY <1>1, <1>7 DEF DataInv, ContentInv
<1>9. StartedInv' /\ DrainInv' BY <1>1, <1>2 DEF StartedInv, DrainInv
<1> QED BY <1>3, <1>4, <1>5, <1>6, <1>8, <1>9 DEF DataInv, Direction

\* A direction that starts has all its buffers queued.
LEMMA StartQueues ==
  ASSUME IInv, ~MayFail, config' = config, NEW d \in Direction, queue[d] = <<>>,
         NEW k \in 0..BufferCount(d), QueueBuffers(d, k)
  PROVE  /\ k = BufferCount(d) /\ used'[d] = 0
         /\ queue'[d] \in Seq(Buffer(d)) /\ Len(queue'[d]) = BufferCount(d)
         /\ \A e \in Direction \ {d} : UNCHANGED <<cur[e], used[e], queue[e]>>
<1>1. TypeInv /\ QueueInv /\ CursorInv /\ BufferCount(d) \in Nat BY DataTypes
<1>2. ~InQueue(d, k) BY DEF InQueue
<1>3. k = BufferCount(d) BY <1>1, <1>2 DEF QueueBuffers
<1>4. /\ used'[d] = 0 /\ QueueInv'
      /\ \A e \in Direction \ {d} : UNCHANGED <<cur[e], used[e], queue[e]>>
  BY <1>1, <1>3, QueueBuffersEffect
<1>5. queue'[d] = <<>> \o [i \in 1..k |-> i - 1] BY <1>1 DEF QueueBuffers, QueueInv
<1>6. Len(queue'[d]) = k
  <2> DEFINE s == [i \in 1..k |-> i - 1]
  <2>1. s \in Seq(Int) /\ Len(s) = k BY <1>1
  <2> HIDE DEF s
  <2>2. <<>> \o s = s BY <2>1
  <2> QED BY <1>5, <2>1, <2>2 DEF s
<1>7. Buffer(d)' = Buffer(d) BY DEF Buffer, BufferCount
<1> QED BY <1>3, <1>4, <1>6, <1>7 DEF QueueInv, QueueOk

\* No frame has been captured when the input device gets its buffers.
LEMMA DataAfterInput ==
  ASSUME IInv, config.blocking, ~MayFail, DataInv, UNCHANGED frames, StartInput
  PROVE  DataInv'
<1> USE DEF Direction
<1>1. LifeInv BY DEF IInv
<1>2. /\ app = "startIn" /\ isStopped /\ isStopped' /\ config' = config
  BY <1>1 DEF StartInput, shared, LifeInv, Starting
<1>3. \A d \in Direction : ~Streaming(d) BY <1>2 DEF Streaming
<1>4. queue["in"] = <<>> /\ queue["out"] = <<>> BY <1>3 DEF DataInv
<1>5. PICK k \in 0..BufferCount("in") :
        /\ QueueBuffers("in", k)
        /\ app' = IF k = BufferCount("in") THEN "startOut" ELSE "idle"
  BY DEF StartInput
<1>6. /\ k = BufferCount("in") /\ used'["in"] = 0
      /\ queue'["in"] \in Seq(Buffer("in")) /\ Len(queue'["in"]) = BufferCount("in")
      /\ UNCHANGED <<cur["out"], used["out"], queue["out"]>>
  BY <1>2, <1>4, <1>5, StartQueues
<1>7. app' = "startOut" BY <1>5, <1>6
<1>8. captured = 0 /\ read = <<>> /\ written = 0 /\ played = <<>>
  BY <1>2 DEF DataInv, StartedInv
<1>9. /\ Lead' = Lead /\ ReadInv' /\ PlayedInv'
      /\ \A d \in Direction : BufferCount(d)' = BufferCount(d) /\ Chunks(d)' = Chunks(d)
                              /\ Buffer(d)' = Buffer(d) /\ Uses(d)' = Uses(d)
  BY <1>2, FramesStay DEF frames
<1>10. InputData'
  <2>1. Ready("in")' = 0
    <3>1. BufferCount("in") \in Nat BY DataTypes
    <3> QED BY <1>6, <1>9, <3>1 DEF Ready
  <2>2. 0 * Chunks("in") = 0 BY DataTypes
  <2> QED BY <1>6, <1>8, <1>9, <2>1, <2>2 DEF InputData, frames
<1>11. Streaming("in")' /\ ~Streaming("out")' /\ queue'["out"] = <<>>
  BY <1>2, <1>4, <1>6, <1>7 DEF Streaming
<1>12. StartedInv' /\ DrainInv' BY <1>7, <1>8 DEF StartedInv, DrainInv, frames
<1>13. ContentInv' BY <1>9 DEF DataInv, ContentInv, frames
<1> QED BY <1>9, <1>10, <1>11, <1>12, <1>13 DEF DataInv

\* The output device gets silence.
LEMMA DataAfterOutput ==
  ASSUME IInv, config.blocking, ~MayFail, DataInv, BlockingStartOutput
  PROVE  DataInv'
<1> DEFINE F == Chunks("out")
           n == BufferCount("out")
           q == queue'["out"]
<1> USE DEF Direction, FramesPerBuffer
<1>1. LifeInv BY DEF IInv
<1>2. /\ app = "startOut" /\ isStopped /\ isStopped' /\ config' = config
      /\ UNCHANGED <<captured, read, written, played>>
  BY <1>1 DEF BlockingStartOutput, StartOutput, shared, LifeInv, Starting
<1>3. Streaming("in") /\ ~Streaming("out") BY <1>2 DEF Streaming
<1>4. queue["out"] = <<>> /\ InputData BY <1>3 DEF DataInv
<1>5. PICK k \in 0..n :
        /\ QueueBuffers("out", k)
        /\ app' = IF k = n THEN "startFlags" ELSE "idle"
  BY DEF BlockingStartOutput, StartOutput
<1>6. /\ k = n /\ used'["out"] = 0 /\ q \in Seq(Buffer("out")) /\ Len(q) = n
      /\ UNCHANGED <<cur["in"], used["in"], queue["in"]>>
  BY <1>2, <1>4, <1>5, StartQueues
<1>7. app' = "startFlags" BY <1>5, <1>6
<1>8. written = 0 /\ played = <<>> BY <1>2 DEF DataInv, StartedInv
<1>9. /\ Lead' = Lead /\ ReadInv' /\ PlayedInv'
      /\ \A d \in Direction : BufferCount(d)' = BufferCount(d) /\ Chunks(d)' = Chunks(d)
                              /\ Buffer(d)' = Buffer(d) /\ Uses(d)' = Uses(d)
  BY <1>2, FramesStay
<1>10. /\ DOMAIN content' = Direction /\ content'["in"] = content["in"]
       /\ content'["out"] = [b \in Buffer("out") |-> Silence(F)]
       /\ content["in"] \in [Buffer("in") -> [1..Chunks("in") -> Nat]]
  BY DEF BlockingStartOutput, DataInv, ContentInv
<1>11. Silence(F) \in [1..F -> Nat] /\ \A j \in 1..F : Silence(F)[j] = 0 BY DEF Silence
<1>12. ContentInv'
  <2>1. content'["out"] \in [Buffer("out") -> [1..F -> Nat]] BY <1>10, <1>11
  <2> QED BY <1>9, <1>10, <2>1 DEF ContentInv
<1>13. n \in Nat /\ F \in Nat \ {0} /\ Lead \in Nat BY DataTypes, LeadType
<1>14. OutputData'
  <2>1. ASSUME NEW i \in 1..Len(q), NEW j \in 1..F
        PROVE  content'["out"][q[i]][j] = Frame(Len(played') + (i - 1) * F + j, Lead', written')
    <3>1. q[i] \in Buffer("out") BY <1>6
    <3>2. content'["out"][q[i]][j] = 0 BY <1>10, <1>11, <3>1
    <3>3. \A p : Frame(p, Lead, 0) = 0 \/ (Lead < p /\ p <= Lead + 0) BY DEF Frame
    <3>4. (i - 1) * F \in Int
      <4>1. i - 1 \in Int /\ F \in Int BY <1>6, <1>13
      <4> QED BY <4>1, Times
    <3> DEFINE p == Len(played') + (i - 1) * F + j
    <3>5. p \in Int
      <4> DEFINE y == (i - 1) * F
      <4>1. Len(played') = 0 /\ y \in Int /\ j \in Int BY <1>2, <1>8, <1>13, <3>4
      <4> HIDE DEF y
      <4> QED BY <4>1 DEF y
    <3> HIDE DEF p
    <3>6. Frame(p, Lead, 0) = 0 BY <1>13, <3>3, <3>5
    <3> USE DEF p
    <3> QED BY <1>2, <1>8, <1>9, <3>2, <3>6
  <2> HIDE DEF q
  <2>2. \A j \in 1..used'["out"] :
          content'["out"][cur'["out"]][j] = Frame(Given' + j, Lead', written')
    BY <1>6
  <2> QED BY <1>9, <2>1, <2>2 DEF OutputData, q
<1>15. WrittenInv'
  <2>1. Given' = 0 + n * F BY <1>2, <1>6, <1>8, <1>9 DEF Given
  <2>2. Lead' = n * F BY <1>9 DEF Lead
  <2>3. Lead' \in Nat BY <1>9, <1>13
  <2>4. app' \notin Draining BY <1>7 DEF Draining
  <2>5. Given' + used'["out"] = Lead' + written'
    <3> DEFINE y == n * F
    <3>1. y \in Nat /\ Given' = 0 + y /\ Lead' = y BY <2>1, <2>2, <2>3
    <3> HIDE DEF y
    <3> QED BY <1>2, <1>6, <1>8, <3>1
  <2> QED BY <2>4, <2>5 DEF WrittenInv
<1>16. Streaming("in")' /\ Streaming("out")' BY <1>7 DEF Streaming
<1>17. InputData' BY <1>2, <1>4, <1>6, <1>10, SameInput
<1>18. StartedInv' /\ DrainInv' BY <1>7 DEF StartedInv, DrainInv
<1> QED BY <1>9, <1>12, <1>14, <1>15, <1>16, <1>17, <1>18 DEF DataInv

\* What is reset is over: frames in its buffers are dropped.
LEMMA DataAfterReset ==
  ASSUME IInv, config.blocking, ~MayFail, DataInv, UNCHANGED frames, StopReset \/ AbortReset
  PROVE  DataInv'
<1>1. LifeInv BY DEF IInv
<1>2. /\ config' = config /\ app' \in {"stopDone", "abortWait"} /\ Reset(Direction)
  BY DEF StopReset, AbortReset, shared
<1>3. queue'["in"] = <<>> /\ queue'["out"] = <<>> BY <1>2 DEF Reset, Direction
<1>4. \A d \in Direction : ~Streaming(d)' BY <1>2 DEF Streaming
<1>5. StartedInv' /\ DrainInv' BY <1>2 DEF StartedInv, DrainInv
<1>6. /\ ReadInv' /\ PlayedInv'
      /\ \A d \in Direction : Chunks(d)' = Chunks(d) /\ Buffer(d)' = Buffer(d)
  BY <1>2, FramesStay DEF frames
<1>7. ContentInv' BY <1>6 DEF DataInv, ContentInv, frames
<1> QED BY <1>3, <1>4, <1>5, <1>6, <1>7 DEF DataInv, Direction

\* The buffer that is flushed ends with silence.
LEMMA DataAfterFlush ==
  ASSUME IInv, config.blocking, ~MayFail, DataInv, BlockingStopFlush
  PROVE  DataInv'
<1> DEFINE F == Chunks("out")
           u == used["out"]
           W == written
           n == BufferCount("out")
           b == cur["out"]
           C == content["out"]
           q == queue["out"]
           L == Len(queue["out"])
           P == Len(played)
           G == Given
           new == [i \in DOMAIN C[b] |-> IF i > u THEN 0 ELSE C[b][i]]
<1> USE DEF Direction
<1>1. TypeInv /\ QueueInv /\ CursorInv /\ LifeInv /\ OrderInv /\ UsedInv BY DEF IInv
<1>2. /\ app = "stopFlush" /\ app' = "stopDrain" /\ ~isStopped
      /\ waitCount' = 0 /\ waitTimedOut' = FALSE
      /\ UNCHANGED <<config, isStopped, event, captured, read, written, played>>
  BY <1>1 DEF BlockingStopFlush, StopFlush, shared, LifeInv, Starting
<1>3. InputData /\ Streaming("in") /\ Streaming("out") /\ OutputData /\ WrittenInv
      /\ PlayedInv /\ ContentInv
  BY <1>2 DEF DataInv, Streaming
<1>4. /\ n \in Nat /\ F \in Nat \ {0} /\ u \in Nat /\ u < F /\ L \in Nat
      /\ q \in Seq(Buffer("out")) /\ b \in Nat /\ (b = 0 \/ b < n) /\ L <= n
      /\ (~Uses("out") => u = 0)
  BY DataTypes
<1>5. /\ Lead' = Lead /\ ReadInv' /\ PlayedInv'
      /\ \A d \in Direction : BufferCount(d)' = BufferCount(d) /\ Chunks(d)' = Chunks(d)
                              /\ Buffer(d)' = Buffer(d) /\ Uses(d)' = Uses(d)
  BY <1>2, FramesStay
<1>6. /\ W \in Nat /\ P \in Nat /\ G \in Nat /\ Lead \in Nat
  BY <1>3, LeadType, GivenType DEF PlayedInv
<1>7. G + u = Lead + W BY <1>2, <1>3 DEF WrittenInv, Draining
<1>8. /\ DOMAIN content = Direction /\ C \in [Buffer("out") -> [1..F -> Nat]]
      /\ content["in"] \in [Buffer("in") -> [1..Chunks("in") -> Nat]]
  BY <1>3 DEF ContentInv
<1>9. /\ DOMAIN content' = Direction /\ content'["in"] = content["in"]
      /\ content'["out"] = IF u > 0 THEN [C EXCEPT ![b] = new] ELSE C
  <2>1. CASE u > 0
    <3>1. content' = [content EXCEPT !["out"][b] = new] BY <2>1 DEF BlockingStopFlush
    <3> HIDE DEF new, b, u
    <3> QED BY <1>8, <2>1, <3>1
  <2>2. CASE ~(u > 0) BY <1>8, <2>2 DEF BlockingStopFlush
  <2> QED BY <2>1, <2>2
<1>10. Streaming("in")' /\ Streaming("out")' BY <1>2 DEF Streaming
<1>11. StartedInv' BY <1>2 DEF StartedInv
<1>12. CASE u = 0
  <2>1. UNCHANGED <<cur, used, queue>> BY <1>12 DEF BlockingStopFlush, StopFlush, buffers
  <2>2. content'["out"] = content["out"] BY <1>9, <1>12
  <2>3. ContentInv' BY <1>5, <1>8, <1>9, <2>2 DEF ContentInv
  <2>4. InputData' BY <1>2, <1>3, <1>9, <2>1, SameInput
  <2>5. OutputData' /\ Given' = G BY <1>2, <1>3, <2>1, <2>2, SameOutput
  <2>6. WrittenInv'
    <3>1. G >= Lead + W
      <4> HIDE DEF G, W, u
      <4> QED BY <1>6, <1>7, <1>12
    <3> QED BY <1>2, <1>5, <1>12, <2>1, <2>5, <3>1 DEF WrittenInv, Draining
  <2>7. DrainInv'
    <3>1. L + 0 + (IF event["out"] THEN 1 ELSE 0) <= n + 1
      <4> DEFINE e == IF event["out"] THEN 1 ELSE 0
      <4>1. e \in {0, 1} OBVIOUS
      <4> HIDE DEF L, n, e
      <4>2. L + 0 + e <= n + 1 BY <1>4, <4>1
      <4> QED BY <4>2 DEF e
    <3> QED BY <1>2, <1>5, <2>1, <3>1 DEF DrainInv
  <2> QED BY <1>5, <1>10, <1>11, <2>3, <2>4, <2>5, <2>6, <2>7 DEF DataInv
<1>13. CASE u > 0
  <2>1. Uses("out") /\ whdrDone["out"][b] BY <1>1, <1>2, <1>4, <1>13 DEF UsedInv
  <2>2. b \in Buffer("out") BY <1>4, <2>1 DEF Uses, Buffer
  <2>3. ~InQueue("out", b) BY <1>1, <2>1, <2>2, QueueFacts
  <2>4. PICK ok \in BOOLEAN : AdvanceToNextBuffer("out", ok)
    BY <1>13 DEF BlockingStopFlush, StopFlush
  <2>5. /\ UNCHANGED <<cur["in"], used["in"], queue["in"]>>
        /\ used'["out"] = 0 /\ queue'["out"] = Append(q, b)
    <3>1. /\ \A e \in Direction \ {"out"} : UNCHANGED <<cur[e], used[e], queue[e]>>
          /\ used'["out"] = 0
          /\ ok => queue'["out"] = Append(q, b)
          /\ ok \/ MayFail \/ InQueue("out", b)
      BY <1>1, <1>2, <2>1, <2>4, AdvanceEffect
    <3> QED BY <2>3, <3>1
  <2>6. /\ Len(Append(q, b)) = L + 1 /\ Append(q, b)[L + 1] = b
        /\ \A i \in 1..L : Append(q, b)[i] = q[i]
    BY <1>4, <2>2
  <2>7. L + 1 <= n
    <3>1. InOrder("out") BY <1>3, StreamingInOrder
    <3>2. Ready("out") >= 1 BY <2>1, <2>3, <3>1, OldestIsNext
    <3>3. Ready("out") = n - L BY DataTypes
    <3> HIDE DEF L, n
    <3> QED BY <1>4, <3>2, <3>3
  <2>8. /\ new \in [1..F -> Nat]
        /\ \A j \in 1..F : new[j] = IF j > u THEN 0 ELSE C[b][j]
    <3>1. C[b] \in [1..F -> Nat] BY <1>8, <2>2
    <3>2. DOMAIN C[b] = 1..F BY <3>1
    <3>3. \A j \in 1..F : (IF j > u THEN 0 ELSE C[b][j]) \in Nat BY <3>1
    <3> HIDE DEF C, b, u, F
    <3> QED BY <3>2, <3>3
  <2>9. /\ content'["out"] \in [Buffer("out") -> [1..F -> Nat]]
        /\ content'["out"][b] = new
        /\ \A c \in Buffer("out") : c # b => content'["out"][c] = C[c]
    <3> HIDE DEF new, b, C, F, u
    <3> QED BY <1>8, <1>9, <1>13, <2>2, <2>8
  <2>10. ContentInv' BY <1>5, <1>8, <1>9, <2>9 DEF ContentInv
  <2>11. InputData' BY <1>2, <1>3, <1>9, <2>5, SameInput
  <2>12. L * F \in Int /\ (L + 1) * F = L * F + F
    <3>1. L \in Int /\ F \in Int BY <1>4
    <3> QED BY <3>1, Times
  <2>13. Given' = G + F
    <3> DEFINE y == L * F
               z == (L + 1) * F
    <3>1. Given' = P + z BY <1>2, <1>5, <2>5, <2>6 DEF Given
    <3>2. G = P + y BY DEF Given
    <3>3. z = y + F /\ y \in Int /\ F \in Int /\ P \in Int BY <1>4, <1>6, <2>12
    <3> HIDE DEF y, z, F, P, G
    <3> QED BY <3>1, <3>2, <3>3
  <2>14. WrittenInv'
    <3>1. G + F >= Lead + W
      <4> HIDE DEF G, F, W, u
      <4> QED BY <1>4, <1>6, <1>7
    <3> QED BY <1>2, <1>5, <2>5, <2>13, <3>1 DEF WrittenInv, Draining
  <2>15. \A i \in 1..L, j \in 1..F :
           content'["out"][q[i]][j] = Frame(P + (i - 1) * F + j, Lead, W)
    <3> SUFFICES ASSUME NEW i \in 1..L, NEW j \in 1..F
                 PROVE  content'["out"][q[i]][j] = Frame(P + (i - 1) * F + j, Lead, W)
      OBVIOUS
    <3>1. C[q[i]][j] = Frame(P + (i - 1) * F + j, Lead, W) BY <1>3 DEF OutputData
    <3>2. q[i] \in Buffer("out") /\ q[i] # b BY <1>4, <2>3 DEF InQueue
    <3>3. content'["out"][q[i]] = C[q[i]] BY <2>9, <3>2
    <3> HIDE DEF C
    <3> QED BY <3>1, <3>3
  <2>16. \A j \in 1..F : content'["out"][b][j] = Frame(G + j, Lead, W)
    <3> SUFFICES ASSUME NEW j \in 1..F PROVE content'["out"][b][j] = Frame(G + j, Lead, W)
      OBVIOUS
    <3>1. CASE j <= u
      <4>1. j \in 1..u /\ ~(j > u) BY <1>4, <3>1
      <4>2. C[b][j] = Frame(G + j, Lead, W) BY <1>3, <4>1 DEF OutputData
      <4>3. new[j] = C[b][j] BY <2>8, <4>1
      <4> HIDE DEF new, b, C, G
      <4> QED BY <2>9, <4>2, <4>3
    <3>2. CASE j > u
      <4>1. new[j] = 0 BY <2>8, <3>2
      <4>2. ~(G + j <= Lead + W)
        <5> HIDE DEF G, W, u, F
        <5> QED BY <1>4, <1>6, <1>7, <3>2
      <4>3. Frame(G + j, Lead, W) = 0 BY <4>2 DEF Frame
      <4> HIDE DEF new, b, G, W
      <4> QED BY <2>9, <4>1, <4>3
    <3> QED BY <1>4, <3>1, <3>2
  <2>17. OutputData'
    <3>1. ASSUME NEW i \in 1..L+1, NEW j \in 1..F
          PROVE  content'["out"][Append(q, b)[i]][j] = Frame(P + (i - 1) * F + j, Lead, W)
      <4>1. CASE i \in 1..L BY <2>6, <2>15, <4>1
      <4>2. CASE i = L + 1
        <5>1. content'["out"][b][j] = Frame(G + j, Lead, W) BY <2>16
        <5>2. (L + 1) - 1 = L BY <1>4
        <5>3. P + (i - 1) * F + j = G + j BY <4>2, <5>2 DEF Given
        <5> QED BY <2>6, <4>2, <5>1, <5>3
      <4> QED BY <1>4, <4>1, <4>2
    <3>2. /\ Chunks("out")' = F /\ Len(played') = P
          /\ queue'["out"] = Append(q, b) /\ Len(Append(q, b)) = L + 1
          /\ written' = W
      BY <1>2, <1>5, <2>5, <2>6
    <3>3. \A j \in 1..used'["out"] :
            content'["out"][cur'["out"]][j] = Frame(Given' + j, Lead, W)
      BY <2>5
    <3> HIDE DEF F, L, P, q, b, W
    <3> QED BY <1>5, <3>1, <3>2, <3>3 DEF OutputData
  <2>18. DrainInv'
    <3> DEFINE e == IF event["out"] THEN 1 ELSE 0
    <3>1. L + 1 + 0 + e <= n + 1
      <4>1. e \in {0, 1} OBVIOUS
      <4> HIDE DEF L, n, e
      <4> QED BY <1>4, <2>7, <4>1
    <3> QED BY <1>2, <1>5, <2>5, <2>6, <3>1 DEF DrainInv
  <2> QED BY <1>5, <1>10, <1>11, <2>10, <2>11, <2>14, <2>17, <2>18 DEF DataInv
<1> QED BY <1>4, <1>12, <1>13

-----------------------------------------------------------------------------
(* Calls that ask for no more than the available frames.                   *)

LEMMA ConfigStays ==
  ASSUME IInv, StreamNext
  PROVE  config' = config
<1>1. TypeInv /\ LifeInv BY DEF IInv
<1>2. CASE \E t \in Threads : ThreadStep(t) BY <1>1, <1>2, ThreadFrame
<1>3. CASE \E d \in Direction : DriverDone(d) BY <1>3 DEF DriverDone, shared
<1>4. CASE Calls
  BY <1>4
  DEF Calls, StartStream, StartInput, StartOutput, StartFlags, StartThread, StartDevices,
      StopStream, StopFlush, StopDrain, StopDrainWait, StopWait, StopWaitAgain, StopReset,
      StopDone, AbortStream, AbortReset, AbortWait, CloseStream, shared
<1>5. CASE config.blocking /\ \E d \in Direction : Transfers(d)
  BY <1>1, <1>5, TransferFrame DEF shared
<1> QED BY <1>2, <1>3, <1>4, <1>5, StepCases

\* Only the calls ask.
LEMMA CoverStays ==
  ASSUME CoverInv, app \notin {"read", "write"}, covered' = covered
  PROVE  CoverInv'
<1>1. ~covered BY DEF CoverInv, CallOf
<1> QED BY <1>1 DEF CoverInv

\* GetAvailableFrames counts buffers that are done, in ring order.
LEMMA CoverBegins ==
  ASSUME IInv, config.blocking, NEW d \in Direction, NEW m \in 1..MaxTransfer,
         BeginTransfer(d, m)
  PROVE  CoverInv'
<1> DEFINE n == BufferCount(d)
           F == Chunks(d)
           pending == {i \in 0..n-1 : ~whdrDone[d][(cur[d] + i) % n]}
           count == IF pending = {} THEN n ELSE Min(pending)
<1>1. /\ TypeInv /\ CursorInv /\ Uses(d) /\ MaxTransfer \in Nat
      /\ n \in Nat \ {0} /\ F \in Nat \ {0} /\ used[d] \in Nat
      /\ cur[d] \in Nat /\ (cur[d] = 0 \/ cur[d] < n)
  BY DataTypes, AfterFacts, BlockingAssumption DEF BeginTransfer, BlockingAssumption
<1>2. /\ UNCHANGED <<config, cur, used, whdrDone>> /\ app' = CallOf(d) /\ left' = m
      /\ covered' = (m <= AvailableFrames(d))
  BY DEF BeginTransfer, shared, buffers, driver
<1>3. SUFFICES ASSUME covered' PROVE CoverInv' BY DEF CoverInv
<1>4. AvailableFrames(d) = IF count = 0 THEN 0 ELSE count * F - used[d]
  BY DEF AvailableFrames, BuffersAreDone, FramesPerBuffer
<1>5. count \in 0..n /\ \A i \in 0..count-1 : i \in 0..n-1 /\ i \notin pending
  <2>1. CASE pending = {} BY <1>1, <2>1
  <2>2. CASE pending # {}
    <3>1. pending \in SUBSET Nat /\ pending \in SUBSET (0..n-1) BY <1>1
    <3> HIDE DEF pending
    <3>2. \E x \in pending : \A y \in pending : x <= y BY <2>2, <3>1, SmallestExists
    <3>3. Min(pending) \in pending /\ \A y \in pending : Min(pending) <= y
      BY <3>2 DEF Min
    <3>4. count = Min(pending) BY <2>2
    <3>5. /\ count \in 0..n-1 /\ \A y \in pending : count <= y
      BY <3>1, <3>3, <3>4
    <3> HIDE DEF count, n
    <3>6. \A i \in 0..count-1 : i \in 0..n-1 /\ ~(count <= i) BY <1>1, <3>5
    <3>7. count \in 0..n BY <1>1, <3>5
    <3> QED BY <3>5, <3>6, <3>7
  <2> QED BY <2>1, <2>2
<1>6. \A i \in 0..n-1 : (cur[d] + i) % n = After(d, i)
  <2> SUFFICES ASSUME NEW i \in 0..n-1 PROVE (cur[d] + i) % n = After(d, i) OBVIOUS
  <2> DEFINE c == cur[d]
  <2>1. c \in Nat /\ c < n /\ i \in Nat /\ i < n /\ n \in Nat \ {0} BY <1>1
  <2>2. (c + i) % n = IF c + i < n THEN c + i ELSE c + i - n
    <3> HIDE DEF c, n
    <3>1. CASE c + i < n
      <4>1. (c + i) % n = IF c + i < 0 THEN c + i + n ELSE c + i
        <5>1. c + i \in Int /\ -n <= c + i BY <2>1
        <5> QED BY <2>1, <3>1, <5>1, ModSmall
      <4> QED BY <2>1, <3>1, <4>1
    <3>2. CASE ~(c + i < n)
      <4>1. c + i - n \in 0..n-1 BY <2>1, <3>2
      <4>2. n * 1 + (c + i - n) = c + i BY <2>1
      <4>3. (n * 1 + (c + i - n)) % n = c + i - n BY <2>1, <4>1, ModUnique
      <4> QED BY <3>2, <4>2, <4>3
    <3> QED BY <3>1, <3>2
  <2> QED BY <2>2 DEF After
<1>7. \A i \in 0..count-1 : whdrDone[d][After(d, i)] BY <1>5, <1>6
<1> HIDE DEF pending, count
<1>8. count \in 1..n /\ m + used[d] <= count * F
  <2>1. m \in Int /\ m >= 1 BY <1>1
  <2>0. m <= AvailableFrames(d) BY <1>2, <1>3
  <2>2. count # 0
    <3> SUFFICES ASSUME count = 0 PROVE FALSE OBVIOUS
    <3>1. AvailableFrames(d) = 0 BY <1>4
    <3> QED BY <2>0, <2>1, <3>1
  <2>3. m <= count * F - used[d] BY <1>4, <2>0, <2>2
  <2>4. count \in Int /\ F \in Int BY <1>1, <1>5
  <2>5. count * F \in Int BY <2>4, Times
  <2> DEFINE x == count * F
  <2>6. m <= x - used[d] /\ x \in Int BY <2>3, <2>5
  <2> HIDE DEF x
  <2>7. m + used[d] <= x BY <1>1, <2>1, <2>6
  <2> USE DEF x
  <2> QED BY <1>1, <1>5, <2>2, <2>7
<1>9. PICK c \in 1..n : c = count BY <1>8
<1>10. Covers(d, c)'
  <2>1. /\ BufferCount(d)' = n /\ Chunks(d)' = F /\ (\A i : After(d, i)' = After(d, i))
        /\ whdrDone' = whdrDone /\ left' = m /\ used' = used
    BY <1>2 DEF Chunks, After, BufferCount
  <2>2. m + used[d] <= c * F /\ \A i \in 0..c-1 : whdrDone[d][After(d, i)]
    BY <1>7, <1>8, <1>9
  <2> HIDE DEF n, F
  <2> QED BY <2>1, <2>2 DEF Covers, F
<1>11. BufferCount(d)' = n BY <1>2 DEF BufferCount
<1>12. config.blocking' /\ app' = CallOf(d)' BY <1>2 DEF CallOf
<1>13. c \in 1..BufferCount(d)' BY <1>11
<1> HIDE DEF n, F
<1> QED BY <1>10, <1>12, <1>13 DEF CoverInv

\* A round takes its frames from the first of the buffers that are covered.
LEMMA CoverGoesOn ==
  ASSUME IInv, config.blocking, CoverInv, NEW d \in Direction, Transfer(d)
  PROVE  CoverInv'
<1> DEFINE n == BufferCount(d)
           F == Chunks(d)
           u == used[d]
           m == Min({left, HostFrames(d)})
<1>1. TypeInv /\ QueueInv /\ CursorInv /\ UsedInv /\ CallInv BY DEF IInv
<1>2. SUFFICES ASSUME covered' PROVE CoverInv' BY DEF CoverInv
<1>3. /\ config' = config /\ app = CallOf(d) /\ app' # "idle" /\ covered /\ left' = left - m
  BY <1>2 DEF Transfer, shared
<1>4. Uses(d) BY <1>1, <1>3 DEF CallInv
<1>5. PICK c \in 1..n : Covers(d, c)
  <2>1. PICK e \in Direction : app = CallOf(e) /\ \E c \in 1..BufferCount(e) : Covers(e, c)
    BY <1>3 DEF CoverInv
  <2>2. e = d BY <1>3, <2>1 DEF CallOf, Direction
  <2> QED BY <2>1, <2>2
<1>6. /\ n \in Nat \ {0} /\ F \in Nat \ {0} /\ u \in Nat /\ left \in Nat
      /\ m \in Nat /\ u + m <= F /\ m <= left /\ FramesPerBuffer(d) = F
      /\ n' = n /\ F' = F
  BY <1>1, <1>3, <1>4, AfterFacts, DataTypes, TransferAmount DEF CallInv, BufferCount, Chunks
<1>7. /\ left + u <= c * F /\ c * F \in Int /\ (c - 1) * F = c * F - F
      /\ \A i \in 0..c-1 : whdrDone[d][After(d, i)]
  <2>1. c \in Int /\ F \in Int BY <1>6
  <2> QED BY <1>5, <2>1, Times DEF Covers
<1> HIDE DEF m
<1>8. CASE u + m = F
  <2>1. PICK ok \in BOOLEAN : AdvanceToNextBuffer(d, ok) /\ app' = IF ok /\ left' > 0 THEN app ELSE "idle"
    BY <1>6, <1>8 DEF Transfer, m
  <2>2. left' > 0 /\ app' = app BY <1>3, <2>1
  <2>3. /\ cur'[d] = After(d, 1) /\ used'[d] = 0
        /\ \A b \in Buffer(d) : b # cur[d] => whdrDone'[d][b] = whdrDone[d][b]
    BY <1>1, <1>3, <1>4, <2>1, AdvanceEffect
  <2> DEFINE x == c * F
             y == (c - 1) * F
  <2>4. left' \in Int /\ left' <= y /\ left' > 0
    <3>1. x \in Int /\ y = x - F /\ left + u <= x /\ left' = left - m BY <1>3, <1>7
    <3> HIDE DEF x, y, u, F
    <3> QED BY <1>6, <1>8, <2>2, <3>1
  <2>5. c - 1 \in 1..n
    <3>1. CASE c = 1
      <4>1. c - 1 = 0 /\ F \in Int BY <1>6, <3>1
      <4>2. y = 0 BY <4>1, Times
      <4> HIDE DEF y
      <4> QED BY <2>4, <4>2
    <3> QED BY <1>6, <3>1
  <2>6. ASSUME NEW i \in 0..(c-1)-1 PROVE whdrDone'[d][After(d, i)']
    <3>1. i \in Nat /\ i + 1 \in 1..n-1 /\ i + 1 \in 0..c-1 BY <1>6
    <3>2. After(d, i)' = After(d, i + 1) BY <1>3, <1>6, <2>3, <3>1, AfterStep
    <3>3. After(d, i + 1) \in Buffer(d) /\ After(d, i + 1) # cur[d]
      BY <1>1, <1>4, <3>1, AfterFacts
    <3> QED BY <1>7, <2>3, <3>1, <3>2, <3>3
  <2>7. Covers(d, c - 1)'
    <3>1. left' + used'[d] <= (c - 1) * Chunks(d)'
      <4>1. left' + 0 <= y
        <5> HIDE DEF y
        <5> QED BY <2>4
      <4> QED BY <1>6, <2>3, <4>1
    <3> QED BY <2>6, <3>1 DEF Covers
  <2> QED BY <1>3, <1>6, <2>2, <2>5, <2>7 DEF CoverInv, CallOf
<1>9. CASE u + m < F
  <2>1. /\ used' = [used EXCEPT ![d] = @ + m]
        /\ app' = IF left' > 0 THEN app ELSE "idle"
        /\ UNCHANGED <<cur, whdrDone>>
    BY <1>6, <1>9 DEF Transfer, m
  <2>2. used'[d] = u + m BY <1>1, <2>1 DEF CursorInv
  <2>3. app' = app BY <1>3, <2>1
  <2>4. \A i : After(d, i)' = After(d, i) BY <1>3, <2>1 DEF After, BufferCount
  <2>5. Covers(d, c)'
    <3> DEFINE x == c * F
    <3>1. left' + used'[d] <= x
      <4>1. left + u <= x /\ x \in Int /\ left' = left - m /\ used'[d] = u + m
        BY <1>3, <1>7, <2>2
      <4> HIDE DEF x, u, F
      <4> QED BY <1>6, <4>1
    <3> QED BY <1>6, <1>7, <2>1, <2>4, <3>1 DEF Covers
  <2> QED BY <1>3, <1>5, <1>6, <2>3, <2>5 DEF CoverInv, CallOf
<1> QED BY <1>6, <1>8, <1>9

\* The drivers only do more buffers.
LEMMA CoverAfterDriver ==
  ASSUME IInv, CoverInv, NEW e \in Direction, DriverDone(e), UNCHANGED request
  PROVE  CoverInv'
<1>1. TypeInv /\ QueueInv /\ CursorInv BY DEF IInv
<1>2. SUFFICES ASSUME covered PROVE CoverInv' BY DEF CoverInv, request
<1>3. PICK d \in Direction :
        /\ config.blocking /\ app = CallOf(d)
        /\ \E c \in 1..BufferCount(d) : Covers(d, c)
  BY <1>2 DEF CoverInv
<1>4. PICK c \in 1..BufferCount(d) : Covers(d, c) BY <1>3
<1>5. UNCHANGED <<config, cur, used, app, left>>
  BY DEF DriverDone, shared, buffers, call, request
<1>6. /\ BufferCount(d)' = BufferCount(d) /\ Chunks(d)' = Chunks(d)
      /\ \A i : After(d, i)' = After(d, i)
  BY <1>5 DEF BufferCount, Chunks, After
<1>7. BufferCount(d) \in Nat BY DataTypes
<1>8. ASSUME NEW i \in 0..c-1 PROVE whdrDone'[d][After(d, i)]
  <2>1. Uses(d) /\ i \in 0..BufferCount(d)-1 BY <1>7 DEF Uses
  <2>2. After(d, i) \in Buffer(d) BY <1>1, <2>1, AfterFacts
  <2>3. whdrDone[d][After(d, i)] BY <1>4 DEF Covers
  <2> QED BY <1>1, <2>2, <2>3, DoneKeepsQueue
<1>9. Covers(d, c)' BY <1>4, <1>5, <1>6, <1>8 DEF Covers
<1> QED BY <1>3, <1>5, <1>6, <1>9 DEF CoverInv, CallOf

LEMMA CoverStep ==
  ASSUME IInv, CoverInv, StreamNext
  PROVE  CoverInv'
<1>1. TypeInv /\ CursorInv /\ LifeInv /\ CallInv BY DEF IInv
<1>2. CASE ~config.blocking
  <2>1. ~covered BY <1>2 DEF CoverInv
  <2>2. covered' = covered BY <1>2 DEF StreamNext, request
  <2> QED BY <2>1, <2>2 DEF CoverInv
<1>3. CASE config.blocking
  <2>0. BlockingNext BY <1>3 DEF StreamNext
  <2>1. CASE \E d \in Direction : DriverTransfers(d)
    BY <2>1, CoverAfterDriver DEF DriverTransfers
  <2>2. CASE BlockingStart BY <2>2, CoverStays DEF BlockingStart, StartStream, request
  <2>3. ASSUME NEW d \in Direction, NEW m \in 1..MaxTransfer, BeginTransfer(d, m)
        PROVE  CoverInv'
    BY <1>3, <2>3, CoverBegins
  <2>4. ASSUME NEW d \in Direction, TransferTimeout(d) PROVE CoverInv'
    BY <2>4, CoverStays DEF TransferTimeout, WaitOf, request
  <2>5. CASE OtherSteps
    <3>1. app \notin {"read", "write"}
      BY <2>5
      DEF OtherSteps, StartInput, StartFlags, StartDevices, StopStream, StopDrain,
          StopDrainWait, StopReset, StopDone, AbortStream, AbortReset, AbortWait, CloseStream
    <3> QED BY <2>5, <3>1, CoverStays DEF OtherSteps, request
  <2>6. CASE BlockingStartOutput
    BY <2>6, CoverStays DEF BlockingStartOutput, StartOutput, request
  <2>7. CASE BlockingStopFlush
    BY <2>7, CoverStays DEF BlockingStopFlush, StopFlush, request
  <2>8. ASSUME NEW d \in Direction, Transfer(d) PROVE CoverInv'
    BY <1>3, <2>8, CoverGoesOn
  <2>9. ASSUME NEW d \in Direction, TransferWait(d) PROVE CoverInv'
    <3>1. covered' = covered BY <2>9 DEF TransferWait, request
    <3>2. CASE app = WaitOf(d) BY <3>1, <3>2, CoverStays DEF WaitOf
    <3>3. CASE app = CallOf(d) /\ ~BuffersAreDone(d, cur[d])
      <4>1. SUFFICES ASSUME covered PROVE FALSE BY <3>1 DEF CoverInv
      <4>2. PICK e \in Direction : app = CallOf(e) /\ \E c \in 1..BufferCount(e) : Covers(e, c)
        BY <4>1 DEF CoverInv
      <4>3. e = d BY <3>3, <4>2 DEF CallOf, Direction
      <4>4. PICK c \in 1..BufferCount(d) : Covers(d, c) BY <4>2, <4>3
      <4>5. After(d, 0) = cur[d] /\ 0 \in 0..c-1 BY <1>1, <3>3, AfterFacts DEF CallInv
      <4> QED BY <3>3, <4>4, <4>5 DEF Covers, BuffersAreDone
    <3> QED BY <2>9, <3>2, <3>3 DEF TransferWait
  <2> QED
    BY <2>0, <2>1, <2>2, <2>3, <2>4, <2>5, <2>6, <2>7, <2>8, <2>9
    DEF BlockingNext, BlockingCall
<1> QED BY <1>2, <1>3

-----------------------------------------------------------------------------
(* The invariant of the frames.                                            *)

\* A blocking stream has no processing thread.
LEMMA ThreadlessStep ==
  ASSUME IInv, config.blocking, processingThread = NoThread, BlockingNext
  PROVE  processingThread' = NoThread
<1>1. TypeInv /\ LifeInv BY DEF IInv
<1>2. CASE \E d \in Direction : DriverTransfers(d)
  BY <1>2 DEF DriverTransfers, DriverDone, shared
<1>3. CASE BlockingStart \/ BlockingStartOutput \/ BlockingStopFlush
  BY <1>3
  DEF BlockingStart, BlockingStartOutput, BlockingStopFlush, StartStream, StartOutput,
      StopFlush, shared
<1>4. CASE OtherSteps
  BY <1>4
  DEF OtherSteps, StartInput, StartFlags, StartDevices, StopStream, StopDrain,
      StopDrainWait, StopReset, StopDone, AbortStream, AbortReset, AbortWait, CloseStream,
      shared
<1>5. CASE \E d \in Direction : Transfers(d) BY <1>1, <1>5, TransferFrame DEF shared
<1> QED BY <1>2, <1>3, <1>4, <1>5 DEF BlockingNext, BlockingCall, Transfers

LEMMA DataStep ==
  ASSUME IInv, config.blocking, ~MayFail, processingThread = NoThread, DataInv, BlockingNext
  PROVE  DataInv'
<1>1. CASE \E d \in Direction : DriverTransfers(d)
  BY <1>1, DataAfterCapture, DataAfterPlaying DEF Direction
<1>2. CASE BlockingStart BY <1>2, DataAfterBegin
<1>3. CASE \E d \in Direction, m \in 1..MaxTransfer : BeginTransfer(d, m)
  BY <1>3, DataAfterWait
<1>4. CASE \E d \in Direction : TransferTimeout(d) \/ TransferWait(d) BY <1>4, DataAfterWait
<1>5. CASE OtherSteps
  <2>1. UNCHANGED frames BY <1>5 DEF OtherSteps
  <2>2. CASE StartInput BY <2>1, <2>2, DataAfterInput
  <2>3. CASE StartFlags \/ StartDevices BY <2>1, <2>3, DataAfterStart
  <2>4. CASE StopStream \/ StopDone \/ AbortStream \/ AbortWait \/ CloseStream
    BY <2>1, <2>4, DataAfterStop
  <2>5. CASE StopDrain \/ StopDrainWait BY <2>1, <2>5, DataAfterDrain
  <2>6. CASE StopReset \/ AbortReset BY <2>1, <2>6, DataAfterReset
  <2> QED BY <1>5, <2>2, <2>3, <2>4, <2>5, <2>6 DEF OtherSteps
<1>6. CASE BlockingStartOutput BY <1>6, DataAfterOutput
<1>7. CASE BlockingStopFlush BY <1>7, DataAfterFlush
<1>8. CASE \E d \in Direction : Transfer(d)
  BY <1>8, DataAfterRead, DataAfterWrite DEF Direction
<1> QED
  BY <1>1, <1>2, <1>3, <1>4, <1>5, <1>6, <1>7, <1>8 DEF BlockingNext, BlockingCall

LEMMA DataStutter ==
  ASSUME TransferData, UNCHANGED allVars
  PROVE  TransferData'
<1> USE DEF allVars, vars, shared, buffers, driver, call, thread, request, frames
<1>1. \A d \in Direction : /\ BufferCount(d)' = BufferCount(d) /\ Chunks(d)' = Chunks(d)
                           /\ Buffer(d)' = Buffer(d) /\ Uses(d)' = Uses(d)
                           /\ \A k : After(d, k)' = After(d, k)
  BY SameDirection
<1>2. \A d \in Direction : Streaming(d)' <=> Streaming(d) BY DEF Streaming
<1>3. CoverInv' BY <1>1 DEF TransferData, CoverInv, Covers, CallOf
<1>4. MayFail' = MayFail BY DEF MayFail
<1>5. ASSUME DataInv PROVE DataInv'
  <2>1. (InputData => InputData') /\ (ReadInv => ReadInv') BY SameInput
  <2>2. /\ OutputData => OutputData'
        /\ PlayedInv => PlayedInv'
        /\ WrittenInv => WrittenInv'
    BY SameOutput
  <2>3. (StartedInv => StartedInv') /\ (DrainInv => DrainInv')
    BY <1>1 DEF StartedInv, DrainInv, Direction
  <2>4. ContentInv => ContentInv' BY <1>1 DEF ContentInv
  <2> QED BY <1>2, <1>5, <2>1, <2>2, <2>3, <2>4 DEF DataInv, Direction
<1> QED BY <1>3, <1>4, <1>5 DEF TransferData

LEMMA TransferInit == BlockingInit => TransferData
<1> SUFFICES ASSUME BlockingInit PROVE TransferData OBVIOUS
<1> USE DEF BlockingInit, Init, Direction
<1>1. CoverInv BY DEF CoverInv
<1>2. \A d \in Direction : ~Streaming(d) BY DEF Streaming
<1>3. ContentInv
  <2>1. \A d \in Direction : Chunks(d) \in Nat BY ConfigType
  <2> QED BY <2>1 DEF ContentInv, Silence, FramesPerBuffer
<1>4. ReadInv
  <2>1. <<>> = CountedFrom(0, 0) BY DEF CountedFrom
  <2> QED BY <2>1 DEF ReadInv, NoFrames
<1>5. PlayedInv BY DEF PlayedInv, NoFrames
<1>6. StartedInv /\ DrainInv BY DEF StartedInv, DrainInv
<1>7. DataInv BY <1>2, <1>3, <1>4, <1>5, <1>6 DEF DataInv
<1> QED BY <1>1, <1>7 DEF TransferData

LEMMA TransferStep ==
  ASSUME IInv, TransferData, [StreamNext]_allVars
  PROVE  TransferData'
<1>1. CASE UNCHANGED allVars BY <1>1, DataStutter
<1>2. CASE StreamNext
  <2>1. config' = config BY <1>2, ConfigStays
  <2>2. CoverInv' BY <1>2, CoverStep DEF TransferData
  <2>3. ASSUME config.blocking PROVE processingThread' = NoThread
    BY <1>2, <2>3, ThreadlessStep DEF TransferData, StreamNext
  <2>4. ASSUME config.blocking, ~MayFail PROVE DataInv'
    BY <1>2, <2>4, DataStep DEF TransferData, StreamNext
  <2>5. MayFail' = MayFail BY <2>1 DEF MayFail
  <2> QED BY <2>1, <2>2, <2>3, <2>4, <2>5 DEF TransferData
<1> QED BY <1>1, <1>2

\* The frames are where they should be.
THEOREM TransferInvariant ==
  StreamSpec => [](BaseInv /\ (orphans = {} => IInv /\ TransferData))
<1>1. BaseInv /\ (orphans = {} => IInv /\ TransferData) /\ [StreamNext]_allVars
        => (BaseInv /\ (orphans = {} => IInv /\ TransferData))'
  <2> SUFFICES ASSUME BaseInv, orphans = {} => IInv /\ TransferData, [StreamNext]_allVars
               PROVE  BaseInv' /\ (orphans' = {} => IInv' /\ TransferData')
    OBVIOUS
  <2>1. orphans' = {} => orphans = {} BY OrphansGrow
  <2> QED BY <2>1, BaseStep, StepInv, TransferStep
<1>2. BlockingInit => BaseInv /\ (orphans = {} => IInv /\ TransferData)
  BY InitInv, InitBase, TransferInit
<1> QED BY <1>1, <1>2, PTL DEF StreamSpec

-----------------------------------------------------------------------------
(* What the invariant says of the transfers.                               *)

\* Silence, counted frames and silence again.
LEMMA ThreeParts ==
  ASSUME NEW b \in Nat, NEW n \in Nat, NEW a \in Nat, NEW s \in Seq(Nat), Len(s) = b + n + a,
         \A p \in 1..Len(s) : s[p] = IF b < p /\ p <= b + n THEN p - b ELSE 0
  PROVE  s = Silence(b) \o CountedFrom(0, n) \o Silence(a)
<1> DEFINE x == Silence(b)
           y == CountedFrom(0, n)
           z == Silence(a)
           v == x \o y
           w == v \o z
<1>1. /\ x \in Seq(Int) /\ Len(x) = b /\ \A i \in 1..b : x[i] = 0 BY DEF Silence
<1>2. /\ y \in Seq(Int) /\ Len(y) = n /\ \A i \in 1..n : y[i] = i
  <2>1. 0 \in Int /\ n \in Nat OBVIOUS
  <2>2. /\ y \in Seq(Int) /\ Len(y) = n /\ \A i \in 1..n : y[i] = 0 + i
    BY <2>1, CountedFacts
  <2> HIDE DEF y
  <2> QED BY <2>2
<1>3. /\ z \in Seq(Int) /\ Len(z) = a /\ \A i \in 1..a : z[i] = 0 BY DEF Silence
<1> HIDE DEF x, y, z
<1>4. /\ v \in Seq(Int) /\ Len(v) = b + n
      /\ \A i \in 1..b+n : v[i] = IF i <= b THEN x[i] ELSE y[i - b]
  <2>1. x \in Seq(Int) /\ y \in Seq(Int) BY <1>1, <1>2
  <2>2. /\ v \in Seq(Int) /\ Len(v) = Len(x) + Len(y)
        /\ \A i \in 1..Len(x)+Len(y) : v[i] = IF i <= Len(x) THEN x[i] ELSE y[i - Len(x)]
    BY <2>1, SMTT(30)
  <2> HIDE DEF v
  <2> QED BY <1>1, <1>2, <2>2
<1>5. \A i \in 1..b+n : v[i] = IF i <= b THEN 0 ELSE i - b
  <2> SUFFICES ASSUME NEW i \in 1..b+n PROVE v[i] = IF i <= b THEN 0 ELSE i - b OBVIOUS
  <2>1. CASE i <= b BY <1>1, <1>4, <2>1
  <2>2. CASE ~(i <= b)
    <3>1. i - b \in 1..n BY <2>2
    <3> QED BY <1>2, <1>4, <2>2, <3>1
  <2> QED BY <2>1, <2>2
<1> HIDE DEF v
<1>6. /\ w \in Seq(Int) /\ Len(w) = b + n + a
      /\ \A i \in 1..b+n+a : w[i] = IF i <= b + n THEN v[i] ELSE z[i - (b + n)]
  <2>1. v \in Seq(Int) /\ z \in Seq(Int) BY <1>3, <1>4
  <2>2. /\ w \in Seq(Int) /\ Len(w) = Len(v) + Len(z)
        /\ \A i \in 1..Len(v)+Len(z) : w[i] = IF i <= Len(v) THEN v[i] ELSE z[i - Len(v)]
    BY <2>1, SMTT(30)
  <2> HIDE DEF w
  <2> QED BY <1>3, <1>4, <2>2
<1>7. ASSUME NEW i \in 1..b+n+a PROVE w[i] = s[i]
  <2> HIDE DEF w
  <2>0. s[i] = IF b < i /\ i <= b + n THEN i - b ELSE 0 OBVIOUS
  <2>1. CASE i <= b + n
    <3>1. w[i] = v[i] /\ v[i] = IF i <= b THEN 0 ELSE i - b BY <1>5, <1>6, <2>1
    <3> QED BY <2>0, <2>1, <3>1
  <2>2. CASE ~(i <= b + n)
    <3>1. i - (b + n) \in 1..a BY <2>2
    <3>2. w[i] = z[i - (b + n)] BY <1>6, <2>2
    <3>3. w[i] = 0 BY <1>3, <3>1, <3>2
    <3> QED BY <2>0, <2>2, <3>3
  <2> QED BY <2>1, <2>2
<1> HIDE DEF w
<1>8. s = w
  <2>1. s \in Seq(Int) OBVIOUS
  <2>2. Len(s) = Len(w) /\ \A i \in 1..Len(s) : s[i] = w[i] BY <1>6, <1>7
  <2> QED BY <1>6, <2>1, <2>2, SMTT(30)
<1> QED BY <1>8 DEF w, v, x, y, z

\* What was played so far, and when that is all there is to play.
LEMMA PlayedParts ==
  ASSUME IInv, PlayedInv
  PROVE  /\ \E n \in 0..written : Plays(n)
         /\ Len(played) >= Lead + written => Plays(written)
<1> DEFINE P == Len(played)
           l == Lead
           W == written
           n == IF P <= l THEN 0 ELSE IF P - l <= W THEN P - l ELSE W
           b == IF P <= l THEN P ELSE l
           a == P - b - n
<1>1. /\ P \in Nat /\ l \in Nat /\ W \in Nat /\ played \in Seq(Nat)
      /\ \A p \in 1..P : played[p] = Frame(p, l, W)
  BY LeadType DEF PlayedInv
<1> HIDE DEF P, l, W
<1>2. /\ n \in 0..W /\ b \in 0..P-n /\ a \in Nat /\ P = b + n + a /\ n \in Nat /\ b \in Nat
      /\ P >= l + W => n = W
  BY <1>1
<1>3. ASSUME NEW p \in 1..P PROVE played[p] = IF b < p /\ p <= b + n THEN p - b ELSE 0
  <2>1. played[p] = IF l < p /\ p <= l + W THEN p - l ELSE 0 BY <1>1 DEF Frame
  <2>2. CASE P <= l BY <1>1, <2>1, <2>2
  <2>3. CASE ~(P <= l) BY <1>1, <2>1, <2>3
  <2> QED BY <2>2, <2>3
<1> HIDE DEF n, b
<1>4. played = Silence(b) \o CountedFrom(0, n) \o Silence(a)
  <2> HIDE DEF a
  <2>1. Len(played) = b + n + a BY <1>2 DEF P
  <2>2. \A p \in 1..Len(played) : played[p] = IF b < p /\ p <= b + n THEN p - b ELSE 0
    BY <1>3 DEF P
  <2> QED BY <1>1, <1>2, <2>1, <2>2, ThreeParts
<1>5. Plays(n) BY <1>2, <1>4 DEF Plays, P
<1> QED BY <1>2, <1>5 DEF W, P, l

\* A frame that was captured is read once and in its place, one that was written
\* is played once and in its place, and all are by the time Pa_StopStream resets
\* the devices, if no wait timed out; calls own the buffers they copy, and do not
\* wait for frames that were available.
THEOREM BlockingInOrder == StreamSpec => []BlockingTransfers
<1>0. ASSUME BaseInv, ~config.blocking PROVE BlockingTransfers
  BY <1>0
  DEF BaseInv, BlockingTransfers, ApplicationOwnsBuffers, TransfersInOrder,
      StopPlaysEverything, AvailableWithoutWaiting
<1>1. ASSUME IInv, TransferData PROVE BlockingTransfers
  <2>1. TypeInv /\ QueueInv /\ CursorInv /\ LifeInv /\ CallInv BY <1>1 DEF IInv
  <2>2. ApplicationOwnsBuffers
    <3> SUFFICES ASSUME NEW d \in Direction, app = CallOf(d), BuffersAreDone(d, cur[d])
                 PROVE  ~InQueue(d, cur[d])
      BY DEF ApplicationOwnsBuffers
    <3>1. Uses(d) BY <2>1 DEF CallInv
    <3> QED BY <2>1, <3>1, QueueFacts, AfterFacts DEF BuffersAreDone
  <2>3. TransfersInOrder
    <3> SUFFICES ASSUME config.blocking, ~MayFail
                 PROVE  /\ read = CountedFrom(0, Len(read)) /\ Len(read) <= captured
                        /\ \E n \in 0..written : Plays(n)
      BY DEF TransfersInOrder
    <3>1. ReadInv /\ PlayedInv BY <1>1 DEF TransferData, DataInv
    <3> QED BY <1>1, <3>1, PlayedParts DEF ReadInv
  <2>4. StopPlaysEverything
    <3> SUFFICES ASSUME config.blocking, app = "stopReset", Uses("out"), ~MayFail, ~waitTimedOut
                 PROVE  Plays(written)
      BY DEF StopPlaysEverything
    <3>1. DataInv BY <1>1 DEF TransferData
    <3>2. queue["out"] = <<>> BY <3>1 DEF DataInv, DrainInv
    <3>3. Streaming("out") BY <2>1 DEF Streaming, LifeInv, Starting
    <3>4. Given >= Lead + written BY <3>1, <3>3 DEF DataInv, WrittenInv, Draining
    <3>5. Given = Len(played)
      <4>1. 0 * Chunks("out") = 0 BY <1>1, DataTypes DEF Direction
      <4>2. Len(queue["out"]) = 0 BY <3>2
      <4>3. Len(played) \in Nat BY <3>1 DEF DataInv, PlayedInv
      <4> QED BY <4>1, <4>2, <4>3 DEF Given
    <3>6. PlayedInv BY <3>1 DEF DataInv
    <3> QED BY <1>1, <3>4, <3>5, <3>6, PlayedParts
  <2>5. AvailableWithoutWaiting
    BY <1>1 DEF AvailableWithoutWaiting, TransferData, CoverInv, CallOf, WaitOf, Direction
  <2> QED BY <2>2, <2>3, <2>4, <2>5 DEF BlockingTransfers
<1>2. BaseInv /\ (orphans = {} => IInv /\ TransferData) => BlockingTransfers
  BY <1>0, <1>1 DEF BaseInv
<1> QED BY <1>2, TransferInvariant, PTL
=============================================================================
