------------------------- MODULE PaBufferProcessor ---------------------------
(***************************************************************************)
(* The buffer processor of common/pa_process.c: it cuts the buffers of a   *)
(* host into the blocks the stream callback asked for, holding back frames *)
(* of input and output where the sizes do not divide one another.          *)
(*                                                                         *)
(* One call of PaUtil_EndBufferProcessing takes one step per iteration of  *)
(* the loops that call the callback.  Frames are numbers: the host's input *)
(* frames are 1, 2, ...; 0 is a frame of zeros.  The callback of a full    *)
(* duplex stream hands every input frame on to its output; that of an      *)
(* output stream generates 1, 2, ...  Sample formats, channels and time    *)
(* stamps are left out, and so is the mode in which a host takes back what *)
(* has not been processed (partial usage allowed).                         *)
(***************************************************************************)
EXTENDS Integers, Sequences, FiniteSets, FiniteSetsExt, SequencesExt

CONSTANTS
  Configurations,          \* what PaUtil_InitializeBufferProcessor is given
  CallbackResults,         \* what the stream callback may return
  MaxHostBuffer,           \* bound on host buffers of unknown size
  MaxFrames                \* bound on the frames processed before a reset

Modes == {"fixed", "bounded", "unknown"}
Direction == {"in", "out"}

Configuration ==
  [framesPerUserBuffer : Nat, framesPerHostBuffer : Nat \ {0},
   hostBufferSizeMode : Modes, directions : (SUBSET Direction) \ {{}}]

ASSUME ProcessorAssumption ==
  /\ Configurations \subseteq Configuration
  /\ CallbackResults \subseteq {"paContinue", "paComplete", "paAbort"}
  /\ MaxHostBuffer \in Nat \ {0} /\ MaxFrames \in Nat

VARIABLES
  bp,                      \* the configuration
  tempInput, tempOutput,   \* frames held back, the oldest first
  hostInput,               \* the host's 1st and 2nd input buffer: frames left
  hostOutput,              \* its output buffers: how many frames fit
  noInput,                 \* PaUtil_SetNoInput: this call primes the output
  callbackResult,
  pc,                      \* "idle", or within PaUtil_EndBufferProcessing
  supplied,                \* how many input frames the host has supplied
  heard,                   \* input frames the callback has been given
  generated,               \* output frames it has generated
  played,                  \* output frames the host has been given
  blockSizes               \* frame counts the callback has been called with

held == <<tempInput, tempOutput>>
hostBuffers == <<hostInput, hostOutput, noInput, supplied>>
history == <<heard, generated, played, blockSizes>>
vars == <<bp, held, hostBuffers, callbackResult, pc, history>>

Zeros(n) == [k \in 1..n |-> 0]
IsInput == "in" \in bp.directions
IsOutput == "out" \in bp.directions
IsFullDuplex == IsInput /\ IsOutput

-----------------------------------------------------------------------------
(* PaUtil_InitializeBufferProcessor.                                       *)

\* The least common multiple of M and N.
LCM(M, N) == Min({k \in 1..(M * N) : k % M = 0 /\ k % N = 0})

\* Mutant: a shift that is always enough, though seldom the least.
LargeFrameShift(M, N) == N - 1

\* How far host buffers of M frames get out of step with blocks of N frames.
CalculateFrameShift(M, N) ==
  Max({0} \cup {k % N : k \in {i \in 1..LCM(M, N)-1 : i % M = 0}})

UseNonAdaptingProcess ==
  bp.framesPerUserBuffer # 0 =>
    bp.hostBufferSizeMode = "fixed" /\ bp.framesPerHostBuffer % bp.framesPerUserBuffer = 0

FramesPerTempBuffer ==
  IF bp.framesPerUserBuffer # 0 THEN bp.framesPerUserBuffer
  ELSE IF bp.hostBufferSizeMode \in {"fixed", "bounded"} THEN bp.framesPerHostBuffer
  ELSE MaxHostBuffer       \* 1024, or as many as the model has

FrameShift ==
  CalculateFrameShift(bp.framesPerHostBuffer, bp.framesPerUserBuffer)

InitialFramesInTempInputBuffer ==
  IF /\ ~UseNonAdaptingProcess /\ IsFullDuplex
     /\ bp.hostBufferSizeMode = "fixed"
     /\ bp.framesPerUserBuffer > bp.framesPerHostBuffer
    THEN FrameShift ELSE 0

\* Mutant: a host buffer of varying size is given no latency.
NoInitialOutput == 0

InitialFramesInTempOutputBuffer ==
  IF UseNonAdaptingProcess \/ ~IsFullDuplex THEN 0
  ELSE IF bp.hostBufferSizeMode # "fixed" THEN bp.framesPerUserBuffer
  ELSE IF bp.framesPerUserBuffer > bp.framesPerHostBuffer THEN 0
  ELSE FrameShift

Init ==
  /\ bp \in Configurations
  /\ tempInput = Zeros(InitialFramesInTempInputBuffer)
  /\ tempOutput = Zeros(InitialFramesInTempOutputBuffer)
  /\ hostInput = <<<<>>, <<>>>> /\ hostOutput = <<0, 0>>
  /\ noInput = FALSE /\ callbackResult = "paContinue" /\ pc = "idle"
  /\ supplied = 0
  /\ heard = <<>> /\ generated = <<>> /\ played = <<>> /\ blockSizes = {}

\* PaUtil_ResetBufferProcessor, when the stream is started again.
ResetBufferProcessor ==
  /\ pc = "idle" /\ supplied + Len(played) > 0
  /\ tempInput' = Zeros(InitialFramesInTempInputBuffer)
  /\ tempOutput' = Zeros(InitialFramesInTempOutputBuffer)
  /\ callbackResult' = "paContinue"
  /\ supplied' = 0
  /\ heard' = <<>> /\ generated' = <<>> /\ played' = <<>> /\ blockSizes' = {}
  /\ UNCHANGED <<bp, hostInput, hostOutput, noInput, pc>>

-----------------------------------------------------------------------------
(* PaUtil_BeginBufferProcessing and the functions that set host buffers.   *)

HostBufferSizes ==
  CASE bp.hostBufferSizeMode = "fixed"   -> {bp.framesPerHostBuffer}
    [] bp.hostBufferSizeMode = "bounded" -> 1..bp.framesPerHostBuffer
    [] OTHER                             -> 1..MaxHostBuffer

\* A host buffer in one or two parts.  Where the callback has a block size and
\* host buffers are not adapted to it, the parts are multiples of it (this is
\* what the comment at NonAdaptingProcess asks for).
Parts(n) ==
  {<<k, n - k>> : k \in
     {j \in 1..n : UseNonAdaptingProcess /\ bp.framesPerUserBuffer # 0 =>
                     j % bp.framesPerUserBuffer = 0}}

NextInput(n) == [k \in 1..n |-> supplied + k]

BeginBufferProcessing(n, input, output) ==
  /\ pc = "idle"
  /\ supplied + n <= MaxFrames /\ Len(played) + n <= MaxFrames
  /\ IF IsInput
       THEN /\ hostInput' = <<SubSeq(NextInput(n), 1, input[1]),
                              SubSeq(NextInput(n), input[1] + 1, n)>>
            /\ supplied' = supplied + n
       ELSE UNCHANGED <<hostInput, supplied>>
  /\ hostOutput' = IF IsOutput THEN output ELSE hostOutput
  /\ noInput' = FALSE
  /\ pc' = IF UseNonAdaptingProcess THEN "nonAdapting"
           ELSE IF IsFullDuplex THEN "beginAdapting"
           ELSE IF IsInput THEN "adaptingInput" ELSE "adaptingOutput"
  /\ UNCHANGED <<bp, held, callbackResult, history>>

\* The host primes its output before it has any input.  A full duplex stream
\* whose blocks are adapted counts its frames by the input, and has none: that
\* case is left out here.
PrimeOutput(n) ==
  /\ pc = "idle" /\ IsFullDuplex /\ UseNonAdaptingProcess
  /\ Len(played) + n <= MaxFrames
  /\ hostOutput' = <<n, 0>> /\ noInput' = TRUE
  /\ pc' = "nonAdapting"
  /\ UNCHANGED <<bp, held, hostInput, supplied, callbackResult, history>>

-----------------------------------------------------------------------------
(* Frames in host buffers.                                                 *)

InputFrames == hostInput[1] \o hostInput[2]
OutputRoom == hostOutput[1] + hostOutput[2]

\* The host input buffers without their first k frames.
InputWithout(k) ==
  LET first == Min({k, Len(hostInput[1])}) IN
  <<SubSeq(hostInput[1], first + 1, Len(hostInput[1])),
    SubSeq(hostInput[2], k - first + 1, Len(hostInput[2]))>>

\* The host output buffers after k more frames have been put into them.
RoomAfter(k) ==
  LET first == Min({k, hostOutput[1]}) IN
  <<hostOutput[1] - first, hostOutput[2] - (k - first)>>

\* How much is left of the host buffer, the 1st or the 2nd, that is in use.
InputPart == IF hostInput[1] # <<>> THEN Len(hostInput[1]) ELSE Len(hostInput[2])
OutputPart == IF hostOutput[1] > 0 THEN hostOutput[1] ELSE hostOutput[2]

TakeInput(k) ==
  /\ hostInput' = InputWithout(k)
  /\ UNCHANGED <<noInput, supplied>>
PutOutput(frames) ==
  /\ hostOutput' = RoomAfter(Len(frames))
  /\ played' = played \o frames

-----------------------------------------------------------------------------
(* The stream callback.                                                    *)

\* What it writes when it is called for n frames with this input.
CallbackOutput(input, n) ==
  IF ~IsOutput THEN <<>>
  ELSE IF IsInput THEN input ELSE [k \in 1..n |-> Len(generated) + k]

\* Mutant: the output of a callback that returned paAbort is used.
AbortedFrames(input, n, result) == CallbackOutput(input, n)

\* How much of that is used: what came with paAbort is dropped.
GeneratedFrames(input, n, result) ==
  IF result = "paAbort" THEN <<>> ELSE CallbackOutput(input, n)

StreamCallback(input, n, result) ==
  /\ callbackResult = "paContinue"
  /\ callbackResult' = result
  /\ heard' = IF IsInput /\ ~noInput THEN heard \o input ELSE heard
  /\ generated' = IF result = "paAbort" THEN generated
                  ELSE generated \o CallbackOutput(input, n)
  /\ blockSizes' = blockSizes \cup {n}

NoStreamCallback == UNCHANGED <<callbackResult, heard, generated, blockSizes>>

-----------------------------------------------------------------------------
(* NonAdaptingProcess, and the splicing of its callers.                    *)

\* What one call of NonAdaptingProcess still has to do.
FramesToGo ==
  Min((IF IsInput /\ ~noInput THEN {InputPart} ELSE {})
        \cup (IF IsOutput THEN {OutputPart} ELSE {}))

NonAdaptingCall(result) ==
  LET n == Min({FramesPerTempBuffer, FramesToGo})
      input == IF noInput THEN Zeros(n)
               ELSE IF IsInput THEN SubSeq(InputFrames, 1, n) ELSE <<>>
      taken == IF result = "paAbort" THEN 0 ELSE n
  IN  /\ pc = "nonAdapting" /\ FramesToGo > 0
      /\ StreamCallback(input, n, result)
      /\ IF IsInput /\ ~noInput THEN TakeInput(taken)
         ELSE UNCHANGED <<hostInput, noInput, supplied>>
      /\ IF IsOutput THEN PutOutput(GeneratedFrames(input, n, result))
         ELSE UNCHANGED <<hostOutput, played>>
      /\ UNCHANGED <<bp, held, pc>>

\* The callback has returned paComplete or paAbort: zeros for what remains.
NonAdaptingZero ==
  /\ pc = "nonAdapting" /\ FramesToGo > 0 /\ callbackResult # "paContinue"
  /\ IF IsInput /\ ~noInput THEN TakeInput(FramesToGo)
     ELSE UNCHANGED <<hostInput, noInput, supplied>>
  /\ IF IsOutput THEN PutOutput(Zeros(FramesToGo))
     ELSE UNCHANGED <<hostOutput, played>>
  /\ NoStreamCallback
  /\ UNCHANGED <<bp, held, pc>>

NonAdaptingEnd ==
  /\ pc = "nonAdapting" /\ FramesToGo = 0
  /\ pc' = "idle"
  /\ UNCHANGED <<bp, held, hostBuffers, callbackResult, history>>

-----------------------------------------------------------------------------
(* AdaptingInputOnlyProcess.                                               *)

\* How many frames go from the host into the temporary input buffer.
FramesToFill(available) ==
  Min({available, bp.framesPerUserBuffer - Len(tempInput)})

AdaptingInput(result) ==
  LET n == FramesToFill(InputPart)
      filled == tempInput \o SubSeq(InputFrames, 1, n)
  IN  /\ pc = "adaptingInput" /\ InputFrames # <<>>
      /\ TakeInput(n)
      /\ IF Len(filled) = bp.framesPerUserBuffer
           THEN /\ tempInput' = <<>>
                /\ IF callbackResult = "paContinue"
                     THEN StreamCallback(filled, bp.framesPerUserBuffer, result)
                     ELSE NoStreamCallback
           ELSE tempInput' = filled /\ NoStreamCallback
      /\ UNCHANGED <<bp, tempOutput, hostOutput, played, pc>>

AdaptingInputEnd ==
  /\ pc = "adaptingInput" /\ InputFrames = <<>>
  /\ pc' = "idle"
  /\ UNCHANGED <<bp, held, hostBuffers, callbackResult, history>>

-----------------------------------------------------------------------------
(* AdaptingOutputOnlyProcess.                                              *)

AdaptingOutput(result) ==
  LET calls == tempOutput = <<>> /\ callbackResult = "paContinue"
      frames == IF calls THEN GeneratedFrames(<<>>, bp.framesPerUserBuffer, result)
                ELSE tempOutput
      n == Min({Len(frames), OutputPart})
  IN  /\ pc = "adaptingOutput" /\ OutputRoom > 0
      /\ IF calls THEN StreamCallback(<<>>, bp.framesPerUserBuffer, result)
         ELSE NoStreamCallback
      /\ IF frames # <<>>
           THEN /\ PutOutput(SubSeq(frames, 1, n))
                /\ tempOutput' = SubSeq(frames, n + 1, Len(frames))
           ELSE PutOutput(Zeros(OutputPart)) /\ UNCHANGED tempOutput
      /\ UNCHANGED <<bp, tempInput, hostInput, noInput, supplied, pc>>

AdaptingOutputEnd ==
  /\ pc = "adaptingOutput" /\ OutputRoom = 0
  /\ pc' = "idle"
  /\ UNCHANGED <<bp, held, hostBuffers, callbackResult, history>>

-----------------------------------------------------------------------------
(* AdaptingProcess, full duplex.                                           *)

\* CopyTempOutputBuffersToHostOutputBuffers: frames go into the host buffers
\* as far as these have room for them after zeroed more frames.
CopyTempOutput(frames, zeroed) ==
  LET n == Min({Len(frames), OutputRoom - zeroed}) IN
  /\ PutOutput(Zeros(zeroed) \o SubSeq(frames, 1, n))
  /\ tempOutput' = SubSeq(frames, n + 1, Len(frames))

BeginAdapting ==
  /\ pc = "beginAdapting"
  /\ CopyTempOutput(tempOutput, 0)
  /\ pc' = "adapting"
  /\ UNCHANGED <<bp, tempInput, hostInput, noInput, supplied, callbackResult,
                 heard, generated, blockSizes>>

\* Mutant: input is kept once the callback has ended.
KeepsInput(filled) == filled

\* A full temporary input buffer is discarded once the callback has ended.
DiscardInput(filled) == <<>>

Adapting(result) ==
  LET zeroed == IF tempOutput = <<>> /\ callbackResult # "paContinue"
                  THEN OutputRoom ELSE 0
      n == FramesToFill(Len(InputFrames))
      filled == tempInput \o SubSeq(InputFrames, 1, n)
      isBlock == Len(filled) = bp.framesPerUserBuffer /\ tempOutput = <<>>
  IN  /\ pc = "adapting" /\ InputFrames # <<>>
      /\ TakeInput(n)
      /\ IF isBlock /\ callbackResult = "paContinue"
           THEN /\ StreamCallback(filled, bp.framesPerUserBuffer, result)
                /\ tempInput' = <<>>
                /\ CopyTempOutput(GeneratedFrames(filled, Len(filled), result), zeroed)
           ELSE /\ NoStreamCallback
                /\ tempInput' = IF isBlock THEN DiscardInput(filled) ELSE filled
                /\ CopyTempOutput(tempOutput, zeroed)
      /\ UNCHANGED <<bp, pc>>

AdaptingEnd ==
  /\ pc = "adapting" /\ InputFrames = <<>>
  /\ pc' = "idle"
  /\ UNCHANGED <<bp, held, hostBuffers, callbackResult, history>>

-----------------------------------------------------------------------------
EndBufferProcessing ==
  \/ \E result \in CallbackResults :
       \/ NonAdaptingCall(result) \/ AdaptingInput(result)
       \/ AdaptingOutput(result) \/ Adapting(result)
  \/ NonAdaptingZero \/ NonAdaptingEnd
  \/ AdaptingInputEnd \/ AdaptingOutputEnd
  \/ BeginAdapting \/ AdaptingEnd

Next ==
  \/ \E n \in HostBufferSizes : \E input, output \in Parts(n) :
       BeginBufferProcessing(n, input, output)
  \/ \E n \in HostBufferSizes : PrimeOutput(n)
  \/ EndBufferProcessing
  \/ ResetBufferProcessor

Spec == Init /\ [][Next]_vars

\* A call that has been made runs on; the callback returns.
FairSpec == Spec /\ WF_vars(EndBufferProcessing)

-----------------------------------------------------------------------------
(* Properties.                                                             *)

\* The temporary buffers never hold more than was allocated for them.
TypeOK ==
  /\ bp \in Configurations
  /\ \A frames \in {tempInput, tempOutput} :
       frames \in Seq(Nat) /\ Len(frames) <= FramesPerTempBuffer
  /\ hostInput \in Seq(Seq(Nat)) /\ Len(hostInput) = 2
  /\ hostOutput \in Seq(Nat) /\ Len(hostOutput) = 2
  /\ noInput \in BOOLEAN
  /\ callbackResult \in {"paContinue", "paComplete", "paAbort"}
  /\ pc \in {"idle", "nonAdapting", "adaptingInput", "adaptingOutput",
             "beginAdapting", "adapting"}
  /\ supplied \in 0..MaxFrames
  /\ {heard, generated, played} \subseteq Seq(Nat)
  /\ blockSizes \subseteq 1..FramesPerTempBuffer

\* The host gets what the callback generated, once, in order and with the
\* reported latency, and zeros only when the callback has ended and all of
\* that is through; nothing of a callback that aborted is played.
OutputIsGapless ==
  IsOutput =>
    LET L == InitialFramesInTempOutputBuffer
        expected == Zeros(L) \o generated
        n == Len(played)
    IN  IF n <= Len(expected)
          THEN played \o tempOutput = expected
          ELSE /\ played = expected \o Zeros(n - Len(expected))
               /\ tempOutput = <<>> /\ callbackResult # "paContinue"

\* The callback hears every frame the host supplied, once, in order and after
\* the reported latency, up to the block in which it ends.
InputIsGapless ==
  IsInput =>
    LET arrived == Zeros(InitialFramesInTempInputBuffer) \o [k \in 1..supplied |-> k]
    IN  /\ IsPrefix(heard, arrived)
        /\ callbackResult = "paContinue" => heard \o tempInput \o InputFrames = arrived

\* A callback with a block size is always called with exactly that many frames.
WholeBlocks ==
  bp.framesPerUserBuffer # 0 => blockSizes \subseteq {bp.framesPerUserBuffer}

\* A call processes all of the host's buffers: input and output stay in step.
\* But when the callback aborts within AdaptingProcess and no input is left,
\* the rest of the output is neither filled nor zeroed.
HostBuffersUsed ==
  [][pc # "idle" /\ pc' = "idle" =>
       /\ InputFrames = <<>>
       /\ \/ OutputRoom = 0
          \/ callbackResult = "paAbort" /\ IsFullDuplex /\ ~UseNonAdaptingProcess]_vars

\* Input is held back for less than a block, and so the latency of a full
\* duplex stream from input to output stays what it was at the start.
LatencyIsConstant ==
  pc = "idle" /\ IsFullDuplex /\ ~UseNonAdaptingProcess /\ callbackResult = "paContinue" =>
    Len(tempInput) + Len(tempOutput) =
      InitialFramesInTempInputBuffer + InitialFramesInTempOutputBuffer

\* Between host buffers of a fixed size and blocks, the latency is the least
\* with which the output of a full duplex stream never runs dry: after k host
\* buffers the blocks that are full have produced enough.
NeverDry(shift) ==
  LET M == bp.framesPerHostBuffer
      N == bp.framesPerUserBuffer
      heldIn == IF N > M THEN shift ELSE 0
  IN  \A k \in 1..N : (shift - heldIn) + ((heldIn + k * M) \div N) * N >= k * M

LatencyIsLeast ==
  IsFullDuplex /\ ~UseNonAdaptingProcess /\ bp.hostBufferSizeMode = "fixed" =>
    LET latency == InitialFramesInTempInputBuffer + InitialFramesInTempOutputBuffer
    IN  NeverDry(latency) /\ \A shift \in 0..latency-1 : ~NeverDry(shift)

\* PaUtil_EndBufferProcessing returns.
CallsReturn == pc # "idle" ~> pc = "idle"

\* Through block adaption no frame is lost, repeated or reordered, and blocks
\* are whole.
StreamsAreGapless ==
  /\ TypeOK
  /\ OutputIsGapless
  /\ InputIsGapless
  /\ WholeBlocks

\* The latency that block adaption adds stays as it was, and is as small as it
\* can be.
LatencyIsConstantAndLeast ==
  /\ LatencyIsConstant
  /\ LatencyIsLeast
=============================================================================
