----------------------------- MODULE PaWmmeOpen -----------------------------
(***************************************************************************)
(* OpenStream and CloseStream of hostapi/wmme/pa_win_wmme.c on a host API  *)
(* that may start and terminate: what a stream acquires, in which order,   *)
(* and what is given back when one acquisition fails or the stream closes. *)
(***************************************************************************)
EXTENDS PaWmmeHostApi, PaWmmeBufferSettings

CONSTANTS
  Requests        \* the calls of OpenStream: parameters p (PaWmmeBufferSettings,
                  \* with devices and callback); fault, the number of the
                  \* acquisition that fails, or 0; and inputFirst

\* Frames are counted in an unsigned long, here with room for a sum.  A device
\* has 255 channels at most, or does not tell and is opened with any number: with
\* more than MaxChannels a host buffer holds less than 16 frames.
Kibi == 1024
MaxFrames == (2 * Kibi * Kibi - 1) * Kibi
MaxChannels == 1024
MaxSampleRate == 384000

\* Pa_OpenStream refuses other sample rates, OpenStream other low-level parameters.
StreamParameters ==
  [channels : [Direction -> Seq(1..MaxChannels)], devices : [Direction -> Seq(Nat)],
   latency : [Direction -> 0..MaxFrames], framesPerBuffer : 0..MaxFrames,
   lowLevel : [Direction -> {NoBuffers} \cup [size : 1..MaxFrames, count : 1..MaxFrames]],
   sampleRate : 1000..MaxSampleRate, callback : BOOLEAN]

ASSUME OpenAssumption ==
  \A r \in Requests :
    /\ r.p \in StreamParameters
    /\ r.fault \in Nat /\ r.inputFirst \in BOOLEAN
    /\ \A d \in Direction : Len(r.p.devices[d]) = Len(r.p.channels[d])

VARIABLES
  stream,         \* the stream that is open, or whose opening ended the process:
                  \* its parameters and settings; or NoStream
  held,           \* what was acquired from the system and not given back
  fields,         \* the pointers and marks of the stream that are set
  misused,        \* something was given back twice, or before what rests on it
  crashed         \* the process was ended by a division by zero

openVars == <<system, hostApi, memory, stream, held, fields, misused, crashed>>

NoStream == [p |-> <<>>, settings |-> <<>>]

OpenInit ==
  /\ HostApiInit
  /\ stream = NoStream
  /\ held = {} /\ fields = {}
  /\ misused = FALSE /\ crashed = FALSE

-----------------------------------------------------------------------------
(* What a stream acquires, in the order in which it does.  Each thing is a  *)
(* tuple of its kind, direction, device and buffer.                         *)

WaveHandle(p, d) == [i \in 1..Len(p.devices[d]) |-> <<"waveHandle", d, i>>]

WaveHandles(p, d) == <<<<"bufferEvent", d>>, <<"waveHandles", d>>>> \o WaveHandle(p, d)

Buffer(d, i, j) == <<<<"lpData", d, i, j>>, <<"prepared", d, i, j>>>>
DeviceWaveHeaders(d, i, count) ==
  <<<<"deviceWaveHeaders", d, i>>>> \o FlattenSeq([j \in 1..count |-> Buffer(d, i, j)])

WaveHeaders(p, s, d) ==
  <<<<"waveHeaders", d>>>>
    \o FlattenSeq([i \in 1..Len(p.devices[d]) |-> DeviceWaveHeaders(d, i, s[d].count)])

Acquisitions(p, s) ==
  LET InUse(d, things) == IF Uses(p, d) THEN things ELSE <<>>
  IN  <<<<"stream">>, <<"bufferProcessor">>>>
        \o InUse("in", WaveHandles(p, "in")) \o InUse("out", WaveHandles(p, "out"))
        \o InUse("in", WaveHeaders(p, s, "in")) \o InUse("out", WaveHeaders(p, s, "out"))
        \o IF p.callback THEN <<<<"abortEvent">>>> ELSE <<>>

\* What is in the memory of r, or in the system's use together with r.
RestsOn(things, r) ==
  LET Of(kind, n) == {x \in things : x[1] = kind /\ \A k \in 2..n : x[k] = r[k]}
  IN  CASE r[1] = "stream" -> things \ {r}
        [] r[1] \in {"bufferEvent", "waveHandles"} -> Of("waveHandle", 2)
        [] r[1] = "waveHandle" -> Of("prepared", 3)
        [] r[1] = "waveHeaders" -> Of("deviceWaveHeaders", 2)
        [] r[1] = "deviceWaveHeaders" -> Of("lpData", 3)
        [] r[1] = "lpData" -> Of("prepared", 4)
        [] OTHER -> {}

-----------------------------------------------------------------------------
(* Giving back, as operators on u, which has held, fields and misused.      *)

Release(u, r) ==
  IF r \notin u.fields THEN u
  ELSE [u EXCEPT !.held = @ \ {r},
                 !.misused = @ \/ r \notin u.held \/ RestsOn(u.held, r) # {}]

Cleared(u, r) == [u EXCEPT !.fields = @ \ {r}]

\* Devices and buffers are given back from the last to the first.
TerminateWaveHandles(u, p, d) ==
  LET array == <<"waveHandles", d>>
      event == <<"bufferEvent", d>>
      closed == FoldLeft(Release, u, Reverse(WaveHandle(p, d)))
      freed == IF array \in u.fields THEN Cleared(Release(closed, array), array) ELSE u
  IN  Cleared(Release(freed, event), event)

\* Mutant: a buffer that is prepared is all that is given back.
PreparedOnly(u, buffer) ==
  IF buffer[2] \notin u.fields THEN u ELSE Release(Release(u, buffer[2]), buffer[1])

TerminateBuffer(u, buffer) ==
  IF buffer[1] \notin u.fields THEN u ELSE Release(Release(u, buffer[2]), buffer[1])

\* The buffers of a device, after its array of headers.
TerminateDevice(u, headers) ==
  IF headers.array \notin u.fields THEN u
  ELSE Release(FoldLeft(TerminateBuffer, u, Reverse(headers.buffers)), headers.array)

TerminateWaveHeaders(u, p, s, d) ==
  LET array == <<"waveHeaders", d>>
      Headers(i) == [array |-> <<"deviceWaveHeaders", d, i>>,
                     buffers |-> [j \in 1..s[d].count |-> Buffer(d, i, j)]]
      devices == [i \in 1..Len(p.devices[d]) |-> Headers(i)]
  IN  IF array \notin u.fields THEN u
      ELSE Cleared(Release(FoldLeft(TerminateDevice, u, Reverse(devices)), array), array)

\* The end of CloseStream, and of OpenStream on an error: first the headers of
\* both directions, then the devices of both.
TerminateStream(u, p, s) ==
  LET headers == TerminateWaveHeaders(TerminateWaveHeaders(u, p, s, "out"), p, s, "in")
      handles == TerminateWaveHandles(TerminateWaveHandles(headers, p, "out"), p, "in")
  IN  Release(Release(handles, <<"bufferProcessor">>), <<"stream">>)

\* InitializeWaveHandles and InitializeWaveHeaders undo what they did before
\* OpenStream undoes the rest.
FailedAt(u, p, s, r) ==
  LET own == IF r[1] \in {"bufferEvent", "waveHandles", "waveHandle"}
               THEN TerminateWaveHandles(u, p, r[2])
             ELSE IF r[1] \in {"waveHeaders", "deviceWaveHeaders", "lpData", "prepared"}
               THEN TerminateWaveHeaders(u, p, s, r[2])
             ELSE u
  IN  TerminateStream(own, p, s)

Becomes(u) ==
  /\ held' = u.held
  /\ misused' = (misused \/ u.misused)
  \* The fields are in the memory of the stream.
  /\ fields' = IF <<"stream">> \in u.held THEN u.fields ELSE {}

-----------------------------------------------------------------------------
(* The operations.                                                          *)

\* PaUtil_DeviceIndexToHostApiDeviceIndex and Validate...ChannelCounts: a device
\* has no channels in the other direction.
DevicesAreValid(p, d) ==
  /\ \A i \in ToSet(p.devices[d]) : i \in 0..Len(hostApi.devices)-1 /\ hostApi.devices[i + 1].direction = d
  /\ \A n \in ToSet(p.channels[d]) : n >= 1

OpenStream(r) ==
  LET p == r.p
      s == CalculateBufferSettings(p, r.inputFirst)
      divided == \E d \in Direction : Uses(p, d) /\ s[d] = Crash
      wanted == Acquisitions(p, s)
      had == {wanted[k] : k \in 1..r.fault-1}
      u == [held |-> had, fields |-> had, misused |-> FALSE]
  IN  /\ hostApi.initialized
      /\ stream = NoStream
      /\ \A d \in Direction : DevicesAreValid(p, d)
      /\ ~AreIncompatible(p)
      /\ r.fault <= Len(wanted)
      /\ IF divided
           THEN /\ crashed' = TRUE
                /\ stream' = [p |-> p, settings |-> s]
                /\ UNCHANGED <<held, fields, misused>>
         ELSE IF r.fault = 0
           THEN /\ stream' = [p |-> p, settings |-> s]
                /\ held' = ToSet(wanted) /\ fields' = ToSet(wanted)
                /\ UNCHANGED <<misused, crashed>>
         ELSE /\ Becomes(FailedAt(u, p, s, wanted[r.fault]))
              /\ UNCHANGED <<stream, crashed>>
      /\ UNCHANGED <<system, hostApi, memory>>

\* The front end has stopped the stream before.
CloseStream ==
  LET u == [held |-> held, fields |-> fields, misused |-> FALSE]
  IN  /\ stream # NoStream
      /\ Becomes(TerminateStream(Release(u, <<"abortEvent">>), stream.p, stream.settings))
      /\ stream' = NoStream
      /\ UNCHANGED <<system, hostApi, memory, crashed>>

\* The front end closes the streams before it terminates the host API.
Next ==
  /\ ~crashed
  /\ \/ \E fault \in 0..MaxFaults : InitializeHostApi(fault) /\ UNCHANGED <<stream, held, fields, misused, crashed>>
     \/ /\ stream = NoStream
        /\ TerminateHostApi
        /\ UNCHANGED <<stream, held, fields, misused, crashed>>
     \/ \E r \in Requests : OpenStream(r)
     \/ CloseStream

Spec == OpenInit /\ [][Next]_openVars

-----------------------------------------------------------------------------
(* Properties.                                                              *)

RequestedParameters == {r.p : r \in Requests}

OpenTypeOK ==
  /\ HostApiTypeOK
  /\ stream.p \in RequestedParameters \cup {NoStream.p}
  /\ fields \subseteq held
  /\ misused \in BOOLEAN /\ crashed \in BOOLEAN

\* Whichever acquisition of OpenStream failed, and after CloseStream, nothing
\* of a stream is left behind.
NothingLeaks == stream = NoStream => held = {}

\* Nothing is given back twice by the two levels of clean-up, no device is
\* closed under a prepared buffer, no memory freed while it is used.
NothingIsMisused == ~misused

Open(d) == stream # NoStream /\ ~crashed /\ Uses(stream.p, d)
Size(d) == stream.settings[d].size
Count(d) == stream.settings[d].count

\* The devices of an open stream can do what they were opened for.
StreamDevicesExist ==
  \A d \in Direction : Open(d) =>
    \A i \in ToSet(stream.p.devices[d]) : hostApi.devices[i + 1].direction = d

\* OpenStream asserts this of CalculateBufferSettings.
FullDuplexSizesDivide ==
  Open("in") /\ Open("out") =>
    Max({Size("in"), Size("out")}) % Min({Size("in"), Size("out")}) = 0

\* CalculateBufferSettings took the size of the input for the output.
OutputTookInputSize ==
  Open("in") /\ Open("out") /\ Size("out") # SettingsOf(stream.p, "out").size

\* One buffer is processed while the others hold the suggested latency; that
\* number is wrong where the output has the size of the input.
LatencyIsCovered ==
  \A d \in Direction :
    Open(d) /\ ~IsLowLevel(stream.p, d) /\ ~(d = "out" /\ OutputTookInputSize) =>
      /\ Count(d) >= MinimumCount(stream.p, d)
      /\ (Count(d) - 1) * Size(d) >= stream.p.latency[d]

\* The directions whose own settings have the size of d's buffers: d itself, or
\* the other one where CalculateBufferSettings gave its size to d.
SizeComesFrom(d) == {o \in Direction : Open(o) /\ Size(d) = SettingsOf(stream.p, o).size}

\* Host buffers are whole user buffers, or equal parts of one that is above the
\* hard limit, if it has small factors: then no adaption adds latency.
FitsUserBuffer(size, user, limit) ==
  (\E q \in 1..64 : user % q = 0 /\ user \div q <= limit) =>
    \/ size % user = 0
    \/ user % size = 0 /\ user > limit

\* In full duplex too, where one direction may have a size that was chosen under
\* the limit of the other.  Low-level sizes are the caller's.
HostBuffersFitUserBuffers ==
  \A d \in Direction : Open(d) /\ stream.p.framesPerBuffer # 0 =>
    \E o \in SizeComesFrom(d) :
      \/ IsLowLevel(stream.p, o)
      \/ FitsUserBuffer(Size(d), stream.p.framesPerBuffer, HardLimit(stream.p, o))

\* Some drivers crash on larger buffers.  A buffer is above the limit of its
\* direction only with a size of the caller's low-level parameters, or with one
\* that CalculateBufferSettings computed for the smaller frames of the other
\* direction and gave to both.
HardLimitIsKept ==
  \A d \in Direction : Open(d) /\ Size(d) > HardLimit(stream.p, d) =>
    \E o \in SizeComesFrom(d) :
      \/ IsLowLevel(stream.p, o)
      \/ FrameSizeBytes(stream.p, o) < FrameSizeBytes(stream.p, d)

\* The settings of a stream are computed without a division by zero but for user
\* buffers that are longer than PA_MME_MAX_HOST_BUFFER_SECS_ and are not split.
DividesUnlessUserBufferIsLong ==
  crashed =>
    \E d \in Direction :
      /\ Uses(stream.p, d) /\ ~IsLowLevel(stream.p, d)
      /\ stream.p.framesPerBuffer \in stream.p.sampleRate \div 10 + 1..HardLimit(stream.p, d)

\* A host API that has started is complete, whichever devices the system has,
\* and one that failed to start has left no memory behind.
HostApiIsComplete ==
  /\ OpenTypeOK
  /\ MemoryIsAccountedFor
  /\ DevicesAreThoseOfTheSystem
  /\ DefaultsAreUsable

\* OpenStream acquires what it needs or nothing, and each thing is given back
\* once and in a legal order.
OpeningIsClean ==
  /\ NothingLeaks
  /\ NothingIsMisused
  /\ StreamDevicesExist

\* Buffer sizes and counts hold the latency, and fit the sizes of the user and of
\* the other direction.  Not for all streams: the count is wrong for an output
\* that took the input's size (LatencyIsCovered), a size taken from the direction
\* with smaller frames may be above the limit of drivers (HardLimitIsKept), and
\* long user buffers divide by zero (DividesUnlessUserBufferIsLong).
BuffersFit ==
  /\ FullDuplexSizesDivide
  /\ LatencyIsCovered
  /\ HostBuffersFitUserBuffers
  /\ HardLimitIsKept
  /\ DividesUnlessUserBufferIsLong
=============================================================================
