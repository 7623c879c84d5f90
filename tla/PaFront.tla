------------------------------ MODULE PaFront -------------------------------
(***************************************************************************)
(* The host API layer of common/pa_front.c: reference-counted             *)
(* initialisation, initialising and terminating the host APIs, the device  *)
(* indices spread over them, and the linked list of open streams.          *)
(*                                                                         *)
(* Calls are made one at a time, as PortAudio demands of its clients.  The *)
(* loops of Pa_Initialize and Pa_Terminate take one step per iteration.    *)
(* Host APIs and streams are the ones of pa_hostapi.h and pa_stream.h,     *)
(* known by what the layer does with them.  Indices count from 0.          *)
(***************************************************************************)
EXTENDS Integers, Sequences, FiniteSets

CONSTANTS
  InitializerCount,        \* length of paHostApiInitializers
  InitializerResults,      \* [0..InitializerCount-1 -> what each may deliver]
  Streams,                 \* addresses of streams
  MaxInitializations,      \* bound on initializationCount_
  MaxEpochs,               \* bound: how often the host APIs are initialised
  SpecificTypes,           \* host API types in a hostApiSpecificStreamInfo
  AbortMayFail, CloseMayFail   \* may the calls of the host API fail

paNoDevice == -1
paHostApiNotFound == -9979
NULL == "NULL"
NoHostApi == <<0, 0>>

\* What a host API initialiser may deliver: an error, nothing, or a host API.
InitializerResult ==
  [result : {"paNoError", "error"}, present : BOOLEAN, deviceCount : Nat,
   defaultInputDevice : Nat \cup {paNoDevice},
   defaultOutputDevice : Nat \cup {paNoDevice}]

ASSUME FrontAssumption ==
  /\ InitializerCount \in Nat /\ NULL \notin Streams /\ IsFiniteSet(Streams)
  /\ MaxInitializations \in Nat \ {0} /\ MaxEpochs \in Nat
  /\ \A n \in 0..InitializerCount-1 : \A r \in InitializerResults[n] :
       /\ r \in InitializerResult
       /\ r.defaultInputDevice < r.deviceCount    \* asserted by the code
       /\ r.defaultOutputDevice < r.deviceCount
  /\ AbortMayFail \in BOOLEAN /\ CloseMayFail \in BOOLEAN

VARIABLES
  hostApis,                \* hostApis_[0..hostApisCount_-1], as a sequence
  defaultHostApiIndex, initializationCount, deviceCount,
  firstOpenStream, nextOpenStream,
  initialized,             \* host APIs initialised and not yet terminated
  epoch,                   \* how often the host APIs have been initialised
  stream,                  \* "free", "stopped", "running"; "hung": Abort fails
  hostApiOf,               \* the host API that opened a stream
  lost,                    \* open streams that could not be closed
  call,                    \* the call under way that takes several steps
  pc, i, baseDeviceIndex   \* where it is, and its locals

globals == <<hostApis, defaultHostApiIndex, initializationCount, deviceCount>>
openStreams == <<firstOpenStream, nextOpenStream>>
streamVars == <<stream, hostApiOf, lost>>
locals == <<call, pc, i, baseDeviceIndex>>
vars == <<globals, openStreams, initialized, epoch, streamVars, locals>>

hostApisCount == Len(hostApis)
HostApi(n) == hostApis[n + 1]
PA_IS_INITIALISED == initializationCount # 0

Init ==
  /\ hostApis = <<>> /\ defaultHostApiIndex = 0
  /\ initializationCount = 0 /\ deviceCount = 0
  /\ firstOpenStream = NULL /\ nextOpenStream = [s \in Streams |-> NULL]
  /\ initialized = {} /\ epoch = 0
  /\ stream = [s \in Streams |-> "free"]
  /\ hostApiOf = [s \in Streams |-> NoHostApi]
  /\ lost = {}
  /\ call = "none" /\ pc = "idle" /\ i = 0 /\ baseDeviceIndex = 0

-----------------------------------------------------------------------------
(* Pa_Initialize.                                                          *)

\* A default device as the whole library numbers it.
GlobalIndex(device, base) == IF device = paNoDevice THEN device ELSE device + base

InitializeAgain ==
  /\ pc = "idle" /\ PA_IS_INITIALISED
  /\ initializationCount < MaxInitializations
  /\ initializationCount' = initializationCount + 1
  /\ UNCHANGED <<hostApis, defaultHostApiIndex, deviceCount, openStreams,
                 initialized, epoch, streamVars, locals>>

\* InitializeHostApis, up to its loop.
Initialize ==
  /\ pc = "idle" /\ ~PA_IS_INITIALISED /\ epoch < MaxEpochs
  /\ epoch' = epoch + 1
  /\ hostApis' = <<>> /\ defaultHostApiIndex' = -1 /\ deviceCount' = 0
  /\ call' = "Pa_Initialize" /\ pc' = "initializeHostApi"
  /\ i' = 0 /\ baseDeviceIndex' = 0
  /\ UNCHANGED <<initializationCount, openStreams, initialized, streamVars>>

\* One initialiser that delivers a host API.
InitializeHostApi(r) ==
  /\ pc = "initializeHostApi" /\ i < InitializerCount
  /\ r.result = "paNoError" /\ r.present
  /\ defaultHostApiIndex' =
       IF /\ defaultHostApiIndex = -1
          /\ r.defaultInputDevice # paNoDevice \/ r.defaultOutputDevice # paNoDevice
         THEN hostApisCount ELSE defaultHostApiIndex
  /\ hostApis' = Append(hostApis,
       [type |-> i, epoch |-> epoch, deviceCount |-> r.deviceCount,
        baseDeviceIndex |-> baseDeviceIndex,
        defaultInputDevice |-> GlobalIndex(r.defaultInputDevice, baseDeviceIndex),
        defaultOutputDevice |-> GlobalIndex(r.defaultOutputDevice, baseDeviceIndex)])
  /\ initialized' = initialized \cup {<<epoch, i>>}
  /\ baseDeviceIndex' = baseDeviceIndex + r.deviceCount
  /\ deviceCount' = deviceCount + r.deviceCount
  /\ i' = i + 1
  /\ UNCHANGED <<initializationCount, openStreams, epoch, streamVars, call, pc>>

\* One that has nothing to offer on this machine.
SkipHostApi(r) ==
  /\ pc = "initializeHostApi" /\ i < InitializerCount
  /\ r.result = "paNoError" /\ ~r.present
  /\ i' = i + 1
  /\ UNCHANGED <<globals, openStreams, initialized, epoch, streamVars, call,
                 pc, baseDeviceIndex>>

\* Mutant: a failed initialisation leaves the host APIs before it alone.
FailAtOnce(r) ==
  /\ pc = "initializeHostApi" /\ i < InitializerCount
  /\ r.result = "error"
  /\ pc' = "idle" /\ call' = "none"
  /\ UNCHANGED <<globals, openStreams, initialized, epoch, streamVars, i,
                 baseDeviceIndex>>

\* One that fails: those before it are terminated, and Pa_Initialize fails.
HostApiFails(r) ==
  /\ pc = "initializeHostApi" /\ i < InitializerCount
  /\ r.result = "error"
  /\ pc' = "terminateHostApis"
  /\ UNCHANGED <<globals, openStreams, initialized, epoch, streamVars, call, i,
                 baseDeviceIndex>>

Initialized ==
  /\ pc = "initializeHostApi" /\ i = InitializerCount
  /\ defaultHostApiIndex' = IF defaultHostApiIndex = -1 THEN 0 ELSE defaultHostApiIndex
  /\ initializationCount' = initializationCount + 1
  /\ pc' = "idle" /\ call' = "none"
  /\ UNCHANGED <<hostApis, deviceCount, openStreams, initialized, epoch,
                 streamVars, i, baseDeviceIndex>>

-----------------------------------------------------------------------------
(* Pa_Terminate.                                                           *)

TerminateNotLast ==
  /\ pc = "idle" /\ initializationCount > 1
  /\ initializationCount' = initializationCount - 1
  /\ UNCHANGED <<hostApis, defaultHostApiIndex, deviceCount, openStreams,
                 initialized, epoch, streamVars, locals>>

\* The last one: initializationCount stays positive while it closes streams.
Terminate ==
  /\ pc = "idle" /\ initializationCount = 1
  /\ call' = "Pa_Terminate" /\ pc' = "closeOpenStreams"
  /\ UNCHANGED <<globals, openStreams, initialized, epoch, streamVars, i,
                 baseDeviceIndex>>

\* TerminateHostApis: the last one initialised is the first one terminated.
TerminateHostApi ==
  /\ pc = "terminateHostApis" /\ hostApisCount > 0
  /\ hostApis' = SubSeq(hostApis, 1, hostApisCount - 1)
  /\ initialized' = initialized \
       {<<HostApi(hostApisCount - 1).epoch, HostApi(hostApisCount - 1).type>>}
  /\ UNCHANGED <<defaultHostApiIndex, initializationCount, deviceCount,
                 openStreams, epoch, streamVars, locals>>

HostApisTerminated ==
  /\ pc = "terminateHostApis" /\ hostApisCount = 0
  /\ defaultHostApiIndex' = 0 /\ deviceCount' = 0
  /\ initializationCount' =
       IF call = "Pa_Terminate" THEN initializationCount - 1 ELSE initializationCount
  /\ pc' = "idle" /\ call' = "none"
  /\ UNCHANGED <<hostApis, openStreams, initialized, epoch, streamVars, i,
                 baseDeviceIndex>>

-----------------------------------------------------------------------------
(* Device indices.                                                         *)

\* Mutant: a device index equal to the number of devices is let through.
FindHostApiOffByOne(device) ==
  LET after(n) == HostApi(n).baseDeviceIndex + HostApi(n).deviceCount
      ns == {n \in 0..hostApisCount-1 : device <= after(n)}
  IN  IF ~PA_IS_INITIALISED \/ device < 0 \/ ns = {} THEN -1
      ELSE CHOOSE n \in ns : \A k \in ns : n <= k

\* FindHostApi: skip host APIs, taking their devices off the index, until what
\* is left belongs to one; -1 if none.
FindHostApi(device) ==
  LET skipped[n \in 0..hostApisCount] ==
        IF n = 0 THEN 0 ELSE skipped[n-1] + HostApi(n-1).deviceCount
      ns == {n \in 0..hostApisCount-1 :
               device - skipped[n] < HostApi(n).deviceCount}
  IN  IF ~PA_IS_INITIALISED \/ device < 0 \/ ns = {} THEN -1
      ELSE CHOOSE n \in ns : \A k \in ns : n <= k

\* Pa_HostApiDeviceIndexToDeviceIndex, for a device that exists.
HostApiDeviceIndexToDeviceIndex(n, hostApiDevice) ==
  HostApi(n).baseDeviceIndex + hostApiDevice

\* PaUtil_DeviceIndexToHostApiDeviceIndex; paNoDevice stands for the error.
DeviceIndexToHostApiDeviceIndex(device, n) ==
  LET x == device - HostApi(n).baseDeviceIndex
  IN  IF x < 0 \/ x >= HostApi(n).deviceCount THEN paNoDevice ELSE x

HostApiTypeIdToHostApiIndex(type) ==
  LET ns == {n \in 0..hostApisCount-1 : HostApi(n).type = type}
  IN  IF ns = {} THEN paHostApiNotFound ELSE CHOOSE n \in ns : \A k \in ns : n <= k

-----------------------------------------------------------------------------
(* Streams.                                                                *)

\* The list from firstOpenStream_ on: its n-th node, NULL past the end.
Node(n) ==
  LET at[k \in 0..n] ==
        IF k = 0 THEN firstOpenStream
        ELSE IF at[k-1] = NULL THEN NULL ELSE nextOpenStream[at[k-1]]
  IN  at[n]
Listed == {Node(n) : n \in 0..Cardinality(Streams)} \ {NULL}

AddOpenStream(s) ==
  /\ nextOpenStream' = [nextOpenStream EXCEPT ![s] = firstOpenStream]
  /\ firstOpenStream' = s

RemoveOpenStream(s) ==
  /\ firstOpenStream' = IF firstOpenStream = s THEN nextOpenStream[s] ELSE firstOpenStream
  /\ nextOpenStream' = [p \in Streams |->
       IF firstOpenStream # s /\ p \in Listed /\ nextOpenStream[p] = s
         THEN nextOpenStream[s] ELSE nextOpenStream[p]]

\* ValidateOpenStreamParameters for one direction: the index of the host API.
\* A device specification names either a device or the type of a host API.
HostApiIndexOf(spec) ==
  IF spec.kind = "device"
    THEN IF spec.device < 0 \/ spec.device >= deviceCount THEN -1
         ELSE FindHostApi(spec.device)
    ELSE HostApiTypeIdToHostApiIndex(spec.type)

\* The direction is accepted: a device must be found; a type is only rejected
\* if its index is -1.
Accepts(spec) ==
  IF spec.kind = "device" THEN HostApiIndexOf(spec) >= 0 ELSE HostApiIndexOf(spec) # -1

\* hostApis_[n] as the caller gets it: past either end it is not a host API.
HostApiAt(n) ==
  IF n \in 0..hostApisCount-1 THEN <<HostApi(n).epoch, HostApi(n).type>> ELSE <<0, n>>

DeviceSpecs ==
  {[kind |-> "device", device |-> d] : d \in -1..deviceCount}
    \cup {[kind |-> "specific", type |-> t] : t \in SpecificTypes}

\* Pa_OpenStream that succeeds, with one or two directions of the same host API.
OpenStream(s, specs) ==
  /\ pc = "idle" /\ PA_IS_INITIALISED /\ stream[s] = "free"
  /\ specs # {} /\ \A spec \in specs : Accepts(spec)
  /\ \A spec, other \in specs : HostApiIndexOf(spec) = HostApiIndexOf(other)
  /\ \E spec \in specs :
       hostApiOf' = [hostApiOf EXCEPT ![s] = HostApiAt(HostApiIndexOf(spec))]
  /\ stream' = [stream EXCEPT ![s] = "stopped"]
  /\ AddOpenStream(s)
  /\ UNCHANGED <<globals, initialized, epoch, lost, locals>>

\* The outcome of closing a stream: closed, or still there.
Closed(s) ==
  /\ stream' = [stream EXCEPT ![s] = "free"]
  /\ hostApiOf' = [hostApiOf EXCEPT ![s] = NoHostApi]
  /\ lost' = lost \ {s}
NotClosed(s, state) ==
  /\ stream' = [stream EXCEPT ![s] = state]
  /\ lost' = lost \cup {s}
  /\ UNCHANGED hostApiOf

\* Mutant: a stream leaves the list only when it could be closed.
CloseThenRemove(s) ==
  \/ stream[s] # "hung" /\ Closed(s) /\ RemoveOpenStream(s)
  \/ stream[s] = "hung" /\ NotClosed(s, "hung") /\ UNCHANGED openStreams

\* Pa_CloseStream: off the list first; then Abort unless stopped, and Close if
\* that went well.
Close(s) ==
  /\ RemoveOpenStream(s)
  /\ \/ stream[s] = "hung" /\ NotClosed(s, "hung")
     \/ stream[s] # "hung" /\ Closed(s)
     \/ stream[s] # "hung" /\ CloseMayFail /\ NotClosed(s, "stopped")

CloseStream(s) ==
  /\ pc = "idle" /\ PA_IS_INITIALISED /\ stream[s] # "free"
  /\ Close(s)
  /\ UNCHANGED <<globals, initialized, epoch, locals>>

\* CloseOpenStreams within Pa_Terminate.
CloseOpenStream ==
  /\ pc = "closeOpenStreams" /\ firstOpenStream # NULL
  /\ Close(firstOpenStream)
  /\ UNCHANGED <<globals, initialized, epoch, locals>>

OpenStreamsClosed ==
  /\ pc = "closeOpenStreams" /\ firstOpenStream = NULL
  /\ pc' = "terminateHostApis"
  /\ UNCHANGED <<globals, openStreams, initialized, epoch, streamVars, call, i,
                 baseDeviceIndex>>

StartStream(s) ==
  /\ pc = "idle" /\ PA_IS_INITIALISED /\ stream[s] = "stopped"
  /\ stream' = [stream EXCEPT ![s] = "running"]
  /\ UNCHANGED <<globals, openStreams, initialized, epoch, hostApiOf, lost, locals>>

\* A device error or a wait that times out: from now on Abort fails.
StreamHangs(s) ==
  /\ AbortMayFail /\ pc = "idle" /\ stream[s] = "running"
  /\ stream' = [stream EXCEPT ![s] = "hung"]
  /\ UNCHANGED <<globals, openStreams, initialized, epoch, hostApiOf, lost, locals>>

\* Pa_StopStream, which stops the stream also when it reports an error, or
\* Pa_AbortStream that succeeds.
StopStream(s) ==
  /\ pc = "idle" /\ PA_IS_INITIALISED /\ stream[s] \in {"running", "hung"}
  /\ stream' = [stream EXCEPT ![s] = "stopped"]
  /\ UNCHANGED <<globals, openStreams, initialized, epoch, hostApiOf, lost, locals>>

-----------------------------------------------------------------------------
InCall ==
  \/ i < InitializerCount /\ \E r \in InitializerResults[i] :
       InitializeHostApi(r) \/ SkipHostApi(r) \/ HostApiFails(r)
  \/ Initialized \/ CloseOpenStream \/ OpenStreamsClosed
  \/ TerminateHostApi \/ HostApisTerminated

Next ==
  \/ Initialize \/ InitializeAgain \/ Terminate \/ TerminateNotLast
  \/ \E s \in Streams : \E a, b \in DeviceSpecs : OpenStream(s, {a, b})
  \/ \E s \in Streams : CloseStream(s) \/ StartStream(s) \/ StreamHangs(s) \/ StopStream(s)
  \/ InCall

Spec == Init /\ [][Next]_vars

\* A call that has been made runs on.
FairSpec == Spec /\ WF_vars(InCall)

-----------------------------------------------------------------------------
(* Properties.                                                             *)

TypeOK ==
  /\ \A n \in 0..hostApisCount-1 :
       /\ HostApi(n).type \in 0..InitializerCount-1 /\ HostApi(n).epoch \in 1..MaxEpochs
       /\ HostApi(n).deviceCount \in Nat /\ HostApi(n).baseDeviceIndex \in Nat
  /\ hostApisCount <= InitializerCount
  /\ defaultHostApiIndex \in -1..InitializerCount
  /\ initializationCount \in 0..MaxInitializations
  /\ deviceCount \in Nat /\ baseDeviceIndex \in Nat
  /\ firstOpenStream \in Streams \cup {NULL}
  /\ nextOpenStream \in [Streams -> Streams \cup {NULL}]
  /\ initialized \subseteq (1..MaxEpochs) \X (0..InitializerCount-1)
  /\ epoch \in 0..MaxEpochs /\ i \in 0..InitializerCount
  /\ stream \in [Streams -> {"free", "stopped", "running", "hung"}]
  /\ lost \subseteq Streams
  /\ call \in {"none", "Pa_Initialize", "Pa_Terminate"}
  /\ pc \in {"idle", "initializeHostApi", "closeOpenStreams", "terminateHostApis"}

LiveStreams == {s \in Streams : stream[s] # "free"}

\* Whatever the order in which streams are opened and closed, and whichever
\* calls fail, the linked list ends, never holds a freed stream, and holds
\* every open one that no call has failed to close: none is forgotten.
OpenListIsExact ==
  /\ Listed = LiveStreams \ lost
  /\ Node(Cardinality(Listed)) = NULL

\* An open stream's host API, whose functions its interface points to, has not
\* been terminated, but for a stream that could not be closed: Pa_Terminate
\* closes streams before it terminates host APIs.
StreamHostApiIsInitialized ==
  \A s \in LiveStreams \ lost : hostApiOf[s] \in initialized

\* Every initialised host API is known to the front end, also half way through
\* a Pa_Initialize that fails: none is leaked, none is terminated twice.
NoHostApiLeaked ==
  /\ initialized = {<<HostApi(n).epoch, HostApi(n).type>> : n \in 0..hostApisCount-1}
  /\ Cardinality(initialized) = hostApisCount
  /\ ~PA_IS_INITIALISED /\ pc = "idle" => initialized = {}

\* Device indices are dense: each in 0..Pa_GetDeviceCount()-1 belongs to one
\* device of one host API, converting back and forth is the identity, and all
\* others are rejected, also with host APIs that have no devices in between.
DeviceIndicesRoundTrip ==
  pc = "idle" /\ PA_IS_INITIALISED =>
    /\ \A d \in -1..deviceCount :
         LET n == FindHostApi(d) IN
         IF d \in 0..deviceCount-1
           THEN /\ n \in 0..hostApisCount-1
                /\ LET x == DeviceIndexToHostApiDeviceIndex(d, n) IN
                     x # paNoDevice /\ HostApiDeviceIndexToDeviceIndex(n, x) = d
           ELSE n = -1
    /\ \A n \in 0..hostApisCount-1 : \A x \in 0..HostApi(n).deviceCount-1 :
         FindHostApi(HostApiDeviceIndexToDeviceIndex(n, x)) = n

\* The default host API has a default device if any host API has one, and
\* default devices belong to the host API they are the default of.
DefaultDevicesAreUsable ==
  pc = "idle" /\ PA_IS_INITIALISED /\ hostApisCount > 0 =>
    LET devices(n) == {HostApi(n).defaultInputDevice, HostApi(n).defaultOutputDevice}
                        \ {paNoDevice}
    IN  /\ defaultHostApiIndex \in 0..hostApisCount-1
        /\ devices(defaultHostApiIndex) = {} =>
             \A n \in 0..hostApisCount-1 : devices(n) = {}
        /\ \A n \in 0..hostApisCount-1 : \A d \in devices(n) : FindHostApi(d) = n

\* Pa_Initialize and Pa_Terminate return, also when streams cannot be closed.
CallsReturn == (call # "none") ~> (call = "none")

\* What the front end lists is what there is: open streams and initialised host
\* APIs, half way through failing calls too.
StreamsAndHostApisAreListed ==
  /\ TypeOK
  /\ OpenListIsExact
  /\ StreamHostApiIsInitialized
  /\ NoHostApiLeaked

\* The device indices of the application and those of host APIs agree.
DevicesAreIndexed ==
  /\ DeviceIndicesRoundTrip
  /\ DefaultDevicesAreUsable
=============================================================================
