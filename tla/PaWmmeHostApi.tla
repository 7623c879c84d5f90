--------------------------- MODULE PaWmmeHostApi ----------------------------
(***************************************************************************)
(* PaWinMme_Initialize and Terminate of hostapi/wmme/pa_win_wmme.c: the    *)
(* wave devices become the devices of the host API, each of which may be   *)
(* ignored, and any call that allocates memory may fail.                   *)
(***************************************************************************)
EXTENDS PaAllocationGroup, SequencesExt, FiniteSetsExt

CONSTANTS
  Systems,        \* the computers: what waveInGetDevCaps and waveOutGetDevCaps
                  \* say of the devices with the IDs -1, 0, 1, ..., which device
                  \* is preferred, and which one the environment recommends
  MaxFaults       \* bound: the last call of an operation that can be made to fail

paNoDevice == -1
Direction == {"in", "out"}
Capabilities == {"ok", "ignored", "MMSYSERR_NOMEM"}

ASSUME HostApiAssumption ==
  /\ MaxFaults \in Nat
  /\ \A s \in Systems : \A d \in Direction :
       /\ s.caps[d] \in Seq(Capabilities)
       /\ s.preferred[d] \in Int /\ s.recommended[d] \in Int

VARIABLES
  system,         \* the computer
  hostApi,        \* the PaWinMmeHostApiRepresentation, or NoHostApi
  memory          \* the memory it has, see PaAllocationGroup

\* A device of the host API: its direction and its ID among the wave devices.
NoHostApi ==
  [initialized |-> FALSE, devices |-> <<>>, maximumPossibleDeviceCount |-> 0,
   count |-> [d \in Direction |-> 0], default |-> [d \in Direction |-> paNoDevice]]

HostApiInit ==
  /\ system \in Systems
  /\ hostApi = NoHostApi
  /\ memory = Memory(0, 0)

-----------------------------------------------------------------------------
(* m is the memory, with the host API as its field api.                    *)

Then(m, Step(_)) == IF m.ok THEN Step(m) ELSE m

\* The mapper is assumed when there is another device.
WaveDeviceCount(d) == Len(system.caps[d])

\* What the system says of its devices.
WaveDevices(d) ==
  [i \in 1..WaveDeviceCount(d) |->
     [direction |-> d, id |-> i - 2, caps |-> system.caps[d][i],
      preferred |-> system.preferred[d] = i - 2]]

\* The first device is the default one until the preferred one is met.
DefaultAfter(api, device) ==
  IF api.default[device.direction] = paNoDevice \/ device.preferred
    THEN Len(api.devices) ELSE api.default[device.direction]

Named(m, device) ==
  LET d == device.direction
  IN  [m EXCEPT !.api.default[d] = DefaultAfter(m.api, device),
                !.api.devices = Append(@, [direction |-> d, id |-> device.id]),
                !.api.count[d] = @ + 1]

\* InitializeInputDeviceInfo or InitializeOutputDeviceInfo, and its caller.  A
\* device whose capabilities cannot be had is ignored.
AddDevice(m, device) ==
  CASE ~m.ok \/ device.caps = "ignored" -> m
    [] m.ok /\ device.caps = "MMSYSERR_NOMEM" -> [m EXCEPT !.ok = FALSE]
    [] m.ok /\ device.caps = "ok" ->
         Then(GroupAllocateMemory(m), LAMBDA n : Named(n, device))

AddDevices(m, d) == FoldLeft(AddDevice, m, WaveDevices(d))

IsRecommended(api, d) ==
  /\ system.recommended[d] \in 0..Len(api.devices)-1
  /\ api.devices[system.recommended[d] + 1].direction = d

InitializeDefaultDeviceIdsFromEnv(m) ==
  [m EXCEPT !.api.default = [d \in Direction |->
     IF IsRecommended(m.api, d) THEN system.recommended[d] ELSE @[d]]]

\* deviceInfos, deviceInfoArray and winMmeDeviceIds.
DeviceArrays(m) ==
  Then(Then(Then(m, GroupAllocateMemory), GroupAllocateMemory), GroupAllocateMemory)

\* What is freed on an error, if there is a group, and by Terminate.
FreeHostApi(m) ==
  LET none == IF m.group = NoGroup THEN m
              ELSE DestroyAllocationGroup(FreeAllAllocations(m))
  IN  IF none.blocks > 0 THEN Free(none, 1) ELSE none

PaWinMme_Initialize(fault) ==
  LET count == WaveDeviceCount("in") + WaveDeviceCount("out")
      api == [NoHostApi EXCEPT !.initialized = TRUE, !.maximumPossibleDeviceCount = count]
      none == [blocks |-> 0, group |-> NoGroup, calls |-> 0, fault |-> fault, ok |-> TRUE,
               api |-> api]
      m == Then(Allocate(none), CreateAllocationGroup)
      devices == IF count = 0 THEN m ELSE
                 AddDevices(AddDevices(DeviceArrays(m), "in"), "out")
  IN  Then(devices, InitializeDefaultDeviceIdsFromEnv)

InitializeHostApi(fault) ==
  /\ ~hostApi.initialized
  /\ LET m == PaWinMme_Initialize(fault)
         kept == [blocks |-> m.blocks, group |-> m.group, calls |-> 0, fault |-> 0, ok |-> TRUE]
     IN  /\ hostApi' = IF m.ok THEN m.api ELSE NoHostApi
         /\ memory' = IF m.ok THEN kept ELSE FreeHostApi(kept)
  /\ UNCHANGED system

TerminateHostApi ==
  /\ hostApi.initialized
  /\ hostApi' = NoHostApi
  /\ memory' = FreeHostApi(memory)
  /\ UNCHANGED system

-----------------------------------------------------------------------------
(* Properties.                                                             *)

HostApiTypeOK ==
  /\ system \in Systems
  /\ hostApi.devices \in Seq([direction : Direction, id : Int])
  /\ hostApi.count \in [Direction -> Nat]
  /\ hostApi.default \in [Direction -> Int]
  /\ memory.blocks \in Nat /\ memory.ok

\* Whichever allocation failed, what is allocated is what a host API needs:
\* nothing at all when there is none, and the group accounts for each link.
MemoryIsAccountedFor ==
  /\ LinksAreConserved(memory)
  /\ memory.blocks = IF ~hostApi.initialized THEN 0
                     ELSE 2 + memory.group.linkBlocks + memory.group.allocations

\* The devices are those with capabilities, inputs before outputs and in the
\* order of their IDs, and they fit into the arrays that were allocated.
DevicesAreThoseOfTheSystem ==
  hostApi.initialized =>
    LET devices == hostApi.devices
        usable == {x \in ToSet(WaveDevices("in")) \cup ToSet(WaveDevices("out")) : x.caps = "ok"}
    IN  /\ ToSet(devices) = {[direction |-> x.direction, id |-> x.id] : x \in usable}
        /\ \A k, l \in DOMAIN devices : k < l =>
             \/ devices[k].direction = "in" /\ devices[l].direction = "out"
             \/ devices[k].direction = devices[l].direction /\ devices[k].id < devices[l].id
        /\ \A k \in DOMAIN devices : devices[k].direction = "in" <=> k <= hostApi.count["in"]
        /\ Len(devices) = hostApi.count["in"] + hostApi.count["out"]
        /\ Len(devices) <= hostApi.maximumPossibleDeviceCount

\* The default device of a direction can do that direction, there is one if any
\* device can, and it is the recommended, else the preferred one, if usable.
DefaultsAreUsable ==
  hostApi.initialized =>
    \A d \in Direction :
      LET default == hostApi.default[d]
          indices == {i \in 0..Len(hostApi.devices)-1 : hostApi.devices[i + 1].direction = d}
          preferred == {i \in indices : hostApi.devices[i + 1].id = system.preferred[d]}
      IN  IF indices = {} THEN default = paNoDevice
          ELSE default \in IF system.recommended[d] \in indices THEN {system.recommended[d]}
                           ELSE IF preferred # {} THEN preferred ELSE indices
=============================================================================
