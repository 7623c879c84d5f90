---------------------------- MODULE MCPaWmmeOpen ----------------------------
EXTENDS PaWmmeOpen

Each(in, out) == [d \in Direction |-> IF d = "in" THEN in ELSE out]

System(in, out, preferredIn, preferredOut, recommendedIn, recommendedOut) ==
  [caps |-> Each(in, out), preferred |-> Each(preferredIn, preferredOut),
   recommended |-> Each(recommendedIn, recommendedOut)]

\* Two devices each way, the first the mapper; some ignored, or without memory.
Caps == {<<"ok", "ok">>, <<"ignored", "ok">>, <<"ok", "MMSYSERR_NOMEM">>}
Full == System(<<"ok", "ok", "ok">>, <<"ok", "ok", "ok">>, 0, 1, 9, 9)
MCSystems ==
  {Full} \cup
  {System(in, out, 0, preferred, recommended, 1) :
     in \in Caps \cup {<<>>}, out \in Caps \cup {<<>>}, preferred \in {-1, 0}, recommended \in {0, 2}}

Request(p, fault, inputFirst) == [p |-> p, fault |-> fault, inputFirst |-> inputFirst]
Stream(channels, devices, latency, lowLevel, framesPerBuffer, sampleRate, callback) ==
  [channels |-> channels, devices |-> devices, latency |-> latency, lowLevel |-> lowLevel,
   framesPerBuffer |-> framesPerBuffer, sampleRate |-> sampleRate, callback |-> callback]

Low(size, count) == [size |-> size, count |-> count]
NotLow == Each(NoBuffers, NoBuffers)
Devices(channels) ==
  Each(SubSeq(<<1, 2>>, 1, Len(channels["in"])), SubSeq(<<4, 5>>, 1, Len(channels["out"])))

\* Which acquisition fails: two buffers for each device, with two devices at most.
Duplex == {Each(<<1>>, <<1, 1>>), Each(<<1, 2>>, <<>>), Each(<<>>, <<1>>), Each(<<1>>, <<1>>)}
MCFaults ==
  {Request(Stream(channels, Devices(channels), Each(0, 0), Each(Low(2, 2), Low(4, 2)), 2, 8000, callback),
           fault, FALSE) : channels \in Duplex, callback \in BOOLEAN, fault \in 0..40}

\* Which buffers are chosen, up to a number that TLC can handle one by one.
MaxBuffers == 100
Chosen(latencies, channels, sizes, rates, lowLevels) ==
  {Request(Stream(c, Devices(c), Each(in, out), low, size, rate, TRUE), 0, inputFirst) :
     in \in latencies, out \in latencies, c \in channels, size \in sizes, rate \in rates,
     low \in lowLevels, inputFirst \in BOOLEAN}
FewBuffers(r) ==
  \A d \in Direction : CalculateBufferSettings(r.p, r.inputFirst)[d].count <= MaxBuffers
MCSettings ==
  {r \in Chosen({0, 441, 20000}, {Each(<<2>>, <<2>>), Each(<<1>>, <<8>>), Each(<<8>>, <<1>>),
                               Each(<<2>>, <<>>), Each(<<>>, <<8>>)},
                {0, 64, 1000, 16000, 20007, 20011}, {8000, 44100},
                {NotLow, Each(NoBuffers, Low(64, 4)), Each(Low(64, 4), NoBuffers)}) : FewBuffers(r)}

MCRequests == MCFaults \cup MCSettings
=============================================================================
