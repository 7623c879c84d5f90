------------------------ MODULE PaWmmeBufferSettings ------------------------
(***************************************************************************)
(* How hostapi/wmme/pa_win_wmme.c chooses the sizes and numbers of its     *)
(* host buffers, as operators: CalculateBufferSettings and what it calls.  *)
(* Latencies are given in frames.  A division by zero ends the process;    *)
(* here it gives the settings Crash.                                       *)
(***************************************************************************)
EXTENDS Integers, Sequences, SequencesExt, FiniteSetsExt

SampleSize == 2                        \* the host format is paInt16
MAX_HOST_BUFFER_BYTES == 32 * 1024
TARGET_HOST_BUFFER_COUNT == 8
GRANULARITY_WHEN_UNSPECIFIED == 16
paFramesPerBufferUnspecified == 0

Crash == [size |-> 0, count |-> 0]
NoBuffers == [size |-> 0, count |-> 0]

\* Mutant: rounded down.
CountRoundedDown(latency, size, minimum) == Max({latency \div size + 1, minimum})

\* ComputeHostBufferCountForFixedBufferSizeFrames: one more than fit into the
\* latency, rounded up.
HostBufferCount(latency, size, minimum) ==
  Max({(latency + size - 1) \div size + 1, minimum})

Sized(latency, size, minimum) ==
  IF size = 0 THEN Crash
  ELSE [size |-> size, count |-> HostBufferCount(latency, size, minimum)]

Primes == {2, 3, 5, 7, 11, 13, 17, 19, 23, 29, 31, 37, 41, 43, 47, 53, 59, 61, 67}

SmallPrimeFactors(n) == {p \in Primes : n % p = 0}

\* ComputeHostBufferSizeGivenHardUpperLimit: divide by the smallest prime until
\* the limit is met; without a small factor the result is approximate.
Divided(n, user, maximum) ==
  IF n <= maximum THEN n
  ELSE IF SmallPrimeFactors(n) # {} THEN n \div Min(SmallPrimeFactors(n))
  ELSE user \div ((user + maximum - 1) \div maximum)

SizeGivenHardUpperLimit(user, maximum) ==
  FoldLeft(LAMBDA n, i : Divided(n, user, maximum), user, [i \in 1..32 |-> i])

\* User buffers that are packed into one host buffer.
Coalesced(wanted, effective, preferred, absolute) ==
  Min({wanted, Min({absolute, preferred}) \div effective})

\* SelectHostBufferSizeFramesAndHostBufferCount.
SelectBuffers(suggested, user, minimum, preferred, absolute) ==
  LET effective == IF user = paFramesPerBufferUnspecified THEN GRANULARITY_WHEN_UNSPECIFIED
                   ELSE IF user > absolute THEN SizeGivenHardUpperLimit(user, absolute)
                   ELSE user
      latency == IF user > absolute THEN Max({suggested, user}) ELSE suggested
      plain == Sized(latency, effective, minimum)
      wanted == (plain.count - 1 + TARGET_HOST_BUFFER_COUNT - 2)
                  \div (TARGET_HOST_BUFFER_COUNT - 1)
  IN  IF effective < user \/ wanted <= 1 THEN plain
      ELSE Sized(latency, effective * Coalesced(wanted, effective, preferred, absolute),
                 minimum)

-----------------------------------------------------------------------------
(* p, the parameters of a stream, has for each direction: channels, of each *)
(* of its devices; latency; and lowLevel, the size and count asked for by   *)
(* paWinMmeUseLowLevelLatencyParameters, or NoBuffers.                      *)

Uses(p, d) == p.channels[d] # <<>>
IsFullDuplex(p) == Uses(p, "in") /\ Uses(p, "out")
FrameSizeBytes(p, d) == SampleSize * Max(ToSet(p.channels[d]))
HardLimit(p, d) == MAX_HOST_BUFFER_BYTES \div FrameSizeBytes(p, d)
IsLowLevel(p, d) == p.lowLevel[d] # NoBuffers

MinimumCount(p, d) == IF d = "in" /\ Uses(p, "out") THEN 3 ELSE 2

\* The settings of direction d on its own.
SettingsOf(p, d) ==
  IF ~Uses(p, d) THEN NoBuffers
  ELSE IF IsLowLevel(p, d) THEN p.lowLevel[d]
  ELSE SelectBuffers(p.latency[d], p.framesPerBuffer, MinimumCount(p, d),
                     p.sampleRate \div 10, HardLimit(p, d))

\* Low-level parameters of both directions that do not fit are an error.
AreIncompatible(p) ==
  LET in == SettingsOf(p, "in")
      out == SettingsOf(p, "out")
  IN  /\ IsFullDuplex(p) /\ IsLowLevel(p, "in") /\ IsLowLevel(p, "out")
      /\ Max({in.size, out.size}) % Min({in.size, out.size}) # 0

Settings(in, out) == [d \in {"in", "out"} |-> IF d = "in" THEN in ELSE out]

\* CalculateBufferSettings harmonizes the two directions of a full duplex
\* stream.  Where it means to compare the sizes it compares the addresses of
\* the two results; inputFirst is what the build makes of that.  The output's
\* buffers are then counted with their old number for their size.
CalculateBufferSettings(p, inputFirst) ==
  LET in == SettingsOf(p, "in")
      out == SettingsOf(p, "out")
  IN  IF ~IsFullDuplex(p) \/ Crash \in {in, out} \/ in.size = out.size \/ (IsLowLevel(p, "in") /\ IsLowLevel(p, "out"))
        THEN Settings(in, out)
      ELSE IF ~IsLowLevel(p, "out") /\ inputFirst
        THEN Settings(in, [size |-> in.size,
                           count |-> HostBufferCount(p.latency["out"], out.count, 2)])
      ELSE Settings(Sized(p.latency["in"], out.size, 3), out)
=============================================================================
