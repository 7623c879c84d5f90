----------------------- MODULE PaBufferProcessorProofs -----------------------
(***************************************************************************)
(* Proofs about PaBufferProcessor, for host buffers and blocks of any size: *)
(* no frame is lost, repeated or reordered on its way through the buffer    *)
(* processor, the callback is called with whole blocks, input and output    *)
(* stay in step, and the latency is constant and as small as it can be.     *)
(***************************************************************************)
EXTENDS PaBufferProcessor, NumberTheorems, SequenceTheorems, TLAPS

-----------------------------------------------------------------------------
(* The inductive invariant.                                                *)

N == bp.framesPerUserBuffer

TypeInv ==
  /\ bp \in Configurations
  /\ tempInput \in Seq(Nat) /\ tempOutput \in Seq(Nat)
  /\ \E a, b \in Seq(Nat) : hostInput = <<a, b>>
  /\ \E m, n \in Nat : hostOutput = <<m, n>>
  /\ noInput \in BOOLEAN
  /\ callbackResult \in {"paContinue", "paComplete", "paAbort"}
  /\ pc \in {"idle", "nonAdapting", "adaptingInput", "adaptingOutput",
             "beginAdapting", "adapting"}
  /\ supplied \in 0..MaxFrames
  /\ heard \in Seq(Nat) /\ generated \in Seq(Nat) /\ played \in Seq(Nat)

\* Which process runs depends on the configuration; it leaves no input behind,
\* and what does not adapt host buffers consumes input and output in step.
PhaseInv ==
  /\ pc = "nonAdapting" => UseNonAdaptingProcess
  /\ pc # "idle" /\ pc # "nonAdapting" => ~UseNonAdaptingProcess
  /\ pc = "adaptingInput" => IsInput /\ ~IsOutput
  /\ pc = "adaptingOutput" => IsOutput /\ ~IsInput
  /\ pc \in {"beginAdapting", "adapting"} => IsFullDuplex
  /\ noInput => IsFullDuplex /\ UseNonAdaptingProcess
  /\ pc = "idle" \/ noInput \/ ~IsInput => InputFrames = <<>>
  /\ pc = "nonAdapting" /\ IsFullDuplex /\ ~noInput => Len(InputFrames) = OutputRoom

\* At most a block is held back, and nothing where buffers are not adapted.
HeldInv ==
  IF UseNonAdaptingProcess THEN tempInput = <<>> /\ tempOutput = <<>>
  ELSE Len(tempInput) <= N /\ Len(tempOutput) <= N

\* Blocks are whole, since the parts of a host buffer are where they need be.
BlockInv ==
  /\ blockSizes \subseteq 1..FramesPerTempBuffer
  /\ N # 0 => blockSizes \subseteq {N}
  /\ pc = "nonAdapting" /\ N # 0 =>
       /\ Len(hostInput[1]) % N = 0 /\ Len(hostInput[2]) % N = 0
       /\ IsOutput => hostOutput[1] % N = 0 /\ hostOutput[2] % N = 0

Arrived == Zeros(InitialFramesInTempInputBuffer) \o [k \in 1..supplied |-> k]

\* What arrived has been heard up to somewhere, and until the callback ends the
\* rest is what is held back and what is left in the host's buffers.
InputInv ==
  IsInput => \E rest \in Seq(Nat) :
    /\ Arrived = heard \o rest
    /\ callbackResult = "paContinue" => rest = tempInput \o InputFrames

Expected == Zeros(InitialFramesInTempOutputBuffer) \o generated

\* What is expected has been played up to what is held back, or all of it and
\* then zeros.
OutputInv ==
  IsOutput =>
    \/ played \o tempOutput = Expected
    \/ /\ tempOutput = <<>> /\ callbackResult # "paContinue"
       /\ \E k \in Nat : played = Expected \o Zeros(k)

IInv == TypeInv /\ PhaseInv /\ HeldInv /\ BlockInv /\ InputInv /\ OutputInv

-----------------------------------------------------------------------------
(* Numbers and sequences.                                                  *)

LEMMA MinOfTwo ==
  ASSUME NEW m \in Int, NEW n \in Int
  PROVE  Min({m, n}) = IF m <= n THEN m ELSE n
<1>1. \E x \in {m, n} : \A y \in {m, n} : x <= y OBVIOUS
<1>2. Min({m, n}) \in {m, n} /\ \A y \in {m, n} : Min({m, n}) <= y BY <1>1 DEF Min
<1> QED BY <1>2

LEMMA MinOfOne ==
  ASSUME NEW m \in Int
  PROVE  Min({m}) = m
  BY MinOfTwo

LEMMA LargestExists ==
  ASSUME NEW S \in SUBSET Nat, S # {}, NEW b \in Nat, \A x \in S : x <= b
  PROVE  Max(S) \in S /\ \A x \in S : x <= Max(S)
<1> DEFINE T == {b - x : x \in S}
<1>1. T \in SUBSET Nat /\ T # {}
  <2>1. \A x \in S : b - x \in Nat OBVIOUS
  <2> QED BY <2>1
<1>2. PICK t \in T : \A u \in T : t <= u BY <1>1, SmallestExists
<1>3. PICK m \in S : t = b - m BY <1>2
<1>4. \A x \in S : m >= x
  <2> SUFFICES ASSUME NEW x \in S PROVE m >= x OBVIOUS
  <2>1. b - x \in T OBVIOUS
  <2>2. b - m <= b - x BY <1>2, <1>3, <2>1
  <2> QED BY <2>2
<1>5. Max(S) \in S /\ \A x \in S : Max(S) >= x BY <1>4 DEF Max
<1> QED BY <1>5

LEMMA Associative ==
  ASSUME NEW s \in Seq(Nat), NEW t \in Seq(Nat), NEW u \in Seq(Nat)
  PROVE  (s \o t) \o u = s \o (t \o u)
  BY SMTT(30)

LEMMA ZerosAre ==
  ASSUME NEW n \in Nat
  PROVE  Zeros(n) \in Seq(Nat) /\ Len(Zeros(n)) = n /\ (n = 0 => Zeros(n) = <<>>)
<1>1. Zeros(n) \in Seq(Nat) /\ Len(Zeros(n)) = n BY DEF Zeros
<1> QED BY <1>1, EmptySeq

LEMMA MoreZeros ==
  ASSUME NEW m \in Nat, NEW n \in Nat
  PROVE  Zeros(m) \o Zeros(n) = Zeros(m + n)
<1> DEFINE s == Zeros(m) \o Zeros(n)
           t == Zeros(m + n)
<1>1. m + n \in Nat OBVIOUS
<1>2. /\ Zeros(m) \in Seq(Nat) /\ Len(Zeros(m)) = m
      /\ Zeros(n) \in Seq(Nat) /\ Len(Zeros(n)) = n
      /\ t \in Seq(Nat) /\ Len(t) = m + n
  BY <1>1, ZerosAre
<1>3. s \in Seq(Nat) /\ Len(s) = m + n BY <1>2, ConcatProperties, ZenonT(30)
<1>4. ASSUME NEW i \in 1..m+n PROVE s[i] = 0 /\ t[i] = 0
  <2>1. \A j \in 1..Len(Zeros(m)) + Len(Zeros(n)) :
          s[j] = IF j <= Len(Zeros(m)) THEN Zeros(m)[j] ELSE Zeros(n)[j - Len(Zeros(m))]
    BY <1>2, ConcatProperties
  <2>2. s[i] = IF i <= m THEN Zeros(m)[i] ELSE Zeros(n)[i - m] BY <1>2, <2>1
  <2> QED BY <2>2 DEF Zeros
<1> HIDE DEF s, t
<1>5. s = t BY <1>2, <1>3, <1>4, SeqEqual
<1> QED BY <1>5 DEF s, t

LEMMA CountOn ==
  ASSUME NEW m \in Nat, NEW n \in Nat
  PROVE  [k \in 1..m |-> k] \o [k \in 1..n |-> m + k] = [k \in 1..m+n |-> k]
<1> DEFINE a == [k \in 1..m |-> k]
           b == [k \in 1..n |-> m + k]
           t == [k \in 1..m+n |-> k]
           s == a \o b
<1>1. /\ a \in Seq(Nat) /\ Len(a) = m /\ b \in Seq(Nat) /\ Len(b) = n
      /\ t \in Seq(Nat) /\ Len(t) = m + n
  OBVIOUS
<1>2. s \in Seq(Nat) /\ Len(s) = m + n BY <1>1, ConcatProperties
<1>3. ASSUME NEW i \in 1..m+n PROVE s[i] = t[i]
  <2>1. s[i] = IF i <= m THEN a[i] ELSE b[i - m] BY <1>1, ConcatProperties
  <2> QED BY <2>1
<1> HIDE DEF s, t, a, b
<1>4. s = t BY <1>1, <1>2, <1>3, SeqEqual
<1> QED BY <1>4 DEF s, t, a, b

LEMMA SplitAt ==
  ASSUME NEW s \in Seq(Nat), NEW k \in 0..Len(s)
  PROVE  /\ SubSeq(s, 1, k) \in Seq(Nat) /\ Len(SubSeq(s, 1, k)) = k
         /\ SubSeq(s, k + 1, Len(s)) \in Seq(Nat)
         /\ Len(SubSeq(s, k + 1, Len(s))) = Len(s) - k
         /\ SubSeq(s, 1, k) \o SubSeq(s, k + 1, Len(s)) = s
<1>1. Len(s) \in Nat /\ k \in Nat /\ \A i \in 1..Len(s) : s[i] \in Nat
  BY LenProperties, ElementOfSeq
<1>2. SubSeq(s, 1, k) \in Seq(Nat) /\ Len(SubSeq(s, 1, k)) = k
  <2>1. \A i \in 1..k : s[i] \in Nat BY <1>1
  <2> QED BY <1>1, <2>1, SubSeqProperties
<1>3. /\ SubSeq(s, k + 1, Len(s)) \in Seq(Nat)
      /\ Len(SubSeq(s, k + 1, Len(s))) = Len(s) - k
  <2>1. \A i \in k+1..Len(s) : s[i] \in Nat BY <1>1
  <2>2. Len(SubSeq(s, k + 1, Len(s))) = IF k + 1 <= Len(s) THEN Len(s) - (k + 1) + 1 ELSE 0
    BY <1>1, <2>1, SubSeqProperties
  <2>3. SubSeq(s, k + 1, Len(s)) \in Seq(Nat) BY <1>1, <2>1, SubSeqProperties
  <2> QED BY <1>1, <2>2, <2>3
<1>4. SubSeq(s, 1, k) \o SubSeq(s, k + 1, Len(s)) = SubSeq(s, 1, Len(s))
  <2>1. 1 \in 1..Len(s)+1 /\ k \in 1-1..Len(s) /\ Len(s) \in k..Len(s) BY <1>1
  <2> QED BY <2>1, ConcatAdjacentSubSeq
<1> QED BY <1>2, <1>3, <1>4, SubSeqFull

-----------------------------------------------------------------------------
(* The parameters.                                                         *)

LEMMA Parameters ==
  ASSUME ProcessorAssumption, bp \in Configurations
  PROVE  /\ N \in Nat /\ bp.framesPerHostBuffer \in Nat \ {0}
         /\ bp.hostBufferSizeMode \in Modes
         /\ IsInput \/ IsOutput
         /\ FramesPerTempBuffer \in Nat \ {0}
         /\ N # 0 => FramesPerTempBuffer = N
         /\ ~UseNonAdaptingProcess => N # 0
         /\ MaxHostBuffer \in Nat \ {0} /\ MaxFrames \in Nat
<1>1. bp \in Configuration BY DEF ProcessorAssumption
<1>2. /\ N \in Nat /\ bp.framesPerHostBuffer \in Nat \ {0}
      /\ bp.hostBufferSizeMode \in Modes /\ bp.directions \in (SUBSET Direction) \ {{}}
  BY <1>1 DEF Configuration, N
<1>3. IsInput \/ IsOutput BY <1>2 DEF IsInput, IsOutput, Direction
<1> QED BY <1>2, <1>3
        DEF ProcessorAssumption, FramesPerTempBuffer, UseNonAdaptingProcess, Modes, N

\* The least common multiple is one.
LEMMA CommonMultiple ==
  ASSUME NEW m \in Nat \ {0}, NEW n \in Nat \ {0}
  PROVE  /\ LCM(m, n) \in Nat \ {0} /\ LCM(m, n) <= m * n
         /\ LCM(m, n) % m = 0 /\ LCM(m, n) % n = 0
<1> DEFINE C == {k \in 1..(m * n) : k % m = 0 /\ k % n = 0}
<1>1. m * n \in Nat \ {0} BY SMT
<1>2. (m * n) % m = 0
  <2>1. (m * n + 0) % m = 0 BY ModUnique
  <2> QED BY <1>1, <2>1
<1>3. (m * n) % n = 0
  <2>1. (n * m + 0) % n = 0 BY ModUnique
  <2>2. n * m = m * n BY SMT
  <2> QED BY <1>1, <2>1, <2>2
<1>4. m * n \in C BY <1>1, <1>2, <1>3
<1>5. C \in SUBSET Nat /\ C # {}
  <2>1. C \subseteq 1..(m * n) OBVIOUS
  <2>2. 1..(m * n) \subseteq Nat BY <1>1
  <2> QED BY <1>4, <2>1, <2>2
<1> HIDE DEF C
<1>6. \E x \in C : \A y \in C : x <= y BY <1>5, SmallestExists
<1>7. Min(C) \in C BY <1>6 DEF Min
<1>8. LCM(m, n) \in C BY <1>7 DEF LCM, C
<1> QED BY <1>1, <1>8 DEF C

\* Out of step by less than a block: what the buffer processor starts with fits
\* its temporary buffers.
LEMMA FrameShiftFits ==
  ASSUME NEW m \in Nat \ {0}, NEW n \in Nat \ {0}
  PROVE  CalculateFrameShift(m, n) \in 0..n-1
<1> DEFINE K == {i \in 1..LCM(m, n)-1 : i % m = 0}
           S == {0} \cup {k % n : k \in K}
<1>1. LCM(m, n) \in Nat BY CommonMultiple
<1>2. \A k \in K : k % n \in 0..n-1
  <2> SUFFICES ASSUME NEW k \in K PROVE k % n \in 0..n-1 OBVIOUS
  <2>1. k \in Int BY <1>1
  <2> QED BY <2>1, DivMod
<1>3. CalculateFrameShift(m, n) = Max(S) BY DEF CalculateFrameShift
<1> HIDE DEF K
<1>4. S \in SUBSET Nat /\ S # {} /\ n - 1 \in Nat /\ \A x \in S : x <= n - 1 BY <1>2
<1>5. Max(S) \in S BY <1>4, LargestExists
<1> HIDE DEF S
<1>6. Max(S) \in Nat /\ Max(S) <= n - 1 BY <1>4, <1>5
<1> QED BY <1>3, <1>6

LEMMA InitialFrames ==
  ASSUME ProcessorAssumption, bp \in Configurations
  PROVE  LET i == InitialFramesInTempInputBuffer
             o == InitialFramesInTempOutputBuffer
         IN  /\ i \in Nat /\ o \in Nat
             /\ UseNonAdaptingProcess => i = 0 /\ o = 0
             /\ ~UseNonAdaptingProcess => i <= N /\ o <= N
<1>1. N \in Nat /\ bp.framesPerHostBuffer \in Nat \ {0} /\ (~UseNonAdaptingProcess => N # 0)
  BY Parameters
<1>2. N # 0 => FrameShift \in 0..N-1 BY <1>1, FrameShiftFits DEF FrameShift, N
<1>3. N # 0 => FrameShift \in Nat /\ FrameShift <= N BY <1>1, <1>2
<1> QED BY <1>1, <1>3
        DEF InitialFramesInTempInputBuffer, InitialFramesInTempOutputBuffer, N

-----------------------------------------------------------------------------
(* Frames in host buffers.                                                 *)

LEMMA PartsOfInput ==
  ASSUME TypeInv
  PROVE  /\ hostInput[1] \in Seq(Nat) /\ hostInput[2] \in Seq(Nat)
         /\ Len(hostInput[1]) \in Nat /\ Len(hostInput[2]) \in Nat
         /\ InputFrames \in Seq(Nat) /\ Len(InputFrames) \in Nat
         /\ Len(InputFrames) = Len(hostInput[1]) + Len(hostInput[2])
         /\ hostInput[1] = <<>> <=> Len(hostInput[1]) = 0
         /\ InputFrames = <<>> <=> Len(InputFrames) = 0
         /\ InputPart = IF Len(hostInput[1]) # 0 THEN Len(hostInput[1])
                                               ELSE Len(hostInput[2])
<1>1. PICK a \in Seq(Nat), b \in Seq(Nat) : hostInput = <<a, b>> BY DEF TypeInv
<1>2. hostInput[1] = a /\ hostInput[2] = b BY <1>1
<1>3. Len(a) \in Nat /\ Len(b) \in Nat BY LenProperties
<1>4. InputFrames \in Seq(Nat) /\ Len(InputFrames) = Len(a) + Len(b)
  BY <1>2, ConcatProperties DEF InputFrames
<1>5. \A s \in Seq(Nat) : s = <<>> <=> Len(s) = 0 BY EmptySeq
<1> QED BY <1>2, <1>3, <1>4, <1>5 DEF InputPart

\* Taking k frames of input leaves the others, in their order.
LEMMA InputTaken ==
  ASSUME TypeInv, NEW k \in 0..Len(InputFrames), TakeInput(k)
  PROVE  /\ \E a, b \in Seq(Nat) : hostInput' = <<a, b>>
         /\ InputFrames' \in Seq(Nat) /\ Len(InputFrames') = Len(InputFrames) - k
         /\ SubSeq(InputFrames, 1, k) \in Seq(Nat) /\ Len(SubSeq(InputFrames, 1, k)) = k
         /\ InputFrames = SubSeq(InputFrames, 1, k) \o InputFrames'
         /\ k <= InputPart =>
              IF Len(hostInput[1]) # 0
                THEN /\ Len(hostInput'[1]) = Len(hostInput[1]) - k
                     /\ Len(hostInput'[2]) = Len(hostInput[2])
                ELSE Len(hostInput'[1]) = 0 /\ Len(hostInput'[2]) = Len(hostInput[2]) - k
<1>a. PICK a \in Seq(Nat), b \in Seq(Nat) : hostInput = <<a, b>> BY DEF TypeInv
<1>b. hostInput[1] = a /\ hostInput[2] = b BY <1>a
<1> DEFINE f == Min({k, Len(a)})
           x == SubSeq(a, f + 1, Len(a))
           y == SubSeq(b, k - f + 1, Len(b))
<1>1. /\ a \in Seq(Nat) /\ b \in Seq(Nat) /\ Len(a) \in Nat /\ Len(b) \in Nat
      /\ InputFrames = a \o b /\ InputFrames \in Seq(Nat)
      /\ Len(InputFrames) = Len(a) + Len(b) /\ k \in Nat /\ k <= Len(a) + Len(b)
  BY <1>b, PartsOfInput DEF InputFrames
<1>2. hostInput' = <<x, y>> BY <1>b DEF TakeInput, InputWithout
<1>3. f = IF k <= Len(a) THEN k ELSE Len(a)
  <2>1. k \in Int /\ Len(a) \in Int BY <1>1
  <2> QED BY <2>1, MinOfTwo
<1>4. f \in 0..Len(a) /\ k - f \in 0..Len(b) /\ f \in Nat /\ k - f \in Nat
  <2> HIDE DEF f
  <2> QED BY <1>1, <1>3
<1>5. /\ SubSeq(a, 1, f) \in Seq(Nat) /\ Len(SubSeq(a, 1, f)) = f
      /\ x \in Seq(Nat) /\ Len(x) = Len(a) - f /\ SubSeq(a, 1, f) \o x = a
  BY <1>1, <1>4, SplitAt
<1>6. /\ SubSeq(b, 1, k - f) \in Seq(Nat) /\ Len(SubSeq(b, 1, k - f)) = k - f
      /\ y \in Seq(Nat) /\ Len(y) = Len(b) - (k - f) /\ SubSeq(b, 1, k - f) \o y = b
  BY <1>1, <1>4, SplitAt
<1> HIDE DEF f, x, y
<1>7. InputFrames' = x \o y BY <1>2 DEF InputFrames
<1>8. InputFrames' \in Seq(Nat) /\ Len(InputFrames') = Len(InputFrames) - k
  <2>1. Len(x \o y) = Len(x) + Len(y) /\ x \o y \in Seq(Nat)
    BY <1>5, <1>6, ConcatProperties
  <2> QED BY <1>1, <1>4, <1>5, <1>6, <1>7, <2>1
<1>9. InputFrames = SubSeq(InputFrames, 1, k) \o (x \o y)
  <2>1. CASE k <= Len(a)
    <3>1. f = k /\ k - f = 0 BY <1>1, <1>3, <2>1
    <3>2. SubSeq(b, 1, k - f) = <<>> BY <1>6, <3>1, EmptySeq
    <3>3. y = b BY <1>1, <1>6, <3>2, ConcatEmptySeq
    <3>4. SubSeq(a, 1, k) \o (x \o y) = (SubSeq(a, 1, k) \o x) \o y
      <4> DEFINE u == SubSeq(a, 1, k)
      <4>1. u \in Seq(Nat) /\ x \in Seq(Nat) /\ y \in Seq(Nat) BY <1>5, <1>6, <3>1
      <4> HIDE DEF u
      <4>2. u \o (x \o y) = (u \o x) \o y BY <4>1, SMTT(30)
      <4> QED BY <4>2 DEF u
    <3>5. SubSeq(InputFrames, 1, k) = SubSeq(a, 1, k)
      <4>1. CASE k = 0
        <5>1. SubSeq(a, 1, k) = <<>> /\ SubSeq(InputFrames, 1, k) = <<>>
          BY <4>1, SubSeqEmpty
        <5> QED BY <5>1
      <4>2. CASE k # 0
        <5>1. 1 \in 1..Len(a) /\ k \in 1..Len(a) BY <1>1, <2>1, <4>2
        <5> QED BY <1>1, <5>1, SubSeqOfConcat1
      <4> QED BY <4>1, <4>2
    <3> QED BY <1>1, <1>5, <3>1, <3>3, <3>4, <3>5
  <2>2. CASE ~(k <= Len(a))
    <3>1. f = Len(a) /\ k \in Nat BY <1>1, <1>3, <2>2
    <3>2. x = <<>> /\ SubSeq(a, 1, f) = a
      BY <1>1, <1>5, <3>1, EmptySeq, SubSeqFull
    <3>3. SubSeq(InputFrames, 1, k) \in Seq(Nat)
          /\ Len(SubSeq(InputFrames, 1, k)) = k
      BY <1>1, SplitAt
    <3>4. SubSeq(InputFrames, 1, k) = a \o SubSeq(b, 1, k - f)
      <4> DEFINE s == SubSeq(InputFrames, 1, k)
                 t == a \o SubSeq(b, 1, k - f)
      <4>1. t \in Seq(Nat) /\ Len(t) = k
        <5>1. t \in Seq(Nat) /\ Len(t) = Len(a) + Len(SubSeq(b, 1, k - f))
          BY <1>1, <1>6, ConcatProperties
        <5> QED BY <1>1, <1>6, <3>1, <5>1, SMTT(30)
      <4>2. ASSUME NEW i \in 1..k PROVE s[i] = t[i]
        <5>1. s[i] = InputFrames[i]
          <6>1. \A j \in 1..k : InputFrames[j] \in Nat BY <1>1, <3>1, ElementOfSeq
          <6>2. \A j \in 1..k-1+1 : s[j] = InputFrames[1+j-1]
            BY <3>1, <6>1, SubSeqProperties
          <6> QED BY <3>1, <6>2
        <5>2. i \in 1..Len(a) + Len(b) /\ i \in 1..Len(a) + Len(SubSeq(b, 1, k - f))
          BY <1>1, <1>6, <3>1
        <5>3. InputFrames[i] = IF i <= Len(a) THEN a[i] ELSE b[i - Len(a)]
          BY <1>1, <5>2, ConcatProperties
        <5>4. t[i] = IF i <= Len(a) THEN a[i] ELSE SubSeq(b, 1, k - f)[i - Len(a)]
          BY <1>1, <1>6, <5>2, ConcatProperties, SMTT(30)
        <5>5. ~(i <= Len(a)) => SubSeq(b, 1, k - f)[i - Len(a)] = b[i - Len(a)]
          <6>1. \A j \in 1..k-f : b[j] \in Nat BY <1>1, <1>4, ElementOfSeq
          <6>2. \A j \in 1..(k-f)-1+1 : SubSeq(b, 1, k - f)[j] = b[1+j-1]
            BY <1>1, <1>4, <6>1, SubSeqProperties
          <6> QED BY <1>1, <3>1, <6>2
        <5> QED BY <5>1, <5>3, <5>4, <5>5
      <4> HIDE DEF s, t
      <4>3. s = t BY <3>3, <4>1, <4>2, SeqEqual DEF s
      <4> QED BY <4>3 DEF s, t
    <3>5. x \o y = y BY <1>6, <3>2, ConcatEmptySeq
    <3>6. (a \o SubSeq(b, 1, k - f)) \o y = a \o (SubSeq(b, 1, k - f) \o y)
      BY <1>1, <1>6, Associative, ZenonT(30)
    <3> QED BY <1>1, <1>6, <3>4, <3>5, <3>6
  <2> QED BY <2>1, <2>2
<1>10. SubSeq(InputFrames, 1, k) \in Seq(Nat) /\ Len(SubSeq(InputFrames, 1, k)) = k
  BY <1>1, SplitAt
<1>11. k <= InputPart =>
         IF Len(a) # 0 THEN Len(x) = Len(a) - k /\ Len(y) = Len(b)
                       ELSE Len(x) = 0 /\ Len(y) = Len(b) - k
  <2>1. InputPart = IF Len(a) # 0 THEN Len(a) ELSE Len(b) BY <1>b, PartsOfInput
  <2>2. CASE Len(a) # 0
    <3> HIDE DEF f
    <3>1. k <= InputPart => f = k BY <1>1, <1>3, <2>1, <2>2
    <3> QED BY <1>1, <1>4, <1>5, <1>6, <2>2, <3>1
  <2>3. CASE Len(a) = 0
    <3> HIDE DEF f
    <3>1. f = 0 BY <1>1, <1>4, <2>3
    <3> QED BY <1>1, <1>4, <1>5, <1>6, <2>3, <3>1
  <2> QED BY <2>2, <2>3
<1> QED BY <1>b, <1>2, <1>5, <1>6, <1>7, <1>8, <1>9, <1>10, <1>11

LEMMA PartsOfOutput ==
  ASSUME TypeInv
  PROVE  /\ hostOutput[1] \in Nat /\ hostOutput[2] \in Nat
         /\ OutputRoom \in Nat /\ OutputRoom = hostOutput[1] + hostOutput[2]
         /\ OutputPart = IF hostOutput[1] # 0 THEN hostOutput[1] ELSE hostOutput[2]
         /\ OutputPart \in Nat /\ OutputPart <= OutputRoom
         /\ OutputPart = 0 <=> OutputRoom = 0
  BY DEF TypeInv, OutputRoom, OutputPart

\* Frames that fit are played and leave that much less room.
LEMMA OutputPut ==
  ASSUME TypeInv, NEW frames \in Seq(Nat), Len(frames) <= OutputRoom, PutOutput(frames)
  PROVE  /\ \E m, n \in Nat : hostOutput' = <<m, n>>
         /\ OutputRoom' = OutputRoom - Len(frames)
         /\ played' = played \o frames /\ played' \in Seq(Nat)
         /\ Len(frames) <= OutputPart =>
              IF hostOutput[1] # 0
                THEN /\ hostOutput'[1] = hostOutput[1] - Len(frames)
                     /\ hostOutput'[2] = hostOutput[2]
                ELSE hostOutput'[1] = 0 /\ hostOutput'[2] = hostOutput[2] - Len(frames)
<1> DEFINE k == Len(frames)
           f == Min({k, hostOutput[1]})
<1>1. /\ hostOutput[1] \in Nat /\ hostOutput[2] \in Nat /\ k \in Nat
      /\ k <= hostOutput[1] + hostOutput[2]
      /\ OutputRoom = hostOutput[1] + hostOutput[2]
      /\ OutputPart = IF hostOutput[1] # 0 THEN hostOutput[1] ELSE hostOutput[2]
  BY PartsOfOutput, LenProperties
<1>2. hostOutput' = <<hostOutput[1] - f, hostOutput[2] - (k - f)>>
  BY DEF PutOutput, RoomAfter
<1>3. f = IF k <= hostOutput[1] THEN k ELSE hostOutput[1]
  <2>1. k \in Int /\ hostOutput[1] \in Int BY <1>1
  <2> QED BY <2>1, MinOfTwo
<1>4. played' = played \o frames /\ played' \in Seq(Nat)
  <2>1. played \in Seq(Nat) BY DEF TypeInv
  <2> QED BY <2>1, ConcatProperties DEF PutOutput
<1> HIDE DEF k, f
<1>5. hostOutput[1] - f \in Nat /\ hostOutput[2] - (k - f) \in Nat BY <1>1, <1>3, SMTT(30)
<1>6. OutputRoom' = OutputRoom - k BY <1>1, <1>2, <1>3, <1>5 DEF OutputRoom
<1>7. k <= OutputPart =>
        IF hostOutput[1] # 0
          THEN hostOutput'[1] = hostOutput[1] - k /\ hostOutput'[2] = hostOutput[2]
          ELSE hostOutput'[1] = 0 /\ hostOutput'[2] = hostOutput[2] - k
  BY <1>1, <1>2, <1>3
<1> QED BY <1>2, <1>4, <1>5, <1>6, <1>7 DEF k

-----------------------------------------------------------------------------
(* What stays as it was.                                                   *)

LEMMA SameConfiguration ==
  ASSUME bp' = bp
  PROVE  /\ N' = N /\ IsInput' = IsInput /\ IsOutput' = IsOutput
         /\ IsFullDuplex' = IsFullDuplex
         /\ UseNonAdaptingProcess' = UseNonAdaptingProcess
         /\ FramesPerTempBuffer' = FramesPerTempBuffer
         /\ InitialFramesInTempInputBuffer' = InitialFramesInTempInputBuffer
         /\ InitialFramesInTempOutputBuffer' = InitialFramesInTempOutputBuffer
  BY DEF N, IsInput, IsOutput, IsFullDuplex, UseNonAdaptingProcess, FramesPerTempBuffer,
         InitialFramesInTempInputBuffer, InitialFramesInTempOutputBuffer, FrameShift

\* What has been heard grows by new frames taken from what is not yet heard.
LEMMA InputOn ==
  ASSUME TypeInv, InputInv, bp' = bp, supplied' = supplied,
         NEW new \in Seq(Nat), NEW left \in Seq(Nat), heard' = heard \o new,
         new # <<>> \/ callbackResult' = "paContinue" =>
           callbackResult = "paContinue" /\ new \o left = tempInput \o InputFrames,
         callbackResult' = "paContinue" => left = (tempInput \o InputFrames)'
  PROVE  InputInv'
<1> SUFFICES ASSUME IsInput
             PROVE  \E rest \in Seq(Nat) :
                      /\ Arrived' = heard' \o rest
                      /\ callbackResult' = "paContinue" => rest = (tempInput \o InputFrames)'
  BY SameConfiguration DEF InputInv
<1>1. Arrived' = Arrived BY SameConfiguration DEF Arrived, Zeros
<1>2. PICK rest \in Seq(Nat) :
        /\ Arrived = heard \o rest
        /\ callbackResult = "paContinue" => rest = tempInput \o InputFrames
  BY DEF InputInv
<1>3. heard \in Seq(Nat) BY DEF TypeInv
<1>4. CASE new # <<>> \/ callbackResult' = "paContinue"
  <2>1. Arrived = heard \o (new \o left) BY <1>2, <1>4
  <2>2. (heard \o new) \o left = heard \o (new \o left) BY <1>3, Associative
  <2>3. Arrived' = heard' \o left BY <1>1, <2>1, <2>2
  <2> QED BY <2>3
<1>5. CASE new = <<>> /\ callbackResult' # "paContinue"
  <2>1. heard' = heard BY <1>3, <1>5, ConcatEmptySeq
  <2> QED BY <1>1, <1>2, <1>5, <2>1
<1> QED BY <1>4, <1>5

LEMMA ExpectedIs ==
  ASSUME ProcessorAssumption, TypeInv
  PROVE  Expected \in Seq(Nat)
<1>1. bp \in Configurations /\ generated \in Seq(Nat) BY DEF TypeInv
<1>2. InitialFramesInTempOutputBuffer \in Nat BY <1>1, InitialFrames
<1>3. Zeros(InitialFramesInTempOutputBuffer) \in Seq(Nat) BY <1>2, ZerosAre
<1> QED BY <1>1, <1>3, ConcatProperties DEF Expected

\* New frames are generated, and the oldest of what is held back are put.
LEMMA OutputOn ==
  ASSUME ProcessorAssumption, TypeInv, OutputInv, bp' = bp, tempOutput' \in Seq(Nat),
         NEW new \in Seq(Nat), NEW put \in Seq(Nat),
         generated' = generated \o new, played' = played \o put,
         put \o tempOutput' = tempOutput \o new,
         new # <<>> => callbackResult = "paContinue",
         callbackResult # "paContinue" => callbackResult' # "paContinue"
  PROVE  OutputInv'
<1> SUFFICES ASSUME IsOutput
             PROVE  \/ played' \o tempOutput' = Expected'
                    \/ /\ tempOutput' = <<>> /\ callbackResult' # "paContinue"
                       /\ \E k \in Nat : played' = Expected' \o Zeros(k)
  BY SameConfiguration DEF OutputInv, Zeros
<1>1. /\ generated \in Seq(Nat) /\ played \in Seq(Nat) /\ tempOutput \in Seq(Nat)
      /\ bp \in Configurations
  BY DEF TypeInv
<1> DEFINE z == Zeros(InitialFramesInTempOutputBuffer)
<1>2. z \in Seq(Nat) BY <1>1, InitialFrames, ZerosAre
<1>3. Expected = z \o generated /\ Expected' = z \o generated'
  BY SameConfiguration DEF Expected, Zeros
<1> HIDE DEF z
<1>4. Expected' = Expected \o new
  <2>1. (z \o generated) \o new = z \o (generated \o new)
    BY <1>1, <1>2, Associative, ZenonT(30)
  <2> QED BY <1>3, <2>1
<1>5. CASE played \o tempOutput = Expected
  <2>1. (played \o put) \o tempOutput' = played \o (put \o tempOutput')
    BY <1>1, Associative, ZenonT(90)
  <2>2. (played \o tempOutput) \o new = played \o (tempOutput \o new)
    BY <1>1, Associative, ZenonT(90)
  <2> QED BY <1>4, <1>5, <2>1, <2>2
<1>6. CASE /\ tempOutput = <<>> /\ callbackResult # "paContinue"
           /\ \E k \in Nat : played = Expected \o Zeros(k)
  <2>1. new = <<>> /\ callbackResult' # "paContinue" BY <1>6
  <2>2. put \o tempOutput' = <<>> BY <1>6, <2>1, ConcatEmptySeq
  <2>3. put = <<>> /\ tempOutput' = <<>>
    <3>1. Len(put \o tempOutput') = Len(put) + Len(tempOutput')
          /\ Len(put) \in Nat /\ Len(tempOutput') \in Nat
      BY ConcatProperties, LenProperties
    <3>2. Len(put \o tempOutput') = 0 BY <2>2, EmptySeq
    <3>3. Len(put) = 0 /\ Len(tempOutput') = 0 BY <3>1, <3>2
    <3> QED BY <3>3, EmptySeq
  <2>4. played' = played /\ Expected' = Expected
    BY <1>1, <1>4, <2>1, <2>3, ExpectedIs, ConcatEmptySeq
  <2> QED BY <1>6, <2>1, <2>3, <2>4
<1> QED BY <1>5, <1>6 DEF OutputInv

\* The callback has ended and nothing is held back: zeros are put.
LEMMA ZerosOn ==
  ASSUME ProcessorAssumption, TypeInv, OutputInv, bp' = bp, generated' = generated,
         tempOutput = <<>>, tempOutput' = <<>>, callbackResult' # "paContinue",
         NEW n \in Nat, played' = played \o Zeros(n)
  PROVE  OutputInv'
<1> SUFFICES ASSUME IsOutput
             PROVE  \E k \in Nat : played' = Expected \o Zeros(k)
  <2>1. Expected' = Expected BY SameConfiguration DEF Expected, Zeros
  <2> QED BY <2>1, SameConfiguration DEF OutputInv, Zeros
<1>1. played \in Seq(Nat) BY DEF TypeInv
<1>2. CASE played \o tempOutput = Expected BY <1>1, <1>2, ConcatEmptySeq
<1>3. ASSUME NEW k \in Nat, played = Expected \o Zeros(k)
      PROVE  \E j \in Nat : played' = Expected \o Zeros(j)
  <2>1. Zeros(k) \o Zeros(n) = Zeros(k + n) BY MoreZeros
  <2>2. (Expected \o Zeros(k)) \o Zeros(n) = Expected \o (Zeros(k) \o Zeros(n))
    BY ExpectedIs, ZerosAre, Associative, ZenonT(30)
  <2>3. k + n \in Nat OBVIOUS
  <2> QED BY <1>3, <2>1, <2>2, <2>3
<1> QED BY <1>2, <1>3 DEF OutputInv

-----------------------------------------------------------------------------
(* What one iteration handles.                                             *)

LEMMA Multiples ==
  ASSUME NEW m \in Nat \ {0}, NEW a \in Nat, a % m = 0, NEW b \in Nat, b % m = 0
  PROVE  (a - b) % m = 0 /\ (a # 0 => m <= a)
<1> DEFINE p == a \div m
           q == b \div m
<1>1. p \in Int /\ q \in Int /\ a = m * p /\ b = m * q
  <2>1. a \in Int /\ b \in Int OBVIOUS
  <2>2. a = m * p + (a % m) /\ b = m * q + (b % m) /\ p \in Int /\ q \in Int
    BY <2>1, DivMod
  <2>3. m * p \in Int /\ m * q \in Int BY <2>2, SMT
  <2> HIDE DEF p, q
  <2> QED BY <2>2, <2>3
<1> HIDE DEF p, q
<1>2. m * p - m * q = m * (p - q) + 0 BY <1>1, SMT
<1>3. (m * (p - q) + 0) % m = 0
  <2>1. p - q \in Int /\ 0 \in 0..m-1 BY <1>1
  <2> QED BY <2>1, ModUnique
<1>4. a < m => a % m = a
  <2>1. a \in Int /\ -m <= a OBVIOUS
  <2>2. a < m => a % m = IF a < 0 THEN a + m ELSE a BY <2>1, ModSmall
  <2> QED BY <2>2
<1> QED BY <1>1, <1>2, <1>3, <1>4

LEMMA ToGo ==
  ASSUME ProcessorAssumption, TypeInv, PhaseInv, BlockInv, pc = "nonAdapting"
  PROVE  /\ FramesToGo \in Nat
         /\ IsInput /\ ~noInput =>
              FramesToGo <= InputPart /\ FramesToGo <= Len(InputFrames)
         /\ IsOutput => FramesToGo <= OutputPart /\ FramesToGo <= OutputRoom
         /\ FramesToGo = 0 /\ IsInput => InputFrames = <<>>
         /\ N # 0 => FramesToGo % N = 0 /\ (FramesToGo # 0 => N <= FramesToGo)
<1> DEFINE usesInput == IsInput /\ ~noInput
<1>1. /\ IsInput \/ IsOutput
      /\ N \in Nat
      /\ noInput => IsOutput
      /\ noInput \/ ~IsInput => InputFrames = <<>>
      /\ IsOutput /\ usesInput => Len(InputFrames) = OutputRoom
  BY Parameters DEF TypeInv, PhaseInv, IsFullDuplex
<1>2. /\ InputPart \in Nat
      /\ InputPart <= Len(InputFrames)
      /\ InputPart = 0 => Len(InputFrames) = 0
      /\ Len(InputFrames) \in Nat
  <2> DEFINE m == Len(hostInput[1])
             n == Len(hostInput[2])
             l == Len(InputFrames)
  <2>1. m \in Nat /\ n \in Nat /\ l = m + n /\ InputPart = IF m # 0 THEN m ELSE n
    BY PartsOfInput
  <2> HIDE DEF m, n, l
  <2>2. InputPart \in Nat /\ InputPart <= l /\ (InputPart = 0 => l = 0) /\ l \in Nat
    BY <2>1
  <2> QED BY <2>2 DEF l
<1>3. /\ OutputPart \in Nat
      /\ OutputPart <= OutputRoom
      /\ OutputRoom \in Nat
      /\ OutputPart = 0 <=> OutputRoom = 0
  BY PartsOfOutput
<1>4. FramesToGo = IF usesInput THEN
                     IF IsOutput THEN IF InputPart <= OutputPart THEN InputPart ELSE OutputPart
                     ELSE InputPart
                   ELSE OutputPart
  <2>1. CASE usesInput /\ IsOutput
    <3>1. FramesToGo = Min({InputPart, OutputPart})
      <4>1. {InputPart} \cup {OutputPart} = {InputPart, OutputPart} OBVIOUS
      <4> QED BY <2>1, <4>1 DEF FramesToGo
    <3>2. InputPart \in Int /\ OutputPart \in Int BY <1>2, <1>3
    <3> QED BY <2>1, <3>1, <3>2, MinOfTwo
  <2>2. CASE usesInput /\ ~IsOutput
    <3>1. FramesToGo = Min({InputPart})
      <4>1. {InputPart} \cup {} = {InputPart} OBVIOUS
      <4> QED BY <2>2, <4>1 DEF FramesToGo
    <3>2. InputPart \in Int BY <1>2
    <3> QED BY <2>2, <3>1, <3>2, MinOfOne
  <2>3. CASE ~usesInput
    <3>1. FramesToGo = Min({OutputPart})
      <4>1. {} \cup {OutputPart} = {OutputPart} OBVIOUS
      <4>2. IsOutput BY <1>1, <2>3
      <4> QED BY <2>3, <4>1, <4>2 DEF FramesToGo
    <3>2. OutputPart \in Int BY <1>3
    <3> QED BY <2>3, <3>1, <3>2, MinOfOne
  <2> QED BY <2>1, <2>2, <2>3
<1>5. N # 0 => /\ InputPart % N = 0
               /\ IsOutput => OutputPart % N = 0
  <2>1. N # 0 => /\ Len(hostInput[1]) % N = 0 /\ Len(hostInput[2]) % N = 0
                 /\ IsOutput => hostOutput[1] % N = 0 /\ hostOutput[2] % N = 0
    BY DEF BlockInv
  <2> QED BY <2>1, PartsOfInput, PartsOfOutput
<1>6. FramesToGo \in Nat
      /\ (FramesToGo = InputPart \/ (IsOutput /\ FramesToGo = OutputPart))
  BY <1>1, <1>2, <1>3, <1>4
<1>7. N # 0 => FramesToGo % N = 0 /\ (FramesToGo # 0 => N <= FramesToGo)
  <2>1. N # 0 => FramesToGo % N = 0 BY <1>5, <1>6
  <2> QED BY <1>1, <1>6, <2>1, Multiples
<1>8. FramesToGo = 0 /\ IsInput => InputFrames = <<>>
  <2>1. InputFrames = <<>> <=> Len(InputFrames) = 0 BY PartsOfInput
  <2> QED BY <1>1, <1>2, <1>3, <1>4, <2>1
<1> QED BY <1>1, <1>2, <1>3, <1>4, <1>6, <1>7, <1>8

LEMMA Called ==
  ASSUME ProcessorAssumption, TypeInv, NEW input \in Seq(Nat), NEW n \in Nat,
         IsInput => Len(input) = n, NEW result \in CallbackResults,
         StreamCallback(input, n, result)
  PROVE  /\ callbackResult = "paContinue" /\ callbackResult' = result
         /\ callbackResult' \in {"paContinue", "paComplete", "paAbort"}
         /\ GeneratedFrames(input, n, result) \in Seq(Nat)
         /\ Len(GeneratedFrames(input, n, result)) =
              IF IsOutput /\ result # "paAbort" THEN n ELSE 0
         /\ generated' = generated \o GeneratedFrames(input, n, result)
         /\ generated' \in Seq(Nat)
         /\ heard' = heard \o (IF IsInput /\ ~noInput THEN input ELSE <<>>)
         /\ heard' \in Seq(Nat)
         /\ blockSizes' = blockSizes \cup {n}
<1>1. /\ callbackResult = "paContinue" /\ callbackResult' = result
      /\ heard' = IF IsInput /\ ~noInput THEN heard \o input ELSE heard
      /\ generated' = IF result = "paAbort" THEN generated
                      ELSE generated \o CallbackOutput(input, n)
      /\ blockSizes' = blockSizes \cup {n}
      /\ result \in {"paContinue", "paComplete", "paAbort"}
  BY DEF StreamCallback, ProcessorAssumption
<1>2. heard \in Seq(Nat) /\ generated \in Seq(Nat) BY DEF TypeInv
<1>3. Len(generated) \in Nat BY <1>2, LenProperties
<1>4. /\ CallbackOutput(input, n) \in Seq(Nat)
      /\ Len(CallbackOutput(input, n)) = IF IsOutput THEN n ELSE 0
  <2>1. CASE ~IsOutput BY <2>1, EmptySeq DEF CallbackOutput
  <2>2. CASE IsOutput /\ IsInput BY <2>2 DEF CallbackOutput
  <2>3. CASE IsOutput /\ ~IsInput
    <3> DEFINE g == [k \in 1..n |-> Len(generated) + k]
    <3>1. g \in Seq(Nat) /\ Len(g) = n BY <1>3
    <3> QED BY <2>3, <3>1 DEF CallbackOutput
  <2> QED BY <2>1, <2>2, <2>3
<1>5. /\ GeneratedFrames(input, n, result) \in Seq(Nat)
      /\ Len(GeneratedFrames(input, n, result)) =
           IF IsOutput /\ result # "paAbort" THEN n ELSE 0
      /\ generated' = generated \o GeneratedFrames(input, n, result)
  BY <1>1, <1>2, <1>4, EmptySeq, ConcatEmptySeq DEF GeneratedFrames
<1>6. generated' \in Seq(Nat) BY <1>2, <1>5, ConcatProperties
<1>7. heard' = heard \o (IF IsInput /\ ~noInput THEN input ELSE <<>>)
  BY <1>1, <1>2, ConcatEmptySeq
<1>8. heard' \in Seq(Nat)
  <2>1. heard \o input \in Seq(Nat) BY <1>2, ConcatProperties
  <2> QED BY <1>1, <1>2, <2>1
<1> QED BY <1>1, <1>5, <1>6, <1>7, <1>8

-----------------------------------------------------------------------------
(* The actions keep the invariant.                                         *)

LEMMA NoneArrived ==
  ASSUME ProcessorAssumption, bp \in Configurations, supplied = 0
  PROVE  /\ Arrived = Zeros(InitialFramesInTempInputBuffer)
         /\ Arrived \in Seq(Nat)
<1>1. Zeros(InitialFramesInTempInputBuffer) \in Seq(Nat)
  BY InitialFrames, ZerosAre
<1>2. [k \in 1..supplied |-> k] = <<>>
  <2> DEFINE s == [k \in 1..supplied |-> k]
  <2>1. s \in Seq(Nat) /\ Len(s) = 0 OBVIOUS
  <2> HIDE DEF s
  <2> QED BY <2>1, EmptySeq
<1> QED BY <1>1, <1>2, ConcatEmptySeq DEF Arrived

\* With nothing supplied, heard, generated or played, only the latency is held
\* back.
LEMMA Started ==
  ASSUME ProcessorAssumption, TypeInv, supplied = 0,
         heard = <<>>, generated = <<>>, played = <<>>, blockSizes = {}, pc = "idle",
         tempInput = Zeros(InitialFramesInTempInputBuffer),
         tempOutput = Zeros(InitialFramesInTempOutputBuffer),
         InputFrames = <<>>, noInput => IsFullDuplex /\ UseNonAdaptingProcess
  PROVE  IInv
<1>1. bp \in Configurations BY DEF TypeInv
<1> DEFINE i == InitialFramesInTempInputBuffer
           o == InitialFramesInTempOutputBuffer
<1>2. /\ i \in Nat /\ o \in Nat
      /\ UseNonAdaptingProcess => i = 0 /\ o = 0
      /\ ~UseNonAdaptingProcess => i <= N /\ o <= N
  BY <1>1, InitialFrames
<1> HIDE DEF i, o
<1>3. /\ tempInput \in Seq(Nat) /\ Len(tempInput) = i /\ (i = 0 => tempInput = <<>>)
      /\ tempOutput \in Seq(Nat) /\ Len(tempOutput) = o /\ (o = 0 => tempOutput = <<>>)
  BY <1>2, ZerosAre DEF i, o
<1>4. PhaseInv BY DEF PhaseInv
<1>5. HeldInv BY <1>2, <1>3 DEF HeldInv
<1>6. BlockInv BY DEF BlockInv
<1>7. InputInv
  <2>1. Arrived = <<>> \o tempInput
    <3>1. Arrived = tempInput BY <1>1, NoneArrived
    <3> QED BY <1>3, <3>1, ConcatEmptySeq
  <2>2. tempInput = tempInput \o InputFrames BY <1>3, ConcatEmptySeq
  <2> QED BY <1>3, <2>1, <2>2 DEF InputInv
<1>8. OutputInv
  <2>1. Expected = tempOutput \o <<>> BY DEF Expected
  <2>2. Expected = tempOutput /\ <<>> \o tempOutput = tempOutput
    BY <1>3, <2>1, ConcatEmptySeq
  <2> QED BY <2>2 DEF OutputInv
<1> QED BY <1>4, <1>5, <1>6, <1>7, <1>8 DEF IInv

LEMMA InitHolds ==
  ASSUME ProcessorAssumption, Init
  PROVE  IInv
<1>1. /\ bp \in Configurations /\ supplied = 0
      /\ tempInput = Zeros(InitialFramesInTempInputBuffer)
      /\ tempOutput = Zeros(InitialFramesInTempOutputBuffer)
      /\ hostInput = <<<<>>, <<>>>> /\ hostOutput = <<0, 0>>
      /\ noInput = FALSE /\ callbackResult = "paContinue" /\ pc = "idle"
      /\ heard = <<>> /\ generated = <<>> /\ played = <<>> /\ blockSizes = {}
  BY DEF Init
<1>2. MaxFrames \in Nat BY DEF ProcessorAssumption
<1>3. tempInput \in Seq(Nat) /\ tempOutput \in Seq(Nat)
  BY <1>1, InitialFrames, ZerosAre
<1>4. <<>> \in Seq(Nat) BY EmptySeq
<1>5. TypeInv
  <2>1. \E a, b \in Seq(Nat) : hostInput = <<a, b>> BY <1>1, <1>4
  <2>2. \E m, n \in Nat : hostOutput = <<m, n>> BY <1>1
  <2>3. heard \in Seq(Nat) /\ generated \in Seq(Nat) /\ played \in Seq(Nat)
    BY <1>1, <1>4
  <2>4. supplied \in 0..MaxFrames BY <1>1, <1>2
  <2> QED BY <1>1, <1>3, <2>1, <2>2, <2>3, <2>4 DEF TypeInv
<1>6. InputFrames = <<>> BY <1>1, <1>4, ConcatEmptySeq DEF InputFrames
<1> QED BY <1>1, <1>5, <1>6, Started

LEMMA ResetBufferProcessorHolds ==
  ASSUME ProcessorAssumption, IInv, ResetBufferProcessor
  PROVE  IInv'
<1>1. /\ pc = "idle" /\ pc' = pc /\ bp' = bp /\ hostInput' = hostInput
      /\ hostOutput' = hostOutput /\ noInput' = noInput
      /\ tempInput' = Zeros(InitialFramesInTempInputBuffer)
      /\ tempOutput' = Zeros(InitialFramesInTempOutputBuffer)
      /\ callbackResult' = "paContinue" /\ supplied' = 0
      /\ heard' = <<>> /\ generated' = <<>> /\ played' = <<>> /\ blockSizes' = {}
  BY DEF ResetBufferProcessor
<1>2. MaxFrames \in Nat BY DEF ProcessorAssumption
<1>3. TypeInv /\ PhaseInv /\ bp \in Configurations BY DEF IInv, TypeInv
<1>4. tempInput' \in Seq(Nat) /\ tempOutput' \in Seq(Nat)
  BY <1>1, <1>3, InitialFrames, ZerosAre
<1>5. <<>> \in Seq(Nat) BY EmptySeq
<1>6. TypeInv' BY <1>1, <1>2, <1>3, <1>4, <1>5 DEF TypeInv
<1>7. InputFrames' = <<>> BY <1>1, <1>3 DEF PhaseInv, InputFrames
<1>8. noInput' => IsFullDuplex' /\ UseNonAdaptingProcess'
  BY <1>1, <1>3, SameConfiguration DEF PhaseInv
<1>9. /\ tempInput' = Zeros(InitialFramesInTempInputBuffer)'
      /\ tempOutput' = Zeros(InitialFramesInTempOutputBuffer)'
  BY <1>1, SameConfiguration DEF Zeros
<1>10. (ProcessorAssumption /\ TypeInv /\ supplied = 0 /\ heard = <<>>
         /\ generated = <<>> /\ played = <<>> /\ blockSizes = {} /\ pc = "idle"
         /\ tempInput = Zeros(InitialFramesInTempInputBuffer)
         /\ tempOutput = Zeros(InitialFramesInTempOutputBuffer)
         /\ InputFrames = <<>>
         /\ (noInput => IsFullDuplex /\ UseNonAdaptingProcess) => IInv)'
  BY Started, PTL
<1> QED BY <1>1, <1>6, <1>7, <1>8, <1>9, <1>10

LEMMA HostBuffers ==
  ASSUME ProcessorAssumption, TypeInv, NEW n \in HostBufferSizes
  PROVE  /\ n \in Nat \ {0}
         /\ UseNonAdaptingProcess /\ N # 0 => n % N = 0
<1>1. /\ bp.framesPerHostBuffer \in Nat \ {0} /\ bp.hostBufferSizeMode \in Modes
      /\ MaxHostBuffer \in Nat \ {0}
  BY Parameters DEF TypeInv
<1>2. n \in Nat \ {0} BY <1>1 DEF HostBufferSizes, Modes
<1>3. UseNonAdaptingProcess /\ N # 0 => n % N = 0
  BY DEF UseNonAdaptingProcess, N, HostBufferSizes
<1> QED BY <1>2, <1>3

LEMMA PartsOf ==
  ASSUME ProcessorAssumption, TypeInv, NEW n \in HostBufferSizes, NEW parts \in Parts(n)
  PROVE  /\ \E k \in 0..n : parts = <<k, n - k>>
         /\ UseNonAdaptingProcess /\ N # 0 => parts[1] % N = 0 /\ parts[2] % N = 0
<1>1. n \in Nat \ {0} /\ (UseNonAdaptingProcess /\ N # 0 => n % N = 0) BY HostBuffers
<1>2. PICK k \in 1..n :
        /\ parts = <<k, n - k>>
        /\ UseNonAdaptingProcess /\ N # 0 => k % N = 0
  BY DEF Parts, N
<1>3. N \in Nat BY Parameters DEF TypeInv
<1>4. UseNonAdaptingProcess /\ N # 0 => (n - k) % N = 0
  <2>1. k \in Nat /\ n \in Nat BY <1>1
  <2> QED BY <1>1, <1>2, <1>3, <2>1, Multiples
<1> QED BY <1>1, <1>2, <1>4

\* The host's next n frames arrive.
LEMMA MoreArrived ==
  ASSUME ProcessorAssumption, TypeInv, NEW n \in Nat, bp' = bp, supplied' = supplied + n
  PROVE  /\ NextInput(n) \in Seq(Nat) /\ Len(NextInput(n)) = n
         /\ Arrived' = Arrived \o NextInput(n)
<1> DEFINE z == Zeros(InitialFramesInTempInputBuffer)
           c == [k \in 1..supplied |-> k]
<1>1. bp \in Configurations /\ supplied \in Nat BY DEF TypeInv, ProcessorAssumption
<1>2. z \in Seq(Nat) BY <1>1, InitialFrames, ZerosAre
<1>3. c \in Seq(Nat) BY <1>1
<1>4. NextInput(n) \in Seq(Nat) /\ Len(NextInput(n)) = n BY <1>1 DEF NextInput
<1>5. c \o NextInput(n) = [k \in 1..supplied+n |-> k] BY <1>1, CountOn DEF NextInput
<1>6. Arrived = z \o c /\ Arrived' = z \o [k \in 1..supplied+n |-> k]
  BY SameConfiguration DEF Arrived, Zeros
<1> HIDE DEF z, c
<1>7. (z \o c) \o NextInput(n) = z \o (c \o NextInput(n)) BY <1>2, <1>3, <1>4, Associative
<1> QED BY <1>4, <1>5, <1>6, <1>7

LEMMA BeginBufferProcessingHolds ==
  ASSUME ProcessorAssumption, IInv, NEW n \in HostBufferSizes,
         NEW input \in Parts(n), NEW output \in Parts(n),
         BeginBufferProcessing(n, input, output)
  PROVE  IInv'
<1>1. /\ pc = "idle" /\ supplied + n <= MaxFrames
      /\ IF IsInput
           THEN /\ hostInput' = <<SubSeq(NextInput(n), 1, input[1]),
                                  SubSeq(NextInput(n), input[1] + 1, n)>>
                /\ supplied' = supplied + n
           ELSE hostInput' = hostInput /\ supplied' = supplied
      /\ hostOutput' = IF IsOutput THEN output ELSE hostOutput
      /\ noInput' = FALSE
      /\ pc' = IF UseNonAdaptingProcess THEN "nonAdapting"
               ELSE IF IsFullDuplex THEN "beginAdapting"
               ELSE IF IsInput THEN "adaptingInput" ELSE "adaptingOutput"
      /\ bp' = bp /\ tempInput' = tempInput /\ tempOutput' = tempOutput
      /\ callbackResult' = callbackResult
      /\ heard' = heard /\ generated' = generated /\ played' = played
      /\ blockSizes' = blockSizes
  BY DEF BeginBufferProcessing, held, history
<1>2. /\ TypeInv /\ PhaseInv /\ HeldInv /\ BlockInv /\ InputInv /\ OutputInv
      /\ bp \in Configurations
  BY DEF IInv, TypeInv
<1>3. n \in Nat \ {0} BY <1>2, HostBuffers
<1>4. PICK i \in 0..n : input = <<i, n - i>> BY <1>2, PartsOf
<1>5. PICK o \in 0..n : output = <<o, n - o>> BY <1>2, PartsOf
<1>6. UseNonAdaptingProcess /\ N # 0 =>
        i % N = 0 /\ (n - i) % N = 0 /\ o % N = 0 /\ (n - o) % N = 0
  BY <1>2, <1>4, <1>5, PartsOf
<1>7. InputFrames = <<>> BY <1>1, <1>2 DEF PhaseInv
<1>8. IsInput \/ IsOutput BY <1>2, Parameters
<1>9. supplied \in Nat /\ MaxFrames \in Nat /\ supplied <= MaxFrames
  BY <1>2 DEF TypeInv, ProcessorAssumption
<1>10. IsInput =>
         /\ \E a, b \in Seq(Nat) : hostInput' = <<a, b>>
         /\ Len(hostInput'[1]) = i /\ Len(hostInput'[2]) = n - i
         /\ InputFrames' = NextInput(n) /\ Len(InputFrames') = n
         /\ Arrived' = Arrived \o NextInput(n) /\ NextInput(n) \in Seq(Nat)
  <2> SUFFICES ASSUME IsInput
               PROVE  /\ \E a, b \in Seq(Nat) : hostInput' = <<a, b>>
                      /\ Len(hostInput'[1]) = i /\ Len(hostInput'[2]) = n - i
                      /\ InputFrames' = NextInput(n) /\ Len(InputFrames') = n
                      /\ Arrived' = Arrived \o NextInput(n) /\ NextInput(n) \in Seq(Nat)
    OBVIOUS
  <2>1. /\ NextInput(n) \in Seq(Nat) /\ Len(NextInput(n)) = n
        /\ Arrived' = Arrived \o NextInput(n)
    BY <1>1, <1>2, <1>3, MoreArrived
  <2> DEFINE a == SubSeq(NextInput(n), 1, i)
             b == SubSeq(NextInput(n), i + 1, n)
  <2>2. /\ a \in Seq(Nat) /\ Len(a) = i /\ b \in Seq(Nat) /\ Len(b) = n - i
        /\ a \o b = NextInput(n)
    <3>1. i \in 0..Len(NextInput(n)) BY <2>1
    <3> QED BY <2>1, <3>1, SplitAt
  <2>3. hostInput' = <<a, b>> BY <1>1, <1>4
  <2> HIDE DEF a, b
  <2>4. InputFrames' = NextInput(n) BY <2>2, <2>3 DEF InputFrames
  <2> QED BY <2>1, <2>2, <2>3, <2>4
<1>11. ~IsInput => hostInput' = hostInput /\ supplied' = supplied /\ InputFrames' = <<>>
  BY <1>1, <1>7 DEF InputFrames
<1>12. TypeInv'
  <2>1. \E a, b \in Seq(Nat) : hostInput' = <<a, b>> BY <1>2, <1>10, <1>11 DEF TypeInv
  <2>2. \E j, k \in Nat : hostOutput' = <<j, k>>
    <3>1. o \in Nat /\ n - o \in Nat BY <1>3
    <3> QED BY <1>1, <1>2, <1>5, <3>1 DEF TypeInv
  <2>3. supplied' \in 0..MaxFrames BY <1>1, <1>3, <1>9
  <2>4. pc' \in {"idle", "nonAdapting", "adaptingInput", "adaptingOutput",
                 "beginAdapting", "adapting"}
    BY <1>1
  <2> QED BY <1>1, <1>2, <2>1, <2>2, <2>3, <2>4 DEF TypeInv
<1>13. PhaseInv'
  <2>1. UseNonAdaptingProcess /\ IsFullDuplex => Len(InputFrames') = OutputRoom'
    <3>1. IsOutput => OutputRoom' = n BY <1>1, <1>3, <1>5 DEF OutputRoom
    <3> QED BY <1>10, <3>1 DEF IsFullDuplex
  <2> QED BY <1>1, <1>8, <1>11, <2>1, SameConfiguration DEF PhaseInv, IsFullDuplex
<1>14. HeldInv' BY <1>1, <1>2, SameConfiguration DEF HeldInv
<1>15. BlockInv'
  <2>1. ~IsInput => Len(hostInput'[1]) = 0 /\ Len(hostInput'[2]) = 0
    <3> DEFINE j == Len(hostInput[1])
               k == Len(hostInput[2])
    <3>1. j \in Nat /\ k \in Nat /\ Len(InputFrames) = j + k /\ Len(InputFrames) = 0
      BY <1>2, <1>7, PartsOfInput
    <3>3. ~IsInput => hostInput' = hostInput BY <1>11
    <3>4. j = 0 /\ k = 0
      <4>1. 0 = j + k BY <3>1, Zenon
      <4> HIDE DEF j, k
      <4> QED BY <3>1, <4>1
    <3> QED BY <3>3, <3>4
  <2>2. UseNonAdaptingProcess /\ N # 0 =>
          Len(hostInput'[1]) % N = 0 /\ Len(hostInput'[2]) % N = 0
    <3>1. N \in Nat BY <1>2, Parameters
    <3>2. N # 0 => 0 % N = 0
      <4>1. 0 \in Int /\ -N <= 0 BY <3>1
      <4> QED BY <3>1, <4>1, ModSmall
    <3> QED BY <1>6, <1>10, <2>1, <3>2
  <2>3. UseNonAdaptingProcess /\ N # 0 /\ IsOutput =>
          hostOutput'[1] % N = 0 /\ hostOutput'[2] % N = 0
    BY <1>1, <1>5, <1>6
  <2>4. pc' = "nonAdapting" => UseNonAdaptingProcess BY <1>1
  <2> QED BY <1>1, <1>2, <2>2, <2>3, <2>4, SameConfiguration DEF BlockInv
<1>16. InputInv'
  <2> SUFFICES ASSUME IsInput
               PROVE  \E rest \in Seq(Nat) :
                        /\ Arrived' = heard' \o rest
                        /\ callbackResult' = "paContinue" =>
                             rest = (tempInput \o InputFrames)'
    BY <1>1, SameConfiguration DEF InputInv
  <2>1. PICK rest \in Seq(Nat) :
          /\ Arrived = heard \o rest
          /\ callbackResult = "paContinue" => rest = tempInput \o InputFrames
    BY <1>2 DEF InputInv
  <2>2. /\ Arrived' = Arrived \o NextInput(n) /\ NextInput(n) \in Seq(Nat)
        /\ InputFrames' = NextInput(n)
    BY <1>10
  <2>3. rest \o NextInput(n) \in Seq(Nat) BY <2>2, ConcatProperties
  <2>4. Arrived' = heard' \o (rest \o NextInput(n))
    <3>1. heard \in Seq(Nat) BY <1>2 DEF TypeInv
    <3>2. (heard \o rest) \o NextInput(n) = heard \o (rest \o NextInput(n))
      BY <2>2, <3>1, Associative
    <3> QED BY <1>1, <2>1, <2>2, <3>2
  <2>5. callbackResult' = "paContinue" =>
          rest \o NextInput(n) = (tempInput \o InputFrames)'
    <3>1. tempInput \in Seq(Nat) BY <1>2 DEF TypeInv
    <3>2. tempInput \o InputFrames = tempInput BY <1>7, <3>1, ConcatEmptySeq
    <3> QED BY <1>1, <2>1, <2>2, <3>2
  <2> QED BY <2>3, <2>4, <2>5
<1>17. OutputInv'
  <2>1. Expected' = Expected BY <1>1, SameConfiguration DEF Expected, Zeros
  <2> QED BY <1>1, <1>2, <2>1, SameConfiguration DEF OutputInv, Zeros
<1> QED BY <1>12, <1>13, <1>14, <1>15, <1>16, <1>17 DEF IInv

LEMMA PrimeOutputHolds ==
  ASSUME ProcessorAssumption, IInv, NEW n \in HostBufferSizes, PrimeOutput(n)
  PROVE  IInv'
<1>1. /\ pc = "idle" /\ pc' = "nonAdapting" /\ IsFullDuplex /\ UseNonAdaptingProcess
      /\ hostOutput' = <<n, 0>> /\ noInput' = TRUE
      /\ bp' = bp /\ tempInput' = tempInput /\ tempOutput' = tempOutput
      /\ hostInput' = hostInput /\ supplied' = supplied
      /\ callbackResult' = callbackResult
      /\ heard' = heard /\ generated' = generated /\ played' = played
      /\ blockSizes' = blockSizes
  BY DEF PrimeOutput, held, history
<1>2. /\ TypeInv /\ PhaseInv /\ HeldInv /\ BlockInv /\ InputInv /\ OutputInv
      /\ bp \in Configurations
  BY DEF IInv, TypeInv
<1>3. n \in Nat \ {0} /\ (UseNonAdaptingProcess /\ N # 0 => n % N = 0) BY <1>2, HostBuffers
<1>4. InputFrames' = InputFrames /\ InputFrames = <<>>
  BY <1>1, <1>2 DEF PhaseInv, InputFrames
<1>5. TypeInv'
  <2>1. \E i, j \in Nat : hostOutput' = <<i, j>> BY <1>1, <1>3
  <2> QED BY <1>1, <1>2, <2>1 DEF TypeInv
<1>6. PhaseInv' BY <1>1, <1>4, SameConfiguration DEF PhaseInv
<1>7. HeldInv' BY <1>1, <1>2, SameConfiguration DEF HeldInv
<1>8. BlockInv'
  <2>1. Len(hostInput[1]) = 0 /\ Len(hostInput[2]) = 0
    <3> DEFINE j == Len(hostInput[1])
               k == Len(hostInput[2])
    <3>1. j \in Nat /\ k \in Nat /\ Len(InputFrames) = j + k /\ Len(InputFrames) = 0
      BY <1>2, <1>4, PartsOfInput
    <3>2. 0 = j + k BY <3>1, Zenon
    <3> HIDE DEF j, k
    <3>3. j = 0 /\ k = 0 BY <3>1, <3>2
    <3> QED BY <3>3 DEF j, k
  <2>2. N # 0 => 0 % N = 0
    <3>1. N \in Nat BY <1>2, Parameters
    <3>2. 0 \in Int /\ -N <= 0 BY <3>1
    <3> QED BY <3>1, <3>2, ModSmall
  <2>3. N # 0 => hostOutput'[1] % N = 0 /\ hostOutput'[2] % N = 0 BY <1>1, <1>3, <2>2
  <2> QED BY <1>1, <1>2, <2>1, <2>2, <2>3, SameConfiguration DEF BlockInv
<1>9. InputInv' BY <1>1, <1>2, <1>4, SameConfiguration DEF InputInv, Arrived, Zeros
<1>10. OutputInv'
  <2>1. Expected' = Expected BY <1>1, SameConfiguration DEF Expected, Zeros
  <2> QED BY <1>1, <1>2, <2>1, SameConfiguration DEF OutputInv, Zeros
<1> QED BY <1>5, <1>6, <1>7, <1>8, <1>9, <1>10 DEF IInv

-----------------------------------------------------------------------------
(* The process that does not adapt host buffers.                           *)

\* Input and output go on by k frames, a multiple of a block.
LEMMA InStep ==
  ASSUME ProcessorAssumption, IInv, pc = "nonAdapting", pc' = pc, bp' = bp,
         tempInput' = tempInput, tempOutput' = tempOutput,
         NEW k \in Nat, k <= FramesToGo, N # 0 => k % N = 0,
         NEW frames \in Seq(Nat), IsOutput => Len(frames) = k,
         IF IsInput /\ ~noInput THEN TakeInput(k)
         ELSE hostInput' = hostInput /\ noInput' = noInput /\ supplied' = supplied,
         IF IsOutput THEN PutOutput(frames)
         ELSE hostOutput' = hostOutput /\ played' = played,
         callbackResult' \in {"paContinue", "paComplete", "paAbort"},
         heard' \in Seq(Nat), generated' \in Seq(Nat),
         blockSizes' \subseteq 1..FramesPerTempBuffer,
         N # 0 => blockSizes' \subseteq {N}
  PROVE  /\ TypeInv' /\ PhaseInv' /\ HeldInv' /\ BlockInv'
         /\ supplied' = supplied /\ noInput' = noInput
         /\ IsInput /\ ~noInput => InputFrames = SubSeq(InputFrames, 1, k) \o InputFrames'
         /\ noInput => InputFrames' = InputFrames
         /\ IsOutput => played' = played \o frames
<1>1. TypeInv /\ PhaseInv /\ HeldInv /\ BlockInv BY DEF IInv
<1>2. /\ UseNonAdaptingProcess /\ N \in Nat
      /\ noInput => IsFullDuplex
  BY <1>1, Parameters DEF PhaseInv, TypeInv
<1>3. /\ IsInput /\ ~noInput => k <= InputPart /\ k <= Len(InputFrames)
      /\ IsOutput => k <= OutputPart /\ k <= OutputRoom
  <2> DEFINE t == FramesToGo
             i == InputPart
             l == Len(InputFrames)
             o == OutputPart
             r == OutputRoom
  <2>1. /\ t \in Nat /\ i \in Nat /\ l \in Nat /\ o \in Nat /\ r \in Nat /\ k <= t
        /\ IsInput /\ ~noInput => t <= i /\ t <= l
        /\ IsOutput => t <= o /\ t <= r
    BY <1>1, ToGo, PartsOfInput, PartsOfOutput
  <2> HIDE DEF t, i, l, o, r
  <2>2. IsInput /\ ~noInput => k <= i /\ k <= l BY <2>1
  <2>3. IsOutput => k <= o /\ k <= r BY <2>1
  <2> QED BY <2>2, <2>3 DEF i, l, o, r
<1>4. supplied' = supplied /\ noInput' = noInput BY DEF TakeInput
<1>5. /\ \E a, b \in Seq(Nat) : hostInput' = <<a, b>>
      /\ IsInput /\ ~noInput => InputFrames = SubSeq(InputFrames, 1, k) \o InputFrames'
      /\ ~(IsInput /\ ~noInput) => InputFrames' = InputFrames
  <2>1. CASE IsInput /\ ~noInput
    <3>1. k \in 0..Len(InputFrames) /\ TakeInput(k)
      <4>1. Len(InputFrames) \in Nat BY <1>1, PartsOfInput
      <4> QED BY <1>3, <2>1, <4>1
    <3> QED BY <1>1, <2>1, <3>1, InputTaken
  <2>2. CASE ~(IsInput /\ ~noInput) BY <1>1, <2>2 DEF TypeInv, InputFrames
  <2> QED BY <2>1, <2>2
<1>6. /\ \E m, n \in Nat : hostOutput' = <<m, n>>
      /\ IsOutput => played' = played \o frames
      /\ played' \in Seq(Nat)
  <2>1. CASE IsOutput
    <3>1. Len(frames) <= OutputRoom /\ PutOutput(frames) BY <1>3, <2>1
    <3> QED BY <1>1, <2>1, <3>1, OutputPut
  <2>2. CASE ~IsOutput BY <1>1, <2>2 DEF TypeInv
  <2> QED BY <2>1, <2>2
<1>7. TypeInv' BY <1>1, <1>4, <1>5, <1>6 DEF TypeInv
<1>8. N # 0 => Len(hostInput'[1]) % N = 0 /\ Len(hostInput'[2]) % N = 0
  <2> SUFFICES ASSUME N # 0
               PROVE  Len(hostInput'[1]) % N = 0 /\ Len(hostInput'[2]) % N = 0
    OBVIOUS
  <2>1. Len(hostInput[1]) % N = 0 /\ Len(hostInput[2]) % N = 0 BY <1>1 DEF BlockInv
  <2>2. CASE ~(IsInput /\ ~noInput) BY <2>1, <2>2
  <2>3. CASE IsInput /\ ~noInput
    <3> DEFINE m == Len(hostInput[1])
               n == Len(hostInput[2])
    <3>1. m \in Nat /\ n \in Nat BY <1>1, PartsOfInput
    <3>2. IF m # 0 THEN Len(hostInput'[1]) = m - k /\ Len(hostInput'[2]) = n
                   ELSE Len(hostInput'[1]) = 0 /\ Len(hostInput'[2]) = n - k
      <4>1. k \in 0..Len(InputFrames) /\ TakeInput(k) /\ k <= InputPart
        <5>1. Len(InputFrames) \in Nat BY <1>1, PartsOfInput
        <5> QED BY <1>3, <2>3, <5>1
      <4> QED BY <1>1, <4>1, InputTaken
    <3>3. m % N = 0 /\ n % N = 0 BY <2>1
    <3> HIDE DEF m, n
    <3>4. (m - k) % N = 0 /\ (n - k) % N = 0 BY <1>2, <3>1, <3>3, Multiples
    <3>5. m = 0 => 0 % N = 0 BY <3>3
    <3> QED BY <3>2, <3>3, <3>4, <3>5
  <2> QED BY <2>2, <2>3
<1>9. N # 0 /\ IsOutput => hostOutput'[1] % N = 0 /\ hostOutput'[2] % N = 0
  <2> SUFFICES ASSUME N # 0, IsOutput
               PROVE  hostOutput'[1] % N = 0 /\ hostOutput'[2] % N = 0
    OBVIOUS
  <2> DEFINE m == hostOutput[1]
             n == hostOutput[2]
  <2>1. m % N = 0 /\ n % N = 0 BY <1>1 DEF BlockInv
  <2>2. m \in Nat /\ n \in Nat BY <1>1, PartsOfOutput
  <2>3. IF m # 0 THEN hostOutput'[1] = m - k /\ hostOutput'[2] = n
                 ELSE hostOutput'[1] = 0 /\ hostOutput'[2] = n - k
    <3>1. Len(frames) <= OutputRoom /\ Len(frames) <= OutputPart /\ PutOutput(frames)
      BY <1>3
    <3> QED BY <1>1, <3>1, OutputPut
  <2> HIDE DEF m, n
  <2>4. (m - k) % N = 0 /\ (n - k) % N = 0 BY <1>2, <2>1, <2>2, Multiples
  <2>5. m = 0 => 0 % N = 0 BY <2>1
  <2> QED BY <2>1, <2>3, <2>4, <2>5
<1>10. BlockInv' BY <1>8, <1>9, SameConfiguration DEF BlockInv
<1>11. HeldInv' BY <1>1, SameConfiguration DEF HeldInv
<1>12. PhaseInv'
  <2>1. IsFullDuplex /\ ~noInput => Len(InputFrames') = OutputRoom'
    <3> SUFFICES ASSUME IsFullDuplex, ~noInput PROVE Len(InputFrames') = OutputRoom'
      OBVIOUS
    <3>1. IsInput /\ IsOutput BY DEF IsFullDuplex
    <3>2. Len(InputFrames) = OutputRoom BY <1>1 DEF PhaseInv
    <3>3. k \in 0..Len(InputFrames) /\ TakeInput(k)
      <4>1. Len(InputFrames) \in Nat BY <1>1, PartsOfInput
      <4> QED BY <1>3, <3>1, <4>1
    <3>4. Len(InputFrames') = Len(InputFrames) - k BY <1>1, <3>3, InputTaken
    <3>5. OutputRoom' = OutputRoom - k
      <4>1. Len(frames) <= OutputRoom /\ PutOutput(frames) /\ Len(frames) = k
        BY <1>3, <3>1
      <4> QED BY <1>1, <4>1, OutputPut
    <3> QED BY <3>2, <3>4, <3>5
  <2> QED BY <1>1, <1>2, <1>4, <1>5, <2>1, SameConfiguration DEF PhaseInv
<1> QED BY <1>4, <1>5, <1>6, <1>7, <1>10, <1>11, <1>12

\* What held back input and input left would hold is split off its beginning.
LEMMA RestOf ==
  ASSUME NEW s \in Seq(Nat), NEW k \in 0..Len(s)
  PROVE  \E left \in Seq(Nat) : s = SubSeq(s, 1, k) \o left
  BY SplitAt

LEMMA NonAdaptingCallHolds ==
  ASSUME ProcessorAssumption, IInv, NEW result \in CallbackResults, NonAdaptingCall(result)
  PROVE  IInv'
<1> DEFINE n == Min({FramesPerTempBuffer, FramesToGo})
           input == IF noInput THEN Zeros(n)
                    ELSE IF IsInput THEN SubSeq(InputFrames, 1, n) ELSE <<>>
           taken == IF result = "paAbort" THEN 0 ELSE n
           frames == GeneratedFrames(input, n, result)
           usesInput == IsInput /\ ~noInput
<1>1. /\ pc = "nonAdapting" /\ FramesToGo > 0
      /\ StreamCallback(input, n, result)
      /\ IF usesInput THEN TakeInput(taken)
         ELSE hostInput' = hostInput /\ noInput' = noInput /\ supplied' = supplied
      /\ IF IsOutput THEN PutOutput(frames)
         ELSE hostOutput' = hostOutput /\ played' = played
      /\ bp' = bp /\ tempInput' = tempInput /\ tempOutput' = tempOutput /\ pc' = pc
  BY DEF NonAdaptingCall, held
<1>2. /\ TypeInv /\ PhaseInv /\ HeldInv /\ BlockInv /\ InputInv /\ OutputInv
      /\ bp \in Configurations
  BY DEF IInv, TypeInv
<1>3. /\ FramesToGo \in Nat
      /\ usesInput => FramesToGo <= Len(InputFrames)
      /\ N # 0 => FramesToGo % N = 0 /\ (FramesToGo # 0 => N <= FramesToGo)
  BY <1>1, <1>2, ToGo
<1>4. N \in Nat /\ FramesPerTempBuffer \in Nat \ {0} /\ (N # 0 => FramesPerTempBuffer = N)
  BY <1>2, Parameters
<1>5. n \in Nat /\ n <= FramesToGo /\ n \in 1..FramesPerTempBuffer /\ (N # 0 => n = N)
  <2>1. FramesPerTempBuffer \in Int /\ FramesToGo \in Int BY <1>3, <1>4
  <2>2. n = IF FramesPerTempBuffer <= FramesToGo THEN FramesPerTempBuffer ELSE FramesToGo
    BY <2>1, MinOfTwo
  <2> HIDE DEF n
  <2> QED BY <1>1, <1>3, <1>4, <2>2
<1> HIDE DEF n
<1>6. UseNonAdaptingProcess /\ (noInput => IsFullDuplex) BY <1>1, <1>2 DEF PhaseInv
<1>7. tempInput = <<>> /\ tempOutput = <<>> BY <1>2, <1>6 DEF HeldInv
<1>8. usesInput => n \in 0..Len(InputFrames)
  <2>1. Len(InputFrames) \in Nat BY <1>2, PartsOfInput
  <2> QED BY <1>3, <1>5, <2>1
<1>9. input \in Seq(Nat) /\ (IsInput => Len(input) = n)
  <2>1. CASE noInput BY <1>5, <2>1, ZerosAre
  <2>2. CASE usesInput
    <3>1. InputFrames \in Seq(Nat) BY <1>2, PartsOfInput
    <3> QED BY <1>8, <2>2, <3>1, SplitAt
  <2>3. CASE ~noInput /\ ~IsInput BY <2>3, EmptySeq
  <2> QED BY <2>1, <2>2, <2>3
<1>10. /\ callbackResult = "paContinue" /\ callbackResult' = result
       /\ callbackResult' \in {"paContinue", "paComplete", "paAbort"}
       /\ frames \in Seq(Nat)
       /\ Len(frames) = IF IsOutput /\ result # "paAbort" THEN n ELSE 0
       /\ generated' = generated \o frames /\ generated' \in Seq(Nat)
       /\ heard' = heard \o (IF usesInput THEN input ELSE <<>>) /\ heard' \in Seq(Nat)
       /\ blockSizes' = blockSizes \cup {n}
  BY <1>1, <1>2, <1>5, <1>9, Called
<1> HIDE DEF frames
<1>11. taken \in Nat /\ taken <= FramesToGo /\ (N # 0 => taken % N = 0)
  <2>1. N # 0 => 0 % N = 0 /\ N % N = 0
    <3>1. N # 0 => 0 \in Int /\ -N <= 0 /\ 0 < N BY <1>4
    <3>2. N # 0 => 0 % N = 0 BY <1>4, <3>1, ModSmall
    <3>3. N # 0 => N % N = 0
      <4>1. N # 0 => (N * 1 + 0) % N = 0
        <5>1. N # 0 => 1 \in Int /\ 0 \in 0..N-1 BY <1>4
        <5> QED BY <1>4, <5>1, ModUnique
      <4>2. N * 1 + 0 = N BY <1>4
      <4> QED BY <4>1, <4>2
    <3> QED BY <3>2, <3>3
  <2> QED BY <1>3, <1>5, <2>1
<1>12. IsOutput => Len(frames) = taken BY <1>10
<1>13. /\ blockSizes' \subseteq 1..FramesPerTempBuffer'
       /\ blockSizes' \subseteq 1..FramesPerTempBuffer
       /\ N # 0 => blockSizes' \subseteq {N}
  BY <1>1, <1>2, <1>5, <1>10, SameConfiguration DEF BlockInv
<1> HIDE DEF taken
<1>14. /\ TypeInv' /\ PhaseInv' /\ HeldInv' /\ BlockInv'
       /\ supplied' = supplied /\ noInput' = noInput
       /\ usesInput => InputFrames = SubSeq(InputFrames, 1, taken) \o InputFrames'
       /\ noInput => InputFrames' = InputFrames
       /\ IsOutput => played' = played \o frames
  BY <1>1, <1>10, <1>11, <1>12, <1>13, InStep
<1>15. /\ InputFrames \in Seq(Nat) /\ tempInput \o InputFrames = InputFrames
       /\ InputFrames' \in Seq(Nat) /\ (tempInput \o InputFrames)' = InputFrames'
  <2>1. InputFrames \in Seq(Nat) BY <1>2, PartsOfInput
  <2>2. \E a, b \in Seq(Nat) : hostInput' = <<a, b>> BY <1>14 DEF TypeInv
  <2>3. InputFrames' \in Seq(Nat) BY <2>2, ConcatProperties DEF InputFrames
  <2> QED BY <1>1, <1>7, <2>1, <2>3, ConcatEmptySeq
<1>16. InputInv'
  <2>1. CASE usesInput
    <3>1. PICK left \in Seq(Nat) : /\ InputFrames = SubSeq(InputFrames, 1, n) \o left
                                   /\ result # "paAbort" => left = InputFrames'
      <4>1. CASE result = "paAbort" BY <1>8, <1>15, <2>1, <4>1, RestOf
      <4>2. CASE result # "paAbort"
        <5>1. taken = n BY <4>2 DEF taken
        <5> QED BY <1>14, <1>15, <2>1, <4>2, <5>1
      <4> QED BY <4>1, <4>2
    <3>2. input = SubSeq(InputFrames, 1, n) /\ heard' = heard \o input BY <1>10, <2>1
    <3>3. input \o left = tempInput \o InputFrames BY <1>15, <3>1, <3>2
    <3>4. callbackResult' = "paContinue" => left = (tempInput \o InputFrames)'
      BY <1>10, <1>15, <3>1
    <3> HIDE DEF input, usesInput
    <3> QED BY <1>1, <1>2, <1>9, <1>10, <1>14, <3>2, <3>3, <3>4, InputOn
  <2>2. CASE ~IsInput BY <1>1, <2>2, SameConfiguration DEF InputInv
  <2>3. CASE noInput
    <3>1. heard' = heard \o <<>> BY <1>10, <2>3
    <3>2. <<>> \o InputFrames = InputFrames BY <1>15, ConcatEmptySeq
    <3>3. InputFrames' = InputFrames BY <1>14, <2>3
    <3>4. <<>> \in Seq(Nat) BY EmptySeq
    <3> QED BY <1>1, <1>2, <1>10, <1>14, <1>15, <3>1, <3>2, <3>3, <3>4, InputOn
  <2> QED BY <2>1, <2>2, <2>3
<1>17. OutputInv'
  <2>1. CASE IsOutput
    <3>1. frames \o tempOutput' = tempOutput \o frames BY <1>1, <1>7, <1>10, ConcatEmptySeq
    <3>2. tempOutput' \in Seq(Nat) BY <1>14 DEF TypeInv
    <3> QED BY <1>1, <1>2, <1>10, <1>14, <2>1, <3>1, <3>2, OutputOn
  <2>2. CASE ~IsOutput BY <1>1, <2>2, SameConfiguration DEF OutputInv
  <2> QED BY <2>1, <2>2
<1> QED BY <1>14, <1>16, <1>17 DEF IInv

LEMMA NonAdaptingZeroHolds ==
  ASSUME ProcessorAssumption, IInv, NonAdaptingZero
  PROVE  IInv'
<1> DEFINE k == FramesToGo
<1>1. /\ pc = "nonAdapting" /\ pc' = pc /\ callbackResult # "paContinue"
      /\ IF IsInput /\ ~noInput THEN TakeInput(k)
         ELSE hostInput' = hostInput /\ noInput' = noInput /\ supplied' = supplied
      /\ IF IsOutput THEN PutOutput(Zeros(k))
         ELSE hostOutput' = hostOutput /\ played' = played
      /\ callbackResult' = callbackResult /\ heard' = heard /\ generated' = generated
      /\ blockSizes' = blockSizes
      /\ bp' = bp /\ tempInput' = tempInput /\ tempOutput' = tempOutput
  BY DEF NonAdaptingZero, NoStreamCallback, held
<1>2. /\ TypeInv /\ PhaseInv /\ HeldInv /\ BlockInv /\ InputInv /\ OutputInv
      /\ bp \in Configurations
  BY DEF IInv, TypeInv
<1>3. k \in Nat /\ (N # 0 => k % N = 0) BY <1>1, <1>2, ToGo
<1>4. Zeros(k) \in Seq(Nat) /\ Len(Zeros(k)) = k BY <1>3, ZerosAre
<1>5. k <= FramesToGo BY <1>3
<1>6. /\ callbackResult' \in {"paContinue", "paComplete", "paAbort"}
      /\ heard' \in Seq(Nat) /\ generated' \in Seq(Nat)
      /\ blockSizes' \subseteq 1..FramesPerTempBuffer /\ (N # 0 => blockSizes' \subseteq {N})
  BY <1>1, <1>2 DEF TypeInv, BlockInv
<1>7. tempOutput = <<>> BY <1>1, <1>2 DEF PhaseInv, HeldInv
<1> HIDE DEF k
<1>8. /\ TypeInv' /\ PhaseInv' /\ HeldInv' /\ BlockInv'
      /\ supplied' = supplied
      /\ IsOutput => played' = played \o Zeros(k)
  BY <1>1, <1>3, <1>4, <1>5, <1>6, InStep
<1>9. InputInv'
  <2>1. heard' = heard \o <<>> /\ <<>> \in Seq(Nat)
    BY <1>1, <1>2, ConcatEmptySeq, EmptySeq DEF TypeInv
  <2> QED BY <1>1, <1>2, <1>8, <2>1, InputOn
<1>10. OutputInv'
  <2>1. CASE IsOutput BY <1>1, <1>2, <1>3, <1>7, <1>8, <2>1, ZerosOn
  <2>2. CASE ~IsOutput BY <1>1, <2>2, SameConfiguration DEF OutputInv
  <2> QED BY <2>1, <2>2
<1> QED BY <1>8, <1>9, <1>10 DEF IInv

\* Every process ends when no input is left.
LEMMA Ended ==
  ASSUME ProcessorAssumption, IInv, pc' = "idle", InputFrames = <<>> \/ ~IsInput,
         UNCHANGED <<bp, held, hostBuffers, callbackResult, history>>
  PROVE  IInv'
<1>1. /\ bp' = bp /\ tempInput' = tempInput /\ tempOutput' = tempOutput
      /\ hostInput' = hostInput /\ hostOutput' = hostOutput /\ noInput' = noInput
      /\ supplied' = supplied /\ callbackResult' = callbackResult
      /\ heard' = heard /\ generated' = generated /\ played' = played
      /\ blockSizes' = blockSizes
  BY DEF held, hostBuffers, history
<1>2. TypeInv /\ PhaseInv /\ HeldInv /\ BlockInv /\ InputInv /\ OutputInv BY DEF IInv
<1>3. InputFrames' = InputFrames BY <1>1 DEF InputFrames
<1>4. InputFrames = <<>> BY <1>2 DEF PhaseInv
<1>5. TypeInv' BY <1>1, <1>2 DEF TypeInv
<1>6. PhaseInv' BY <1>1, <1>2, <1>3, <1>4, SameConfiguration DEF PhaseInv
<1>7. HeldInv' BY <1>1, <1>2, SameConfiguration DEF HeldInv
<1>8. BlockInv' BY <1>1, <1>2, SameConfiguration DEF BlockInv
<1>9. InputInv' BY <1>1, <1>2, <1>3, SameConfiguration DEF InputInv, Arrived, Zeros
<1>10. OutputInv'
  <2>1. Expected' = Expected BY <1>1, SameConfiguration DEF Expected, Zeros
  <2> QED BY <1>1, <1>2, <2>1, SameConfiguration DEF OutputInv, Zeros
<1> QED BY <1>5, <1>6, <1>7, <1>8, <1>9, <1>10 DEF IInv

LEMMA EndHolds ==
  ASSUME ProcessorAssumption, IInv,
         NonAdaptingEnd \/ AdaptingInputEnd \/ AdaptingOutputEnd \/ AdaptingEnd
  PROVE  IInv'
<1>1. TypeInv /\ PhaseInv /\ BlockInv BY DEF IInv
<1>2. CASE NonAdaptingEnd
  <2>1. pc = "nonAdapting" /\ FramesToGo = 0 BY <1>2 DEF NonAdaptingEnd
  <2>2. InputFrames = <<>> \/ ~IsInput BY <1>1, <2>1, ToGo
  <2> QED BY <1>2, <2>2, Ended DEF NonAdaptingEnd
<1>3. CASE AdaptingInputEnd BY <1>3, Ended DEF AdaptingInputEnd
<1>4. CASE AdaptingOutputEnd
  <2>1. ~IsInput BY <1>1, <1>4 DEF AdaptingOutputEnd, PhaseInv
  <2> QED BY <1>4, <2>1, Ended DEF AdaptingOutputEnd
<1>5. CASE AdaptingEnd BY <1>5, Ended DEF AdaptingEnd
<1> QED BY <1>2, <1>3, <1>4, <1>5

-----------------------------------------------------------------------------
(* The processes that adapt host buffers to blocks.                        *)

\* Frames move from the host into the temporary input buffer and fit there.
LEMMA Filled ==
  ASSUME ProcessorAssumption, TypeInv, HeldInv, ~UseNonAdaptingProcess,
         NEW available \in Nat, available <= Len(InputFrames),
         TakeInput(FramesToFill(available))
  PROVE  LET n == FramesToFill(available)
             filled == tempInput \o SubSeq(InputFrames, 1, n)
         IN  /\ filled \in Seq(Nat) /\ Len(filled) \in Nat /\ Len(filled) <= N
             /\ InputFrames' \in Seq(Nat)
             /\ tempInput \o InputFrames = filled \o InputFrames'
             /\ \E a, b \in Seq(Nat) : hostInput' = <<a, b>>
             /\ noInput' = noInput /\ supplied' = supplied
<1> DEFINE n == FramesToFill(available)
           new == SubSeq(InputFrames, 1, n)
<1>1. /\ tempInput \in Seq(Nat) /\ Len(tempInput) \in Nat /\ Len(tempInput) <= N
      /\ N \in Nat /\ Len(InputFrames) \in Nat
  BY Parameters, PartsOfInput, LenProperties DEF TypeInv, HeldInv
<1>2. n = IF available <= N - Len(tempInput) THEN available ELSE N - Len(tempInput)
  <2>1. available \in Int /\ N - Len(tempInput) \in Int BY <1>1
  <2> QED BY <2>1, MinOfTwo DEF FramesToFill, N
<1>3. n \in 0..Len(InputFrames) /\ n \in Nat /\ n <= N - Len(tempInput)
  <2> DEFINE l == Len(InputFrames)
             t == Len(tempInput)
  <2>1. /\ l \in Nat /\ t \in Nat /\ t <= N /\ N \in Nat /\ available <= l
        /\ n = IF available <= N - t THEN available ELSE N - t
    BY <1>1, <1>2
  <2> HIDE DEF l, t, n
  <2>2. n \in 0..l /\ n \in Nat /\ n <= N - t BY <2>1
  <2> QED BY <2>2 DEF l, t
<1> HIDE DEF n
<1>4. /\ \E a, b \in Seq(Nat) : hostInput' = <<a, b>>
      /\ InputFrames' \in Seq(Nat) /\ new \in Seq(Nat) /\ Len(new) = n
      /\ InputFrames = new \o InputFrames'
  BY <1>3, InputTaken DEF n
<1>5. noInput' = noInput /\ supplied' = supplied BY DEF TakeInput
<1>6. (tempInput \o new) \o InputFrames' = tempInput \o (new \o InputFrames')
  <2>1. new \in Seq(Nat) /\ InputFrames' \in Seq(Nat) /\ tempInput \in Seq(Nat)
    BY <1>1, <1>4
  <2> HIDE DEF new
  <2> QED BY <2>1, Associative
<1>7. /\ tempInput \o new \in Seq(Nat)
      /\ Len(tempInput \o new) \in Nat /\ Len(tempInput \o new) <= N
  <2> DEFINE l == Len(tempInput)
             f == Len(tempInput \o new)
  <2>1. tempInput \o new \in Seq(Nat) /\ f = l + n BY <1>1, <1>4, ConcatProperties
  <2>2. l \in Nat /\ N \in Nat BY <1>1
  <2>3. n <= N - l BY <1>3
  <2> HIDE DEF l, f
  <2>4. f \in Nat /\ f <= N BY <1>3, <2>1, <2>2, <2>3
  <2> QED BY <2>1, <2>4 DEF f
<1> QED BY <1>4, <1>5, <1>6, <1>7 DEF n

LEMMA AdaptingInputHolds ==
  ASSUME ProcessorAssumption, IInv, NEW result \in CallbackResults, AdaptingInput(result)
  PROVE  IInv'
<1> DEFINE n == FramesToFill(InputPart)
           filled == tempInput \o SubSeq(InputFrames, 1, n)
           calls == Len(filled) = N /\ callbackResult = "paContinue"
<1>1. /\ pc = "adaptingInput" /\ pc' = pc
      /\ TakeInput(n)
      /\ IF Len(filled) = N
           THEN /\ tempInput' = <<>>
                /\ IF callbackResult = "paContinue" THEN StreamCallback(filled, N, result)
                   ELSE NoStreamCallback
           ELSE tempInput' = filled /\ NoStreamCallback
      /\ bp' = bp /\ tempOutput' = tempOutput /\ hostOutput' = hostOutput
      /\ played' = played
  BY DEF AdaptingInput, N
<1>2. /\ TypeInv /\ PhaseInv /\ HeldInv /\ BlockInv /\ InputInv /\ OutputInv
      /\ bp \in Configurations
  BY DEF IInv, TypeInv
<1>3. ~UseNonAdaptingProcess /\ IsInput /\ ~IsOutput /\ ~noInput
  BY <1>1, <1>2 DEF PhaseInv
<1>4. N \in Nat \ {0} /\ FramesPerTempBuffer = N BY <1>2, <1>3, Parameters
<1>5. InputPart \in Nat /\ InputPart <= Len(InputFrames)
  <2> DEFINE l == Len(InputFrames)
             a == Len(hostInput[1])
             b == Len(hostInput[2])
  <2>1. /\ a \in Nat /\ b \in Nat /\ l = a + b
        /\ InputPart = IF a # 0 THEN a ELSE b
    BY <1>2, PartsOfInput
  <2> HIDE DEF l, a, b
  <2>2. InputPart \in Nat /\ InputPart <= l BY <2>1
  <2> QED BY <2>2 DEF l
<1>6. /\ filled \in Seq(Nat) /\ Len(filled) \in Nat /\ Len(filled) <= N
      /\ InputFrames' \in Seq(Nat) /\ tempInput \o InputFrames = filled \o InputFrames'
      /\ \E a, b \in Seq(Nat) : hostInput' = <<a, b>>
      /\ noInput' = noInput /\ supplied' = supplied
  BY <1>1, <1>2, <1>3, <1>5, Filled
<1> HIDE DEF filled
<1>7. calls =>
        /\ callbackResult' \in {"paContinue", "paComplete", "paAbort"}
        /\ generated' \in Seq(Nat) /\ heard' = heard \o filled /\ heard' \in Seq(Nat)
        /\ blockSizes' = blockSizes \cup {N}
  <2> SUFFICES ASSUME calls
               PROVE  /\ callbackResult' \in {"paContinue", "paComplete", "paAbort"}
                      /\ generated' \in Seq(Nat)
                      /\ heard' = heard \o filled /\ heard' \in Seq(Nat)
                      /\ blockSizes' = blockSizes \cup {N}
    OBVIOUS
  <2>1. StreamCallback(filled, N, result) /\ Len(filled) = N /\ N \in Nat BY <1>1, <1>4
  <2> HIDE DEF calls
  <2> QED BY <1>2, <1>3, <1>6, <2>1, Called
<1>8. ~calls =>
        /\ callbackResult' = callbackResult /\ generated' = generated /\ heard' = heard
        /\ blockSizes' = blockSizes
  BY <1>1 DEF NoStreamCallback
<1>9. TypeInv'
  <2>1. tempInput' \in Seq(Nat) BY <1>1, <1>6, EmptySeq
  <2>2. /\ callbackResult' \in {"paContinue", "paComplete", "paAbort"}
        /\ generated' \in Seq(Nat) /\ heard' \in Seq(Nat)
    BY <1>2, <1>7, <1>8 DEF TypeInv
  <2> QED BY <1>1, <1>2, <1>6, <2>1, <2>2 DEF TypeInv
<1>10. PhaseInv' BY <1>1, <1>3, <1>6, SameConfiguration DEF PhaseInv
<1>11. HeldInv'
  <2>1. Len(tempInput') <= N /\ Len(tempOutput') <= N
    <3>1. Len(tempOutput) <= N BY <1>2, <1>3 DEF HeldInv
    <3>2. CASE Len(filled) = N
      <4>1. Len(tempInput') = 0 BY <1>1, <3>2, EmptySeq
      <4> QED BY <1>1, <1>4, <3>1, <4>1
    <3>3. CASE Len(filled) # N BY <1>1, <1>6, <3>1, <3>3
    <3> QED BY <3>2, <3>3
  <2> QED BY <1>1, <1>3, <2>1, SameConfiguration DEF HeldInv
<1>12. BlockInv'
  <2>1. N \in 1..FramesPerTempBuffer BY <1>4
  <2>2. blockSizes' \subseteq blockSizes \cup {N} BY <1>7, <1>8
  <2> QED BY <1>1, <1>2, <2>1, <2>2, SameConfiguration DEF BlockInv
<1>13. InputInv'
  <2>1. CASE calls
    <3>1. tempInput' = <<>> /\ (tempInput \o InputFrames)' = InputFrames'
      BY <1>1, <1>6, <2>1, ConcatEmptySeq
    <3>2. heard' = heard \o filled BY <1>7, <2>1
    <3>3. callbackResult = "paContinue" BY <2>1
    <3> HIDE DEF calls
    <3> QED BY <1>1, <1>2, <1>6, <3>1, <3>2, <3>3, InputOn
  <2>2. CASE ~calls
    <3>1. <<>> \in Seq(Nat) /\ heard' = heard \o <<>>
      BY <1>2, <1>8, <2>2, EmptySeq, ConcatEmptySeq DEF TypeInv
    <3> DEFINE left == tempInput \o InputFrames
    <3>2. left \in Seq(Nat) /\ <<>> \o left = left
      <4>1. tempInput \in Seq(Nat) /\ InputFrames \in Seq(Nat)
        BY <1>2, PartsOfInput DEF TypeInv
      <4>2. left \in Seq(Nat) BY <4>1, ConcatProperties
      <4> QED BY <4>2, ConcatEmptySeq
    <3>3. callbackResult' = callbackResult BY <1>8, <2>2
    <3>4. callbackResult' = "paContinue" => left = (tempInput \o InputFrames)'
      BY <1>1, <1>6, <2>2, <3>3
    <3> HIDE DEF left, calls
    <3>5. callbackResult = "paContinue" => <<>> \o left = tempInput \o InputFrames
      BY <3>2 DEF left
    <3> QED BY <1>1, <1>2, <1>6, <3>1, <3>2, <3>3, <3>4, <3>5, InputOn
  <2> QED BY <2>1, <2>2
<1>14. OutputInv' BY <1>1, <1>3, SameConfiguration DEF OutputInv
<1> QED BY <1>9, <1>10, <1>11, <1>12, <1>13, <1>14 DEF IInv

\* As many frames as there is room for are put, the others are held back.
LEMMA PartPut ==
  ASSUME TypeInv, NEW frames \in Seq(Nat), NEW n \in 0..Len(frames), n <= OutputRoom,
         PutOutput(SubSeq(frames, 1, n)), tempOutput' = SubSeq(frames, n + 1, Len(frames))
  PROVE  /\ \E put \in Seq(Nat) : played' = played \o put /\ put \o tempOutput' = frames
         /\ tempOutput' \in Seq(Nat) /\ Len(tempOutput') <= Len(frames)
         /\ Len(tempOutput') = Len(frames) - n /\ OutputRoom' = OutputRoom - n
         /\ \E i, j \in Nat : hostOutput' = <<i, j>>
         /\ played' \in Seq(Nat)
<1> DEFINE put == SubSeq(frames, 1, n)
<1>1. /\ put \in Seq(Nat) /\ Len(put) = n /\ tempOutput' \in Seq(Nat)
      /\ Len(tempOutput') = Len(frames) - n /\ put \o tempOutput' = frames
  BY SplitAt
<1>2. Len(frames) \in Nat BY LenProperties
<1>3. PutOutput(put) /\ Len(put) <= OutputRoom BY <1>1
<1> HIDE DEF put
<1>4. /\ played' = played \o put /\ played' \in Seq(Nat)
      /\ \E i, j \in Nat : hostOutput' = <<i, j>>
      /\ OutputRoom' = OutputRoom - n
  BY <1>1, <1>3, OutputPut
<1>5. Len(tempOutput') <= Len(frames) BY <1>1, <1>2
<1> QED BY <1>1, <1>4, <1>5

LEMMA ZerosPut ==
  ASSUME TypeInv, NEW n \in Nat, n <= OutputRoom, PutOutput(Zeros(n))
  PROVE  /\ played' = played \o Zeros(n)
         /\ \E i, j \in Nat : hostOutput' = <<i, j>>
         /\ played' \in Seq(Nat) /\ OutputRoom' = OutputRoom - n
<1>1. Zeros(n) \in Seq(Nat) /\ Len(Zeros(n)) = n BY ZerosAre
<1>2. Len(Zeros(n)) <= OutputRoom BY <1>1
<1> QED BY <1>1, <1>2, OutputPut

LEMMA AdaptingOutputHolds ==
  ASSUME ProcessorAssumption, IInv, NEW result \in CallbackResults, AdaptingOutput(result)
  PROVE  IInv'
<1> DEFINE calls == tempOutput = <<>> /\ callbackResult = "paContinue"
           new == GeneratedFrames(<<>>, N, result)
           frames == IF calls THEN new ELSE tempOutput
           n == Min({Len(frames), OutputPart})
<1>1. /\ pc = "adaptingOutput" /\ pc' = pc
      /\ IF calls THEN StreamCallback(<<>>, N, result) ELSE NoStreamCallback
      /\ IF frames # <<>>
           THEN /\ PutOutput(SubSeq(frames, 1, n))
                /\ tempOutput' = SubSeq(frames, n + 1, Len(frames))
           ELSE PutOutput(Zeros(OutputPart)) /\ tempOutput' = tempOutput
      /\ bp' = bp /\ tempInput' = tempInput /\ hostInput' = hostInput
      /\ noInput' = noInput /\ supplied' = supplied
  BY DEF AdaptingOutput, N
<1>2. /\ TypeInv /\ PhaseInv /\ HeldInv /\ BlockInv /\ InputInv /\ OutputInv
      /\ bp \in Configurations
  BY DEF IInv, TypeInv
<1>3. /\ ~UseNonAdaptingProcess /\ ~IsInput /\ IsOutput /\ ~noInput
      /\ tempOutput \in Seq(Nat) /\ Len(tempOutput) <= N
  BY <1>1, <1>2 DEF PhaseInv, HeldInv, TypeInv
<1>4. N \in Nat \ {0} /\ FramesPerTempBuffer = N BY <1>2, <1>3, Parameters
<1>5. calls =>
        /\ callbackResult' = result
        /\ callbackResult' \in {"paContinue", "paComplete", "paAbort"}
        /\ new \in Seq(Nat) /\ Len(new) = IF result # "paAbort" THEN N ELSE 0
        /\ generated' = generated \o new /\ generated' \in Seq(Nat)
        /\ heard' \in Seq(Nat) /\ blockSizes' = blockSizes \cup {N}
  <2> SUFFICES ASSUME calls
               PROVE  /\ callbackResult' = result
                      /\ callbackResult' \in {"paContinue", "paComplete", "paAbort"}
                      /\ new \in Seq(Nat) /\ Len(new) = IF result # "paAbort" THEN N ELSE 0
                      /\ generated' = generated \o new /\ generated' \in Seq(Nat)
                      /\ heard' \in Seq(Nat) /\ blockSizes' = blockSizes \cup {N}
    OBVIOUS
  <2>1. StreamCallback(<<>>, N, result) /\ <<>> \in Seq(Nat) /\ N \in Nat
    BY <1>1, <1>4, EmptySeq
  <2>2. IsInput => Len(<<>>) = N BY <1>3
  <2> HIDE DEF calls
  <2> QED BY <1>2, <1>3, <2>1, <2>2, Called
<1>6. ~calls =>
        /\ callbackResult' = callbackResult /\ generated' = generated /\ heard' = heard
        /\ blockSizes' = blockSizes
  BY <1>1 DEF NoStreamCallback
<1> HIDE DEF new
<1>7. frames \in Seq(Nat) /\ Len(frames) \in Nat /\ Len(frames) <= N
  <2>1. frames \in Seq(Nat) BY <1>3, <1>5
  <2>2. Len(frames) <= N
    <3>1. calls => Len(new) <= N BY <1>4, <1>5
    <3> QED BY <1>3, <3>1
  <2> QED BY <2>1, <2>2, LenProperties
<1>8. OutputPart \in Nat /\ OutputPart <= OutputRoom BY <1>2, PartsOfOutput
<1>9. n \in 0..Len(frames) /\ n <= OutputRoom
  <2> DEFINE l == Len(frames)
             o == OutputPart
             r == OutputRoom
  <2>1. l \in Nat /\ o \in Nat /\ r \in Nat /\ o <= r BY <1>2, <1>7, PartsOfOutput
  <2>2. l \in Int /\ o \in Int BY <2>1
  <2>3. n = IF l <= o THEN l ELSE o BY <2>2, MinOfTwo
  <2> HIDE DEF l, o, r, n
  <2>4. n \in 0..l /\ n <= r BY <2>1, <2>3
  <2> QED BY <2>4 DEF l, r
<1> HIDE DEF n
<1>10. frames # <<>> =>
         /\ \E put \in Seq(Nat) : played' = played \o put /\ put \o tempOutput' = frames
         /\ tempOutput' \in Seq(Nat) /\ Len(tempOutput') <= Len(frames)
         /\ \E i, j \in Nat : hostOutput' = <<i, j>>
         /\ played' \in Seq(Nat)
  <2> HIDE DEF frames
  <2> QED BY <1>1, <1>2, <1>7, <1>9, PartPut
<1>11. frames = <<>> =>
         /\ played' = played \o Zeros(OutputPart)
         /\ \E i, j \in Nat : hostOutput' = <<i, j>>
         /\ played' \in Seq(Nat) /\ tempOutput' = tempOutput
  <2> HIDE DEF frames
  <2> QED BY <1>1, <1>2, <1>8, ZerosPut
<1>12. /\ tempOutput' \in Seq(Nat) /\ Len(tempOutput') <= N
       /\ \E i, j \in Nat : hostOutput' = <<i, j>>
       /\ played' \in Seq(Nat)
  <2>1. CASE frames # <<>>
    <3> DEFINE l == Len(frames)
               t == Len(tempOutput')
    <3>1. t \in Nat /\ l \in Nat /\ t <= l /\ l <= N BY <1>7, <1>10, <2>1, LenProperties
    <3>2. N \in Nat BY <1>4
    <3> HIDE DEF l, t, frames
    <3>3. t <= N BY <3>1, <3>2
    <3> QED BY <1>10, <2>1, <3>3 DEF t
  <2>2. CASE frames = <<>>
    <3> HIDE DEF frames
    <3> QED BY <1>3, <1>11, <2>2
  <2> QED BY <2>1, <2>2
<1>13. TypeInv'
  <2>1. /\ callbackResult' \in {"paContinue", "paComplete", "paAbort"}
        /\ generated' \in Seq(Nat) /\ heard' \in Seq(Nat)
    BY <1>2, <1>5, <1>6 DEF TypeInv
  <2> HIDE DEF calls, frames
  <2> QED BY <1>1, <1>2, <1>12, <2>1 DEF TypeInv
<1>14. PhaseInv'
  <2>1. InputFrames' = InputFrames BY <1>1 DEF InputFrames
  <2>2. InputFrames = <<>> BY <1>2, <1>3 DEF PhaseInv
  <2> QED BY <1>1, <1>3, <2>1, <2>2, SameConfiguration DEF PhaseInv
<1>15. HeldInv' BY <1>1, <1>2, <1>3, <1>12, SameConfiguration DEF HeldInv
<1>16. BlockInv'
  <2>1. N \in 1..FramesPerTempBuffer BY <1>4
  <2>2. blockSizes' \subseteq blockSizes \cup {N} BY <1>5, <1>6
  <2> QED BY <1>1, <1>2, <2>1, <2>2, SameConfiguration DEF BlockInv
<1>17. InputInv' BY <1>1, <1>3, SameConfiguration DEF InputInv
<1>18. OutputInv'
  <2>1. CASE frames # <<>>
    <3>1. PICK put \in Seq(Nat) : played' = played \o put /\ put \o tempOutput' = frames
      BY <1>10, <2>1
    <3>2. CASE calls
      <4>1. /\ new \in Seq(Nat) /\ generated' = generated \o new
            /\ callbackResult = "paContinue"
        BY <1>5, <3>2
      <4>2. put \o tempOutput' = tempOutput \o new BY <3>1, <3>2, <4>1, ConcatEmptySeq
      <4> HIDE DEF calls, frames
      <4> QED BY <1>1, <1>2, <1>12, <3>1, <4>1, <4>2, OutputOn
    <3>3. CASE ~calls
      <4>1. <<>> \in Seq(Nat) /\ generated' = generated \o <<>>
        BY <1>2, <1>6, <3>3, EmptySeq, ConcatEmptySeq DEF TypeInv
      <4>2. put \o tempOutput' = tempOutput \o <<>> BY <1>3, <3>1, <3>3, ConcatEmptySeq
      <4>3. callbackResult' = callbackResult BY <1>6, <3>3
      <4> HIDE DEF calls, frames
      <4> QED BY <1>1, <1>2, <1>12, <3>1, <4>1, <4>2, <4>3, OutputOn
    <3> QED BY <3>2, <3>3
  <2>2. CASE frames = <<>>
    <3>1. played' = played \o Zeros(OutputPart) /\ tempOutput' = tempOutput
      BY <1>11, <2>2
    <3>2. /\ tempOutput = <<>> /\ generated' = generated
          /\ callbackResult' # "paContinue"
      <4>1. CASE calls
        <5>1. new = <<>> BY <2>2, <4>1
        <5>2. Len(new) = 0 /\ generated' = generated
          BY <1>2, <1>5, <4>1, <5>1, EmptySeq, ConcatEmptySeq DEF TypeInv
        <5>3. result = "paAbort" BY <1>4, <1>5, <4>1, <5>2
        <5> QED BY <1>5, <4>1, <5>2, <5>3
      <4>2. CASE ~calls BY <1>6, <2>2, <4>2
      <4> QED BY <4>1, <4>2
    <3> HIDE DEF calls, frames
    <3> QED BY <1>1, <1>2, <1>8, <3>1, <3>2, ZerosOn
  <2> QED BY <2>1, <2>2
<1> QED BY <1>13, <1>14, <1>15, <1>16, <1>17, <1>18 DEF IInv

LEMMA Copied ==
  ASSUME TypeInv, NEW frames \in Seq(Nat), CopyTempOutput(frames, 0)
  PROVE  /\ \E put \in Seq(Nat) : played' = played \o put /\ put \o tempOutput' = frames
         /\ tempOutput' \in Seq(Nat) /\ Len(tempOutput') <= Len(frames)
         /\ Len(tempOutput') - OutputRoom' = Len(frames) - OutputRoom
         /\ tempOutput' = <<>> \/ OutputRoom' = 0
         /\ \E i, j \in Nat : hostOutput' = <<i, j>>
         /\ played' \in Seq(Nat)
<1> DEFINE n == Min({Len(frames), OutputRoom - 0})
<1>1. /\ PutOutput(Zeros(0) \o SubSeq(frames, 1, n))
      /\ tempOutput' = SubSeq(frames, n + 1, Len(frames))
  BY DEF CopyTempOutput
<1>2. Len(frames) \in Nat /\ OutputRoom \in Nat BY PartsOfOutput, LenProperties
<1>3. n \in 0..Len(frames) /\ n <= OutputRoom /\ (n = Len(frames) \/ n = OutputRoom)
  <2> DEFINE l == Len(frames)
             r == OutputRoom
  <2>1. l \in Int /\ r - 0 \in Int BY <1>2
  <2>2. n = IF l <= r - 0 THEN l ELSE r - 0 BY <2>1, MinOfTwo
  <2>3. l \in Nat /\ r \in Nat BY <1>2
  <2> HIDE DEF l, r, n
  <2>4. n \in 0..l /\ n <= r /\ (n = l \/ n = r) BY <2>2, <2>3
  <2> QED BY <2>4 DEF l, r
<1> HIDE DEF n
<1>4. Zeros(0) \o SubSeq(frames, 1, n) = SubSeq(frames, 1, n)
  <2>1. SubSeq(frames, 1, n) \in Seq(Nat) BY <1>3, SplitAt
  <2>2. Zeros(0) = <<>> BY ZerosAre
  <2> QED BY <2>1, <2>2, ConcatEmptySeq
<1>5. /\ \E put \in Seq(Nat) : played' = played \o put /\ put \o tempOutput' = frames
      /\ tempOutput' \in Seq(Nat) /\ Len(tempOutput') <= Len(frames)
      /\ Len(tempOutput') = Len(frames) - n /\ OutputRoom' = OutputRoom - n
      /\ \E i, j \in Nat : hostOutput' = <<i, j>>
      /\ played' \in Seq(Nat)
  BY <1>1, <1>3, <1>4, PartPut
<1>6. /\ Len(tempOutput') - OutputRoom' = Len(frames) - OutputRoom
      /\ Len(tempOutput') = 0 \/ OutputRoom' = 0
  BY <1>2, <1>3, <1>5
<1>7. tempOutput' = <<>> \/ OutputRoom' = 0 BY <1>5, <1>6, EmptySeq
<1> QED BY <1>5, <1>6, <1>7

LEMMA CopiedZeros ==
  ASSUME TypeInv, CopyTempOutput(<<>>, OutputRoom)
  PROVE  /\ played' = played \o Zeros(OutputRoom)
         /\ \E i, j \in Nat : hostOutput' = <<i, j>>
         /\ played' \in Seq(Nat) /\ tempOutput' = <<>> /\ OutputRoom' = 0
<1> DEFINE n == Min({Len(<<>>), OutputRoom - OutputRoom})
<1>1. /\ PutOutput(Zeros(OutputRoom) \o SubSeq(<<>>, 1, n))
      /\ tempOutput' = SubSeq(<<>>, n + 1, Len(<<>>))
  BY DEF CopyTempOutput
<1>2. OutputRoom \in Nat BY PartsOfOutput
<1>3. n = 0
  <2>1. Len(<<>>) = 0 /\ OutputRoom - OutputRoom = 0 BY <1>2
  <2>2. n = Min({0, 0}) BY <2>1
  <2> QED BY <2>2, MinOfTwo
<1>4. SubSeq(<<>>, 1, n) = <<>> /\ SubSeq(<<>>, n + 1, Len(<<>>)) = <<>>
  <2>1. <<>> \in Seq(Nat) /\ 0 \in 0..Len(<<>>) BY EmptySeq
  <2>2. /\ SubSeq(<<>>, 1, 0) \in Seq(Nat) /\ Len(SubSeq(<<>>, 1, 0)) = 0
        /\ SubSeq(<<>>, 0 + 1, Len(<<>>)) \in Seq(Nat)
        /\ Len(SubSeq(<<>>, 0 + 1, Len(<<>>))) = Len(<<>>) - 0
    BY <2>1, SplitAt
  <2>3. Len(SubSeq(<<>>, 0 + 1, Len(<<>>))) = 0 BY <2>2
  <2> QED BY <1>3, <2>2, <2>3, EmptySeq
<1>5. Zeros(OutputRoom) \o <<>> = Zeros(OutputRoom) BY <1>2, ZerosAre, ConcatEmptySeq
<1>6. PutOutput(Zeros(OutputRoom)) /\ tempOutput' = <<>> BY <1>1, <1>4, <1>5
<1>7. OutputRoom <= OutputRoom /\ OutputRoom - OutputRoom = 0 BY <1>2
<1> QED BY <1>2, <1>6, <1>7, ZerosPut

LEMMA BeginAdaptingHolds ==
  ASSUME ProcessorAssumption, IInv, BeginAdapting
  PROVE  IInv'
<1>1. /\ pc = "beginAdapting" /\ pc' = "adapting" /\ CopyTempOutput(tempOutput, 0)
      /\ bp' = bp /\ tempInput' = tempInput /\ hostInput' = hostInput
      /\ noInput' = noInput /\ supplied' = supplied /\ callbackResult' = callbackResult
      /\ heard' = heard /\ generated' = generated /\ blockSizes' = blockSizes
  BY DEF BeginAdapting
<1>2. /\ TypeInv /\ PhaseInv /\ HeldInv /\ BlockInv /\ InputInv /\ OutputInv
      /\ bp \in Configurations /\ tempOutput \in Seq(Nat)
  BY DEF IInv, TypeInv
<1>3. ~UseNonAdaptingProcess /\ IsFullDuplex /\ ~noInput BY <1>1, <1>2 DEF PhaseInv
<1>4. /\ \E put \in Seq(Nat) : played' = played \o put /\ put \o tempOutput' = tempOutput
      /\ tempOutput' \in Seq(Nat) /\ Len(tempOutput') <= Len(tempOutput)
      /\ \E i, j \in Nat : hostOutput' = <<i, j>>
      /\ played' \in Seq(Nat)
  BY <1>1, <1>2, Copied
<1>5. TypeInv' BY <1>1, <1>2, <1>4 DEF TypeInv
<1>6. InputFrames' = InputFrames BY <1>1 DEF InputFrames
<1>7. PhaseInv' BY <1>1, <1>2, <1>3, <1>6, SameConfiguration DEF PhaseInv, IsFullDuplex
<1>8. HeldInv'
  <2>1. Len(tempOutput) <= N /\ Len(tempInput) <= N BY <1>2, <1>3 DEF HeldInv
  <2>2. Len(tempOutput') <= N
    <3>1. Len(tempOutput) \in Nat /\ Len(tempOutput') \in Nat /\ N \in Nat
      BY <1>2, <1>4, Parameters, LenProperties
    <3> QED BY <1>4, <2>1, <3>1
  <2> QED BY <1>1, <1>3, <2>1, <2>2, SameConfiguration DEF HeldInv
<1>9. BlockInv' BY <1>1, <1>2, SameConfiguration DEF BlockInv
<1>10. InputInv' BY <1>1, <1>2, <1>6, SameConfiguration DEF InputInv, Arrived, Zeros
<1>11. OutputInv'
  <2>1. PICK put \in Seq(Nat) : played' = played \o put /\ put \o tempOutput' = tempOutput
    BY <1>4
  <2>2. <<>> \in Seq(Nat) /\ generated' = generated \o <<>>
        /\ put \o tempOutput' = tempOutput \o <<>>
    BY <1>1, <1>2, <2>1, EmptySeq, ConcatEmptySeq DEF TypeInv
  <2> QED BY <1>1, <1>2, <1>4, <2>1, <2>2, OutputOn
<1> QED BY <1>5, <1>7, <1>8, <1>9, <1>10, <1>11 DEF IInv

LEMMA AdaptingHolds ==
  ASSUME ProcessorAssumption, IInv, NEW result \in CallbackResults, Adapting(result)
  PROVE  IInv'
<1> DEFINE ended == tempOutput = <<>> /\ callbackResult # "paContinue"
           zeroed == IF ended THEN OutputRoom ELSE 0
           n == FramesToFill(Len(InputFrames))
           filled == tempInput \o SubSeq(InputFrames, 1, n)
           isBlock == Len(filled) = N /\ tempOutput = <<>>
           calls == isBlock /\ callbackResult = "paContinue"
           new == GeneratedFrames(filled, Len(filled), result)
<1>1. /\ pc = "adapting" /\ pc' = pc /\ bp' = bp
      /\ TakeInput(n)
      /\ IF calls
           THEN /\ StreamCallback(filled, N, result)
                /\ tempInput' = <<>>
                /\ CopyTempOutput(new, zeroed)
           ELSE /\ NoStreamCallback
                /\ tempInput' = IF isBlock THEN <<>> ELSE filled
                /\ CopyTempOutput(tempOutput, zeroed)
  BY DEF Adapting, N, DiscardInput
<1>2. /\ TypeInv /\ PhaseInv /\ HeldInv /\ BlockInv /\ InputInv /\ OutputInv
      /\ bp \in Configurations /\ tempOutput \in Seq(Nat)
  BY DEF IInv, TypeInv
<1>3. ~UseNonAdaptingProcess /\ IsInput /\ IsOutput /\ ~noInput
  BY <1>1, <1>2 DEF PhaseInv, IsFullDuplex
<1>4. N \in Nat \ {0} /\ FramesPerTempBuffer = N BY <1>2, <1>3, Parameters
<1>5. /\ filled \in Seq(Nat) /\ Len(filled) \in Nat /\ Len(filled) <= N
      /\ InputFrames' \in Seq(Nat) /\ tempInput \o InputFrames = filled \o InputFrames'
      /\ \E a, b \in Seq(Nat) : hostInput' = <<a, b>>
      /\ noInput' = noInput /\ supplied' = supplied
  <2>1. Len(InputFrames) \in Nat /\ Len(InputFrames) <= Len(InputFrames)
    <3>1. Len(InputFrames) \in Nat BY <1>2, PartsOfInput
    <3> QED BY <3>1
  <2> QED BY <1>1, <1>2, <1>3, <2>1, Filled
<1> HIDE DEF filled
<1>6. calls =>
        /\ callbackResult' \in {"paContinue", "paComplete", "paAbort"}
        /\ new \in Seq(Nat) /\ Len(new) <= N
        /\ generated' = generated \o new /\ generated' \in Seq(Nat)
        /\ heard' = heard \o filled /\ heard' \in Seq(Nat)
        /\ blockSizes' = blockSizes \cup {N}
  <2> SUFFICES ASSUME calls
               PROVE  /\ callbackResult' \in {"paContinue", "paComplete", "paAbort"}
                      /\ new \in Seq(Nat) /\ Len(new) <= N
                      /\ generated' = generated \o new /\ generated' \in Seq(Nat)
                      /\ heard' = heard \o filled /\ heard' \in Seq(Nat)
                      /\ blockSizes' = blockSizes \cup {N}
    OBVIOUS
  <2>1. StreamCallback(filled, N, result) /\ Len(filled) = N /\ N \in Nat BY <1>1, <1>4
  <2>2. new = GeneratedFrames(filled, N, result) BY <2>1
  <2> HIDE DEF calls, new
  <2>3. /\ callbackResult' \in {"paContinue", "paComplete", "paAbort"}
        /\ new \in Seq(Nat) /\ Len(new) = IF result # "paAbort" THEN N ELSE 0
        /\ generated' = generated \o new /\ generated' \in Seq(Nat)
        /\ heard' = heard \o filled /\ heard' \in Seq(Nat)
        /\ blockSizes' = blockSizes \cup {N}
    BY <1>2, <1>3, <1>5, <2>1, <2>2, Called
  <2> QED BY <1>4, <2>3
<1>7. ~calls =>
        /\ callbackResult' = callbackResult /\ generated' = generated /\ heard' = heard
        /\ blockSizes' = blockSizes
  BY <1>1 DEF NoStreamCallback
<1> HIDE DEF new
<1> DEFINE frames == IF calls THEN new ELSE tempOutput
<1>8. frames \in Seq(Nat) /\ Len(frames) <= N
  BY <1>2, <1>3, <1>6 DEF HeldInv
<1>9. ~ended =>
        /\ \E put \in Seq(Nat) : played' = played \o put /\ put \o tempOutput' = frames
        /\ tempOutput' \in Seq(Nat) /\ Len(tempOutput') <= Len(frames)
        /\ \E i, j \in Nat : hostOutput' = <<i, j>>
        /\ played' \in Seq(Nat)
  <2>1. ~ended => CopyTempOutput(frames, 0) BY <1>1
  <2> HIDE DEF ended, frames
  <2> QED BY <1>2, <1>8, <2>1, Copied
<1>10. ended =>
         /\ played' = played \o Zeros(OutputRoom)
         /\ \E i, j \in Nat : hostOutput' = <<i, j>>
         /\ played' \in Seq(Nat) /\ tempOutput' = <<>>
  <2>1. ended => CopyTempOutput(<<>>, OutputRoom) BY <1>1
  <2> HIDE DEF ended
  <2> QED BY <1>2, <2>1, CopiedZeros
<1>11. /\ tempOutput' \in Seq(Nat) /\ Len(tempOutput') <= N
       /\ \E i, j \in Nat : hostOutput' = <<i, j>>
       /\ played' \in Seq(Nat)
  <2>1. CASE ~ended
    <3>1. tempOutput' \in Seq(Nat) /\ Len(tempOutput') <= Len(frames) BY <1>9, <2>1
    <3>2. Len(tempOutput') \in Nat /\ Len(frames) \in Nat /\ N \in Nat
      BY <1>4, <1>8, <3>1, LenProperties
    <3> HIDE DEF frames
    <3>3. Len(tempOutput') <= N BY <1>8, <3>1, <3>2
    <3> QED BY <1>9, <2>1, <3>3
  <2>2. CASE ended
    <3>1. tempOutput' \in Seq(Nat) /\ Len(tempOutput') = 0 BY <1>10, <2>2, EmptySeq
    <3>2. Len(tempOutput') <= N BY <1>4, <3>1
    <3> QED BY <1>10, <2>2, <3>1, <3>2
  <2> QED BY <2>1, <2>2
<1>12. tempInput' = (IF isBlock THEN <<>> ELSE filled) BY <1>1
<1>13. TypeInv'
  <2>1. tempInput' \in Seq(Nat) BY <1>5, <1>12, EmptySeq
  <2>2. /\ callbackResult' \in {"paContinue", "paComplete", "paAbort"}
        /\ generated' \in Seq(Nat) /\ heard' \in Seq(Nat)
    BY <1>2, <1>6, <1>7 DEF TypeInv
  <2> QED BY <1>1, <1>2, <1>5, <1>11, <2>1, <2>2 DEF TypeInv
<1>14. PhaseInv' BY <1>1, <1>3, <1>5, SameConfiguration DEF PhaseInv, IsFullDuplex
<1>15. HeldInv'
  <2>1. Len(tempInput') <= N
    <3>1. CASE isBlock
      <4>1. Len(tempInput') = 0 BY <1>12, <3>1, EmptySeq
      <4> QED BY <1>4, <4>1
    <3>2. CASE ~isBlock BY <1>5, <1>12, <3>2
    <3> QED BY <3>1, <3>2
  <2> QED BY <1>1, <1>3, <1>11, <2>1, SameConfiguration DEF HeldInv
<1>16. BlockInv'
  <2>1. N \in 1..FramesPerTempBuffer BY <1>4
  <2>2. blockSizes' \subseteq blockSizes \cup {N} BY <1>6, <1>7
  <2> QED BY <1>1, <1>2, <2>1, <2>2, SameConfiguration DEF BlockInv
<1>17. InputInv'
  <2>1. CASE calls
    <3>1. (tempInput \o InputFrames)' = InputFrames'
      BY <1>5, <1>12, <2>1, ConcatEmptySeq
    <3>2. heard' = heard \o filled BY <1>6, <2>1
    <3>3. callbackResult = "paContinue" BY <2>1
    <3> HIDE DEF calls
    <3> QED BY <1>1, <1>2, <1>5, <3>1, <3>2, <3>3, InputOn
  <2>2. CASE ~calls
    <3>1. <<>> \in Seq(Nat) /\ heard' = heard \o <<>>
      BY <1>2, <1>7, <2>2, EmptySeq, ConcatEmptySeq DEF TypeInv
    <3> DEFINE left == tempInput \o InputFrames
    <3>2. left \in Seq(Nat) /\ <<>> \o left = left
      <4>1. tempInput \in Seq(Nat) /\ InputFrames \in Seq(Nat)
        BY <1>2, PartsOfInput DEF TypeInv
      <4>2. left \in Seq(Nat) BY <4>1, ConcatProperties
      <4> QED BY <4>2, ConcatEmptySeq
    <3>3. callbackResult' = callbackResult BY <1>7, <2>2
    <3>4. callbackResult' = "paContinue" => left = (tempInput \o InputFrames)'
      <4>1. callbackResult' = "paContinue" => tempInput' = filled BY <1>12, <2>2, <3>3
      <4> QED BY <1>5, <4>1
    <3> HIDE DEF left, calls
    <3>5. callbackResult = "paContinue" => <<>> \o left = tempInput \o InputFrames
      BY <3>2 DEF left
    <3> QED BY <1>1, <1>2, <1>5, <3>1, <3>2, <3>3, <3>4, <3>5, InputOn
  <2> QED BY <2>1, <2>2
<1>18. OutputInv'
  <2>1. CASE ~ended
    <3>1. PICK put \in Seq(Nat) : played' = played \o put /\ put \o tempOutput' = frames
      BY <1>9, <2>1
    <3>2. CASE calls
      <4>1. /\ new \in Seq(Nat) /\ generated' = generated \o new
            /\ callbackResult = "paContinue"
        BY <1>6, <3>2
      <4>2. put \o tempOutput' = tempOutput \o new BY <3>1, <3>2, <4>1, ConcatEmptySeq
      <4> HIDE DEF calls, frames
      <4> QED BY <1>1, <1>2, <1>11, <3>1, <4>1, <4>2, OutputOn
    <3>3. CASE ~calls
      <4>1. <<>> \in Seq(Nat) /\ generated' = generated \o <<>>
        BY <1>2, <1>7, <3>3, EmptySeq, ConcatEmptySeq DEF TypeInv
      <4>2. put \o tempOutput' = tempOutput \o <<>> BY <1>2, <3>1, <3>3, ConcatEmptySeq
      <4>3. callbackResult' = callbackResult BY <1>7, <3>3
      <4> HIDE DEF calls, frames
      <4> QED BY <1>1, <1>2, <1>11, <3>1, <4>1, <4>2, <4>3, OutputOn
    <3> QED BY <3>2, <3>3
  <2>2. CASE ended
    <3>1. /\ played' = played \o Zeros(OutputRoom) /\ tempOutput' = <<>>
          /\ tempOutput = <<>>
      BY <1>10, <2>2
    <3>2. generated' = generated /\ callbackResult' # "paContinue" BY <1>7, <2>2
    <3>3. OutputRoom \in Nat BY <1>2, PartsOfOutput
    <3> HIDE DEF ended, calls
    <3> QED BY <1>1, <1>2, <3>1, <3>2, <3>3, ZerosOn
  <2> QED BY <2>1, <2>2
<1> QED BY <1>13, <1>14, <1>15, <1>16, <1>17, <1>18 DEF IInv

-----------------------------------------------------------------------------
(* The invariant implies the property.                                     *)

LEMMA StepHolds ==
  ASSUME ProcessorAssumption, IInv, [Next]_vars
  PROVE  IInv'
<1>1. CASE UNCHANGED vars
  <2>1. /\ bp' = bp /\ tempInput' = tempInput /\ tempOutput' = tempOutput
        /\ hostInput' = hostInput /\ hostOutput' = hostOutput /\ noInput' = noInput
        /\ supplied' = supplied /\ callbackResult' = callbackResult /\ pc' = pc
        /\ heard' = heard /\ generated' = generated /\ played' = played
        /\ blockSizes' = blockSizes
    BY <1>1 DEF vars, held, hostBuffers, history
  <2>2. InputFrames' = InputFrames /\ OutputRoom' = OutputRoom
    BY <2>1 DEF InputFrames, OutputRoom
  <2>3. Arrived' = Arrived /\ Expected' = Expected
    BY <2>1, SameConfiguration DEF Arrived, Expected, Zeros
  <2>4. TypeInv' BY <2>1 DEF IInv, TypeInv
  <2>5. PhaseInv' BY <2>1, <2>2, SameConfiguration DEF IInv, PhaseInv
  <2>6. HeldInv' BY <2>1, SameConfiguration DEF IInv, HeldInv
  <2>7. BlockInv' BY <2>1, SameConfiguration DEF IInv, BlockInv
  <2>8. InputInv' BY <2>1, <2>2, <2>3, SameConfiguration DEF IInv, InputInv
  <2>9. OutputInv' BY <2>1, <2>3, SameConfiguration DEF IInv, OutputInv, Zeros
  <2> QED BY <2>4, <2>5, <2>6, <2>7, <2>8, <2>9 DEF IInv
<1>2. CASE \E n \in HostBufferSizes : \E input, output \in Parts(n) :
             BeginBufferProcessing(n, input, output)
  BY <1>2, BeginBufferProcessingHolds
<1>3. CASE \E n \in HostBufferSizes : PrimeOutput(n) BY <1>3, PrimeOutputHolds
<1>4. CASE EndBufferProcessing
  BY <1>4, NonAdaptingCallHolds, AdaptingInputHolds, AdaptingOutputHolds, AdaptingHolds,
     NonAdaptingZeroHolds, BeginAdaptingHolds, EndHolds
     DEF EndBufferProcessing
<1>5. CASE ResetBufferProcessor BY <1>5, ResetBufferProcessorHolds
<1> QED BY <1>1, <1>2, <1>3, <1>4, <1>5 DEF Next

LEMMA TypesAreOK ==
  ASSUME ProcessorAssumption, IInv
  PROVE  TypeOK
<1>1. TypeInv /\ HeldInv /\ BlockInv /\ bp \in Configurations BY DEF IInv, TypeInv
<1>2. /\ N \in Nat /\ FramesPerTempBuffer \in Nat \ {0}
      /\ ~UseNonAdaptingProcess => FramesPerTempBuffer = N
  BY <1>1, Parameters
<1>3. \A frames \in {tempInput, tempOutput} :
        frames \in Seq(Nat) /\ Len(frames) <= FramesPerTempBuffer
  <2>1. tempInput \in Seq(Nat) /\ tempOutput \in Seq(Nat) BY <1>1 DEF TypeInv
  <2>2. CASE UseNonAdaptingProcess
    <3>1. Len(tempInput) = 0 /\ Len(tempOutput) = 0 BY <1>1, <2>2, EmptySeq DEF HeldInv
    <3>2. 0 <= FramesPerTempBuffer BY <1>2
    <3>3. \A frames \in {tempInput, tempOutput} : Len(frames) = 0 BY <3>1
    <3> QED BY <2>1, <3>2, <3>3
  <2>3. CASE ~UseNonAdaptingProcess BY <1>1, <1>2, <2>1, <2>3 DEF HeldInv
  <2> QED BY <2>2, <2>3
<1>4. hostInput \in Seq(Seq(Nat)) /\ Len(hostInput) = 2
  <2>1. PICK a \in Seq(Nat), b \in Seq(Nat) : hostInput = <<a, b>> BY <1>1 DEF TypeInv
  <2> QED BY <2>1
<1>5. hostOutput \in Seq(Nat) /\ Len(hostOutput) = 2
  <2>1. PICK m \in Nat, n \in Nat : hostOutput = <<m, n>> BY <1>1 DEF TypeInv
  <2> QED BY <2>1
<1>6. {heard, generated, played} \subseteq Seq(Nat) BY <1>1 DEF TypeInv
<1>7. blockSizes \subseteq 1..FramesPerTempBuffer BY <1>1 DEF BlockInv
<1> QED BY <1>1, <1>3, <1>4, <1>5, <1>6, <1>7 DEF TypeOK, TypeInv

LEMMA OutputHasNoGap ==
  ASSUME ProcessorAssumption, IInv
  PROVE  OutputIsGapless
<1> SUFFICES ASSUME IsOutput
             PROVE  IF Len(played) <= Len(Expected)
                      THEN played \o tempOutput = Expected
                      ELSE /\ played = Expected \o Zeros(Len(played) - Len(Expected))
                           /\ tempOutput = <<>> /\ callbackResult # "paContinue"
  BY DEF OutputIsGapless, Expected
<1>1. /\ TypeInv /\ OutputInv
      /\ played \in Seq(Nat) /\ tempOutput \in Seq(Nat) /\ Expected \in Seq(Nat)
  BY ExpectedIs DEF IInv, TypeInv
<1> DEFINE p == Len(played)
           t == Len(tempOutput)
           e == Len(Expected)
<1>2. p \in Nat /\ t \in Nat /\ e \in Nat BY <1>1, LenProperties
<1>3. CASE played \o tempOutput = Expected
  <2>1. e = p + t BY <1>1, <1>3, ConcatProperties
  <2> HIDE DEF p, t, e
  <2>2. p <= e BY <1>2, <2>1
  <2> QED BY <1>3, <2>2 DEF p, e
<1>4. ASSUME tempOutput = <<>>, callbackResult # "paContinue",
             NEW k \in Nat, played = Expected \o Zeros(k)
      PROVE  IF p <= e THEN played \o tempOutput = Expected
             ELSE /\ played = Expected \o Zeros(p - e)
                  /\ tempOutput = <<>> /\ callbackResult # "paContinue"
  <2>1. Zeros(k) \in Seq(Nat) /\ Len(Zeros(k)) = k /\ (k = 0 => Zeros(k) = <<>>)
    BY ZerosAre
  <2>2. p = e + k
    <3>1. Len(Expected \o Zeros(k)) = Len(Expected) + Len(Zeros(k))
      BY <1>1, <2>1, ConcatProperties, ZenonT(30)
    <3> QED BY <1>4, <2>1, <3>1
  <2> HIDE DEF p, t, e
  <2>3. (p <= e => k = 0) /\ p - e = k BY <1>2, <2>2
  <2>4. CASE p <= e
    <3>1. Zeros(k) = <<>> BY <2>1, <2>3, <2>4
    <3>2. played = Expected BY <1>1, <1>4, <3>1, ConcatEmptySeq
    <3>3. played \o tempOutput = Expected BY <1>1, <1>4, <3>2, ConcatEmptySeq
    <3> QED BY <2>4, <3>3
  <2>5. CASE ~(p <= e) BY <1>4, <2>3, <2>5
  <2> QED BY <2>4, <2>5
<1> QED BY <1>1, <1>3, <1>4 DEF OutputInv

LEMMA InputHasNoGap ==
  ASSUME ProcessorAssumption, IInv
  PROVE  InputIsGapless
<1> SUFFICES ASSUME IsInput
             PROVE  /\ IsPrefix(heard, Arrived)
                    /\ callbackResult = "paContinue" =>
                         heard \o tempInput \o InputFrames = Arrived
  BY DEF InputIsGapless, Arrived
<1>1. TypeInv /\ InputInv BY DEF IInv
<1>2. heard \in Seq(Nat) /\ tempInput \in Seq(Nat) /\ InputFrames \in Seq(Nat)
  BY <1>1, PartsOfInput DEF TypeInv
<1>3. PICK rest \in Seq(Nat) :
        /\ Arrived = heard \o rest
        /\ callbackResult = "paContinue" => rest = tempInput \o InputFrames
  BY <1>1 DEF InputInv
<1>4. IsPrefix(heard, Arrived)
  <2>1. Arrived \in Seq(Nat) /\ Len(Arrived) = Len(heard) + Len(rest)
        /\ Len(heard) \in Nat /\ Len(rest) \in Nat
    BY <1>2, <1>3, ConcatProperties, LenProperties
  <2>2. Len(heard) <= Len(Arrived)
    <3> DEFINE h == Len(heard)
               r == Len(rest)
               a == Len(Arrived)
    <3>1. a = h + r /\ h \in Nat /\ r \in Nat BY <2>1
    <3> HIDE DEF h, r, a
    <3>2. h <= a BY <3>1
    <3> QED BY <3>2 DEF h, a
  <2>3. \A i \in 1..Len(heard) : Arrived[i] = heard[i]
    <3> SUFFICES ASSUME NEW i \in 1..Len(heard) PROVE Arrived[i] = heard[i] OBVIOUS
    <3>1. i \in 1..Len(heard) + Len(rest) /\ i <= Len(heard) BY <2>1
    <3> QED BY <1>2, <1>3, <3>1, ConcatProperties
  <2> QED BY <1>2, <2>1, <2>2, <2>3 DEF IsPrefix
<1>5. callbackResult = "paContinue" => heard \o tempInput \o InputFrames = Arrived
  <2>1. (heard \o tempInput) \o InputFrames = heard \o (tempInput \o InputFrames)
    BY <1>2, Associative, SMTT(30)
  <2> QED BY <1>3, <2>1
<1> QED BY <1>4, <1>5

\* The invariant holds for host buffers and blocks of any size.
THEOREM Invariant == Spec => []IInv
<1>1. ProcessorAssumption => (Init => IInv) BY InitHolds
<1>2. ProcessorAssumption => (IInv /\ [Next]_vars => IInv') BY StepHolds
<1> QED BY <1>1, <1>2, ProcessorAssumption, PTL DEF Spec

\* Whatever the sizes of host buffers and blocks, fixed or varying, in one
\* direction or both, and wherever the callback completes or aborts: the
\* callback hears every frame the host supplied and the host gets every frame
\* the callback generated, once, in order and after the reported latency, in
\* whole blocks, and the temporary buffers are large enough.
THEOREM Gapless == Spec => []StreamsAreGapless
<1>1. ProcessorAssumption /\ IInv => StreamsAreGapless
  BY TypesAreOK, OutputHasNoGap, InputHasNoGap
     DEF StreamsAreGapless, WholeBlocks, IInv, BlockInv, N
<1> QED BY <1>1, Invariant, ProcessorAssumption, PTL

-----------------------------------------------------------------------------
(* The least latency.                                                      *)

\* A remainder may be taken of a remainder by a multiple.
LEMMA ModOfMod ==
  ASSUME NEW l \in Nat \ {0}, NEW n \in Nat \ {0}, l % n = 0, NEW a \in Nat
  PROVE  (a % l) % n = a % n
<1> DEFINE c == l \div n
           q == a \div l
           r == a % l
           p == r \div n
           s == r % n
<1>1. c \in Int /\ l = n * c BY DivMod
<1>2. q \in Int /\ r \in 0..l-1 /\ a = l * q + r BY DivMod
<1>3. p \in Int /\ s \in 0..n-1 /\ r = n * p + s
  <2>1. r \in Int BY <1>2
  <2> HIDE DEF r
  <2> QED BY <2>1, DivMod
<1> HIDE DEF c, q, r, p, s
<1>4. l * q = n * (c * q)
  <2>1. (n * c) * q = n * (c * q) BY <1>1, <1>2, SMT
  <2> QED BY <1>1, <2>1
<1>5. c * q \in Int BY <1>1, <1>2, SMT
<1>6. c * q + p \in Int /\ a = n * (c * q + p) + s
  <2>1. n * (c * q + p) = n * (c * q) + n * p BY <1>3, <1>5, SMT
  <2> QED BY <1>2, <1>3, <1>4, <1>5, <2>1
<1>7. (n * (c * q + p) + s) % n = s BY <1>3, <1>6, ModUnique
<1> QED BY <1>6, <1>7 DEF r, s

\* What a multiple lacks to a larger one leaves the complementary remainder.
LEMMA ModOfComplement ==
  ASSUME NEW l \in Nat \ {0}, NEW n \in Nat \ {0}, l % n = 0, NEW a \in 0..l
  PROVE  (l - a) % n = IF a % n = 0 THEN 0 ELSE n - (a % n)
<1> DEFINE c == l \div n
           q == a \div n
           r == a % n
<1>1. c \in Int /\ l = n * c BY DivMod
<1>2. q \in Int /\ r \in 0..n-1 /\ a = n * q + r BY DivMod
<1> HIDE DEF c, q, r
<1>3. CASE r = 0
  <2>1. n * (c - q) = n * c - n * q /\ c - q \in Int BY <1>1, <1>2, SMT
  <2>2. l - a = n * (c - q) + 0 BY <1>1, <1>2, <1>3, <2>1
  <2>3. (n * (c - q) + 0) % n = 0 BY <2>1, ModUnique
  <2> QED BY <1>3, <2>2, <2>3 DEF r
<1>4. CASE r # 0
  <2>1. n * (c - q - 1) = n * c - n * q - n /\ c - q - 1 \in Int BY <1>1, <1>2, SMT
  <2>2. l - a = n * (c - q - 1) + (n - r) /\ n - r \in 0..n-1
    BY <1>1, <1>2, <1>4, <2>1
  <2>3. (n * (c - q - 1) + (n - r)) % n = n - r BY <2>1, <2>2, ModUnique
  <2> QED BY <1>4, <2>2, <2>3 DEF r
<1> QED BY <1>3, <1>4

\* The frame shift is the largest remainder that host buffers leave, and one
\* before the least common multiple leaves it.
LEMMA ShiftIsGreatest ==
  ASSUME NEW m \in Nat \ {0}, NEW n \in Nat \ {0}
  PROVE  /\ CalculateFrameShift(m, n) \in 0..n-1
         /\ \A k \in Nat : (m * k) % n <= CalculateFrameShift(m, n)
         /\ CalculateFrameShift(m, n) # 0 =>
              \E j \in Nat : /\ 0 < j /\ j < n /\ m * j < LCM(m, n)
                             /\ (m * j) % n = CalculateFrameShift(m, n)
<1> DEFINE L == LCM(m, n)
           F == CalculateFrameShift(m, n)
           K == {i \in 1..LCM(m, n)-1 : i % m = 0}
           S == {0} \cup {k % n : k \in K}
<1>1. L \in Nat \ {0} /\ L <= m * n /\ L % m = 0 /\ L % n = 0 BY CommonMultiple
<1>2. \A k \in K : k \in Nat \ {0} /\ k < L /\ k % m = 0 /\ k % n \in 0..n-1
  <2> SUFFICES ASSUME NEW k \in K
               PROVE  k \in Nat \ {0} /\ k < L /\ k % m = 0 /\ k % n \in 0..n-1
    OBVIOUS
  <2>1. k \in Nat \ {0} /\ k < L /\ k % m = 0 BY <1>1
  <2> QED BY <2>1, DivMod
<1>3. F = Max(S) BY DEF CalculateFrameShift
<1> HIDE DEF L, F
<1>4. S \in SUBSET Nat /\ S # {} /\ n - 1 \in Nat /\ \A x \in S : x <= n - 1
  <2> HIDE DEF K
  <2> QED BY <1>2
<1>5. F \in S /\ \A x \in S : x <= F
  <2> HIDE DEF S
  <2> QED BY <1>3, <1>4, LargestExists
<1>6. F \in 0..n-1
  <2> HIDE DEF S
  <2> QED BY <1>4, <1>5
<1>7. ASSUME NEW k \in Nat PROVE (m * k) % n <= F
  <2> DEFINE a == m * k
             i == (m * k) % L
  <2>1. a \in Nat BY SMT
  <2>2. i \in 0..L-1 /\ i % n = a % n
    <3> HIDE DEF a
    <3>1. a % L \in 0..L-1 BY <1>1, <2>1, DivMod
    <3> QED BY <1>1, <2>1, <3>1, ModOfMod DEF a
  <2>3. i % m = 0
    <3>1. (m * k + 0) % m = 0 BY ModUnique
    <3>2. a % m = 0 BY <2>1, <3>1
    <3> HIDE DEF a
    <3> QED BY <1>1, <2>1, <3>2, ModOfMod DEF a
  <2> HIDE DEF i
  <2>4. CASE i = 0
    <3>1. 0 % n = 0
      <4>1. (n * 0 + 0) % n = 0 BY ModUnique
      <4> QED BY <4>1
    <3> QED BY <1>6, <2>2, <2>4, <3>1
  <2>5. CASE i # 0
    <3>1. i \in K BY <1>1, <2>2, <2>3, <2>5 DEF L
    <3>2. i % n \in S BY <3>1
    <3> QED BY <1>5, <2>2, <3>2
  <2> QED BY <2>4, <2>5
<1>8. ASSUME F # 0
      PROVE  \E j \in Nat : 0 < j /\ j < n /\ m * j < L /\ (m * j) % n = F
  <2>1. PICK i \in K : F = i % n BY <1>5, <1>8
  <2>2. i \in Nat \ {0} /\ i < L /\ i % m = 0 BY <1>2
  <2>3. i \div m \in 1..i /\ i = m * (i \div m)
    <3>1. Divides(m, i) BY <2>2, DividesMod
    <3> QED BY <2>2, <3>1, DivisorBounds
  <2> DEFINE j == i \div m
  <2> HIDE DEF j
  <2>4. j \in Nat /\ 0 < j /\ i = m * j BY <2>2, <2>3 DEF j
  <2>5. j < n
    <3> SUFFICES ASSUME j >= n PROVE FALSE BY <2>4
    <3>1. m * j >= m * n BY <2>4, SMT
    <3> QED BY <1>1, <2>2, <2>4, <3>1
  <2> QED BY <2>1, <2>2, <2>4, <2>5
<1> QED BY <1>6, <1>7, <1>8 DEF L, F

\* Frames heard of k host buffers of m frames, with s held back at first, in
\* whole blocks of n frames.
InBlocks(s, k, m, n) == ((s + k * m) \div n) * n

\* The blocks lack what the remainder is.
LEMMA BlocksAre ==
  ASSUME NEW s \in Nat, NEW k \in Nat, NEW m \in Nat \ {0}, NEW n \in Nat \ {0},
         s < n
  PROVE  LET r == (m * k) % n
         IN  /\ r \in 0..n-1
             /\ InBlocks(s, k, m, n) = IF s + r < n THEN k * m - r ELSE k * m - r + n
<1> DEFINE r == (m * k) % n
           q == (m * k) \div n
<1>1. m * k \in Nat /\ k * m = m * k BY SMT
<1>2. q \in Int /\ r \in 0..n-1 /\ m * k = n * q + r
  <2> DEFINE a == m * k
  <2>1. a \in Int BY <1>1
  <2> HIDE DEF a
  <2>2. a \div n \in Int /\ a % n \in 0..n-1 /\ a = n * (a \div n) + (a % n) BY <2>1, DivMod
  <2> QED BY <2>2 DEF a
<1> DEFINE t == s + k * m
           p == t \div n
<1>3. t \in Nat /\ t = n * q + (s + r)
  <2> HIDE DEF q, r
  <2> QED BY <1>1, <1>2
<1>4. p \in Int /\ t % n \in 0..n-1 /\ t = n * p + (t % n)
  <2>1. t \in Int BY <1>3
  <2> HIDE DEF t
  <2> QED BY <2>1, DivMod
<1>5. InBlocks(s, k, m, n) = p * n BY DEF InBlocks
<1> DEFINE u == t % n
<1> HIDE DEF q, r, t, p, u
<1>5a. u \in 0..n-1 /\ t = n * p + u BY <1>4 DEF u
<1>6. p * n = n * p /\ n * p \in Int /\ n * q \in Int BY <1>2, <1>4, SMT
<1>7. CASE s + r < n
  <2>1. p = q
    <3>1. s + r \in 0..n-1 BY <1>2, <1>7
    <3>2. n * (p - q) = (s + r) - u BY <1>2, <1>3, <1>4, <1>5a, SMT
    <3>3. p - q < 1 /\ p - q > -1
      <4>1. p - q >= 1 => n * (p - q) >= n BY <1>2, <1>4, SMT
      <4>2. p - q <= -1 => n * (p - q) <= -n BY <1>2, <1>4, SMT
      <4> QED BY <1>2, <1>4, <1>5a, <3>1, <3>2, <4>1, <4>2
    <3> QED BY <1>2, <1>4, <3>3
  <2> QED BY <1>1, <1>2, <1>5, <1>6, <1>7, <2>1 DEF r
<1>8. CASE ~(s + r < n)
  <2>1. p = q + 1
    <3>1. s + r - n \in 0..n-1 BY <1>2, <1>8
    <3>2. n * (p - q - 1) = (s + r - n) - u BY <1>2, <1>3, <1>4, <1>5a, SMT
    <3>3. p - q - 1 < 1 /\ p - q - 1 > -1
      <4>1. p - q - 1 >= 1 => n * (p - q - 1) >= n BY <1>2, <1>4, SMT
      <4>2. p - q - 1 <= -1 => n * (p - q - 1) <= -n BY <1>2, <1>4, SMT
      <4> QED BY <1>2, <1>4, <1>5a, <3>1, <3>2, <4>1, <4>2
    <3> QED BY <1>2, <1>4, <3>3
  <2>2. n * p = n * q + n BY <1>2, <1>4, <2>1, SMT
  <2> QED BY <1>1, <1>2, <1>5, <1>6, <1>8, <2>2 DEF r
<1> QED BY <1>2, <1>7, <1>8 DEF r

\* After k host buffers the blocks have produced enough, with a latency.
Produced(shift, k, m, n) ==
  LET heldIn == IF n > m THEN shift ELSE 0
  IN  (shift - heldIn) + InBlocks(heldIn, k, m, n) >= k * m

\* The frame shift is enough, and less is not.
LEMMA ShiftIsLeast ==
  ASSUME NEW m \in Nat \ {0}, NEW n \in Nat \ {0}
  PROVE  LET F == CalculateFrameShift(m, n)
         IN  /\ \A k \in 1..n : Produced(F, k, m, n)
             /\ \A shift \in 0..F-1 : \E k \in 1..n : ~Produced(shift, k, m, n)
<1> DEFINE F == CalculateFrameShift(m, n)
           r(k) == (m * k) % n
<1>1. /\ F \in 0..n-1 /\ \A k \in Nat : r(k) <= F
      /\ F # 0 => \E j \in Nat : 0 < j /\ j < n /\ r(j) = F
  BY ShiftIsGreatest
<1>2. \A k \in Nat : k * m \in Nat /\ r(k) \in 0..n-1 BY BlocksAre, SMT
<1>3. ASSUME NEW s \in 0..n-1, NEW k \in Nat
      PROVE  Produced(s, k, m, n) <=> IF n > m THEN r(k) = 0 \/ s + r(k) >= n ELSE s >= r(k)
  <2>1. InBlocks(s, k, m, n) = IF s + r(k) < n THEN k * m - r(k) ELSE k * m - r(k) + n
    BY BlocksAre
  <2>2. InBlocks(0, k, m, n) = k * m - r(k)
    <3>1. InBlocks(0, k, m, n) = IF 0 + r(k) < n THEN k * m - r(k) ELSE k * m - r(k) + n
      BY BlocksAre
    <3> HIDE DEF r
    <3> QED BY <1>2, <3>1
  <2>3. k * m \in Nat /\ r(k) \in 0..n-1 BY <1>2
  <2> DEFINE a == k * m
             b == r(k)
             x == InBlocks(s, k, m, n)
             y == InBlocks(0, k, m, n)
  <2>4. /\ x = IF s + b < n THEN a - b ELSE a - b + n
        /\ y = a - b /\ a \in Nat /\ b \in 0..n-1
    BY <2>1, <2>2, <2>3
  <2>5. Produced(s, k, m, n) <=> IF n > m THEN (s - s) + x >= a ELSE (s - 0) + y >= a
    BY DEF Produced
  <2> HIDE DEF a, b, x, y
  <2>6. Produced(s, k, m, n) <=> IF n > m THEN b = 0 \/ s + b >= n ELSE s >= b
    BY <2>4, <2>5
  <2> QED BY <2>6 DEF b
<1>4. ASSUME NEW k \in Nat, NEW i \in Nat, i + k = n * k \/ i + k = n
      PROVE  r(i) = IF r(k) = 0 THEN 0 ELSE n - r(k)
  <2> SUFFICES ASSUME k # 0 \/ i # 0 PROVE r(i) = IF r(k) = 0 THEN 0 ELSE n - r(k)
    <3>1. m * 0 = 0 BY SMT
    <3>2. 0 % n = 0
      <4>1. (n * 0 + 0) % n = 0 BY ModUnique
      <4> QED BY <4>1
    <3> QED BY <3>1, <3>2
  <2> DEFINE l == m * (i + k)
  <2>1. l = m * i + m * k /\ m * i \in Nat /\ m * k \in Nat BY SMT
  <2>2. l % n = 0
    <3>1. ASSUME NEW c \in Nat, i + k = n * c PROVE l % n = 0
      <4>1. m * (n * c) = n * (m * c) /\ m * c \in Nat BY SMT
      <4>2. (n * (m * c) + 0) % n = 0 BY <4>1, ModUnique
      <4>3. n * (m * c) + 0 = n * (m * c) BY <4>1, SMT
      <4> QED BY <3>1, <4>1, <4>2, <4>3
    <3>2. n * 1 = n OBVIOUS
    <3> QED BY <1>4, <3>1, <3>2
  <2>3. l # 0
    <3>1. i + k \in Nat \ {0} OBVIOUS
    <3> QED BY <3>1, SMT
  <2> DEFINE a == m * k
  <2>4. l \in Nat \ {0} /\ a \in 0..l /\ l - a = m * i BY <2>1, <2>3
  <2> HIDE DEF l, a
  <2>5. (l - a) % n = IF a % n = 0 THEN 0 ELSE n - (a % n) BY <2>2, <2>4, ModOfComplement
  <2> QED BY <2>4, <2>5 DEF a
<1> HIDE DEF r, F
<1>5. ASSUME NEW k \in 1..n PROVE Produced(F, k, m, n)
  <2>1. k \in Nat OBVIOUS
  <2>2. CASE n > m /\ r(k) # 0
    <3> DEFINE i == n * k - k
    <3>1. i \in Nat /\ i + k = n * k
      <4>1. n * k >= k BY <2>1, SMT
      <4>2. n * k \in Nat BY <2>1, SMT
      <4> QED BY <2>1, <4>1, <4>2
    <3> HIDE DEF i
    <3>2. r(i) = n - r(k) BY <1>4, <2>1, <2>2, <3>1
    <3>3. r(i) <= F BY <1>1, <3>1
    <3>4. F + r(k) >= n BY <1>1, <1>2, <2>1, <3>2, <3>3
    <3> QED BY <1>1, <1>3, <2>1, <2>2, <3>4
  <2>3. CASE n > m /\ r(k) = 0 BY <1>1, <1>3, <2>1, <2>3
  <2>4. CASE ~(n > m)
    <3>1. F >= r(k) BY <1>1, <1>2, <2>1
    <3> QED BY <1>1, <1>3, <2>1, <2>4, <3>1
  <2> QED BY <2>2, <2>3, <2>4
<1>6. ASSUME NEW s \in 0..F-1 PROVE \E k \in 1..n : ~Produced(s, k, m, n)
  <2>1. s \in 0..n-1 /\ F # 0 BY <1>1
  <2>2. PICK j \in Nat : 0 < j /\ j < n /\ r(j) = F BY <1>1, <2>1
  <2>3. CASE n > m
    <3> DEFINE k == n - j
    <3>1. k \in 1..n /\ k \in Nat /\ k + j = n BY <2>2
    <3> HIDE DEF k
    <3>2. r(k) = n - F BY <1>4, <2>1, <2>2, <3>1
    <3>3. r(k) # 0 /\ ~(s + r(k) >= n) BY <1>1, <3>2
    <3> QED BY <1>3, <2>1, <2>3, <3>1, <3>3
  <2>4. CASE ~(n > m)
    <3>1. j \in 1..n /\ ~(s >= r(j)) BY <1>1, <2>2
    <3> QED BY <1>3, <2>1, <2>2, <2>4, <3>1
  <2> QED BY <2>3, <2>4
<1> QED BY <1>5, <1>6 DEF F

LEMMA LeastLatency ==
  ASSUME ProcessorAssumption, bp \in Configurations
  PROVE  LatencyIsLeast
<1> DEFINE m == bp.framesPerHostBuffer
           latency == InitialFramesInTempInputBuffer + InitialFramesInTempOutputBuffer
<1> SUFFICES ASSUME IsFullDuplex, ~UseNonAdaptingProcess, bp.hostBufferSizeMode = "fixed"
             PROVE  NeverDry(latency) /\ \A shift \in 0..latency-1 : ~NeverDry(shift)
  BY DEF LatencyIsLeast
<1>1. m \in Nat \ {0} /\ N \in Nat \ {0} BY Parameters
<1>2. FrameShift \in 0..N-1 /\ FrameShift = CalculateFrameShift(m, N)
  BY <1>1, FrameShiftFits DEF FrameShift, N
<1>3. latency = FrameShift
  BY <1>2 DEF InitialFramesInTempInputBuffer, InitialFramesInTempOutputBuffer, N
<1>4. \A shift : NeverDry(shift) <=> \A k \in 1..N : Produced(shift, k, m, N)
  BY DEF NeverDry, Produced, InBlocks, N
<1> HIDE DEF m, latency
<1> QED BY <1>1, <1>2, <1>3, <1>4, ShiftIsLeast

-----------------------------------------------------------------------------
(* Input and output stay in step.                                          *)

Latency == InitialFramesInTempInputBuffer + InitialFramesInTempOutputBuffer

Adapts == IsFullDuplex /\ ~UseNonAdaptingProcess

\* Where host buffers are adapted in both directions, the frames on their way
\* are the latency and the room there is for output, and input that is held back
\* and less than a block comes from whole blocks and whole host buffers.
BalanceInv ==
  Adapts =>
    /\ bp.hostBufferSizeMode = "fixed" => supplied % bp.framesPerHostBuffer = 0
    /\ callbackResult = "paContinue" =>
         /\ Len(heard) % N = 0
         /\ Len(tempInput) + Len(tempOutput) + Len(InputFrames)
              = Latency + (IF pc = "idle" THEN 0 ELSE OutputRoom)

\* Output is held back only when there is no room for it, and when no input is
\* left, only a callback that aborted leaves room that nothing fills.
RoomInv ==
  /\ ~IsOutput => OutputRoom = 0
  /\ Adapts =>
       /\ pc = "beginAdapting" => InputFrames # <<>>
       /\ pc = "adapting" =>
            /\ tempOutput = <<>> \/ OutputRoom = 0
            /\ InputFrames = <<>> =>
                 /\ callbackResult = "paComplete" => OutputRoom = 0
                 /\ callbackResult = "paContinue" /\ tempOutput = <<>> =>
                      Len(tempInput) < N

SInv == BalanceInv /\ RoomInv

LEMMA SameAdapts ==
  ASSUME bp' = bp
  PROVE  Latency' = Latency /\ (Adapts' <=> Adapts)
  BY SameConfiguration DEF Latency, Adapts

\* Outside the process that adapts in both directions only room matters.
LEMMA StepElsewhere ==
  ASSUME SInv, bp' = bp, ~Adapts, ~IsOutput => hostOutput' = hostOutput
  PROVE  SInv'
<1>1. ~Adapts' /\ IsOutput' = IsOutput BY SameAdapts, SameConfiguration
<1>2. ~IsOutput => OutputRoom' = OutputRoom BY DEF OutputRoom
<1> QED BY <1>1, <1>2 DEF SInv, BalanceInv, RoomInv

LEMMA LatencyIs ==
  ASSUME ProcessorAssumption, bp \in Configurations
  PROVE  /\ Latency \in Nat
         /\ Adapts => N \in Nat \ {0}
         /\ Adapts /\ bp.hostBufferSizeMode # "fixed" =>
              Latency = N /\ InitialFramesInTempInputBuffer = 0
         /\ Adapts /\ bp.hostBufferSizeMode = "fixed" =>
              /\ Latency = CalculateFrameShift(bp.framesPerHostBuffer, N)
              /\ InitialFramesInTempInputBuffer \in {0, Latency}
<1>1. /\ N \in Nat /\ bp.framesPerHostBuffer \in Nat \ {0}
      /\ ~UseNonAdaptingProcess => N # 0
  BY Parameters
<1>2. InitialFramesInTempInputBuffer \in Nat /\ InitialFramesInTempOutputBuffer \in Nat
  BY InitialFrames
<1>3. N # 0 => FrameShift \in 0..N-1
  BY <1>1, FrameShiftFits DEF FrameShift, N
<1>4. FrameShift = CalculateFrameShift(bp.framesPerHostBuffer, N) BY DEF FrameShift, N
<1>5. N # 0 => FrameShift \in Nat BY <1>3, <1>1
<1> QED BY <1>1, <1>2, <1>4, <1>5
        DEF Latency, Adapts, InitialFramesInTempInputBuffer,
            InitialFramesInTempOutputBuffer, N

LEMMA ZeroMod ==
  ASSUME NEW m \in Nat \ {0}
  PROVE  0 % m = 0
<1>1. (m * 0 + 0) % m = 0 BY ModUnique
<1> QED BY <1>1

\* The sum of a multiple and a remainder leaves the remainder.
LEMMA SumOfMultiples ==
  ASSUME NEW m \in Nat \ {0}, NEW a \in Nat, a % m = 0, NEW b \in Nat
  PROVE  (a + b) % m = b % m
<1>1. a \in Int /\ b \in Int /\ 0 + b = b OBVIOUS
<1>2. ((a % m) + b) % m = (a + b) % m BY <1>1, ModSum
<1> QED BY <1>1, <1>2

\* With only the latency held back, nothing heard and no input left, the two are
\* in balance.
LEMMA StartedInStep ==
  ASSUME ProcessorAssumption, TypeInv, supplied = 0, heard = <<>>, pc = "idle",
         tempInput = Zeros(InitialFramesInTempInputBuffer),
         tempOutput = Zeros(InitialFramesInTempOutputBuffer),
         InputFrames = <<>>, ~IsOutput => OutputRoom = 0
  PROVE  SInv
<1> DEFINE i == InitialFramesInTempInputBuffer
           o == InitialFramesInTempOutputBuffer
<1>1. bp \in Configurations BY DEF TypeInv
<1>2. i \in Nat /\ o \in Nat /\ Latency = i + o BY <1>1, InitialFrames DEF Latency
<1>3. Len(tempInput) = i /\ Len(tempOutput) = o /\ Len(InputFrames) = 0
  BY <1>2, ZerosAre, EmptySeq
<1>4. (Adapts => N \in Nat \ {0}) /\ bp.framesPerHostBuffer \in Nat \ {0}
  BY <1>1, LatencyIs, Parameters
<1>5. Len(heard) = 0 BY EmptySeq
<1> HIDE DEF i, o
<1>6. BalanceInv BY <1>2, <1>3, <1>4, <1>5, ZeroMod DEF BalanceInv
<1> QED BY <1>6 DEF SInv, RoomInv

LEMMA InitInStep ==
  ASSUME ProcessorAssumption, Init
  PROVE  SInv
<1>1. /\ supplied = 0 /\ heard = <<>> /\ pc = "idle"
      /\ tempInput = Zeros(InitialFramesInTempInputBuffer)
      /\ tempOutput = Zeros(InitialFramesInTempOutputBuffer)
      /\ hostInput = <<<<>>, <<>>>> /\ hostOutput = <<0, 0>>
  BY DEF Init
<1>2. TypeInv BY InitHolds DEF IInv
<1>3. InputFrames = <<>>
  <2>1. <<>> \in Seq(Nat) BY EmptySeq
  <2> QED BY <1>1, <2>1, ConcatEmptySeq DEF InputFrames
<1>4. OutputRoom = 0 BY <1>1 DEF OutputRoom
<1> QED BY <1>1, <1>2, <1>3, <1>4, StartedInStep

LEMMA ResetInStep ==
  ASSUME ProcessorAssumption, IInv, SInv, ResetBufferProcessor
  PROVE  SInv'
<1>1. /\ pc = "idle" /\ pc' = pc /\ bp' = bp /\ hostInput' = hostInput
      /\ hostOutput' = hostOutput
      /\ tempInput' = Zeros(InitialFramesInTempInputBuffer)
      /\ tempOutput' = Zeros(InitialFramesInTempOutputBuffer)
      /\ supplied' = 0 /\ heard' = <<>>
  BY DEF ResetBufferProcessor
<1>2. TypeInv'
  <2>1. IInv' BY ResetBufferProcessorHolds
  <2> QED BY <2>1 DEF IInv
<1>3. InputFrames' = <<>> BY <1>1 DEF IInv, PhaseInv, InputFrames
<1>4. /\ tempInput' = Zeros(InitialFramesInTempInputBuffer)'
      /\ tempOutput' = Zeros(InitialFramesInTempOutputBuffer)'
  BY <1>1, SameConfiguration DEF Zeros
<1>5. ~IsOutput' => OutputRoom' = 0
  BY <1>1, SameConfiguration DEF SInv, RoomInv, OutputRoom
<1>6. (ProcessorAssumption /\ TypeInv /\ supplied = 0 /\ heard = <<>> /\ pc = "idle"
         /\ tempInput = Zeros(InitialFramesInTempInputBuffer)
         /\ tempOutput = Zeros(InitialFramesInTempOutputBuffer)
         /\ InputFrames = <<>> /\ (~IsOutput => OutputRoom = 0) => SInv)'
  BY StartedInStep, PTL
<1> QED BY <1>1, <1>2, <1>3, <1>4, <1>5, <1>6

\* A host buffer brings as many frames of input as it has room for output.
LEMMA BeginInStep ==
  ASSUME ProcessorAssumption, IInv, SInv, NEW n \in HostBufferSizes,
         NEW input \in Parts(n), NEW output \in Parts(n),
         BeginBufferProcessing(n, input, output)
  PROVE  SInv'
<1>1. /\ pc = "idle"
      /\ IsInput => /\ hostInput' = <<SubSeq(NextInput(n), 1, input[1]),
                                      SubSeq(NextInput(n), input[1] + 1, n)>>
                    /\ supplied' = supplied + n
      /\ hostOutput' = IF IsOutput THEN output ELSE hostOutput
      /\ Adapts => pc' = "beginAdapting"
      /\ bp' = bp /\ tempInput' = tempInput /\ tempOutput' = tempOutput
      /\ callbackResult' = callbackResult /\ heard' = heard
  BY DEF BeginBufferProcessing, held, history, Adapts
<1>2. TypeInv /\ PhaseInv /\ bp \in Configurations BY DEF IInv, TypeInv
<1>3. CASE ~Adapts BY <1>1, <1>3, StepElsewhere
<1>4. CASE Adapts
  <2>1. IsInput /\ IsOutput BY <1>4 DEF Adapts, IsFullDuplex
  <2>2. n \in Nat \ {0} BY <1>2, HostBuffers
  <2>3. PICK i \in 0..n : input = <<i, n - i>> BY <1>2, PartsOf
  <2>4. PICK o \in 0..n : output = <<o, n - o>> BY <1>2, PartsOf
  <2>5. InputFrames = <<>> /\ Len(InputFrames) = 0 BY <1>1, <1>2, EmptySeq DEF PhaseInv
  <2>6. supplied \in Nat BY <1>2 DEF TypeInv, ProcessorAssumption
  <2>7. Len(InputFrames') = n /\ InputFrames' # <<>>
    <3> DEFINE a == SubSeq(NextInput(n), 1, i)
               b == SubSeq(NextInput(n), i + 1, n)
    <3>1. NextInput(n) \in Seq(Nat) /\ Len(NextInput(n)) = n
      BY <1>1, <1>2, <2>1, <2>2, MoreArrived
    <3>2. a \o b = NextInput(n)
      <4>1. i \in 0..Len(NextInput(n)) BY <3>1
      <4> QED BY <3>1, <4>1, SplitAt
    <3>3. hostInput' = <<a, b>> BY <1>1, <2>1, <2>3
    <3> HIDE DEF a, b
    <3>4. InputFrames' = NextInput(n) BY <3>2, <3>3 DEF InputFrames
    <3> QED BY <2>2, <3>1, <3>4, EmptySeq
  <2>8. OutputRoom' = n BY <1>1, <2>1, <2>2, <2>4 DEF OutputRoom
  <2>9. BalanceInv'
    <3>1. bp.hostBufferSizeMode = "fixed" => supplied' % bp.framesPerHostBuffer = 0
      <4> SUFFICES ASSUME bp.hostBufferSizeMode = "fixed"
                   PROVE  supplied' % bp.framesPerHostBuffer = 0
        OBVIOUS
      <4> DEFINE m == bp.framesPerHostBuffer
      <4>1. m \in Nat \ {0} BY <1>2, Parameters
      <4>2. n = m BY DEF HostBufferSizes
      <4>3. supplied % m = 0 /\ supplied' = supplied + m
        BY <1>1, <1>4, <2>1, <4>2 DEF SInv, BalanceInv
      <4> HIDE DEF m
      <4>4. m % m = 0
        <5>1. (m * 1 + 0) % m = 0 BY <4>1, ModUnique
        <5> QED BY <4>1, <5>1
      <4>5. (supplied + m) % m = m % m BY <2>6, <4>1, <4>3, SumOfMultiples
      <4> QED BY <4>3, <4>4, <4>5 DEF m
    <3>2. callbackResult = "paContinue" =>
            /\ Len(heard) % N = 0
            /\ Len(tempInput') + Len(tempOutput') + Len(InputFrames') = Latency + OutputRoom'
      <4> DEFINE t == Len(tempInput)
                 o1 == Len(tempOutput)
      <4>1. t \in Nat /\ o1 \in Nat BY <1>2, LenProperties DEF TypeInv
      <4>2. callbackResult = "paContinue" => Len(heard) % N = 0 /\ t + o1 + 0 = Latency + 0
        BY <1>1, <1>4, <2>5 DEF SInv, BalanceInv
      <4>3. Len(tempInput') = t /\ Len(tempOutput') = o1 BY <1>1
      <4>4. Latency \in Nat BY <1>2, LatencyIs
      <4> HIDE DEF t, o1
      <4>5. callbackResult = "paContinue" => t + o1 + n = Latency + n
        BY <2>2, <4>1, <4>2, <4>4
      <4> QED BY <2>7, <2>8, <4>2, <4>3, <4>5
    <3>3. pc' # "idle" BY <1>1, <1>4
    <3> QED BY <1>1, <1>4, <3>1, <3>2, <3>3, SameAdapts, SameConfiguration DEF BalanceInv
  <2>10. RoomInv' BY <1>1, <1>4, <2>1, <2>7, SameAdapts, SameConfiguration DEF RoomInv
  <2> QED BY <2>9, <2>10 DEF SInv
<1> QED BY <1>3, <1>4

LEMMA BeginAdaptingInStep ==
  ASSUME ProcessorAssumption, IInv, SInv, BeginAdapting
  PROVE  SInv'
<1>1. /\ pc = "beginAdapting" /\ pc' = "adapting" /\ CopyTempOutput(tempOutput, 0)
      /\ bp' = bp /\ tempInput' = tempInput /\ hostInput' = hostInput
      /\ supplied' = supplied /\ callbackResult' = callbackResult /\ heard' = heard
  BY DEF BeginAdapting
<1>2. /\ TypeInv /\ PhaseInv /\ bp \in Configurations
      /\ tempInput \in Seq(Nat) /\ tempOutput \in Seq(Nat)
  BY DEF IInv, TypeInv
<1>3. Adapts /\ IsOutput BY <1>1, <1>2 DEF PhaseInv, IsFullDuplex, Adapts
<1>4. /\ Len(tempOutput') - OutputRoom' = Len(tempOutput) - OutputRoom
      /\ tempOutput' = <<>> \/ OutputRoom' = 0
      /\ tempOutput' \in Seq(Nat) /\ \E i, j \in Nat : hostOutput' = <<i, j>>
  BY <1>1, <1>2, Copied
<1>5. InputFrames' = InputFrames /\ InputFrames # <<>>
  BY <1>1, <1>3 DEF InputFrames, SInv, RoomInv
<1>6. BalanceInv'
  <2>1. callbackResult = "paContinue" =>
          Len(tempInput') + Len(tempOutput') + Len(InputFrames') = Latency + OutputRoom'
    <3> DEFINE t == Len(tempInput)
               o == Len(tempOutput)
               p == Len(tempOutput')
               l == Len(InputFrames)
               r == OutputRoom
               q == OutputRoom'
    <3>1. t \in Nat /\ o \in Nat /\ p \in Nat /\ l \in Nat /\ r \in Nat
      BY <1>2, <1>4, LenProperties, PartsOfInput, PartsOfOutput
    <3>2. q \in Nat BY <1>4 DEF OutputRoom
    <3>3. callbackResult = "paContinue" => t + o + l = Latency + r
      BY <1>1, <1>3 DEF SInv, BalanceInv
    <3>4. p - q = o - r /\ Len(tempInput') = t /\ Len(InputFrames') = l BY <1>1, <1>4, <1>5
    <3>5. Latency \in Nat BY <1>2, LatencyIs
    <3> HIDE DEF t, o, p, l, r, q
    <3>6. callbackResult = "paContinue" => t + p + l = Latency + q
      BY <3>1, <3>2, <3>3, <3>4, <3>5
    <3> QED BY <3>4, <3>6 DEF p, q
  <2> QED BY <1>1, <1>3, <2>1, SameAdapts, SameConfiguration DEF SInv, BalanceInv
<1>7. RoomInv' BY <1>1, <1>3, <1>4, <1>5, SameAdapts, SameConfiguration DEF RoomInv
<1> QED BY <1>6, <1>7 DEF SInv

\* What AdaptingProcess does in one iteration, in numbers of frames.
LEMMA AdaptingInNumbers ==
  ASSUME ProcessorAssumption, IInv, SInv, NEW result \in CallbackResults, Adapting(result)
  PROVE  LET filled == Len(tempInput) + Len(InputFrames) - Len(InputFrames')
             ended == tempOutput = <<>> /\ callbackResult # "paContinue"
             calls == /\ filled = N /\ tempOutput = <<>>
                      /\ callbackResult = "paContinue"
             new == IF ~calls THEN Len(tempOutput)
                    ELSE IF callbackResult' = "paAbort" THEN 0 ELSE N
         IN  /\ bp' = bp /\ pc = "adapting" /\ pc' = pc /\ supplied' = supplied
             /\ filled <= N /\ Len(InputFrames') \in Nat /\ OutputRoom' \in Nat
             /\ tempInput' \in Seq(Nat) /\ tempOutput' \in Seq(Nat)
             /\ calls => Len(heard') = Len(heard) + N /\ Len(tempInput') = 0
             /\ ~calls => heard' = heard /\ callbackResult' = callbackResult
             /\ ~calls /\ ~ended => Len(tempInput') = filled /\ (filled # N \/ tempOutput # <<>>)
             /\ ~ended => Len(tempOutput') - OutputRoom' = new - OutputRoom
             /\ tempOutput' = <<>> \/ OutputRoom' = 0
             /\ ended => OutputRoom' = 0
<1> DEFINE ended == tempOutput = <<>> /\ callbackResult # "paContinue"
           zeroed == IF ended THEN OutputRoom ELSE 0
           n == FramesToFill(Len(InputFrames))
           block == tempInput \o SubSeq(InputFrames, 1, n)
           isBlock == Len(block) = N /\ tempOutput = <<>>
           calls == isBlock /\ callbackResult = "paContinue"
           made == GeneratedFrames(block, Len(block), result)
           filled == Len(tempInput) + Len(InputFrames) - Len(InputFrames')
<1>1. /\ pc = "adapting" /\ pc' = pc /\ bp' = bp
      /\ TakeInput(n)
      /\ IF calls
           THEN /\ StreamCallback(block, N, result)
                /\ tempInput' = <<>>
                /\ CopyTempOutput(made, zeroed)
           ELSE /\ NoStreamCallback
                /\ tempInput' = IF isBlock THEN <<>> ELSE block
                /\ CopyTempOutput(tempOutput, zeroed)
  BY DEF Adapting, N, DiscardInput
<1>2. /\ TypeInv /\ PhaseInv /\ HeldInv /\ bp \in Configurations
      /\ tempInput \in Seq(Nat) /\ tempOutput \in Seq(Nat) /\ heard \in Seq(Nat)
  BY DEF IInv, TypeInv
<1>3. ~UseNonAdaptingProcess /\ IsInput /\ IsOutput /\ ~noInput
  BY <1>1, <1>2 DEF PhaseInv, IsFullDuplex
<1>4. N \in Nat \ {0} BY <1>2, <1>3, Parameters
<1>5. /\ block \in Seq(Nat) /\ Len(block) \in Nat /\ Len(block) <= N
      /\ InputFrames' \in Seq(Nat) /\ tempInput \o InputFrames = block \o InputFrames'
      /\ supplied' = supplied
  <2>1. Len(InputFrames) \in Nat /\ Len(InputFrames) <= Len(InputFrames)
    <3>1. Len(InputFrames) \in Nat BY <1>2, PartsOfInput
    <3> QED BY <3>1
  <2> QED BY <1>1, <1>2, <1>3, <2>1, Filled
<1> HIDE DEF block
<1>6. Len(block) = filled /\ Len(InputFrames') \in Nat
  <2> DEFINE t == Len(tempInput)
             l == Len(InputFrames)
             b == Len(block)
             k == Len(InputFrames')
  <2>1. t \in Nat /\ l \in Nat /\ b \in Nat /\ k \in Nat
    BY <1>2, <1>5, PartsOfInput, LenProperties
  <2>2. t + l = b + k
    <3>1. InputFrames \in Seq(Nat) BY <1>2, PartsOfInput
    <3>2. Len(tempInput \o InputFrames) = t + l BY <1>2, <3>1, ConcatProperties
    <3>3. Len(block \o InputFrames') = b + k BY <1>5, ConcatProperties
    <3> QED BY <1>5, <3>2, <3>3
  <2> HIDE DEF t, l, b, k
  <2>3. b = t + l - k BY <2>1, <2>2
  <2> QED BY <2>1, <2>3 DEF t, l, b, k
<1>7. tempInput' \in Seq(Nat) /\ tempOutput' \in Seq(Nat) /\ OutputRoom' \in Nat
  <2>1. TypeInv'
    <3>1. IInv' BY AdaptingHolds
    <3> QED BY <3>1 DEF IInv
  <2>2. \E i, j \in Nat : hostOutput' = <<i, j>> BY <2>1 DEF TypeInv
  <2>3. OutputRoom' \in Nat BY <2>2 DEF OutputRoom
  <2> QED BY <2>1, <2>3 DEF TypeInv
<1>8. ASSUME calls
      PROVE  /\ made \in Seq(Nat)
             /\ Len(made) = IF callbackResult' = "paAbort" THEN 0 ELSE N
             /\ Len(heard') = Len(heard) + N
  <2>1. StreamCallback(block, N, result) /\ Len(block) = N /\ N \in Nat
    BY <1>1, <1>4, <1>8
  <2>2. made = GeneratedFrames(block, N, result) BY <2>1
  <2> HIDE DEF calls, made
  <2>3. /\ callbackResult' = result
        /\ made \in Seq(Nat) /\ Len(made) = IF result # "paAbort" THEN N ELSE 0
        /\ heard' = heard \o block
    BY <1>2, <1>3, <1>5, <2>1, <2>2, Called
  <2>4. Len(heard \o block) = Len(heard) + Len(block) BY <1>2, <1>5, ConcatProperties
  <2> QED BY <2>1, <2>3, <2>4
<1>9. ~calls => heard' = heard /\ callbackResult' = callbackResult
  BY <1>1 DEF NoStreamCallback
<1>10. /\ calls => Len(tempInput') = 0
       /\ ~calls /\ ~ended => Len(tempInput') = filled /\ (filled # N \/ tempOutput # <<>>)
  <2>1. calls => Len(tempInput') = 0 BY <1>1, EmptySeq
  <2>2. ~calls /\ ~ended => ~isBlock /\ tempInput' = block BY <1>1
  <2> HIDE DEF calls, ended, filled
  <2> QED BY <1>6, <2>1, <2>2
<1> HIDE DEF made
<1> DEFINE frames == IF calls THEN made ELSE tempOutput
<1>11. ~ended => /\ Len(tempOutput') - OutputRoom' = Len(frames) - OutputRoom
                 /\ tempOutput' = <<>> \/ OutputRoom' = 0
  <2>1. ~ended => CopyTempOutput(frames, 0) BY <1>1
  <2>2. frames \in Seq(Nat) BY <1>2, <1>8
  <2> HIDE DEF ended, frames
  <2> QED BY <1>2, <2>1, <2>2, Copied
<1>12. ended => OutputRoom' = 0
  <2>1. ended => CopyTempOutput(<<>>, OutputRoom) BY <1>1
  <2> HIDE DEF ended
  <2> QED BY <1>2, <2>1, CopiedZeros
<1>13. calls <=> filled = N /\ tempOutput = <<>> /\ callbackResult = "paContinue"
  <2> HIDE DEF filled
  <2> QED BY <1>6
<1> HIDE DEF calls, filled
<1> QED BY <1>1, <1>5, <1>6, <1>7, <1>8, <1>9, <1>10, <1>11, <1>12, <1>13
        DEF filled

LEMMA AdaptingInStep ==
  ASSUME ProcessorAssumption, IInv, SInv, NEW result \in CallbackResults, Adapting(result)
  PROVE  SInv'
<1> DEFINE t == Len(tempInput)
           o == Len(tempOutput)
           l == Len(InputFrames)
           r == OutputRoom
           t1 == Len(tempInput')
           o1 == Len(tempOutput')
           l1 == Len(InputFrames')
           r1 == OutputRoom'
           h == Len(heard)
           h1 == Len(heard')
           filled == t + l - l1
           ended == tempOutput = <<>> /\ callbackResult # "paContinue"
           calls == filled = N /\ tempOutput = <<>> /\ callbackResult = "paContinue"
           new == IF ~calls THEN o ELSE IF callbackResult' = "paAbort" THEN 0 ELSE N
<1>1. /\ bp' = bp /\ pc = "adapting" /\ pc' = pc /\ supplied' = supplied
      /\ filled <= N /\ l1 \in Nat /\ r1 \in Nat
      /\ tempInput' \in Seq(Nat) /\ tempOutput' \in Seq(Nat)
      /\ calls => h1 = h + N /\ t1 = 0
      /\ ~calls => heard' = heard /\ callbackResult' = callbackResult
      /\ ~calls /\ ~ended => t1 = filled /\ (filled # N \/ tempOutput # <<>>)
      /\ ~ended => o1 - r1 = new - r
      /\ tempOutput' = <<>> \/ r1 = 0
      /\ ended => r1 = 0
  BY AdaptingInNumbers
<1>2. TypeInv /\ PhaseInv /\ bp \in Configurations BY DEF IInv, TypeInv
<1>3. Adapts /\ IsOutput BY <1>1, <1>2 DEF PhaseInv, IsFullDuplex, Adapts
<1>4. N \in Nat \ {0} /\ Latency \in Nat BY <1>2, <1>3, LatencyIs
<1>5. /\ t \in Nat /\ o \in Nat /\ l \in Nat /\ r \in Nat /\ h \in Nat
      /\ t1 \in Nat /\ o1 \in Nat
      /\ tempOutput = <<>> <=> o = 0
      /\ tempOutput' = <<>> <=> o1 = 0
      /\ InputFrames' = <<>> <=> l1 = 0
  <2>1. InputFrames' \in Seq(Nat)
    <3>1. TypeInv'
      <4>1. IInv' BY AdaptingHolds
      <4> QED BY <4>1 DEF IInv
    <3>2. PICK a \in Seq(Nat), b \in Seq(Nat) : hostInput' = <<a, b>>
      BY <3>1 DEF TypeInv
    <3> QED BY <3>2, ConcatProperties DEF InputFrames
  <2> QED BY <1>1, <1>2, <2>1, LenProperties, EmptySeq, PartsOfInput, PartsOfOutput
          DEF TypeInv
<1>6. /\ callbackResult = "paContinue" => h % N = 0 /\ t + o + l = Latency + r
      /\ o = 0 \/ r = 0
  BY <1>1, <1>3, <1>5 DEF SInv, BalanceInv, RoomInv
<1> HIDE DEF t, o, l, r, t1, o1, l1, r1, h, h1
<1>7. callbackResult' = "paContinue" =>
        h1 % N = 0 /\ t1 + o1 + l1 = Latency + r1
  <2>1. CASE calls
    <3>1. (h + N) % N = 0
      <4>1. (h + N) % N = N % N BY <1>4, <1>5, <1>6, <2>1, SumOfMultiples
      <4>2. (N * 1 + 0) % N = 0 BY <1>4, ModUnique
      <4>3. N * 1 + 0 = N BY <1>4
      <4> QED BY <4>1, <4>2, <4>3
    <3>2. callbackResult' = "paContinue" => t1 + o1 + l1 = Latency + r1
      <4>1. callbackResult' = "paContinue" => o1 - r1 = N - r BY <1>1, <2>1
      <4> QED BY <1>1, <1>4, <1>5, <1>6, <2>1, <4>1
    <3> QED BY <1>1, <2>1, <3>1, <3>2
  <2>2. CASE ~calls
    <3>1. h1 = h BY <1>1, <2>2 DEF h, h1
    <3>2. callbackResult' = "paContinue" =>
            /\ callbackResult = "paContinue" /\ t1 = t + l - l1 /\ o1 - r1 = o - r
      BY <1>1, <2>2
    <3> HIDE DEF calls, new
    <3> QED BY <1>1, <1>4, <1>5, <1>6, <3>1, <3>2
  <2> QED BY <2>1, <2>2
<1>8. l1 = 0 => /\ callbackResult' = "paComplete" => r1 = 0
                /\ callbackResult' = "paContinue" /\ o1 = 0 => t1 < N
  <2>1. CASE calls
    <3>1. callbackResult' = "paComplete" => o1 - r1 = N - r BY <1>1, <2>1
    <3>2. l1 = 0 => N = Latency + r BY <1>4, <1>5, <1>6, <2>1
    <3>3. o1 = 0 \/ r1 = 0 BY <1>1, <1>5
    <3>4. t1 < N BY <1>1, <1>4, <2>1
    <3> HIDE DEF calls, new
    <3> QED BY <1>1, <1>4, <1>5, <3>1, <3>2, <3>3, <3>4
  <2>2. CASE ended BY <1>1, <2>2
  <2>3. CASE ~calls /\ ~ended
    <3>1. /\ callbackResult' = callbackResult
          /\ t1 = filled /\ filled <= N /\ (filled # N \/ o # 0)
          /\ o1 - r1 = o - r
      BY <1>1, <1>5, <2>3
    <3>2. callbackResult = "paComplete" => o # 0 BY <1>5, <2>3
    <3>3. o # 0 => r = 0 /\ r1 = 0 /\ o1 # 0
      <4>1. o # 0 => r = 0 BY <1>6
      <4>2. o1 = 0 \/ r1 = 0 BY <1>1, <1>5
      <4> QED BY <1>1, <1>5, <3>1, <4>1, <4>2
    <3>4. o = 0 => t1 < N
      <4> HIDE DEF filled
      <4>1. t1 \in Nat /\ N \in Nat BY <1>4, <1>5
      <4> QED BY <3>1, <4>1
    <3> QED BY <3>1, <3>2, <3>3, <3>4
  <2> QED BY <2>1, <2>2, <2>3
<1>9. BalanceInv'
  <2>1. bp.hostBufferSizeMode = "fixed" => supplied' % bp.framesPerHostBuffer = 0
    BY <1>1, <1>3 DEF SInv, BalanceInv
  <2> HIDE DEF calls, ended, filled, new
  <2> QED BY <1>1, <1>7, <2>1, SameAdapts, SameConfiguration
          DEF BalanceInv, t1, o1, l1, r1, h1
<1>10. RoomInv'
  <2> HIDE DEF calls, ended, filled, new
  <2> QED BY <1>1, <1>3, <1>5, <1>8, SameAdapts, SameConfiguration
          DEF RoomInv, t1, r1
<1> QED BY <1>9, <1>10 DEF SInv

\* Of whole host buffers, and perhaps the frame shift, the blocks leave no more
\* than the frame shift.
LEMMA RemainderFits ==
  ASSUME NEW m \in Nat \ {0}, NEW n \in Nat \ {0},
         NEW s \in {0, CalculateFrameShift(m, n)}, NEW c \in Nat, c % m = 0,
         NEW h \in Nat, h % n = 0, NEW t \in 0..n-1, s + c = h + t
  PROVE  t <= CalculateFrameShift(m, n)
<1> DEFINE F == CalculateFrameShift(m, n)
           k == c \div m
<1>1. /\ F \in 0..n-1 /\ \A i \in Nat : (m * i) % n <= F
      /\ F # 0 => \E j \in Nat : (m * j) % n = F
  BY ShiftIsGreatest
<1>2. c = m * k /\ k \in Nat
  <2>1. k \in Int /\ c = m * k + (c % m)
    <3>1. c \in Int OBVIOUS
    <3> QED BY <3>1, DivMod
  <2>2. m * k \in Int BY <2>1, SMT
  <2> HIDE DEF k
  <2>3. c = m * k BY <2>1, <2>2
  <2>4. k >= 0
    <3>1. k <= -1 => m * k <= -m BY <2>1, SMT
    <3> QED BY <2>1, <2>3, <3>1
  <2> QED BY <2>1, <2>3, <2>4
<1>3. (s + c) % n = t
  <2>1. (h + t) % n = t % n
    <3>1. t \in Nat OBVIOUS
    <3> QED BY <3>1, SumOfMultiples
  <2>2. (n * 0 + t) % n = t BY ModUnique
  <2>3. n * 0 + t = t OBVIOUS
  <2> QED BY <2>1, <2>2, <2>3
<1> HIDE DEF F, k
<1>4. CASE s = 0
  <2>1. (m * k) % n <= F BY <1>1, <1>2
  <2>2. s + c = m * k BY <1>2, <1>4
  <2> QED BY <1>3, <2>1, <2>2 DEF F
<1>5. CASE s # 0
  <2>1. s = F /\ F # 0 BY <1>5 DEF F
  <2>2. PICK j \in Nat : (m * j) % n = F BY <1>1, <2>1
  <2>3. m * j \in Int /\ c \in Int /\ m * j + c = m * (j + k)
    <3>1. m * j + m * k = m * (j + k) /\ m * j \in Int BY <1>2, SMT
    <3> QED BY <1>2, <3>1
  <2>4. (((m * j) % n) + c) % n = (m * j + c) % n
    <3> DEFINE a == m * j
    <3>1. a \in Int /\ c \in Int BY <2>3
    <3> HIDE DEF a
    <3>2. ((a % n) + c) % n = (a + c) % n BY <3>1, ModSum
    <3> QED BY <3>2 DEF a
  <2>5. j + k \in Nat BY <1>2
  <2>6. (m * (j + k)) % n <= F BY <1>1, <2>5
  <2> QED BY <1>3, <2>1, <2>2, <2>3, <2>4, <2>6 DEF F
<1> QED BY <1>4, <1>5

\* When no input is left to the process that adapts in both directions, what is
\* held back is no more than the latency: all room for output has been filled.
LEMMA NoRoomLeft ==
  ASSUME ProcessorAssumption, IInv, SInv, pc = "adapting", InputFrames = <<>>,
         callbackResult # "paAbort"
  PROVE  OutputRoom = 0
<1>1. TypeInv /\ PhaseInv /\ InputInv /\ bp \in Configurations BY DEF IInv, TypeInv
<1>2. Adapts /\ IsInput BY <1>1 DEF PhaseInv, IsFullDuplex, Adapts
<1>3. /\ callbackResult = "paComplete" => OutputRoom = 0
      /\ tempOutput = <<>> \/ OutputRoom = 0
      /\ callbackResult = "paContinue" /\ tempOutput = <<>> => Len(tempInput) < N
  BY <1>2 DEF SInv, RoomInv
<1> SUFFICES ASSUME callbackResult = "paContinue", tempOutput = <<>>
             PROVE  OutputRoom = 0
  BY <1>1, <1>3 DEF TypeInv
<1> DEFINE t == Len(tempInput)
           h == Len(heard)
           m == bp.framesPerHostBuffer
           i == InitialFramesInTempInputBuffer
<1>4. /\ t \in Nat /\ h \in Nat /\ supplied \in Nat /\ OutputRoom \in Nat
      /\ tempInput \in Seq(Nat) /\ heard \in Seq(Nat)
      /\ Len(InputFrames) = 0 /\ Len(tempOutput) = 0
  BY <1>1, LenProperties, EmptySeq, PartsOfOutput DEF TypeInv, ProcessorAssumption
<1>5. m \in Nat \ {0} /\ N \in Nat \ {0} /\ i \in Nat /\ Latency \in Nat
  BY <1>1, <1>2, Parameters, LatencyIs, InitialFrames
<1>6. /\ bp.hostBufferSizeMode = "fixed" => supplied % m = 0
      /\ h % N = 0 /\ t + 0 + 0 = Latency + OutputRoom /\ t < N
  BY <1>2, <1>3, <1>4 DEF SInv, BalanceInv
<1>7. i + supplied = h + t
  <2>1. PICK rest \in Seq(Nat) : Arrived = heard \o rest /\ rest = tempInput \o InputFrames
    BY <1>1, <1>2 DEF InputInv
  <2>2. rest = tempInput BY <1>4, <2>1, ConcatEmptySeq
  <2>3. Len(Arrived) = h + t BY <1>4, <2>1, <2>2, ConcatProperties
  <2>4. Len(Arrived) = i + supplied
    <3> DEFINE c == [k \in 1..supplied |-> k]
    <3>1. c \in Seq(Nat) /\ Len(c) = supplied BY <1>4
    <3>2. Zeros(i) \in Seq(Nat) /\ Len(Zeros(i)) = i BY <1>5, ZerosAre
    <3>3. Arrived = Zeros(i) \o c BY DEF Arrived
    <3> HIDE DEF c, i
    <3> QED BY <3>1, <3>2, <3>3, ConcatProperties
  <2> QED BY <2>3, <2>4
<1>8. t <= Latency
  <2>1. CASE bp.hostBufferSizeMode = "fixed"
    <3>1. Latency = CalculateFrameShift(m, N) /\ i \in {0, Latency}
      BY <1>1, <1>2, <2>1, LatencyIs
    <3>2. t \in 0..N-1 BY <1>4, <1>5, <1>6
    <3> HIDE DEF t, h, m, i
    <3> QED BY <1>4, <1>5, <1>6, <1>7, <2>1, <3>1, <3>2, RemainderFits
  <2>2. CASE bp.hostBufferSizeMode # "fixed"
    <3>1. Latency = N BY <1>1, <1>2, <2>2, LatencyIs
    <3> HIDE DEF t
    <3> QED BY <1>4, <1>5, <1>6, <3>1
  <2> QED BY <2>1, <2>2
<1> HIDE DEF t
<1> QED BY <1>4, <1>5, <1>6, <1>8

LEMMA EndInStep ==
  ASSUME ProcessorAssumption, IInv, SInv,
         NonAdaptingEnd \/ AdaptingInputEnd \/ AdaptingOutputEnd \/ AdaptingEnd
  PROVE  SInv'
<1>1. /\ pc' = "idle" /\ bp' = bp /\ tempInput' = tempInput /\ tempOutput' = tempOutput
      /\ hostInput' = hostInput /\ hostOutput' = hostOutput
      /\ supplied' = supplied /\ callbackResult' = callbackResult /\ heard' = heard
  BY DEF NonAdaptingEnd, AdaptingInputEnd, AdaptingOutputEnd, AdaptingEnd,
         held, hostBuffers, history
<1>2. TypeInv /\ PhaseInv /\ bp \in Configurations BY DEF IInv, TypeInv
<1>3. CASE ~Adapts BY <1>1, <1>3, StepElsewhere
<1>4. CASE Adapts
  <2>1. AdaptingEnd
    BY <1>2, <1>4 DEF NonAdaptingEnd, AdaptingInputEnd, AdaptingOutputEnd, PhaseInv,
                      Adapts, IsFullDuplex
  <2>2. pc = "adapting" /\ InputFrames = <<>> BY <2>1 DEF AdaptingEnd
  <2>3. InputFrames' = InputFrames /\ OutputRoom' = OutputRoom
    BY <1>1 DEF InputFrames, OutputRoom
  <2>4. callbackResult = "paContinue" => OutputRoom = 0 BY <2>2, NoRoomLeft
  <2>5. IsOutput BY <1>4 DEF Adapts, IsFullDuplex
  <2>6. BalanceInv'
    BY <1>1, <1>4, <2>2, <2>3, <2>4, SameAdapts, SameConfiguration DEF SInv, BalanceInv
  <2>7. RoomInv' BY <1>1, <2>5, SameConfiguration DEF RoomInv
  <2> QED BY <2>6, <2>7 DEF SInv
<1> QED BY <1>3, <1>4

LEMMA StepInStep ==
  ASSUME ProcessorAssumption, IInv, SInv, [Next]_vars
  PROVE  SInv'
<1>1. TypeInv /\ PhaseInv BY DEF IInv
<1>2. CASE UNCHANGED vars
  <2>1. /\ bp' = bp /\ tempInput' = tempInput /\ tempOutput' = tempOutput
        /\ hostInput' = hostInput /\ hostOutput' = hostOutput
        /\ supplied' = supplied /\ callbackResult' = callbackResult /\ pc' = pc
        /\ heard' = heard
    BY <1>2 DEF vars, held, hostBuffers, history
  <2>2. InputFrames' = InputFrames /\ OutputRoom' = OutputRoom
    BY <2>1 DEF InputFrames, OutputRoom
  <2>3. BalanceInv' BY <2>1, <2>2, SameAdapts, SameConfiguration DEF SInv, BalanceInv
  <2>4. RoomInv' BY <2>1, <2>2, SameAdapts, SameConfiguration DEF SInv, RoomInv
  <2> QED BY <2>3, <2>4 DEF SInv
<1>3. CASE \E n \in HostBufferSizes : \E input, output \in Parts(n) :
             BeginBufferProcessing(n, input, output)
  BY <1>3, BeginInStep
<1>4. CASE \E n \in HostBufferSizes : PrimeOutput(n)
  BY <1>4, StepElsewhere DEF PrimeOutput, Adapts, IsFullDuplex
<1>5. CASE \E result \in CallbackResults : NonAdaptingCall(result)
  <2>1. bp' = bp /\ pc = "nonAdapting" /\ (~IsOutput => hostOutput' = hostOutput)
    BY <1>5 DEF NonAdaptingCall
  <2> QED BY <1>1, <2>1, StepElsewhere DEF PhaseInv, Adapts
<1>6. CASE \E result \in CallbackResults : AdaptingInput(result)
  <2>1. bp' = bp /\ pc = "adaptingInput" /\ hostOutput' = hostOutput
    BY <1>6 DEF AdaptingInput
  <2> QED BY <1>1, <2>1, StepElsewhere DEF PhaseInv, Adapts, IsFullDuplex
<1>7. CASE \E result \in CallbackResults : AdaptingOutput(result)
  <2>1. bp' = bp /\ pc = "adaptingOutput" BY <1>7 DEF AdaptingOutput
  <2> QED BY <1>1, <2>1, StepElsewhere DEF PhaseInv, Adapts, IsFullDuplex
<1>8. CASE \E result \in CallbackResults : Adapting(result) BY <1>8, AdaptingInStep
<1>9. CASE NonAdaptingZero
  <2>1. bp' = bp /\ pc = "nonAdapting" /\ (~IsOutput => hostOutput' = hostOutput)
    BY <1>9 DEF NonAdaptingZero
  <2> QED BY <1>1, <2>1, StepElsewhere DEF PhaseInv, Adapts
<1>10. CASE BeginAdapting BY <1>10, BeginAdaptingInStep
<1>11. CASE NonAdaptingEnd \/ AdaptingInputEnd \/ AdaptingOutputEnd \/ AdaptingEnd
  BY <1>11, EndInStep
<1>12. CASE ResetBufferProcessor BY <1>12, ResetInStep
<1> QED BY <1>2, <1>3, <1>4, <1>5, <1>6, <1>7, <1>8, <1>9, <1>10, <1>11, <1>12
        DEF Next, EndBufferProcessing

\* Input and output stay in step for host buffers and blocks of any size.
THEOREM InStepInvariant == Spec => [](IInv /\ SInv)
<1>1. ProcessorAssumption => (Init => SInv) BY InitInStep
<1>2. ProcessorAssumption => (IInv /\ SInv /\ [Next]_vars => SInv') BY StepInStep
<1> QED BY <1>1, <1>2, Invariant, ProcessorAssumption, PTL DEF Spec

LEMMA ConstantLatency ==
  ASSUME ProcessorAssumption, IInv, SInv
  PROVE  LatencyIsConstant
<1> SUFFICES ASSUME pc = "idle", Adapts, callbackResult = "paContinue"
             PROVE  Len(tempInput) + Len(tempOutput) = Latency
  BY DEF LatencyIsConstant, Adapts, Latency
<1> DEFINE t == Len(tempInput)
           o == Len(tempOutput)
<1>1. TypeInv /\ PhaseInv /\ bp \in Configurations BY DEF IInv, TypeInv
<1>2. t \in Nat /\ o \in Nat /\ Latency \in Nat
  BY <1>1, LenProperties, LatencyIs DEF TypeInv
<1>3. Len(InputFrames) = 0 BY <1>1, EmptySeq DEF PhaseInv
<1>4. t + o + 0 = Latency + 0 BY <1>3 DEF SInv, BalanceInv
<1> HIDE DEF t, o
<1>5. t + o = Latency BY <1>2, <1>4
<1> QED BY <1>5 DEF t, o

\* Whatever the sizes of host buffers and blocks, fixed or varying, what a full
\* duplex stream holds back between host buffers is the latency it started with,
\* and where the sizes are fixed that is the least with which the output never
\* runs dry.
THEOREM LatencyHolds == Spec => []LatencyIsConstantAndLeast
<1>1. ProcessorAssumption /\ IInv /\ SInv => LatencyIsConstantAndLeast
  BY ConstantLatency, LeastLatency DEF LatencyIsConstantAndLeast, IInv, TypeInv
<1> QED BY <1>1, InStepInvariant, ProcessorAssumption, PTL

LEMMA BuffersUsed ==
  ASSUME ProcessorAssumption, IInv, SInv, [Next]_vars
  PROVE  [pc # "idle" /\ pc' = "idle" =>
            /\ InputFrames = <<>>
            /\ \/ OutputRoom = 0
               \/ callbackResult = "paAbort" /\ IsFullDuplex /\ ~UseNonAdaptingProcess]_vars
<1> SUFFICES ASSUME Next, pc # "idle", pc' = "idle"
             PROVE  /\ InputFrames = <<>>
                    /\ \/ OutputRoom = 0
                       \/ callbackResult = "paAbort" /\ IsFullDuplex /\ ~UseNonAdaptingProcess
  OBVIOUS
<1>1. TypeInv /\ PhaseInv /\ BlockInv /\ bp \in Configurations BY DEF IInv, TypeInv
<1>2. NonAdaptingEnd \/ AdaptingInputEnd \/ AdaptingOutputEnd \/ AdaptingEnd
  <2>1. ~ \E n \in HostBufferSizes : \E input, output \in Parts(n) :
            BeginBufferProcessing(n, input, output)
    BY DEF BeginBufferProcessing
  <2>2. ~ \E n \in HostBufferSizes : PrimeOutput(n) BY DEF PrimeOutput
  <2>3. ~ResetBufferProcessor BY DEF ResetBufferProcessor
  <2>4. ~ \E result \in CallbackResults :
            \/ NonAdaptingCall(result) \/ AdaptingInput(result)
            \/ AdaptingOutput(result) \/ Adapting(result)
    BY DEF NonAdaptingCall, AdaptingInput, AdaptingOutput, Adapting
  <2>5. ~NonAdaptingZero /\ ~BeginAdapting BY DEF NonAdaptingZero, BeginAdapting
  <2> QED BY <2>1, <2>2, <2>3, <2>4, <2>5 DEF Next, EndBufferProcessing
<1>3. CASE NonAdaptingEnd
  <2>1. pc = "nonAdapting" /\ FramesToGo = 0 BY <1>3 DEF NonAdaptingEnd
  <2>2. InputFrames = <<>> BY <1>1, <2>1, ToGo DEF PhaseInv
  <2>3. CASE ~IsOutput BY <2>2, <2>3 DEF SInv, RoomInv
  <2>4. CASE IsFullDuplex /\ ~noInput
    <3>1. OutputRoom = 0 BY <1>1, <2>1, <2>2, <2>4, EmptySeq DEF PhaseInv
    <3> QED BY <2>2, <3>1
  <2>5. CASE IsOutput /\ ~(IsInput /\ ~noInput)
    <3>1. FramesToGo = Min({OutputPart})
      <4>1. {} \cup {OutputPart} = {OutputPart} OBVIOUS
      <4> QED BY <2>5, <4>1 DEF FramesToGo
    <3>2. OutputPart \in Nat /\ (OutputPart = 0 <=> OutputRoom = 0) BY <1>1, PartsOfOutput
    <3>3. OutputPart \in Int BY <3>2
    <3>4. OutputPart = 0 BY <2>1, <3>1, <3>3, MinOfOne
    <3> QED BY <2>2, <3>2, <3>4
  <2> QED BY <2>3, <2>4, <2>5 DEF IsFullDuplex
<1>4. CASE AdaptingInputEnd
  BY <1>1, <1>4 DEF AdaptingInputEnd, PhaseInv, SInv, RoomInv
<1>5. CASE AdaptingOutputEnd
  BY <1>1, <1>5 DEF AdaptingOutputEnd, PhaseInv
<1>6. CASE AdaptingEnd
  <2>1. pc = "adapting" /\ InputFrames = <<>> BY <1>6 DEF AdaptingEnd
  <2>2. callbackResult # "paAbort" => OutputRoom = 0 BY <2>1, NoRoomLeft
  <2> QED BY <1>1, <2>1, <2>2 DEF PhaseInv
<1> QED BY <1>2, <1>3, <1>4, <1>5, <1>6

\* Whatever the sizes of host buffers and blocks, a call that returns has taken
\* all of the host's input and filled all of its output, except the rest of the
\* output when the callback aborts while buffers are adapted in both directions.
THEOREM AllBuffersUsed == Spec => HostBuffersUsed
<1>1. ProcessorAssumption /\ IInv /\ SInv /\ [Next]_vars =>
        [pc # "idle" /\ pc' = "idle" =>
           /\ InputFrames = <<>>
           /\ \/ OutputRoom = 0
              \/ callbackResult = "paAbort" /\ IsFullDuplex /\ ~UseNonAdaptingProcess]_vars
  BY BuffersUsed
<1> QED BY <1>1, InStepInvariant, ProcessorAssumption, PTL DEF Spec, HostBuffersUsed
=============================================================================
