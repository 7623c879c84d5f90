---------------------------- MODULE PaFrontProofs ----------------------------
(***************************************************************************)
(* Proofs about PaFront, for any number of host APIs, whatever their        *)
(* initialisers deliver, and any set of streams: what the front end lists   *)
(* is what there is, and device indices are dense over all host APIs.       *)
(***************************************************************************)
EXTENDS PaFront, NumberTheorems, FiniteSetTheorems, TLAPS

\* Streams are opened by device.  A host API type that no initialiser delivered
\* is let through by ValidateOpenStreamParameters: paHostApiNotFound is not -1.
NoSpecificTypes == SpecificTypes = {}

-----------------------------------------------------------------------------
(* The inductive invariant.                                                *)

HostApiRecord ==
  [type : 0..InitializerCount-1, epoch : 1..MaxEpochs, deviceCount : Nat,
   baseDeviceIndex : Nat, defaultInputDevice : Nat \cup {paNoDevice},
   defaultOutputDevice : Nat \cup {paNoDevice}]

TypeInv ==
  /\ hostApis \in Seq(HostApiRecord)
  /\ defaultHostApiIndex \in -1..InitializerCount
  /\ initializationCount \in 0..MaxInitializations
  /\ deviceCount \in Nat /\ baseDeviceIndex \in Nat
  /\ firstOpenStream \in Streams \cup {NULL}
  /\ nextOpenStream \in [Streams -> Streams \cup {NULL}]
  /\ initialized \subseteq (1..MaxEpochs) \X (0..InitializerCount-1)
  /\ epoch \in 0..MaxEpochs /\ i \in 0..InitializerCount
  /\ stream \in [Streams -> {"free", "stopped", "running", "hung"}]
  /\ hostApiOf \in [Streams -> (0..MaxEpochs) \X Int]
  /\ lost \subseteq Streams
  /\ call \in {"none", "Pa_Initialize", "Pa_Terminate"}
  /\ pc \in {"idle", "initializeHostApi", "closeOpenStreams", "terminateHostApis"}

\* How many host APIs have been initialised.
Apis == Len(hostApis)
Base(n) == hostApis[n].baseDeviceIndex
Devices(n) == hostApis[n].deviceCount
After(n) == Base(n) + Devices(n)
Name(n) == <<hostApis[n].epoch, hostApis[n].type>>

\* The host APIs are those initialised since the host APIs were last none, in
\* the order of their initialisers.
HostApiInv ==
  /\ Apis <= InitializerCount
  /\ \A n \in 1..Apis : hostApis[n].epoch = epoch
  /\ \A m, n \in 1..Apis : m < n => hostApis[m].type < hostApis[n].type
  /\ pc = "initializeHostApi" => Apis <= i /\ \A n \in 1..Apis : hostApis[n].type < i
  /\ initialized = {Name(n) : n \in 1..Apis}
  /\ IsFiniteSet(initialized) /\ Cardinality(initialized) = Apis

\* Their device indices follow one another.
DeviceInv ==
  /\ Apis > 0 => Base(1) = 0
  /\ \A n \in 1..Apis-1 : Base(n + 1) = After(n)
  /\ \A m, n \in 1..Apis : m < n => After(m) <= Base(n)
  /\ pc # "terminateHostApis" =>
       /\ \A n \in 1..Apis : After(n) <= deviceCount
       /\ deviceCount = IF Apis = 0 THEN 0 ELSE After(Apis)
  /\ pc = "initializeHostApi" => baseDeviceIndex = deviceCount

Defaults(n) ==
  {hostApis[n].defaultInputDevice, hostApis[n].defaultOutputDevice} \ {paNoDevice}

\* The default host API is the first that has a default device, or the first.
DefaultInv ==
  /\ \A n \in 1..Apis : \A d \in Defaults(n) : Base(n) <= d /\ d < After(n)
  /\ pc = "initializeHostApi" =>
       IF defaultHostApiIndex = -1 THEN \A n \in 1..Apis : Defaults(n) = {}
       ELSE /\ defaultHostApiIndex \in 0..Apis-1
            /\ Defaults(defaultHostApiIndex + 1) # {}
  /\ pc \in {"idle", "closeOpenStreams"} /\ Apis > 0 =>
       /\ defaultHostApiIndex \in 0..Apis-1
       /\ Defaults(defaultHostApiIndex + 1) = {} => \A n \in 1..Apis : Defaults(n) = {}

\* Calls find the host APIs, and the streams, as their phase needs them.
PhaseInv ==
  /\ pc = "initializeHostApi" =>
       initializationCount = 0 /\ call = "Pa_Initialize" /\ epoch > 0
  /\ pc = "closeOpenStreams" => initializationCount = 1 /\ call = "Pa_Terminate"
  /\ pc = "terminateHostApis" =>
       initializationCount = IF call = "Pa_Terminate" THEN 1 ELSE 0
  /\ pc = "idle" /\ initializationCount = 0 => hostApis = <<>>
  /\ initializationCount = 0 \/ pc = "terminateHostApis" => LiveStreams \subseteq lost

\* q is the linked list of open streams.
IsOpenList(q) ==
  /\ q \in Seq(Streams)
  /\ \A m, n \in 1..Len(q) : q[m] = q[n] => m = n
  /\ firstOpenStream = IF Len(q) = 0 THEN NULL ELSE q[1]
  /\ \A n \in 1..Len(q) : nextOpenStream[q[n]] = IF n = Len(q) THEN NULL ELSE q[n+1]
  /\ \A s \in Streams : s \in LiveStreams \ lost <=> \E n \in 1..Len(q) : q[n] = s

StreamInv ==
  /\ lost \subseteq LiveStreams
  /\ \E q : IsOpenList(q)
  /\ NoSpecificTypes => \A s \in LiveStreams \ lost : hostApiOf[s] \in initialized

IInv ==
  TypeInv /\ HostApiInv /\ DeviceInv /\ DefaultInv /\ PhaseInv /\ StreamInv

-----------------------------------------------------------------------------
(* The linked list.                                                        *)

\* Following the list from its first node, one is where the sequence says.
LEMMA NodeIs ==
  ASSUME NEW q, IsOpenList(q), NULL \notin Streams, NEW n \in Nat
  PROVE  Node(n) = IF n < Len(q) THEN q[n+1] ELSE NULL
<1> DEFINE step(k, x) == IF k = 0 THEN firstOpenStream
                         ELSE IF x = NULL THEN NULL ELSE nextOpenStream[x]
           want(k) == IF k < Len(q) THEN q[k+1] ELSE NULL
           f == [k \in 0..n |-> want(k)]
           IsAt(g) == g = [k \in 0..n |-> IF k = 0 THEN firstOpenStream
                             ELSE IF g[k-1] = NULL THEN NULL ELSE nextOpenStream[g[k-1]]]
           at == CHOOSE g : IsAt(g)
<1>1. Node(n) = at[n] BY DEF Node
<1>2. Len(q) \in Nat /\ q \in Seq(Streams) BY DEF IsOpenList
<1>3. want(0) = firstOpenStream BY <1>2 DEF IsOpenList
<1>4. ASSUME NEW k \in 0..n, k # 0
      PROVE  want(k) = IF want(k-1) = NULL THEN NULL ELSE nextOpenStream[want(k-1)]
  <2>1. CASE k - 1 < Len(q)
    <3>1. k \in 1..Len(q) /\ want(k-1) = q[k] /\ q[k] # NULL BY <1>2, <1>4, <2>1
    <3>2. nextOpenStream[q[k]] = IF k = Len(q) THEN NULL ELSE q[k+1] BY <3>1 DEF IsOpenList
    <3> QED BY <1>2, <1>4, <3>1, <3>2
  <2>2. CASE ~(k - 1 < Len(q)) BY <1>2, <1>4, <2>2
  <2> QED BY <2>1, <2>2
<1> HIDE DEF want
<1>5. IsAt(f)
  <2>1. \A k \in 0..n : k # 0 => k - 1 \in 0..n OBVIOUS
  <2>2. \A k \in 0..n : f[k] = want(k) OBVIOUS
  <2>3. \A k \in 0..n : want(k) = IF k = 0 THEN firstOpenStream
               ELSE IF f[k-1] = NULL THEN NULL ELSE nextOpenStream[f[k-1]]
    BY <1>3, <1>4, <2>1, <2>2
  <2> QED BY <2>3
<1>6. IsAt(at)
  <2> HIDE DEF IsAt, f
  <2> QED BY <1>5
<1>7. Nat \subseteq {k \in Nat : k <= n => at[k] = want(k)}
  <2> DEFINE S == {k \in Nat : k <= n => at[k] = want(k)}
  <2> HIDE DEF at
  <2>0. \A k \in 0..n : at[k] = IF k = 0 THEN firstOpenStream
                    ELSE IF at[k-1] = NULL THEN NULL ELSE nextOpenStream[at[k-1]]
    BY <1>6
  <2>1. 0 \in S BY <1>3, <2>0
  <2>2. ASSUME NEW k \in Nat, k \in S PROVE k + 1 \in S
    <3> SUFFICES ASSUME k + 1 <= n PROVE at[k+1] = want(k+1) OBVIOUS
    <3>1. at[k] = want(k) /\ k + 1 \in 0..n /\ k + 1 # 0 /\ (k + 1) - 1 = k BY <2>2
    <3>2. at[k+1] = IF at[k] = NULL THEN NULL ELSE nextOpenStream[at[k]] BY <2>0, <3>1
    <3>3. want(k+1) = IF want(k) = NULL THEN NULL ELSE nextOpenStream[want(k)] BY <1>4, <3>1
    <3> QED BY <3>1, <3>2, <3>3
  <2> HIDE DEF S
  <2>3. Nat \subseteq S BY <2>1, <2>2, SetInduction
  <2> QED BY <2>3 DEF S
<1>8. at[n] = want(n) BY <1>7
<1> QED BY <1>1, <1>8 DEF want

\* The nodes of the list are the elements of the sequence, each once.
LEMMA ListedAre ==
  ASSUME NEW q, IsOpenList(q), FrontAssumption
  PROVE  /\ Listed = {q[n] : n \in 1..Len(q)}
         /\ Cardinality(Listed) = Len(q)
         /\ Node(Cardinality(Listed)) = NULL
<1> DEFINE R == {q[n] : n \in 1..Len(q)}
<1>1. /\ Len(q) \in Nat /\ q \in [1..Len(q) -> Streams]
      /\ \A m, n \in 1..Len(q) : q[m] = q[n] => m = n
      /\ NULL \notin Streams /\ IsFiniteSet(Streams)
  BY DEF IsOpenList, FrontAssumption
<1>2. /\ q \in Injection(1..Len(q), Streams)
      /\ q \in Injection(1..Len(q), R) /\ q \in Surjection(1..Len(q), R)
  BY <1>1 DEF Injection, Surjection, IsInjective
<1>3. IsFiniteSet(1..Len(q)) /\ Cardinality(1..Len(q)) = Len(q)
  BY <1>1, FS_Interval
<1>4. Len(q) <= Cardinality(Streams) BY <1>1, <1>2, <1>3, FS_Injection
<1>5. Cardinality(R) = Len(q) BY <1>2, <1>3, FS_Surjection
<1>6. Cardinality(Streams) \in Nat BY <1>1, FS_CardinalityType
<1>7. \A n \in Nat : Node(n) = IF n < Len(q) THEN q[n+1] ELSE NULL BY <1>1, NodeIs
<1>8. Listed = R
  <2>1. ASSUME NEW s \in Listed PROVE s \in R
    <3>1. PICK n \in 0..Cardinality(Streams) : s = Node(n) /\ s # NULL BY <2>1 DEF Listed
    <3>2. n \in Nat /\ n < Len(q) /\ s = q[n+1] BY <1>6, <1>7, <3>1
    <3> QED BY <1>1, <3>2
  <2>2. ASSUME NEW s \in R PROVE s \in Listed
    <3>1. PICK n \in 1..Len(q) : s = q[n] BY <2>2
    <3>2. n - 1 \in 0..Cardinality(Streams) BY <1>1, <1>4, <1>6, <3>1
    <3>3. Node(n - 1) = q[n] /\ q[n] # NULL BY <1>1, <1>7, <3>1
    <3> QED BY <3>1, <3>2, <3>3 DEF Listed
  <2> QED BY <2>1, <2>2
<1>9. Node(Len(q)) = NULL BY <1>1, <1>7
<1> HIDE DEF R
<1> QED BY <1>5, <1>8, <1>9 DEF R

\* AddOpenStream puts a stream that is not in the list in front of it.
LEMMA ListAfterAdd ==
  ASSUME NEW q, IsOpenList(q), FrontAssumption, TypeInv, NEW s \in Streams,
         s \notin LiveStreams, AddOpenStream(s), lost' = lost,
         LiveStreams' = LiveStreams \cup {s}, lost \subseteq LiveStreams
  PROVE  (\E p : IsOpenList(p))'
<1> DEFINE L == Len(q)
           p == [n \in 1..L+1 |-> IF n = 1 THEN s ELSE q[n-1]]
<1>1. /\ L \in Nat /\ q \in Seq(Streams)
      /\ \A m, n \in 1..L : q[m] = q[n] => m = n
      /\ firstOpenStream = IF L = 0 THEN NULL ELSE q[1]
      /\ \A n \in 1..L : nextOpenStream[q[n]] = IF n = L THEN NULL ELSE q[n+1]
      /\ \A x \in Streams : x \in LiveStreams \ lost <=> \E n \in 1..L : q[n] = x
      /\ \A n \in 1..L : q[n] \in Streams
  BY DEF IsOpenList
<1>2. \A n \in 1..L : q[n] # s BY <1>1
<1>3. p \in Seq(Streams) /\ Len(p) = L + 1 BY <1>1
<1>4. p[1] = s /\ \A n \in 1..L : p[n+1] = q[n] BY <1>1
<1>5. ASSUME NEW n \in 1..L+1, n # 1 PROVE n - 1 \in 1..L /\ p[n] = q[n-1]
  <2>1. p[n] = q[n-1] BY <1>5
  <2> HIDE DEF L, p
  <2>2. n - 1 \in 1..L BY <1>1, <1>5
  <2> QED BY <2>1, <2>2
<1> HIDE DEF L, p
<1>6. \A m, n \in 1..L+1 : p[m] = p[n] => m = n BY <1>1, <1>2, <1>4, <1>5
<1>7. firstOpenStream' = p[1] /\ L + 1 # 0 BY <1>1, <1>4 DEF AddOpenStream
<1>8. ASSUME NEW n \in 1..L+1
      PROVE  nextOpenStream'[p[n]] = IF n = L + 1 THEN NULL ELSE p[n+1]
  <2>1. CASE n = 1
    <3>1. nextOpenStream'[s] = firstOpenStream BY DEF AddOpenStream, TypeInv
    <3>2. CASE L = 0 BY <1>1, <1>4, <2>1, <3>1, <3>2
    <3>3. CASE L # 0
      <4>1. 1 \in 1..L BY <1>1, <3>3
      <4>2. p[1+1] = q[1] BY <1>4, <4>1
      <4> QED BY <1>1, <1>4, <2>1, <3>1, <3>3, <4>2
    <3> QED BY <3>2, <3>3
  <2>2. CASE n # 1
    <3>1. n - 1 \in 1..L /\ p[n] = q[n-1] /\ q[n-1] # s /\ q[n-1] \in Streams
      BY <1>1, <1>2, <1>5, <2>2
    <3>2. nextOpenStream'[q[n-1]] = nextOpenStream[q[n-1]]
      BY <3>1 DEF AddOpenStream, TypeInv
    <3>3. nextOpenStream[q[n-1]] = IF n - 1 = L THEN NULL ELSE q[n]
      <4>1. (n - 1) + 1 = n OBVIOUS
      <4>2. nextOpenStream[q[n-1]] = IF n - 1 = L THEN NULL ELSE q[(n-1)+1] BY <1>1, <3>1
      <4> QED BY <4>1, <4>2
    <3>4. n # L + 1 => p[n+1] = q[n] /\ n \in 1..L BY <1>1, <1>4, <2>2
    <3> QED BY <1>1, <3>1, <3>2, <3>3, <3>4
  <2> QED BY <2>1, <2>2
<1>9. ASSUME NEW x \in Streams
      PROVE  x \in LiveStreams' \ lost' <=> \E n \in 1..L+1 : p[n] = x
  <2>1. ASSUME x \in LiveStreams' \ lost' PROVE \E n \in 1..L+1 : p[n] = x
    <3>1. CASE x = s BY <1>1, <1>4, <3>1
    <3>2. CASE x # s
      <4>1. PICK n \in 1..L : q[n] = x BY <1>1, <2>1, <3>2
      <4>2. n + 1 \in 1..L+1 /\ p[n+1] = x BY <1>1, <1>4, <4>1
      <4> QED BY <4>2
    <3> QED BY <3>1, <3>2
  <2>2. ASSUME NEW n \in 1..L+1, p[n] = x PROVE x \in LiveStreams' \ lost'
    <3>1. CASE n = 1 BY <1>4, <2>2, <3>1
    <3>2. CASE n # 1 BY <1>1, <1>5, <2>2, <3>2
    <3> QED BY <3>1, <3>2
  <2> QED BY <2>1, <2>2
<1>10. IsOpenList(p)'
  BY <1>3, <1>6, <1>7, <1>8, <1>9 DEF IsOpenList
<1> QED BY <1>10

\* RemoveOpenStream takes a stream off the list wherever it is in it, and
\* leaves the list alone when it is not there: then it has been lost before.
LEMMA ListAfterRemove ==
  ASSUME NEW q, IsOpenList(q), FrontAssumption, TypeInv, NEW s \in Streams,
         RemoveOpenStream(s),
         \A x \in Streams : x \in LiveStreams' \ lost'
                              <=> x # s /\ x \in LiveStreams \ lost
  PROVE  (\E p : IsOpenList(p))'
<1> DEFINE L == Len(q)
<1>1. /\ L \in Nat /\ q \in Seq(Streams)
      /\ \A m, n \in 1..L : q[m] = q[n] => m = n
      /\ firstOpenStream = IF L = 0 THEN NULL ELSE q[1]
      /\ \A n \in 1..L : nextOpenStream[q[n]] = IF n = L THEN NULL ELSE q[n+1]
      /\ \A x \in Streams : x \in LiveStreams \ lost <=> \E n \in 1..L : q[n] = x
      /\ \A n \in 1..L : q[n] \in Streams
      /\ s # NULL
  BY DEF IsOpenList, FrontAssumption
<1>2. Listed = {q[n] : n \in 1..L} BY ListedAre
<1>3. ASSUME NEW n \in 1..L
      PROVE  nextOpenStream'[q[n]] = IF firstOpenStream # s /\ nextOpenStream[q[n]] = s
                                       THEN nextOpenStream[s] ELSE nextOpenStream[q[n]]
  BY <1>1, <1>2 DEF RemoveOpenStream
<1>4. firstOpenStream' = IF firstOpenStream = s THEN nextOpenStream[s] ELSE firstOpenStream
  BY DEF RemoveOpenStream
<1>5. CASE \A n \in 1..L : q[n] # s
  <2>1. firstOpenStream # s
    <3>1. CASE L = 0 BY <1>1, <3>1
    <3>2. CASE L # 0
      <4>1. 1 \in 1..L BY <1>1, <3>2
      <4> QED BY <1>1, <1>5, <3>2, <4>1
    <3> QED BY <3>1, <3>2
  <2>2. ASSUME NEW n \in 1..L PROVE nextOpenStream'[q[n]] = nextOpenStream[q[n]]
    <3>1. nextOpenStream[q[n]] # s
      <4>1. CASE n = L BY <1>1, <4>1
      <4>2. CASE n # L
        <5>1. n + 1 \in 1..L BY <1>1, <4>2
        <5> QED BY <1>1, <1>5, <4>2, <5>1
      <4> QED BY <4>1, <4>2
    <3> QED BY <1>3, <3>1
  <2>3. \A x \in Streams : x \in LiveStreams' \ lost' <=> \E n \in 1..L : q[n] = x
    BY <1>1, <1>5
  <2>4. IsOpenList(q)' BY <1>1, <1>4, <2>1, <2>2, <2>3 DEF IsOpenList
  <2> QED BY <2>4
<1>6. ASSUME NEW j \in 1..L, q[j] = s PROVE (\E p : IsOpenList(p))'
  <2> DEFINE p == [n \in 1..L-1 |-> IF n < j THEN q[n] ELSE q[n+1]]
             at(n) == IF n < j THEN n ELSE n + 1
  <2>1. \A n \in 1..L-1 : at(n) \in 1..L /\ at(n) # j
    <3> HIDE DEF L
    <3> QED BY <1>1
  <2>2. \A n \in 1..L-1 : p[n] = q[at(n)] OBVIOUS
  <2>3. p \in Seq(Streams) /\ Len(p) = L - 1
    <3>1. \A n \in 1..L-1 : p[n] \in Streams BY <1>1, <2>1, <2>2
    <3>2. L - 1 \in Nat BY <1>1
    <3> QED BY <3>1, <3>2
  <2>4. \A n \in 1..L : n # j => \E k \in 1..L-1 : at(k) = n
    <3> SUFFICES ASSUME NEW n \in 1..L, n # j PROVE \E k \in 1..L-1 : at(k) = n OBVIOUS
    <3> HIDE DEF L
    <3>1. CASE n < j
      <4>1. n \in 1..L-1 /\ at(n) = n BY <1>1, <3>1
      <4> QED BY <4>1
    <3>2. CASE ~(n < j)
      <4>1. n - 1 \in 1..L-1 /\ at(n - 1) = n BY <1>1, <3>2
      <4> QED BY <4>1
    <3> QED BY <3>1, <3>2
  <2> HIDE DEF L, p
  <2>5. \A m, n \in 1..L-1 : p[m] = p[n] => m = n
    <3> SUFFICES ASSUME NEW m \in 1..L-1, NEW n \in 1..L-1, p[m] = p[n] PROVE m = n
      OBVIOUS
    <3>1. at(m) = at(n) BY <1>1, <2>1, <2>2, SMTT(30)
    <3> QED BY <1>1, <3>1
  <2>6. nextOpenStream[s] = IF j = L THEN NULL ELSE q[j+1] BY <1>1, <1>6
  <2>7. firstOpenStream = s <=> j = 1
    <3>1. 1 \in 1..L /\ L # 0 BY <1>1
    <3> QED BY <1>1, <1>6, <3>1
  <2>8. firstOpenStream' = IF L - 1 = 0 THEN NULL ELSE p[1]
    <3>1. CASE j = 1
      <4>1. CASE L = 1 BY <1>1, <1>4, <2>6, <2>7, <3>1, <4>1
      <4>2. CASE L # 1
        <5>1. 1 \in 1..L-1 /\ at(1) = 2 BY <1>1, <3>1, <4>2
        <5> QED BY <1>1, <1>4, <2>2, <2>6, <2>7, <3>1, <4>2, <5>1
      <4> QED BY <4>1, <4>2
    <3>2. CASE j # 1
      <4>1. 1 \in 1..L-1 /\ at(1) = 1 /\ L # 0 /\ L - 1 # 0 BY <1>1, <3>2
      <4> QED BY <1>1, <1>4, <2>2, <2>7, <3>2, <4>1
    <3> QED BY <3>1, <3>2
  <2>9. ASSUME NEW n \in 1..L-1
        PROVE  nextOpenStream'[p[n]] = IF n = L - 1 THEN NULL ELSE p[n+1]
    <3> DEFINE k == at(n)
    <3>1. k \in 1..L /\ k # j /\ p[n] = q[k] BY <2>1, <2>2
    <3>2. nextOpenStream[q[k]] = s <=> k + 1 = j
      <4>1. CASE k = L BY <1>1, <3>1, <4>1
      <4>2. CASE k # L
        <5>1. k + 1 \in 1..L BY <1>1, <3>1, <4>2
        <5>2. nextOpenStream[q[k]] = q[k+1] BY <1>1, <3>1, <4>2
        <5> QED BY <1>1, <1>6, <5>1, <5>2
      <4> QED BY <4>1, <4>2
    <3>3. CASE k + 1 = j
      <4>1. n + 1 = j /\ j # 1 BY <1>1, <3>3
      <4>2. nextOpenStream'[p[n]] = nextOpenStream[s]
        BY <1>3, <2>7, <3>1, <3>2, <3>3, <4>1
      <4>3. CASE j = L BY <1>1, <2>6, <4>1, <4>2, <4>3
      <4>4. CASE j # L
        <5>1. n + 1 \in 1..L-1 /\ at(n + 1) = j + 1 /\ n # L - 1 BY <1>1, <4>1, <4>4
        <5> QED BY <2>2, <2>6, <4>2, <4>4, <5>1
      <4> QED BY <4>3, <4>4
    <3>4. CASE k + 1 # j
      <4>1. nextOpenStream'[p[n]] = IF k = L THEN NULL ELSE q[k+1]
        BY <1>1, <1>3, <3>1, <3>2, <3>4
      <4>2. k = L <=> n = L - 1 BY <1>1, <3>4
      <4>3. n # L - 1 => n + 1 \in 1..L-1 /\ at(n + 1) = k + 1 BY <1>1, <3>4
      <4> QED BY <2>2, <4>1, <4>2, <4>3
    <3> QED BY <3>3, <3>4
  <2>10. ASSUME NEW x \in Streams
         PROVE  x \in LiveStreams' \ lost' <=> \E n \in 1..L-1 : p[n] = x
    <3>1. ASSUME x \in LiveStreams' \ lost' PROVE \E n \in 1..L-1 : p[n] = x
      <4>1. PICK n \in 1..L : q[n] = x /\ n # j BY <1>1, <1>6, <3>1
      <4>2. PICK m \in 1..L-1 : at(m) = n BY <2>4, <4>1
      <4> QED BY <2>2, <4>1, <4>2
    <3>2. ASSUME NEW n \in 1..L-1, p[n] = x PROVE x \in LiveStreams' \ lost'
      BY <1>1, <1>6, <2>1, <2>2, <3>2
    <3> QED BY <3>1, <3>2
  <2>11. IsOpenList(p)' BY <2>3, <2>5, <2>8, <2>9, <2>10 DEF IsOpenList
  <2> QED BY <2>11
<1> HIDE DEF L
<1> QED BY <1>5, <1>6

-----------------------------------------------------------------------------
(* Device indices.                                                         *)

\* The parts of a host API have the types of its record.
LEMMA HostApiParts ==
  ASSUME TypeInv
  PROVE  /\ Apis \in Nat
         /\ \A n \in 1..Apis :
              /\ hostApis[n] \in HostApiRecord
              /\ Base(n) \in Nat /\ Devices(n) \in Nat /\ After(n) \in Nat
              /\ Name(n) \in (1..MaxEpochs) \X (0..InitializerCount-1)
              /\ hostApis[n].type \in 0..InitializerCount-1
              /\ Defaults(n) \subseteq Nat
<1>1. Apis \in Nat /\ \A n \in 1..Apis : hostApis[n] \in HostApiRecord
  BY DEF TypeInv, Apis
<1>2. ASSUME NEW r \in HostApiRecord
      PROVE  /\ r.deviceCount \in Nat /\ r.baseDeviceIndex \in Nat
             /\ r.epoch \in 1..MaxEpochs /\ r.type \in 0..InitializerCount-1
             /\ r.defaultInputDevice \in Nat \cup {paNoDevice}
             /\ r.defaultOutputDevice \in Nat \cup {paNoDevice}
  BY DEF HostApiRecord
<1>3. \A a, b \in Nat : a + b \in Nat OBVIOUS
<1> QED BY <1>1, <1>2, <1>3 DEF Base, Devices, After, Name, Defaults

\* Adding up the device counts of the host APIs before one gives its base.
LEMMA FindIs ==
  ASSUME TypeInv, DeviceInv, NEW device \in Int
  PROVE  FindHostApi(device) =
           LET ns == {n \in 0..Apis-1 : device < After(n+1)}
           IN  IF ~PA_IS_INITIALISED \/ device < 0 \/ ns = {} THEN -1
               ELSE CHOOSE n \in ns : \A k \in ns : n <= k
<1> DEFINE want(k) == IF k = 0 THEN 0 ELSE After(k)
           f == [k \in 0..Apis |-> want(k)]
           IsSkipped(g) == g = [n \in 0..Apis |->
                             IF n = 0 THEN 0 ELSE g[n-1] + HostApi(n-1).deviceCount]
           skipped == CHOOSE g : IsSkipped(g)
           ns == {n \in 0..Apis-1 : device < After(n+1)}
<1>1. FindHostApi(device) =
        LET xs == {n \in 0..Apis-1 : device - skipped[n] < HostApi(n).deviceCount}
        IN  IF ~PA_IS_INITIALISED \/ device < 0 \/ xs = {} THEN -1
            ELSE CHOOSE n \in xs : \A k \in xs : n <= k
  BY DEF FindHostApi, hostApisCount, Apis
<1>2. Apis \in Nat /\ \A n \in 1..Apis : Base(n) \in Nat /\ Devices(n) \in Nat
  BY HostApiParts
<1>3. \A n \in 0..Apis-1 : want(n) = Base(n+1)
  BY <1>2 DEF DeviceInv
<1>4. \A n \in 0..Apis : n # 0 =>
        /\ n - 1 \in 0..Apis
        /\ want(n) = want(n-1) + HostApi(n-1).deviceCount
  <2> SUFFICES ASSUME NEW n \in 0..Apis, n # 0
               PROVE  /\ n - 1 \in 0..Apis
                      /\ want(n) = want(n-1) + HostApi(n-1).deviceCount
    OBVIOUS
  <2>1. n - 1 \in 0..Apis-1 /\ n \in 1..Apis /\ (n - 1) + 1 = n BY <1>2
  <2>2. want(n-1) = Base(n) BY <1>3, <2>1
  <2>3. HostApi(n-1).deviceCount = Devices(n) BY <2>1 DEF HostApi, Devices
  <2>4. want(n) = Base(n) + Devices(n) BY <2>1 DEF After
  <2> HIDE DEF want
  <2> QED BY <1>2, <2>1, <2>2, <2>3, <2>4
<1>5. want(0) = 0 OBVIOUS
<1> HIDE DEF want
<1>6. IsSkipped(f)
  <2>1. \A k \in 0..Apis : f[k] = want(k) OBVIOUS
  <2>2. \A k \in 0..Apis : want(k) =
          IF k = 0 THEN 0 ELSE f[k-1] + HostApi(k-1).deviceCount
    BY <1>4, <1>5, <2>1
  <2> QED BY <2>2
<1>7. IsSkipped(skipped)
  <2> HIDE DEF IsSkipped, f
  <2> QED BY <1>6
<1>8. Nat \subseteq {k \in Nat : k <= Apis => skipped[k] = want(k)}
  <2> DEFINE S == {k \in Nat : k <= Apis => skipped[k] = want(k)}
  <2> HIDE DEF skipped
  <2>0. \A k \in 0..Apis : skipped[k] =
          IF k = 0 THEN 0 ELSE skipped[k-1] + HostApi(k-1).deviceCount
    BY <1>7
  <2>1. 0 \in S BY <1>2, <1>5, <2>0
  <2>2. ASSUME NEW k \in Nat, k \in S PROVE k + 1 \in S
    <3> SUFFICES ASSUME k + 1 <= Apis PROVE skipped[k+1] = want(k+1) OBVIOUS
    <3>1. skipped[k] = want(k) /\ k + 1 \in 0..Apis /\ k + 1 # 0 /\ (k + 1) - 1 = k
      BY <1>2, <2>2
    <3> QED BY <1>4, <2>0, <3>1
  <2> HIDE DEF S
  <2>3. Nat \subseteq S BY <2>1, <2>2, SetInduction
  <2> QED BY <2>3 DEF S
<1>9. ASSUME NEW n \in 0..Apis-1
      PROVE  device - skipped[n] < HostApi(n).deviceCount <=> device < After(n+1)
  <2>1. skipped[n] = Base(n+1) BY <1>2, <1>3, <1>8
  <2>2. HostApi(n).deviceCount = Devices(n+1) BY DEF HostApi, Devices
  <2>3. Base(n+1) \in Nat /\ Devices(n+1) \in Nat BY <1>2
  <2> HIDE DEF skipped
  <2> QED BY <2>1, <2>2, <2>3 DEF After
<1> HIDE DEF skipped
<1>10. {n \in 0..Apis-1 : device - skipped[n] < HostApi(n).deviceCount} = ns BY <1>9
<1> HIDE DEF ns
<1> QED BY <1>1, <1>10 DEF ns

\* FindHostApi finds the host API among whose devices the device is, if any.
LEMMA Finds ==
  ASSUME TypeInv, DeviceInv, NEW device \in Int, NEW n, n = FindHostApi(device)
  PROVE  /\ n = -1 \/ n \in 0..Apis-1
         /\ PA_IS_INITIALISED => \A m \in 1..Apis :
              Base(m) <= device /\ device < After(m) => n = m - 1
         /\ PA_IS_INITIALISED /\ pc # "terminateHostApis" =>
              IF device \in 0..deviceCount-1
                THEN n \in 0..Apis-1 /\ Base(n+1) <= device /\ device < After(n+1)
                ELSE n = -1
<1> DEFINE ns == {k \in 0..Apis-1 : device < After(k+1)}
<1>1. n = IF ~PA_IS_INITIALISED \/ device < 0 \/ ns = {} THEN -1
          ELSE CHOOSE k \in ns : \A x \in ns : k <= x
  BY FindIs
<1>2. /\ Apis \in Nat /\ deviceCount \in Nat
      /\ \A k \in 1..Apis : Base(k) \in Nat /\ Devices(k) \in Nat /\ After(k) \in Nat
  BY HostApiParts DEF TypeInv
<1>3. ns \in SUBSET Nat BY <1>2
<1>4. \A k \in ns : k \in 0..Apis-1 /\ k + 1 \in 1..Apis /\ device < After(k+1) BY <1>2
<1>5. \A k \in 0..Apis-1 : device < After(k+1) => k \in ns OBVIOUS
<1> HIDE DEF ns
<1>6. ns # {} => \E k \in ns : \A x \in ns : k <= x BY <1>3, SmallestExists
<1>7. PA_IS_INITIALISED /\ device >= 0 /\ ns # {} => n \in ns /\ \A x \in ns : n <= x
  <2> SUFFICES ASSUME PA_IS_INITIALISED, device >= 0, ns # {}
               PROVE  n \in ns /\ \A x \in ns : n <= x
    OBVIOUS
  <2>1. n = CHOOSE k \in ns : \A x \in ns : k <= x BY <1>1
  <2> QED BY <1>6, <2>1
<1>8. n = -1 \/ n \in 0..Apis-1 BY <1>1, <1>4, <1>7
<1>9. ASSUME PA_IS_INITIALISED, NEW m \in 1..Apis, Base(m) <= device, device < After(m)
      PROVE  n = m - 1
  <2>1. m - 1 \in 0..Apis-1 /\ (m - 1) + 1 = m /\ device >= 0 BY <1>2, <1>9
  <2>2. m - 1 \in ns BY <1>5, <1>9, <2>1
  <2>3. n \in ns /\ n <= m - 1 BY <1>7, <1>9, <2>1, <2>2
  <2>4. n + 1 \in 1..Apis /\ device < After(n+1) BY <1>4, <2>3
  <2>5. n + 1 < m => After(n+1) <= Base(m) BY <2>4 DEF DeviceInv
  <2> QED BY <1>2, <1>9, <2>3, <2>4, <2>5, <1>4
<1>10. ASSUME PA_IS_INITIALISED, pc # "terminateHostApis", device \in 0..deviceCount-1
       PROVE  n \in 0..Apis-1 /\ Base(n+1) <= device /\ device < After(n+1)
  <2>1. Apis # 0 /\ device < After(Apis) BY <1>2, <1>10 DEF DeviceInv
  <2>2. Apis - 1 \in 0..Apis-1 /\ (Apis - 1) + 1 = Apis BY <1>2, <2>1
  <2>3. n \in ns /\ \A x \in ns : n <= x BY <1>5, <1>7, <1>10, <2>1, <2>2
  <2>4. n \in 0..Apis-1 /\ device < After(n+1) BY <1>4, <2>3
  <2>5. CASE n = 0 BY <1>2, <1>10, <2>1, <2>4, <2>5 DEF DeviceInv
  <2>6. CASE n # 0
    <3>1. n \in 1..Apis-1 /\ n - 1 \in 0..Apis-1 /\ (n - 1) + 1 = n BY <1>2, <2>4, <2>6
    <3>2. ~(device < After(n)) BY <1>2, <1>5, <2>3, <3>1
    <3>3. Base(n+1) = After(n) BY <3>1 DEF DeviceInv
    <3>4. n \in 1..Apis BY <1>2, <3>1
    <3> QED BY <1>2, <2>4, <3>2, <3>3, <3>4
  <2> QED BY <2>5, <2>6
<1>11. ASSUME PA_IS_INITIALISED, pc # "terminateHostApis", device \notin 0..deviceCount-1
       PROVE  n = -1
  <2>1. \A k \in 1..Apis : After(k) <= deviceCount BY <1>11 DEF DeviceInv
  <2>2. device < 0 \/ ns = {} BY <1>2, <1>4, <1>11, <2>1
  <2> QED BY <1>1, <2>2
<1> QED BY <1>8, <1>9, <1>10, <1>11

-----------------------------------------------------------------------------
(* Every step preserves the invariant.                                     *)

LEMMA InitInv ==
  ASSUME FrontAssumption, Init
  PROVE  IInv
<1>1. Apis = 0 /\ hostApis = <<>> /\ LiveStreams = {} /\ lost = {}
  BY DEF Init, Apis, LiveStreams
<1>2. TypeInv BY DEF Init, TypeInv, NoHostApi, FrontAssumption, paNoDevice
<1>3. HostApiInv BY <1>1, FS_EmptySet DEF Init, HostApiInv, FrontAssumption
<1>4. DeviceInv /\ DefaultInv /\ PhaseInv
  BY <1>1 DEF Init, DeviceInv, DefaultInv, PhaseInv
<1>5. IsOpenList(<<>>) BY <1>1 DEF Init, IsOpenList
<1>6. StreamInv BY <1>1, <1>5 DEF StreamInv
<1> QED BY <1>2, <1>3, <1>4, <1>6 DEF IInv

\* What a step that leaves the open streams alone leaves alone.
LEMMA OpenListStays ==
  ASSUME StreamInv, UNCHANGED <<openStreams, stream, lost>>
  PROVE  /\ (\E r : IsOpenList(r))'
         /\ LiveStreams' = LiveStreams /\ (lost \subseteq LiveStreams)'
<1>1. LiveStreams' = LiveStreams BY DEF LiveStreams, openStreams
<1>2. PICK q : IsOpenList(q) BY DEF StreamInv
<1>3. IsOpenList(q)' BY <1>1, <1>2 DEF IsOpenList, openStreams
<1> QED BY <1>1, <1>3 DEF StreamInv

LEMMA InitializeInv ==
  ASSUME FrontAssumption, IInv, Initialize
  PROVE  IInv'
<1> USE DEF Initialize, streamVars, openStreams
<1>1. hostApis = <<>> /\ Apis = 0 /\ Apis' = 0 /\ hostApis' = <<>>
  BY DEF IInv, PhaseInv, PA_IS_INITIALISED, Apis
<1>2. TypeInv' BY <1>1 DEF IInv, TypeInv, FrontAssumption
<1>3. HostApiInv' BY <1>1 DEF IInv, HostApiInv, TypeInv
<1>4. DeviceInv' /\ DefaultInv' BY <1>1 DEF DeviceInv, DefaultInv
<1>5. LiveStreams' = LiveStreams BY DEF LiveStreams
<1>6. PhaseInv' BY <1>1, <1>5 DEF IInv, PhaseInv, PA_IS_INITIALISED, TypeInv
<1>7. StreamInv' BY <1>5, OpenListStays DEF IInv, StreamInv, NoSpecificTypes
<1> QED BY <1>2, <1>3, <1>4, <1>6, <1>7 DEF IInv

LEMMA InitializeHostApiInv ==
  ASSUME FrontAssumption, IInv, i < InitializerCount, NEW r \in InitializerResults[i],
         InitializeHostApi(r)
  PROVE  IInv'
<1> DEFINE in == GlobalIndex(r.defaultInputDevice, baseDeviceIndex)
           out == GlobalIndex(r.defaultOutputDevice, baseDeviceIndex)
           h == [type |-> i, epoch |-> epoch, deviceCount |-> r.deviceCount,
                 baseDeviceIndex |-> baseDeviceIndex,
                 defaultInputDevice |-> in, defaultOutputDevice |-> out]
<1>0. /\ pc = "initializeHostApi" /\ hostApis' = Append(hostApis, h)
      /\ initialized' = initialized \cup {<<epoch, i>>}
      /\ baseDeviceIndex' = baseDeviceIndex + r.deviceCount
      /\ deviceCount' = deviceCount + r.deviceCount /\ i' = i + 1
      /\ UNCHANGED <<initializationCount, firstOpenStream, nextOpenStream, epoch,
                     stream, hostApiOf, lost, call, pc>>
  BY DEF InitializeHostApi, openStreams, streamVars
<1>1. /\ r.deviceCount \in Nat
      /\ r.defaultInputDevice \in Nat \cup {paNoDevice}
      /\ r.defaultOutputDevice \in Nat \cup {paNoDevice}
      /\ r.defaultInputDevice < r.deviceCount /\ r.defaultOutputDevice < r.deviceCount
  <2>1. i \in 0..InitializerCount-1 BY DEF IInv, TypeInv, FrontAssumption
  <2>2. /\ r \in InitializerResult
        /\ r.defaultInputDevice < r.deviceCount /\ r.defaultOutputDevice < r.deviceCount
    BY <2>1 DEF FrontAssumption
  <2> QED BY <2>2 DEF InitializerResult
<1>2. /\ pc = "initializeHostApi" /\ i \in Nat /\ epoch \in 1..MaxEpochs
      /\ baseDeviceIndex \in Nat /\ deviceCount = baseDeviceIndex
      /\ epoch \in Nat /\ MaxEpochs \in Nat /\ InitializerCount \in Nat
      /\ i \in 0..InitializerCount-1
  BY <1>0 DEF IInv, TypeInv, PhaseInv, DeviceInv, FrontAssumption
<1>3. /\ in \in Nat \cup {paNoDevice} /\ out \in Nat \cup {paNoDevice}
      /\ in # paNoDevice => baseDeviceIndex <= in /\ in < baseDeviceIndex + r.deviceCount
      /\ out # paNoDevice => baseDeviceIndex <= out /\ out < baseDeviceIndex + r.deviceCount
      /\ in # paNoDevice <=> r.defaultInputDevice # paNoDevice
      /\ out # paNoDevice <=> r.defaultOutputDevice # paNoDevice
  <2>1. ASSUME NEW x \in Nat \cup {paNoDevice}, x < r.deviceCount
        PROVE  LET g == GlobalIndex(x, baseDeviceIndex)
               IN  /\ g \in Nat \cup {paNoDevice}
                   /\ g # paNoDevice => baseDeviceIndex <= g /\ g < baseDeviceIndex + r.deviceCount
                   /\ g # paNoDevice <=> x # paNoDevice
    BY <1>1, <1>2, <2>1 DEF GlobalIndex, paNoDevice
  <2> QED BY <1>1, <2>1
<1>4. hostApis' = Append(hostApis, h) BY <1>0
<1> HIDE DEF in, out
<1>5. h \in HostApiRecord BY <1>1, <1>2, <1>3 DEF HostApiRecord
<1>l. PICK L \in Nat, D \in Int : L = Apis /\ D = defaultHostApiIndex
  BY HostApiParts DEF IInv, TypeInv
<1>6. /\ L \in Nat /\ L = Apis /\ L = Len(hostApis) /\ hostApis \in Seq(HostApiRecord)
      /\ \A n \in 1..L : Base(n) \in Nat /\ Devices(n) \in Nat /\ After(n) \in Nat
  BY <1>l, HostApiParts DEF IInv, TypeInv, Apis
<1>7. /\ hostApis' \in Seq(HostApiRecord) /\ Apis' = L + 1
      /\ \A n \in 1..L : hostApis'[n] = hostApis[n]
      /\ hostApis'[L+1] = h
  BY <1>4, <1>5, <1>6 DEF Apis
<1>8. /\ h.type = i /\ h.epoch = epoch /\ h.deviceCount = r.deviceCount
      /\ h.baseDeviceIndex = baseDeviceIndex
      /\ h.defaultInputDevice = in /\ h.defaultOutputDevice = out
  OBVIOUS
<1> HIDE DEF h
<1>9. \A n \in 1..L : Base(n)' = Base(n) /\ Devices(n)' = Devices(n)
                         /\ After(n)' = After(n) /\ Name(n)' = Name(n)
                         /\ Defaults(n)' = Defaults(n)
  BY <1>7 DEF Base, Devices, After, Name, Defaults
<1>10. /\ Base(L+1)' = baseDeviceIndex /\ After(L+1)' = baseDeviceIndex + r.deviceCount
       /\ Name(L+1)' = <<epoch, i>> /\ Defaults(L+1)' = {in, out} \ {paNoDevice}
  BY <1>1, <1>2, <1>3, <1>6, <1>7, <1>8 DEF Base, Devices, After, Name, Defaults
<1>11. 1..Apis' = (1..L) \cup {L+1} BY <1>6, <1>7
<1>12. TypeInv'
  <2>1. defaultHostApiIndex' \in -1..InitializerCount
    BY <1>2, <1>6 DEF InitializeHostApi, IInv, TypeInv, HostApiInv, hostApisCount
  <2>2. initialized' \subseteq (1..MaxEpochs) \X (0..InitializerCount-1)
    BY <1>0, <1>2, SMTT(30) DEF IInv, TypeInv
  <2>3. hostApis' \in Seq(HostApiRecord) BY <1>7
  <2>4. /\ deviceCount' \in Nat /\ baseDeviceIndex' \in Nat
        /\ i' \in 0..InitializerCount /\ pc' = pc
    BY <1>0, <1>1, <1>2
  <2>5. UNCHANGED <<initializationCount, firstOpenStream, nextOpenStream, epoch, stream,
                    hostApiOf, lost, call>>
    BY <1>0
  <2>6. TypeInv BY DEF IInv
  <2>7. /\ initializationCount' \in 0..MaxInitializations /\ epoch' \in 0..MaxEpochs
        /\ firstOpenStream' \in Streams \cup {NULL}
        /\ nextOpenStream' \in [Streams -> Streams \cup {NULL}]
        /\ lost' \subseteq Streams
    BY <2>5, <2>6 DEF TypeInv
  <2>8. /\ stream' \in [Streams -> {"free", "stopped", "running", "hung"}]
        /\ hostApiOf' \in [Streams -> (0..MaxEpochs) \X Int]
        /\ call' \in {"none", "Pa_Initialize", "Pa_Terminate"}
    BY <2>5, <2>6 DEF TypeInv
  <2>9. pc' \in {"idle", "initializeHostApi", "closeOpenStreams", "terminateHostApis"}
    BY <1>2, <2>4
  <2> QED BY <2>1, <2>2, <2>3, <2>4, <2>7, <2>8, <2>9 DEF TypeInv
<1>13. HostApiInv'
  <2>1. <<epoch, i>> \notin {Name(n) : n \in 1..L}
    <3>1. \A n \in 1..L : hostApis[n].type < i BY <1>l, <1>2 DEF IInv, HostApiInv
    <3>2. \A n \in 1..L : hostApis[n].type # i BY <1>2, <3>1
    <3> QED BY <3>2 DEF Name
  <2>2. IsFiniteSet(initialized') /\ Cardinality(initialized') = L + 1
    BY <1>6, <1>0, <2>1, FS_AddElement DEF IInv, HostApiInv
  <2>3. initialized' = {Name(n)' : n \in 1..Apis'}
    BY <1>6, <1>0, <1>9, <1>10, <1>11 DEF IInv, HostApiInv
  <2>4. L + 1 <= i + 1 /\ i' = i + 1 /\ pc' = pc /\ epoch' = epoch
    BY <1>0, <1>2, <1>6 DEF IInv, HostApiInv
  <2>5. \A n \in 1..Apis' : hostApis'[n].epoch = epoch /\ hostApis'[n].type < i + 1
    <3> SUFFICES ASSUME NEW n \in 1..Apis'
                 PROVE  hostApis'[n].epoch = epoch /\ hostApis'[n].type < i + 1
      OBVIOUS
    <3>1. CASE n = L + 1 BY <1>2, <1>7, <1>8, <3>1
    <3>2. CASE n \in 1..L
      <4>1. hostApis[n].type \in 0..InitializerCount-1 BY <1>l, <3>2, HostApiParts DEF IInv
      <4>2. hostApis[n].type < i /\ hostApis[n].epoch = epoch
        BY <1>l, <1>2, <3>2 DEF IInv, HostApiInv
      <4> QED BY <1>2, <1>7, <3>2, <4>1, <4>2
    <3> QED BY <1>11, <3>1, <3>2
  <2>6. \A m, n \in 1..Apis' : m < n => hostApis'[m].type < hostApis'[n].type
    <3> SUFFICES ASSUME NEW m \in 1..Apis', NEW n \in 1..Apis', m < n
                 PROVE  hostApis'[m].type < hostApis'[n].type
      OBVIOUS
    <3>1. m \in 1..L BY <1>6, <1>7
    <3>2. CASE n = L + 1 BY <1>6, <1>2, <1>7, <1>8, <3>1, <3>2 DEF IInv, HostApiInv
    <3>3. CASE n \in 1..L BY <1>6, <1>7, <3>1, <3>3 DEF IInv, HostApiInv
    <3> QED BY <1>11, <3>2, <3>3
  <2> QED BY <1>2, <1>6, <1>7, <2>2, <2>3, <2>4, <2>5, <2>6 DEF HostApiInv
<1>14. DeviceInv'
  <2>1. deviceCount = IF L = 0 THEN 0 ELSE After(L) BY <1>2, <1>6 DEF IInv, DeviceInv
  <2>2. Base(1)' = 0
    <3>1. CASE L = 0 BY <1>2, <1>10, <2>1, <3>1
    <3>2. CASE L # 0
      <4>1. 1 \in 1..L BY <1>6, <3>2
      <4> QED BY <1>6, <1>9, <3>2, <4>1 DEF IInv, DeviceInv
    <3> QED BY <3>1, <3>2
  <2>3. ASSUME NEW n \in 1..Apis'-1 PROVE Base(n + 1)' = After(n)'
    <3>1. n \in 1..L BY <1>6, <1>7
    <3>2. CASE n = L BY <1>2, <1>6, <1>9, <1>10, <2>1, <3>1, <3>2
    <3>3. CASE n # L
      <4>1. n + 1 \in 1..L /\ n \in 1..L-1 BY <1>6, <3>1, <3>3
      <4>2. Base(n + 1) = After(n) BY <1>l, <4>1 DEF IInv, DeviceInv
      <4> QED BY <1>9, <3>1, <4>1, <4>2
    <3> QED BY <3>2, <3>3
  <2>4. \A n \in 1..L : After(n) <= deviceCount BY <1>2, <1>6 DEF IInv, DeviceInv
  <2>5. ASSUME NEW m \in 1..Apis', NEW n \in 1..Apis', m < n
        PROVE  After(m)' <= Base(n)'
    <3>1. m \in 1..L BY <1>6, <1>7, <2>5
    <3>2. CASE n = L + 1 BY <1>2, <1>9, <1>10, <2>4, <3>1, <3>2
    <3>3. CASE n \in 1..L BY <1>6, <1>9, <2>5, <3>1, <3>3 DEF IInv, DeviceInv
    <3> QED BY <1>11, <3>2, <3>3
  <2>6. ASSUME NEW n \in 1..Apis' PROVE After(n)' <= deviceCount'
    <3>1. CASE n = L + 1 BY <1>0, <1>1, <1>2, <1>10, <3>1
    <3>2. CASE n \in 1..L BY <1>0, <1>1, <1>2, <1>6, <1>9, <2>4, <3>2
    <3> QED BY <1>11, <3>1, <3>2
  <2>7. /\ deviceCount' = After(L+1)' /\ baseDeviceIndex' = deviceCount'
    BY <1>0, <1>2, <1>10
  <2>8. deviceCount' = After(Apis)' BY <1>7, <2>7 DEF After, Base, Devices
  <2>9. (Apis > 0 => Base(1) = 0)' BY <2>2
  <2>10. (\A n \in 1..Apis-1 : Base(n + 1) = After(n))' BY <2>3
  <2>11. (\A m, n \in 1..Apis : m < n => After(m) <= Base(n))' BY <2>5
  <2>12. (\A n \in 1..Apis : After(n) <= deviceCount)' BY <2>6
  <2>13. (deviceCount = IF Apis = 0 THEN 0 ELSE After(Apis))'
    <3>1. Apis' # 0 BY <1>6, <1>7
    <3> QED BY <2>8, <3>1
  <2>14. (pc = "initializeHostApi" => baseDeviceIndex = deviceCount)' BY <2>7
  <2> QED BY <2>9, <2>10, <2>11, <2>12, <2>13, <2>14 DEF DeviceInv
<1>15. DefaultInv'
  <2>1. ASSUME NEW n \in 1..Apis', NEW d \in Defaults(n)'
        PROVE  Base(n)' <= d /\ d < After(n)'
    <3>1. CASE n = L + 1 BY <1>3, <1>10, <2>1, <3>1
    <3>2. CASE n \in 1..L BY <1>6, <1>9, <2>1, <3>2 DEF IInv, DefaultInv
    <3> QED BY <1>11, <3>1, <3>2
  <2>2. defaultHostApiIndex' = IF defaultHostApiIndex = -1 /\ Defaults(L+1)' # {}
                                 THEN L ELSE defaultHostApiIndex
    <3>1. hostApisCount = L BY <1>6 DEF hostApisCount
    <3>2. Defaults(L+1)' # {} <=>
            r.defaultInputDevice # paNoDevice \/ r.defaultOutputDevice # paNoDevice
      BY <1>3, <1>10
    <3> QED BY <3>1, <3>2 DEF InitializeHostApi
  <2>3. IF defaultHostApiIndex = -1 THEN \A n \in 1..L : Defaults(n) = {}
        ELSE /\ defaultHostApiIndex \in 0..L-1
             /\ Defaults(defaultHostApiIndex + 1) # {}
    BY <1>2, <1>6 DEF IInv, DefaultInv
  <2>4. IF defaultHostApiIndex' = -1 THEN \A n \in 1..Apis' : Defaults(n)' = {}
        ELSE /\ defaultHostApiIndex' \in 0..L
             /\ Defaults(defaultHostApiIndex + 1)' # {}
    <3>1. CASE defaultHostApiIndex # -1
      <4>1. D + 1 \in 1..L /\ defaultHostApiIndex' = D BY <1>l, <2>2, <2>3, <3>1
      <4>2. Defaults(D + 1)' = Defaults(D + 1) BY <1>9, <4>1
      <4>3. Defaults(defaultHostApiIndex + 1)' # {}
        BY <1>l, <2>3, <3>1, <4>1, <4>2 DEF Defaults
      <4> QED BY <1>l, <2>3, <3>1, <4>1, <4>3
    <3>2. CASE defaultHostApiIndex = -1 /\ Defaults(L+1)' # {}
      <4>1. defaultHostApiIndex' = L BY <2>2, <3>2
      <4>2. Defaults(defaultHostApiIndex + 1)' # {} BY <3>2, <4>1 DEF Defaults
      <4> QED BY <1>6, <4>1, <4>2
    <3>3. CASE defaultHostApiIndex = -1 /\ Defaults(L+1)' = {}
      BY <1>9, <1>11, <2>2, <2>3, <3>3
    <3> QED BY <3>1, <3>2, <3>3
  <2>5. pc' = "initializeHostApi" BY <1>0
  <2> QED BY <1>6, <1>7, <2>1, <2>4, <2>5 DEF DefaultInv
<1>16. UNCHANGED <<openStreams, stream, lost, hostApiOf>> BY <1>0 DEF openStreams
<1>17. PhaseInv'
  <2>1. LiveStreams' = LiveStreams BY <1>16 DEF LiveStreams
  <2> QED BY <1>0, <1>2, <1>16, <2>1 DEF IInv, PhaseInv
<1>18. StreamInv' BY <1>0, <1>16, OpenListStays DEF IInv, StreamInv, NoSpecificTypes
<1> QED BY <1>12, <1>13, <1>14, <1>15, <1>17, <1>18 DEF IInv

\* What a step that leaves the host APIs alone leaves alone.
LEMMA HostApisStay ==
  ASSUME UNCHANGED hostApis
  PROVE  /\ Apis' = Apis
         /\ \A n : /\ Base(n)' = Base(n) /\ Devices(n)' = Devices(n)
                   /\ After(n)' = After(n) /\ Name(n)' = Name(n)
                   /\ Defaults(n)' = Defaults(n) /\ hostApis'[n] = hostApis[n]
  BY DEF Apis, Base, Devices, After, Name, Defaults

\* The steps that only move from one phase to the next, or count.
LEMMA PhaseStepsInv ==
  ASSUME FrontAssumption, IInv,
         \/ InitializeAgain \/ TerminateNotLast \/ Terminate \/ OpenStreamsClosed
         \/ \E r \in InitializerResults[i] : SkipHostApi(r) \/ HostApiFails(r)
         \/ Initialized \/ HostApisTerminated
  PROVE  IInv'
<1> USE DEF openStreams, streamVars, globals, locals
<1>1. UNCHANGED <<hostApis, openStreams, initialized, epoch, stream, lost, hostApiOf>>
  BY DEF InitializeAgain, TerminateNotLast, Terminate, OpenStreamsClosed, SkipHostApi,
         HostApiFails, Initialized, HostApisTerminated
<1>2. /\ Apis' = Apis
      /\ \A n : /\ Base(n)' = Base(n) /\ After(n)' = After(n) /\ Name(n)' = Name(n)
                /\ Defaults(n)' = Defaults(n)
  BY <1>1, HostApisStay
<1>3. Apis \in Nat BY HostApiParts DEF IInv
<1>4. StreamInv' BY <1>1, OpenListStays DEF IInv, StreamInv, NoSpecificTypes
<1>5. LiveStreams' = LiveStreams BY <1>1 DEF LiveStreams
<1> USE DEF IInv
<1>6. CASE InitializeAgain
  <2>1. TypeInv' BY <1>1, <1>6 DEF InitializeAgain, TypeInv
  <2>2. HostApiInv' /\ DeviceInv'
    BY <1>1, <1>2, <1>6 DEF InitializeAgain, HostApiInv, DeviceInv
  <2>3. DefaultInv'
    BY <1>1, <1>6 DEF InitializeAgain, DefaultInv, Apis, Base, After, Devices, Defaults
  <2>4. PhaseInv' BY <1>1, <1>5, <1>6 DEF InitializeAgain, PhaseInv, PA_IS_INITIALISED, TypeInv
  <2> QED BY <1>4, <2>1, <2>2, <2>3, <2>4
<1>7. CASE TerminateNotLast
  <2>1. TypeInv' BY <1>1, <1>7 DEF TerminateNotLast, TypeInv
  <2>2. HostApiInv' /\ DeviceInv'
    BY <1>1, <1>2, <1>7 DEF TerminateNotLast, HostApiInv, DeviceInv
  <2>3. DefaultInv'
    BY <1>1, <1>7 DEF TerminateNotLast, DefaultInv, Apis, Base, After, Devices, Defaults
  <2>4. PhaseInv' BY <1>1, <1>5, <1>7 DEF TerminateNotLast, PhaseInv, TypeInv
  <2> QED BY <1>4, <2>1, <2>2, <2>3, <2>4
<1>8. CASE Terminate
  <2>1. TypeInv' BY <1>1, <1>8 DEF Terminate, TypeInv
  <2>2. HostApiInv' /\ DeviceInv' BY <1>1, <1>2, <1>8 DEF Terminate, HostApiInv, DeviceInv
  <2>3. DefaultInv'
    BY <1>1, <1>8 DEF Terminate, DefaultInv, Apis, Base, After, Devices, Defaults
  <2>4. PhaseInv' BY <1>1, <1>5, <1>8 DEF Terminate, PhaseInv
  <2> QED BY <1>4, <2>1, <2>2, <2>3, <2>4
<1>9. CASE OpenStreamsClosed
  <2>1. TypeInv' BY <1>1, <1>9 DEF OpenStreamsClosed, TypeInv
  <2>2. HostApiInv' /\ DeviceInv'
    BY <1>1, <1>2, <1>9 DEF OpenStreamsClosed, HostApiInv, DeviceInv
  <2>3. DefaultInv'
    BY <1>1, <1>9 DEF OpenStreamsClosed, DefaultInv, Apis, Base, After, Devices, Defaults
  <2>4. LiveStreams \subseteq lost
    <3>1. PICK q : IsOpenList(q) BY DEF StreamInv
    <3>2. Len(q) \in Nat /\ \A n \in 1..Len(q) : q[n] # NULL
      BY <3>1 DEF IsOpenList, FrontAssumption
    <3>3. Len(q) = 0 BY <1>9, <3>1, <3>2 DEF OpenStreamsClosed, IsOpenList
    <3>4. \A s \in Streams : s \notin LiveStreams \ lost BY <3>1, <3>3 DEF IsOpenList
    <3> QED BY <3>4 DEF LiveStreams
  <2>5. PhaseInv' BY <1>1, <1>5, <1>9, <2>4 DEF OpenStreamsClosed, PhaseInv
  <2> QED BY <1>4, <2>1, <2>2, <2>3, <2>5
<1>10. ASSUME NEW r \in InitializerResults[i], SkipHostApi(r)
       PROVE  IInv'
  <2>1. TypeInv' BY <1>1, <1>10 DEF SkipHostApi, TypeInv, FrontAssumption
  <2>2. \A n \in 1..Apis : hostApis[n].type \in 0..InitializerCount-1 BY HostApiParts
  <2>3. HostApiInv'
    <3>1. \A n \in 1..Apis : hostApis[n].type < i => hostApis[n].type < i + 1
      BY <2>2 DEF TypeInv, FrontAssumption
    <3>2. Apis <= i => Apis <= i + 1 BY <1>3 DEF TypeInv
    <3> QED BY <1>1, <1>2, <1>10, <3>1, <3>2 DEF SkipHostApi, HostApiInv
  <2>4. DeviceInv' BY <1>1, <1>2, <1>10 DEF SkipHostApi, DeviceInv
  <2>5. DefaultInv'
    BY <1>1, <1>10 DEF SkipHostApi, DefaultInv, Apis, Base, After, Devices, Defaults
  <2>6. PhaseInv' BY <1>1, <1>5, <1>10 DEF SkipHostApi, PhaseInv
  <2> QED BY <1>4, <2>1, <2>3, <2>4, <2>5, <2>6
<1>11. ASSUME NEW r \in InitializerResults[i], HostApiFails(r)
       PROVE  IInv'
  <2>1. TypeInv' BY <1>1, <1>11 DEF HostApiFails, TypeInv
  <2>2. HostApiInv' /\ DeviceInv' BY <1>1, <1>2, <1>11 DEF HostApiFails, HostApiInv, DeviceInv
  <2>3. DefaultInv'
    BY <1>1, <1>11 DEF HostApiFails, DefaultInv, Apis, Base, After, Devices, Defaults
  <2>4. PhaseInv' BY <1>1, <1>5, <1>11 DEF HostApiFails, PhaseInv
  <2> QED BY <1>4, <2>1, <2>2, <2>3, <2>4
<1>12. CASE Initialized
  <2>1. TypeInv' BY <1>1, <1>12 DEF Initialized, TypeInv, FrontAssumption, PhaseInv
  <2>2. HostApiInv' /\ DeviceInv' BY <1>1, <1>2, <1>12 DEF Initialized, HostApiInv, DeviceInv
  <2>3. DefaultInv'
    <3>1. \A n \in 1..Apis : \A d \in Defaults(n) : Base(n) <= d /\ d < After(n)
      BY DEF DefaultInv
    <3>2. ASSUME Apis > 0
          PROVE  /\ defaultHostApiIndex' \in 0..Apis-1
                 /\ Defaults(defaultHostApiIndex + 1)' = {} =>
                      \A n \in 1..Apis : Defaults(n) = {}
      <4>1. CASE defaultHostApiIndex = -1
        <5>1. \A n \in 1..Apis : Defaults(n) = {} BY <1>12, <4>1 DEF Initialized, DefaultInv
        <5>2. defaultHostApiIndex' = 0 BY <1>12, <4>1 DEF Initialized
        <5> QED BY <1>3, <3>2, <5>1, <5>2
      <4>2. CASE defaultHostApiIndex # -1
        <5>1. defaultHostApiIndex' = defaultHostApiIndex BY <1>12, <4>2 DEF Initialized
        <5>2. Defaults(defaultHostApiIndex + 1)' = Defaults(defaultHostApiIndex + 1)
          BY <1>1, <5>1 DEF Defaults
        <5> QED BY <1>12, <4>2, <5>1, <5>2 DEF Initialized, DefaultInv
      <4> QED BY <4>1, <4>2
    <3>3. pc' = "idle" BY <1>12 DEF Initialized
    <3> QED BY <1>2, <3>1, <3>2, <3>3 DEF DefaultInv
  <2>4. PhaseInv' BY <1>1, <1>5, <1>12 DEF Initialized, PhaseInv
  <2> QED BY <1>4, <2>1, <2>2, <2>3, <2>4
<1>13. CASE HostApisTerminated
  <2>0. hostApis = <<>> /\ Apis = 0
    BY <1>13 DEF HostApisTerminated, hostApisCount, TypeInv, Apis
  <2>1. TypeInv' BY <1>1, <1>13 DEF HostApisTerminated, TypeInv, FrontAssumption, PhaseInv
  <2>2. HostApiInv' BY <1>1, <1>2, <1>13 DEF HostApisTerminated, HostApiInv
  <2>3. DeviceInv' /\ DefaultInv'
    BY <1>2, <1>13, <2>0 DEF HostApisTerminated, DeviceInv, DefaultInv
  <2>4. PhaseInv' BY <1>1, <1>5, <1>13, <2>0 DEF HostApisTerminated, PhaseInv
  <2> QED BY <1>4, <2>1, <2>2, <2>3, <2>4
<1> HIDE DEF IInv
<1> QED BY <1>6, <1>7, <1>8, <1>9, <1>10, <1>11, <1>12, <1>13

LEMMA TerminateHostApiInv ==
  ASSUME FrontAssumption, IInv, TerminateHostApi
  PROVE  IInv'
<1>1. PICK L \in Nat : L = Apis BY HostApiParts DEF IInv
<1>2. /\ pc = "terminateHostApis" /\ L > 0 /\ hostApis' = SubSeq(hostApis, 1, L - 1)
      /\ initialized' = initialized \ {Name(L)}
      /\ UNCHANGED <<defaultHostApiIndex, initializationCount, deviceCount,
                     firstOpenStream, nextOpenStream, epoch, stream, hostApiOf, lost,
                     call, pc, i, baseDeviceIndex>>
  BY <1>1 DEF TerminateHostApi, openStreams, streamVars, locals, hostApisCount, Apis,
              HostApi, Name
<1>3. hostApis \in Seq(HostApiRecord) /\ Len(hostApis) = L
  BY <1>1 DEF IInv, TypeInv, Apis
<1>4. /\ hostApis' \in Seq(HostApiRecord) /\ Apis' = L - 1
      /\ \A n \in 1..L-1 : hostApis'[n] = hostApis[n]
  BY <1>2, <1>3 DEF Apis
<1>5. \A n \in 1..L-1 : Base(n)' = Base(n) /\ After(n)' = After(n)
                        /\ Name(n)' = Name(n) /\ Defaults(n)' = Defaults(n)
  BY <1>4 DEF Base, Devices, After, Name, Defaults
<1>6. \A n \in 1..L-1 : n \in 1..L BY <1>1
<1>7. TypeInv' BY <1>2, <1>4 DEF IInv, TypeInv
<1>8. HostApiInv'
  <2>1. L \in 1..L /\ \A n \in 1..L : hostApis[n].type \in Int
    BY <1>1, <1>2, HostApiParts DEF IInv
  <2>2. \A n \in 1..L : n # L => n \in 1..L-1 BY <1>1
  <2>3. \A n \in 1..L-1 : Name(n) # Name(L)
    <3>1. \A n \in 1..L-1 : hostApis[n].type < hostApis[L].type
      BY <1>1, <1>6, <2>1 DEF IInv, HostApiInv
    <3>2. \A n \in 1..L-1 : hostApis[n].type # hostApis[L].type
      BY <1>6, <2>1, <3>1
    <3> QED BY <3>2 DEF Name
  <2>4. initialized = {Name(n) : n \in 1..L} BY <1>1 DEF IInv, HostApiInv
  <2>5. initialized' = {Name(n) : n \in 1..L-1}
    BY <1>2, <1>6, <2>2, <2>3, <2>4
  <2>6. initialized' = {Name(n)' : n \in 1..L-1} BY <1>5, <2>5
  <2>7. IsFiniteSet(initialized') /\ Cardinality(initialized') = L - 1
    <3>1. IsFiniteSet(initialized) /\ Cardinality(initialized) = L
      BY <1>1 DEF IInv, HostApiInv
    <3>2. Name(L) \in initialized BY <2>1, <2>4
    <3> QED BY <1>2, <3>1, <3>2, FS_RemoveElement
  <2>8. L - 1 <= InitializerCount
    BY <1>1 DEF IInv, HostApiInv, FrontAssumption
  <2>9. \A n \in 1..L-1 : hostApis'[n].epoch = epoch
    BY <1>1, <1>4, <1>6 DEF IInv, HostApiInv
  <2>10. \A m, n \in 1..L-1 : m < n => hostApis'[m].type < hostApis'[n].type
    BY <1>1, <1>4, <1>6 DEF IInv, HostApiInv
  <2> QED BY <1>2, <1>4, <2>6, <2>7, <2>8, <2>9, <2>10 DEF HostApiInv
<1>9. DeviceInv'
  <2>1. L > 1 => Base(1)' = 0
    <3> SUFFICES ASSUME L > 1 PROVE Base(1)' = 0 OBVIOUS
    <3>1. 1 \in 1..L-1 OBVIOUS
    <3> QED BY <1>1, <1>2, <1>5, <3>1 DEF IInv, DeviceInv
  <2>2. ASSUME NEW n \in 1..(L-1)-1 PROVE Base(n+1)' = After(n)'
    <3>1. n \in 1..L-1 /\ n + 1 \in 1..L-1 OBVIOUS
    <3>2. Base(n+1) = After(n) BY <1>1, <3>1 DEF IInv, DeviceInv
    <3> QED BY <1>5, <3>1, <3>2
  <2>3. \A m, n \in 1..L-1 : m < n => After(m)' <= Base(n)'
    BY <1>1, <1>5, <1>6 DEF IInv, DeviceInv
  <2> QED BY <1>2, <1>4, <2>1, <2>2, <2>3 DEF DeviceInv
<1>10. DefaultInv'
  <2>1. \A n \in 1..L-1 : \A d \in Defaults(n)' : Base(n)' <= d /\ d < After(n)'
    BY <1>1, <1>5, <1>6 DEF IInv, DefaultInv
  <2> QED BY <1>2, <1>4, <2>1 DEF DefaultInv
<1>11. LiveStreams' = LiveStreams BY <1>2 DEF LiveStreams
<1>12. PhaseInv' BY <1>2, <1>11 DEF IInv, PhaseInv
<1>13. StreamInv'
  <2>1. LiveStreams \subseteq lost BY <1>2 DEF IInv, PhaseInv
  <2> QED BY <1>2, <1>11, <2>1, OpenListStays DEF IInv, StreamInv, openStreams
<1> QED BY <1>7, <1>8, <1>9, <1>10, <1>12, <1>13 DEF IInv

\* What a step of one stream leaves alone.
LEMMA StreamStepsStay ==
  ASSUME IInv, UNCHANGED <<globals, initialized, epoch, locals>>
  PROVE  HostApiInv' /\ DeviceInv' /\ DefaultInv'
<1>1. UNCHANGED <<hostApis, deviceCount, defaultHostApiIndex, initialized, epoch, pc, i,
                  baseDeviceIndex>>
  BY DEF globals, locals
<1>2. HostApiInv' BY <1>1 DEF IInv, HostApiInv, Apis, Name
<1>3. DeviceInv' BY <1>1 DEF IInv, DeviceInv, Apis, Base, After, Devices
<1>4. DefaultInv' BY <1>1 DEF IInv, DefaultInv, Apis, Base, After, Devices, Defaults
<1> QED BY <1>2, <1>3, <1>4

LEMMA StreamStateInv ==
  ASSUME FrontAssumption, IInv, NEW s \in Streams,
         StartStream(s) \/ StreamHangs(s) \/ StopStream(s)
  PROVE  IInv'
<1> USE DEF StartStream, StreamHangs, StopStream, globals, locals
<1>1. UNCHANGED <<globals, initialized, epoch, locals, openStreams, lost, hostApiOf>>
  OBVIOUS
<1>2. HostApiInv' /\ DeviceInv' /\ DefaultInv' BY <1>1, StreamStepsStay
<1>3. TypeInv' BY DEF IInv, TypeInv, openStreams
<1>4. LiveStreams' = LiveStreams BY DEF IInv, TypeInv, LiveStreams
<1>5. PhaseInv' BY <1>4 DEF IInv, PhaseInv
<1>6. PICK q : IsOpenList(q) BY DEF IInv, StreamInv
<1>7. IsOpenList(q)' BY <1>1, <1>4, <1>6 DEF IsOpenList, openStreams
<1>8. StreamInv' BY <1>1, <1>4, <1>7 DEF IInv, StreamInv, NoSpecificTypes
<1> QED BY <1>2, <1>3, <1>5, <1>8 DEF IInv

\* The host API a stream is opened with is one of those initialised.
LEMMA OpensWithHostApi ==
  ASSUME FrontAssumption, IInv, NEW specs, specs \subseteq DeviceSpecs,
         NEW spec \in specs, Accepts(spec)
  PROVE  /\ HostApiAt(HostApiIndexOf(spec)) \in (0..MaxEpochs) \X Int
         /\ NoSpecificTypes => HostApiAt(HostApiIndexOf(spec)) \in initialized
<1> DEFINE n == HostApiIndexOf(spec)
<1>1. Apis \in Nat /\ Apis = hostApisCount BY HostApiParts DEF IInv, Apis, hostApisCount
<1>2. ASSUME NEW k \in 0..Apis-1
      PROVE  HostApiAt(k) \in initialized /\ HostApiAt(k) \in (0..MaxEpochs) \X Int
  <2>1. k + 1 \in 1..Apis /\ HostApiAt(k) = Name(k+1)
    BY <1>1 DEF HostApiAt, HostApi, Name
  <2>2. Name(k+1) \in (1..MaxEpochs) \X (0..InitializerCount-1)
    BY <2>1, HostApiParts DEF IInv
  <2>3. Name(k+1) \in initialized BY <2>1 DEF IInv, HostApiInv
  <2> QED BY <2>1, <2>2, <2>3
<1>4. CASE spec.kind = "device"
  <2>1. n >= 0 BY <1>4 DEF Accepts
  <2>2. spec.device \in Int
    <3>1. spec \in DeviceSpecs OBVIOUS
    <3> QED BY <1>4, <3>1 DEF DeviceSpecs, IInv, TypeInv
  <2>3. n = -1 \/ n = FindHostApi(spec.device) BY <1>4 DEF HostApiIndexOf
  <2>4. n \in 0..Apis-1 BY <1>1, <2>1, <2>2, <2>3, Finds DEF IInv
  <2> QED BY <1>2, <2>4
<1>5. CASE spec.kind # "device"
  <2>1. ~NoSpecificTypes
    <3>1. spec \in DeviceSpecs OBVIOUS
    <3> QED BY <1>5, <3>1 DEF DeviceSpecs, NoSpecificTypes
  <2>2. n = HostApiTypeIdToHostApiIndex(spec.type) BY <1>5 DEF HostApiIndexOf
  <2> DEFINE ns == {k \in 0..hostApisCount-1 : HostApi(k).type = spec.type}
  <2>3. n = paHostApiNotFound \/ n \in 0..Apis-1
    <3>1. CASE ns = {} BY <2>2, <3>1 DEF HostApiTypeIdToHostApiIndex
    <3>2. CASE ns # {}
      <4>1. n = CHOOSE k \in ns : \A x \in ns : k <= x
        BY <2>2, <3>2 DEF HostApiTypeIdToHostApiIndex
      <4>2. ns \in SUBSET Nat /\ ns \subseteq 0..Apis-1 BY <1>1
      <4> HIDE DEF ns, n
      <4>3. \E k \in ns : \A x \in ns : k <= x BY <3>2, <4>2, SmallestExists
      <4>4. n \in ns BY <4>1, <4>3
      <4> QED BY <4>2, <4>4
    <3> QED BY <3>1, <3>2
  <2>4. HostApiAt(paHostApiNotFound) = <<0, paHostApiNotFound>>
    BY <1>1 DEF HostApiAt, paHostApiNotFound
  <2>5. 0 \in 0..MaxEpochs /\ paHostApiNotFound \in Int
    <3>1. 0 \in 0..MaxEpochs BY DEF FrontAssumption
    <3> QED BY <3>1 DEF paHostApiNotFound
  <2> HIDE DEF n
  <2> QED BY <1>2, <2>1, <2>3, <2>4, <2>5 DEF n
<1> QED BY <1>4, <1>5

LEMMA OpenStreamInv ==
  ASSUME FrontAssumption, IInv, NEW s \in Streams, NEW a \in DeviceSpecs,
         NEW b \in DeviceSpecs, OpenStream(s, {a, b})
  PROVE  IInv'
<1>1. /\ stream[s] = "free" /\ stream' = [stream EXCEPT ![s] = "stopped"]
      /\ initializationCount # 0 /\ pc = "idle"
      /\ AddOpenStream(s)
      /\ UNCHANGED <<globals, initialized, epoch, lost, locals>>
  BY DEF OpenStream, PA_IS_INITIALISED
<1>2. PICK spec \in {a, b} :
        hostApiOf' = [hostApiOf EXCEPT ![s] = HostApiAt(HostApiIndexOf(spec))]
  BY DEF OpenStream
<1>3. Accepts(spec) BY DEF OpenStream
<1>4. /\ HostApiAt(HostApiIndexOf(spec)) \in (0..MaxEpochs) \X Int
      /\ NoSpecificTypes => HostApiAt(HostApiIndexOf(spec)) \in initialized
  BY <1>3, OpensWithHostApi
<1>5. HostApiInv' /\ DeviceInv' /\ DefaultInv' BY <1>1, StreamStepsStay
<1>6. TypeInv'
  <2>1. UNCHANGED <<hostApis, defaultHostApiIndex, initializationCount, deviceCount,
                    initialized, epoch, lost, call, pc, i, baseDeviceIndex>>
    BY <1>1 DEF globals, locals
  <2>2. /\ firstOpenStream' \in Streams \cup {NULL}
        /\ nextOpenStream' \in [Streams -> Streams \cup {NULL}]
    BY <1>1 DEF IInv, TypeInv, AddOpenStream
  <2>3. hostApiOf' \in [Streams -> (0..MaxEpochs) \X Int]
    BY <1>2, <1>4 DEF IInv, TypeInv
  <2>4. stream' \in [Streams -> {"free", "stopped", "running", "hung"}]
    BY <1>1 DEF IInv, TypeInv
  <2> QED BY <2>1, <2>2, <2>3, <2>4 DEF IInv, TypeInv
<1>7. LiveStreams' = LiveStreams \cup {s} /\ s \notin LiveStreams
  BY <1>1 DEF IInv, TypeInv, LiveStreams
<1>8. PhaseInv' BY <1>1 DEF IInv, PhaseInv, globals, locals
<1>9. StreamInv'
  <2>1. lost \subseteq LiveStreams /\ lost' = lost BY <1>1 DEF IInv, StreamInv
  <2>2. PICK q : IsOpenList(q) BY DEF IInv, StreamInv
  <2>3. (\E r : IsOpenList(r))' BY <1>1, <1>7, <2>1, <2>2, ListAfterAdd DEF IInv
  <2>4. ASSUME NoSpecificTypes, NEW x \in LiveStreams' \ lost'
        PROVE  hostApiOf'[x] \in initialized'
    <3>1. initialized' = initialized /\ x \in Streams BY <1>1 DEF LiveStreams
    <3>2. CASE x = s BY <1>2, <1>4, <2>4, <3>1, <3>2 DEF IInv, TypeInv
    <3>3. CASE x # s
      <4>1. x \in LiveStreams \ lost BY <1>7, <2>1, <2>4, <3>3
      <4>2. hostApiOf'[x] = hostApiOf[x] BY <1>2, <3>1, <3>3 DEF IInv, TypeInv
      <4> QED BY <2>4, <3>1, <4>1, <4>2 DEF IInv, StreamInv
    <3> QED BY <3>2, <3>3
  <2>5. (lost \subseteq LiveStreams)' BY <1>7, <2>1
  <2> QED BY <2>3, <2>4, <2>5 DEF StreamInv, NoSpecificTypes
<1> QED BY <1>5, <1>6, <1>8, <1>9 DEF IInv

LEMMA CloseInv ==
  ASSUME FrontAssumption, IInv, NEW s \in Streams, stream[s] # "free", Close(s),
         UNCHANGED <<globals, initialized, epoch, locals>>
  PROVE  IInv'
<1>1. HostApiInv' /\ DeviceInv' /\ DefaultInv' BY StreamStepsStay
<1>2. /\ stream \in [Streams -> {"free", "stopped", "running", "hung"}]
      /\ hostApiOf \in [Streams -> (0..MaxEpochs) \X Int]
      /\ lost \subseteq LiveStreams
  BY DEF IInv, TypeInv, StreamInv
<1>3. PICK state \in {"free", "stopped", "hung"} :
        /\ stream' = [stream EXCEPT ![s] = state]
        /\ lost' = IF state = "free" THEN lost \ {s} ELSE lost \cup {s}
        /\ hostApiOf' = IF state = "free" THEN [hostApiOf EXCEPT ![s] = NoHostApi]
                        ELSE hostApiOf
  BY DEF Close, Closed, NotClosed
<1>4. RemoveOpenStream(s) BY DEF Close
<1>5. LiveStreams' = IF state = "free" THEN LiveStreams \ {s} ELSE LiveStreams
  BY <1>2, <1>3 DEF LiveStreams
<1>6. TypeInv'
  <2>1. UNCHANGED <<hostApis, defaultHostApiIndex, initializationCount, deviceCount,
                    initialized, epoch, call, pc, i, baseDeviceIndex>>
    BY DEF globals, locals
  <2>2. /\ firstOpenStream' \in Streams \cup {NULL}
        /\ nextOpenStream' \in [Streams -> Streams \cup {NULL}]
    BY <1>4 DEF IInv, TypeInv, RemoveOpenStream
  <2>3. NoHostApi \in (0..MaxEpochs) \X Int
    <3>1. 0 \in 0..MaxEpochs BY DEF IInv, TypeInv
    <3> QED BY <3>1 DEF NoHostApi
  <2>4. hostApiOf' \in [Streams -> (0..MaxEpochs) \X Int] BY <1>2, <1>3, <2>3
  <2>5. stream' \in [Streams -> {"free", "stopped", "running", "hung"}] BY <1>2, <1>3
  <2>6. lost' \subseteq Streams BY <1>3 DEF IInv, TypeInv
  <2> QED BY <2>1, <2>2, <2>4, <2>5, <2>6 DEF IInv, TypeInv
<1>7. s \in LiveStreams BY DEF LiveStreams
<1>8. PhaseInv'
  <2>1. LiveStreams \subseteq lost => LiveStreams' \subseteq lost' BY <1>3, <1>5
  <2> QED BY <2>1 DEF IInv, PhaseInv, globals, locals
<1>9. StreamInv'
  <2>1. (lost \subseteq LiveStreams)' BY <1>2, <1>3, <1>5, <1>7
  <2>2. \A x \in Streams : x \in LiveStreams' \ lost'
                             <=> x # s /\ x \in LiveStreams \ lost
    BY <1>3, <1>5
  <2>3. PICK q : IsOpenList(q) BY DEF IInv, StreamInv
  <2>4. (\E r : IsOpenList(r))' BY <1>4, <2>2, <2>3, ListAfterRemove DEF IInv
  <2>5. ASSUME NoSpecificTypes, NEW x \in LiveStreams' \ lost'
        PROVE  hostApiOf'[x] \in initialized'
    <3>1. x \in Streams BY <1>5, <2>5 DEF LiveStreams
    <3>2. x # s /\ x \in LiveStreams \ lost BY <2>2, <2>5, <3>1
    <3>3. hostApiOf'[x] = hostApiOf[x] BY <1>2, <1>3, <3>1, <3>2
    <3> QED BY <2>5, <3>2, <3>3 DEF IInv, StreamInv
  <2> QED BY <2>1, <2>4, <2>5 DEF StreamInv, NoSpecificTypes
<1> QED BY <1>1, <1>6, <1>8, <1>9 DEF IInv

\* No step but those above, and none at all, changes the variables.
LEMMA StutterInv ==
  ASSUME IInv, UNCHANGED vars
  PROVE  IInv'
<1> USE DEF vars, globals, openStreams, streamVars, locals
<1>1. HostApiInv' /\ DeviceInv' /\ DefaultInv' BY StreamStepsStay
<1>2. TypeInv' BY DEF IInv, TypeInv
<1>3. LiveStreams' = LiveStreams BY DEF LiveStreams
<1>4. PhaseInv' BY <1>3 DEF IInv, PhaseInv
<1>5. StreamInv' BY <1>3, OpenListStays DEF IInv, StreamInv, NoSpecificTypes
<1> QED BY <1>1, <1>2, <1>4, <1>5 DEF IInv

LEMMA NextInv ==
  ASSUME FrontAssumption, IInv, [Next]_vars
  PROVE  IInv'
<1>1. CASE Initialize BY <1>1, InitializeInv
<1>2. CASE InitializeAgain \/ Terminate \/ TerminateNotLast BY <1>2, PhaseStepsInv
<1>3. ASSUME NEW s \in Streams, NEW a \in DeviceSpecs, NEW b \in DeviceSpecs,
             OpenStream(s, {a, b})
      PROVE  IInv'
  BY <1>3, OpenStreamInv
<1>4. ASSUME NEW s \in Streams,
             CloseStream(s) \/ StartStream(s) \/ StreamHangs(s) \/ StopStream(s)
      PROVE  IInv'
  <2>1. CASE CloseStream(s) BY <2>1, CloseInv DEF CloseStream
  <2>2. CASE StartStream(s) \/ StreamHangs(s) \/ StopStream(s) BY <2>2, StreamStateInv
  <2> QED BY <1>4, <2>1, <2>2
<1>5. CASE InCall
  <2>1. ASSUME i < InitializerCount, NEW r \in InitializerResults[i],
               InitializeHostApi(r) \/ SkipHostApi(r) \/ HostApiFails(r)
        PROVE  IInv'
    <3>1. CASE InitializeHostApi(r) BY <2>1, <3>1, InitializeHostApiInv
    <3>2. CASE SkipHostApi(r) \/ HostApiFails(r) BY <3>2, PhaseStepsInv
    <3> QED BY <2>1, <3>1, <3>2
  <2>2. CASE Initialized \/ OpenStreamsClosed \/ HostApisTerminated
    BY <2>2, PhaseStepsInv
  <2>3. CASE CloseOpenStream
    <3>1. firstOpenStream \in Streams BY <2>3 DEF CloseOpenStream, IInv, TypeInv
    <3>2. stream[firstOpenStream] # "free"
      <4>1. PICK q : IsOpenList(q) BY DEF IInv, StreamInv
      <4>2. Len(q) \in Nat /\ Len(q) # 0 /\ firstOpenStream = q[1]
        BY <2>3, <4>1 DEF IsOpenList, CloseOpenStream
      <4>3. 1 \in 1..Len(q) BY <4>2
      <4>4. firstOpenStream \in LiveStreams BY <3>1, <4>1, <4>2, <4>3 DEF IsOpenList
      <4> QED BY <4>4 DEF LiveStreams
    <3> QED BY <2>3, <3>1, <3>2, CloseInv DEF CloseOpenStream
  <2>4. CASE TerminateHostApi BY <2>4, TerminateHostApiInv
  <2> QED BY <1>5, <2>1, <2>2, <2>3, <2>4 DEF InCall
<1>6. CASE UNCHANGED vars BY <1>6, StutterInv
<1> QED BY <1>1, <1>2, <1>3, <1>4, <1>5, <1>6 DEF Next

\* For all host APIs and streams, and whatever fails in what order, the
\* invariant holds.
THEOREM Invariant == Spec => []IInv
<1>1. Init => IInv BY InitInv, FrontAssumption
<1>2. IInv /\ [Next]_vars => IInv' BY NextInv, FrontAssumption
<1> QED BY <1>1, <1>2, PTL DEF Spec

-----------------------------------------------------------------------------
(* What the invariant means.                                               *)

LEMMA TypesAreRight ==
  ASSUME IInv
  PROVE  TypeOK
<1>1. hostApisCount = Apis /\ Apis \in Nat /\ Apis <= InitializerCount
  BY HostApiParts DEF IInv, HostApiInv, Apis, hostApisCount
<1>2. ASSUME NEW n \in 0..Apis-1
      PROVE  /\ HostApi(n).type \in 0..InitializerCount-1
             /\ HostApi(n).epoch \in 1..MaxEpochs
             /\ HostApi(n).deviceCount \in Nat /\ HostApi(n).baseDeviceIndex \in Nat
  <2>1. n + 1 \in 1..Apis BY <1>1
  <2>2. hostApis[n+1] \in HostApiRecord BY <2>1, HostApiParts DEF IInv
  <2> QED BY <2>2 DEF HostApi, HostApiRecord
<1> QED BY <1>1, <1>2 DEF IInv, TypeInv, TypeOK

LEMMA HostApisAreListed ==
  ASSUME IInv
  PROVE  NoHostApiLeaked
<1>1. hostApisCount = Apis /\ Apis \in Nat
  BY HostApiParts DEF IInv, Apis, hostApisCount
<1>2. initialized = {<<HostApi(n).epoch, HostApi(n).type>> : n \in 0..Apis-1}
  <2>1. initialized = {Name(n) : n \in 1..Apis} BY DEF IInv, HostApiInv
  <2>2. \A n \in 0..Apis-1 : n + 1 \in 1..Apis
                             /\ Name(n+1) = <<HostApi(n).epoch, HostApi(n).type>>
    BY <1>1 DEF Name, HostApi
  <2>3. \A n \in 1..Apis : n - 1 \in 0..Apis-1 /\ (n - 1) + 1 = n BY <1>1
  <2>4. \A n \in 1..Apis : \E k \in 0..Apis-1 : n = k + 1 BY <2>3
  <2> QED BY <2>1, <2>2, <2>4
<1>3. Cardinality(initialized) = Apis BY DEF IInv, HostApiInv
<1>4. ~PA_IS_INITIALISED /\ pc = "idle" => initialized = {}
  <2> SUFFICES ASSUME ~PA_IS_INITIALISED, pc = "idle" PROVE initialized = {} OBVIOUS
  <2>1. Apis = 0 BY DEF IInv, PhaseInv, PA_IS_INITIALISED, Apis
  <2> QED BY <1>2, <2>1
<1> QED BY <1>1, <1>2, <1>3, <1>4 DEF NoHostApiLeaked

LEMMA OpenStreamsAreListed ==
  ASSUME FrontAssumption, IInv
  PROVE  OpenListIsExact
<1>1. PICK q : IsOpenList(q) BY DEF IInv, StreamInv
<1>2. Listed = {q[n] : n \in 1..Len(q)} /\ Node(Cardinality(Listed)) = NULL
  BY <1>1, ListedAre
<1>3. Listed = LiveStreams \ lost
  <2>1. \A n \in 1..Len(q) : q[n] \in Streams BY <1>1 DEF IsOpenList
  <2> QED BY <1>1, <1>2, <2>1 DEF IsOpenList, LiveStreams
<1> QED BY <1>2, <1>3 DEF OpenListIsExact

\* What the front end lists is what there is, also half way through calls that
\* fail: the list of open streams ends and holds exactly the streams that no
\* failing call has lost, the host API of each has not been terminated, and no
\* initialised host API is forgotten.  Streams are opened by device here.
THEOREM Listing ==
  ASSUME NoSpecificTypes
  PROVE  Spec => []StreamsAndHostApisAreListed
<1>1. IInv => StreamsAndHostApisAreListed
  <2> SUFFICES ASSUME IInv PROVE StreamsAndHostApisAreListed OBVIOUS
  <2>1. StreamHostApiIsInitialized
    BY NoSpecificTypes DEF IInv, StreamInv, StreamHostApiIsInitialized
  <2> QED BY <2>1, TypesAreRight, HostApisAreListed, OpenStreamsAreListed, FrontAssumption
          DEF StreamsAndHostApisAreListed
<1> QED BY <1>1, Invariant, PTL

LEMMA IndicesRoundTrip ==
  ASSUME IInv
  PROVE  DeviceIndicesRoundTrip
<1> SUFFICES ASSUME pc = "idle", PA_IS_INITIALISED
    PROVE
    /\ \A d \in -1..deviceCount :
         LET n == FindHostApi(d) IN
         IF d \in 0..deviceCount-1
           THEN /\ n \in 0..hostApisCount-1
                /\ LET x == DeviceIndexToHostApiDeviceIndex(d, n) IN
                     x # paNoDevice /\ HostApiDeviceIndexToDeviceIndex(n, x) = d
           ELSE n = -1
    /\ \A n \in 0..hostApisCount-1 : \A x \in 0..HostApi(n).deviceCount-1 :
         FindHostApi(HostApiDeviceIndexToDeviceIndex(n, x)) = n
  BY DEF DeviceIndicesRoundTrip
<1>1. hostApisCount = Apis /\ Apis \in Nat /\ deviceCount \in Nat
  BY HostApiParts DEF IInv, TypeInv, Apis, hostApisCount
<1>2. ASSUME NEW n \in 0..Apis-1
      PROVE  /\ n + 1 \in 1..Apis /\ Base(n+1) \in Nat /\ Devices(n+1) \in Nat
             /\ HostApi(n).baseDeviceIndex = Base(n+1)
             /\ HostApi(n).deviceCount = Devices(n+1)
             /\ After(n+1) = Base(n+1) + Devices(n+1)
  <2>1. n + 1 \in 1..Apis BY <1>1
  <2> QED BY <2>1, HostApiParts DEF IInv, HostApi, Base, Devices, After
<1>3. ASSUME NEW d \in -1..deviceCount, NEW n, n = FindHostApi(d)
      PROVE  IF d \in 0..deviceCount-1
             THEN /\ n \in 0..Apis-1
                  /\ LET x == DeviceIndexToHostApiDeviceIndex(d, n) IN
                       x # paNoDevice /\ HostApiDeviceIndexToDeviceIndex(n, x) = d
             ELSE n = -1
  <2>1. d \in Int BY <1>1
  <2>2. IF d \in 0..deviceCount-1
          THEN n \in 0..Apis-1 /\ Base(n+1) <= d /\ d < After(n+1)
          ELSE n = -1
    BY <1>3, <2>1, Finds DEF IInv
  <2>3. ASSUME d \in 0..deviceCount-1
        PROVE  LET x == DeviceIndexToHostApiDeviceIndex(d, n) IN
               x # paNoDevice /\ HostApiDeviceIndexToDeviceIndex(n, x) = d
    <3>1. DeviceIndexToHostApiDeviceIndex(d, n) = d - Base(n+1)
      BY <1>2, <2>1, <2>2, <2>3 DEF DeviceIndexToHostApiDeviceIndex
    <3>2. d - Base(n+1) # paNoDevice /\ Base(n+1) + (d - Base(n+1)) = d
      BY <1>2, <2>1, <2>2, <2>3 DEF paNoDevice
    <3> QED BY <1>2, <2>2, <2>3, <3>1, <3>2 DEF HostApiDeviceIndexToDeviceIndex
  <2> QED BY <2>2, <2>3
<1>4. ASSUME NEW n \in 0..Apis-1, NEW x \in 0..HostApi(n).deviceCount-1
      PROVE  FindHostApi(HostApiDeviceIndexToDeviceIndex(n, x)) = n
  <2> DEFINE d == HostApiDeviceIndexToDeviceIndex(n, x)
  <2>1. d = Base(n+1) + x /\ d \in Int /\ Base(n+1) <= d /\ d < After(n+1)
    BY <1>2 DEF HostApiDeviceIndexToDeviceIndex
  <2> HIDE DEF d
  <2>2. FindHostApi(d) = (n + 1) - 1 BY <1>2, <2>1, Finds DEF IInv
  <2> QED BY <1>1, <2>2 DEF d
<1> QED BY <1>1, <1>3, <1>4

LEMMA DefaultsAreUsable ==
  ASSUME IInv
  PROVE  DefaultDevicesAreUsable
<1> DEFINE devices(n) ==
             {HostApi(n).defaultInputDevice, HostApi(n).defaultOutputDevice} \ {paNoDevice}
<1> SUFFICES ASSUME pc = "idle", PA_IS_INITIALISED, hostApisCount > 0
    PROVE  /\ defaultHostApiIndex \in 0..hostApisCount-1
           /\ devices(defaultHostApiIndex) = {} =>
                \A n \in 0..hostApisCount-1 : devices(n) = {}
           /\ \A n \in 0..hostApisCount-1 : \A d \in devices(n) : FindHostApi(d) = n
  BY DEF DefaultDevicesAreUsable
<1>1. hostApisCount = Apis /\ Apis \in Nat
  BY HostApiParts DEF IInv, Apis, hostApisCount
<1>2. \A n \in 0..Apis-1 : n + 1 \in 1..Apis BY <1>1
<1>3. \A n : devices(n) = Defaults(n + 1) BY DEF Defaults, HostApi
<1> HIDE DEF devices
<1>4. /\ defaultHostApiIndex \in 0..Apis-1
      /\ Defaults(defaultHostApiIndex + 1) = {} => \A n \in 1..Apis : Defaults(n) = {}
  BY <1>1 DEF IInv, DefaultInv
<1>5. ASSUME NEW n \in 0..Apis-1, NEW d \in Defaults(n + 1)
      PROVE  FindHostApi(d) = n
  <2>1. Base(n+1) <= d /\ d < After(n+1) BY <1>2 DEF IInv, DefaultInv
  <2>2. d \in Int BY <1>2, HostApiParts DEF IInv
  <2>3. FindHostApi(d) = (n + 1) - 1 BY <1>2, <2>1, <2>2, Finds DEF IInv
  <2> QED BY <1>1, <2>3
<1> QED BY <1>1, <1>2, <1>3, <1>4, <1>5

\* Device indices are dense over all host APIs, those without devices too:
\* each below Pa_GetDeviceCount() belongs to one device of one host API,
\* converting it back and forth is the identity, all others are rejected, and
\* default devices belong to the host API they are the default of.
THEOREM DeviceIndexing == Spec => []DevicesAreIndexed
<1>1. IInv => DevicesAreIndexed
  BY IndicesRoundTrip, DefaultsAreUsable DEF DevicesAreIndexed
<1> QED BY <1>1, Invariant, PTL
=============================================================================
