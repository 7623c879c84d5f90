-------------------------- MODULE PaWmmeOpenProofs --------------------------
(***************************************************************************)
(* OpenStream and CloseStream, for every set of requests.  First, the host *)
(* buffers of a stream that OpenStream opens fit what was asked for:       *)
(* BuffersFit.  The parts are, from the bottom up: the small primes and    *)
(* what has no factor among them; the loop of                              *)
(* ComputeHostBufferSizeGivenHardUpperLimit, as a fold;                    *)
(* SelectHostBufferSizeFramesAndHostBufferCount; CalculateBufferSettings;  *)
(* and the invariant that an open stream has the settings computed for it. *)
(* Then OpenStream acquires what it needs or nothing, and everything is    *)
(* given back once and in a legal order: OpeningIsClean.  The loops of the *)
(* clean-up are folds; each is shown to give back what is held of a        *)
(* buffer, a device, a direction, a stream, whenever what is held is       *)
(* consistent; and what had been acquired when an acquisition failed is.   *)
(* Last, the host API itself: PaWinMme_Initialize lists the usable devices *)
(* and accounts for its memory, whichever allocation fails:                *)
(* HostApiIsComplete.                                                      *)
(***************************************************************************)
EXTENDS PaWmmeOpen, NumberTheorems, SequenceTheorems

-----------------------------------------------------------------------------
(* Least and greatest elements.                                            *)

\* A set of numbers has a least element, and Min is that.
LEMMA SmallestExistsMin ==
  ASSUME NEW S \in SUBSET Nat, S # {}
  PROVE  Min(S) \in S /\ \A x \in S : Min(S) <= x
<1>1. \E m \in S : \A k \in S : m <= k BY SmallestExists
<1> QED BY <1>1 DEF Min

\* A set of numbers up to n has a greatest element, and Max is that.
LEMMA LargestExists ==
  ASSUME NEW n \in Nat, NEW S \in SUBSET (1..n), S # {}
  PROVE  Max(S) \in S /\ \A x \in S : x <= Max(S)
<1> DEFINE T == {n - x : x \in S}
<1>1. T \in SUBSET Nat /\ T # {}
  <2>1. \A x \in S : n - x \in Nat OBVIOUS
  <2> QED BY <2>1
<1>2. PICK t \in T : \A u \in T : t <= u BY <1>1, SmallestExists
<1>3. PICK m \in S : t = n - m BY <1>2
<1>4. \A x \in S : m >= x
  <2> SUFFICES ASSUME NEW x \in S PROVE m >= x OBVIOUS
  <2>1. n - x \in T OBVIOUS
  <2>2. n - m <= n - x BY <1>2, <1>3, <2>1
  <2> QED BY <2>2
<1>5. \A x \in S : x \in Int OBVIOUS
<1>6. Max(S) \in S /\ \A x \in S : Max(S) >= x BY <1>4 DEF Max
<1> QED BY <1>5, <1>6

\* The greater of two numbers.
LEMMA GreaterOfTwo ==
  ASSUME NEW a \in Int, NEW b \in Int
  PROVE  Max({a, b}) = IF a >= b THEN a ELSE b
<1> DEFINE m == IF a >= b THEN a ELSE b
<1>1. m \in {a, b} /\ \A x \in {a, b} : m >= x OBVIOUS
<1> HIDE DEF m
<1>2. Max({a, b}) \in {a, b} /\ \A x \in {a, b} : Max({a, b}) >= x BY <1>1 DEF Max
<1> QED BY <1>2

\* The lesser of two numbers.
LEMMA LesserOfTwo ==
  ASSUME NEW a \in Int, NEW b \in Int
  PROVE  Min({a, b}) = IF a <= b THEN a ELSE b
<1> DEFINE m == IF a <= b THEN a ELSE b
<1>1. m \in {a, b} /\ \A x \in {a, b} : m <= x OBVIOUS
<1> HIDE DEF m
<1>2. Min({a, b}) \in {a, b} /\ \A x \in {a, b} : Min({a, b}) <= x BY <1>1 DEF Min
<1> QED BY <1>2

-----------------------------------------------------------------------------
(* The small primes.                                                       *)

\* The small primes are numbers from 2 to 67.
LEMMA PrimeBounds == \A p \in Primes : p \in Nat /\ 2 <= p /\ p <= 67
  BY DEF Primes

\* A small prime has no proper divisor up to 8.
LEMMA SmallFactor ==
  ASSUME NEW p \in Primes, NEW k \in 2..8, NEW c \in Nat, p = k * c
  PROVE  c = 1
<1>1. CASE k = 2 BY <1>1 DEF Primes
<1>2. CASE k = 3 BY <1>2 DEF Primes
<1>3. CASE k = 4 BY <1>3 DEF Primes
<1>4. CASE k = 5 BY <1>4 DEF Primes
<1>5. CASE k = 6 BY <1>5 DEF Primes
<1>6. CASE k = 7 BY <1>6 DEF Primes
<1>7. CASE k = 8 BY <1>7 DEF Primes
<1> QED BY <1>1, <1>2, <1>3, <1>4, <1>5, <1>6, <1>7

\* The small primes are prime.
LEMMA PrimesArePrime ==
  ASSUME NEW p \in Primes, NEW k \in Nat, NEW c \in Nat, p = k * c
  PROVE  k = 1 \/ c = 1
<1>1. p \in Nat /\ 2 <= p /\ p <= 67 BY PrimeBounds
<1>2. k # 0 /\ c # 0
  <2>1. 0 * c = 0 /\ k * 0 = 0 OBVIOUS
  <2> QED BY <1>1, <2>1
<1>3. CASE k \in 2..8 BY <1>3, SmallFactor
<1>4. CASE c \in 2..8
  <2>1. p = c * k BY SMT
  <2> QED BY <1>4, <2>1, SmallFactor
<1>5. CASE k >= 9 /\ c >= 9
  <2>1. k * c >= 9 * c BY <1>5, SMT
  <2> QED BY <1>1, <1>5, <2>1
<1> QED BY <1>2, <1>3, <1>4, <1>5

\* Two to 64 have a small prime factor.
LEMMA SmallNumbersHaveFactors ==
  \A q \in 2..64 : \E p \in Primes : Divides(p, q)
<1> SUFFICES ASSUME NEW q \in 2..64 PROVE \E p \in Primes : q % p = 0
  <2>1. ASSUME NEW q \in 2..64, NEW p \in Primes, q % p = 0 PROVE Divides(p, q)
    <3>1. p \in Nat \ {0} /\ q \in Nat BY PrimeBounds
    <3> QED BY <2>1, <3>1, DividesMod
  <2> QED BY <2>1
<1>1. \/ q % 2 = 0 \/ q % 3 = 0 \/ q % 5 = 0 \/ q % 7 = 0 \/ q \in Primes BY DEF Primes
<1>2. q \in Primes => q % q = 0
  <2>1. (q * 1 + 0) % q = 0 BY ModUnique
  <2> QED BY <2>1
<1>3. {2, 3, 5, 7} \subseteq Primes BY DEF Primes
<1> QED BY <1>1, <1>2, <1>3

\* Euclid's lemma.
LEMMA Euclid ==
  ASSUME NEW p \in Primes, NEW n \in Nat, NEW x \in Nat, Divides(p, n * x)
  PROVE  Divides(p, n) \/ Divides(p, x)
<1> DEFINE S == {k \in Nat \ {0} : Divides(p, k * x)}
<1>1. p \in Nat /\ p >= 2 BY PrimeBounds
<1>2. p \in S BY <1>1 DEF Divides
<1>3. PICK m \in S : \A k \in S : m <= k BY <1>2, SmallestExists
<1>4. m \in Nat \ {0} /\ Divides(p, m * x) BY <1>3
<1>5. ASSUME NEW k \in S PROVE Divides(m, k)
  <2> DEFINE q == k \div m
             r == k % m
  <2>1. k \in Nat \ {0} /\ Divides(p, k * x) BY <1>5
  <2>2. q \in Int /\ r \in 0..m-1 /\ k = m * q + r BY <1>4, <2>1, DivMod
  <2>3. q \in Nat BY <1>4, <2>1, QuotientBounds
  <2> HIDE DEF q, r
  <2>4. Divides(p, r * x)
    <3>1. PICK a \in Nat : k * x = p * a BY <2>1 DEF Divides
    <3>2. PICK b \in Nat : m * x = p * b BY <1>4 DEF Divides
    <3>3. k * x = q * (m * x) + r * x BY <1>4, <2>1, <2>2, <2>3, SMT
    <3>4. q * (p * b) = p * (q * b) BY <1>1, <2>3, SMT
    <3>5. p * a = p * (q * b) + r * x BY <3>1, <3>2, <3>3, <3>4
    <3>6. p * (a - q * b) = p * a - p * (q * b) BY <1>1, <2>3, SMT
    <3>7. r * x = p * (a - q * b) BY <1>1, <2>2, <2>3, <3>5, <3>6
    <3>8. r * x >= 0 BY <2>2, SMT
    <3>9. a - q * b >= 0
      <4> SUFFICES ASSUME a - q * b <= -1 PROVE FALSE BY <2>3
      <4>1. a - q * b \in Int BY <2>3
      <4>2. p * (a - q * b) <= -p BY <1>1, <4>1, SMT
      <4>3. r * x <= -p BY <3>7, <4>2
      <4>4. r * x \in Int BY <2>2, SMT
      <4> QED BY <1>1, <3>8, <4>3, <4>4
    <3>10. a - q * b \in Nat BY <2>3, <3>9
    <3> QED BY <3>7, <3>10 DEF Divides
  <2>5. r = 0 BY <1>3, <1>4, <2>2, <2>4
  <2> QED BY <2>2, <2>3, <2>5 DEF Divides
<1>6. PICK c \in Nat : p = m * c BY <1>2, <1>5 DEF Divides
<1>7. CASE m = 1
  <2>1. m * x = x BY <1>7
  <2> QED BY <1>4, <2>1
<1>8. CASE c = 1
  <2>1. m = p BY <1>4, <1>6, <1>8
  <2>2. CASE n = 0 BY <2>2, <1>1 DEF Divides
  <2>3. CASE n # 0
    <3>1. n \in S BY <2>3
    <3> QED BY <1>5, <2>1, <3>1
  <2> QED BY <2>2, <2>3
<1> QED BY <1>4, <1>6, <1>7, <1>8, PrimesArePrime

\* A number without small prime factors divides a product with a small number
\* only if it divides the other factor.
LEMMA Coprime ==
  ASSUME NEW n \in Nat \ {0}, \A p \in Primes : ~Divides(p, n),
         NEW q \in 1..64, NEW m \in Nat, Divides(n, q * m)
  PROVE  Divides(n, m)
<1> DEFINE B == {b \in Nat : \A k \in 1..64 : k <= b => \A j \in Nat :
                               Divides(n, k * j) => Divides(n, j)}
<1>1. 0 \in B OBVIOUS
<1>2. ASSUME NEW b \in Nat, b \in B PROVE b + 1 \in B
  <2> SUFFICES ASSUME NEW k \in 1..64, k <= b + 1, NEW j \in Nat, Divides(n, k * j)
               PROVE  Divides(n, j)
    OBVIOUS
  <2>1. CASE k = 1
    <3>1. k * j = j BY <2>1
    <3> QED BY <3>1
  <2>2. CASE k # 1
    <3>1. PICK p \in Primes : Divides(p, k) BY <2>2, SmallNumbersHaveFactors
    <3>2. p \in Nat /\ p >= 2 BY PrimeBounds
    <3>3. PICK c \in Nat : k = p * c BY <3>1 DEF Divides
    <3>4. c \in 1..64 /\ c <= b
      <4>1. c # 0 BY <3>2, <3>3
      <4>2. p * c >= 2 * c BY <3>2, SMT
      <4> QED BY <3>3, <4>1, <4>2
    <3>5. PICK x \in Nat : k * j = n * x BY DEF Divides
    <3>6. n * x = p * (c * j) BY <3>2, <3>3, <3>5, SMT
    <3>7. c * j \in Nat BY SMT
    <3>8. Divides(p, n * x) BY <3>6, <3>7 DEF Divides
    <3>9. PICK y \in Nat : x = p * y BY <3>8, Euclid DEF Divides
    <3>10. n * (p * y) = p * (n * y) BY <3>2, SMT
    <3>11. n * y \in Nat BY SMT
    <3>12. c * j = n * y BY <3>2, <3>6, <3>7, <3>9, <3>10, <3>11, ProductOf
    <3>13. Divides(n, c * j) BY <3>12 DEF Divides
    <3> QED BY <1>2, <3>4, <3>13
  <2> QED BY <2>1, <2>2
<1>3. q \in B
  <2> HIDE DEF B
  <2> QED BY <1>1, <1>2, SetInduction
<1>4. \A j \in Nat : Divides(n, q * j) => Divides(n, j)
  <2>1. q \in 1..64 /\ q <= q OBVIOUS
  <2> QED BY <1>3, <2>1
<1> QED BY <1>4

\* The smallest small prime factor of a number.
LEMMA SmallestFactor ==
  ASSUME NEW n \in Nat \ {0}, SmallPrimeFactors(n) # {}
  PROVE  /\ Min(SmallPrimeFactors(n)) \in Primes
         /\ Divides(Min(SmallPrimeFactors(n)), n)
<1>1. SmallPrimeFactors(n) \in SUBSET Nat BY PrimeBounds DEF SmallPrimeFactors
<1>2. Min(SmallPrimeFactors(n)) \in SmallPrimeFactors(n) BY <1>1, SmallestExistsMin
<1>3. /\ Min(SmallPrimeFactors(n)) \in Primes
      /\ n % Min(SmallPrimeFactors(n)) = 0 BY <1>2 DEF SmallPrimeFactors
<1> QED BY <1>3, PrimeBounds, DividesMod

-----------------------------------------------------------------------------
(* The loop of ComputeHostBufferSizeGivenHardUpperLimit.                   *)

\* One round of the loop.
LEMMA OneDivision ==
  ASSUME NEW user \in Nat \ {0}, NEW maximum \in Nat \ {0}, NEW n \in 1..user
  PROVE  LET d == Divided(n, user, maximum)
         IN  /\ d \in 1..user
             /\ n <= maximum => d = n
             /\ d <= maximum \/ 2 * d <= n
             /\ \A q \in 1..64, m \in Nat :
                  user = q * m /\ m <= maximum /\ Divides(n, user) => Divides(d, user)
<1> DEFINE p == Min(SmallPrimeFactors(n))
           r == (user + maximum - 1) \div maximum
<1>1. CASE n <= maximum
  <2>1. Divided(n, user, maximum) = n BY <1>1 DEF Divided
  <2> QED BY <1>1, <2>1
<1>2. CASE ~(n <= maximum) /\ SmallPrimeFactors(n) # {}
  <2>1. p \in Primes /\ Divides(p, n) /\ p \in Nat /\ 2 <= p
    BY <1>2, SmallestFactor, PrimeBounds
  <2>2. Divided(n, user, maximum) = n \div p BY <1>2 DEF Divided
  <2> HIDE DEF p
  <2>3. n \div p \in 1..n /\ n = p * (n \div p) /\ 2 * (n \div p) <= n
    BY <2>1, DivisorBounds
  <2>4. Divides(n, user) => Divides(n \div p, user)
    <3> DEFINE e == n \div p
    <3>1. e \in Nat /\ n = p * e BY <2>3
    <3> HIDE DEF e
    <3> SUFFICES ASSUME NEW c \in Nat, user = n * c PROVE Divides(e, user)
      BY DEF Divides, e
    <3>2. user = e * (p * c) BY <2>1, <3>1, SMT
    <3>3. p * c \in Nat BY <2>1, SMT
    <3> QED BY <3>2, <3>3 DEF Divides
  <2> QED BY <1>2, <2>2, <2>3, <2>4
<1>3. CASE ~(n <= maximum) /\ SmallPrimeFactors(n) = {}
  <2>1. Divided(n, user, maximum) = user \div r BY <1>3 DEF Divided
  <2>2. r \in Nat /\ r * maximum >= user /\ r >= 1 /\ r <= user BY RoundedUp
  <2> HIDE DEF r
  <2>3. user \div r \in 1..user /\ user \div r <= maximum
    BY <2>2, QuotientBounds
  <2>4. ASSUME NEW q \in 1..64, NEW m \in Nat, user = q * m, m <= maximum, Divides(n, user)
        PROVE  FALSE
    <3>1. \A z \in Primes : ~Divides(z, n)
      BY <1>3, PrimeBounds, DividesMod DEF SmallPrimeFactors
    <3>0. Divides(n, q * m) BY <2>4
    <3>n. n \in Nat \ {0} OBVIOUS
    <3>2. Divides(n, m) BY <3>0, <3>1, <3>n, <2>4, Coprime, Zenon
    <3>3. m # 0
      <4>1. q * 0 = 0 OBVIOUS
      <4> QED BY <2>4, <4>1
    <3>4. n <= m BY <3>2, <3>3, DivisorBounds
    <3> QED BY <1>3, <2>4, <3>4
  <2> QED BY <1>3, <2>1, <2>3, <2>4
<1> QED BY <1>1, <1>2, <1>3

\* The values the loop goes through.
LEMMA LoopValues ==
  ASSUME NEW user \in Nat \ {0}, NEW maximum \in Nat \ {0}
  PROVE  \E g \in [0..32 -> 1..user] :
           /\ g[0] = user
           /\ \A k \in 1..32 : g[k] = Divided(g[k-1], user, maximum)
           /\ SizeGivenHardUpperLimit(user, maximum) = g[32]
<1> DEFINE A == 1..user
           seq == [i \in 1..32 |-> i]
           step == [x \in A \X (1..32) |-> Divided(x[1], user, maximum)]
           last == [s \in SUBSET (1..32) |-> Max(s)]
           Solves(f) == f = [s \in SUBSET (1..32) |->
                               IF s = {} THEN user
                               ELSE Divided(f[s \ {Max(s)}], user, maximum)]
           iter == CHOOSE f : Solves(f)
<1>1. user \in A /\ \A n \in A : Divided(n, user, maximum) \in A BY OneDivision
<1>2. step \in [A \X (1..32) -> A] BY <1>1
<1>3. \A s \in SUBSET (1..32) : s # {} => last[s] \in s /\ \A i \in s : i <= last[s]
  BY LargestExists
<1>4. \A s \in SUBSET (1..32) : s # {} => last[s] = Max(s) OBVIOUS
<1>l. PicksLast(last, 32) BY <1>3 DEF PicksLast
<1> HIDE DEF last, A
<1>5. PICK f \in [SUBSET (1..32) -> A] :
        FoldsUpTo(f, 32, user, step, last)
  <2> HIDE DEF step
  <2>1. 32 \in Nat OBVIOUS
  <2>2. user \in A BY <1>1
  <2> QED BY <2>2, <1>l, <1>2, <2>1, FoldExists, Zenon
<1>6. Solves(f)
  <2> SUFFICES ASSUME NEW s \in SUBSET (1..32)
               PROVE  f[s] = IF s = {} THEN user
                             ELSE Divided(f[s \ {Max(s)}], user, maximum)
    <3>1. f = [s \in SUBSET (1..32) |-> f[s]] BY <1>5
    <3> QED BY <3>1
  <2> USE DEF FoldsUpTo
  <2>1. CASE s = {} BY <1>5, <2>1
  <2>2. CASE s # {}
    <3>1. last[s] \in 1..32 /\ s \ {last[s]} \in SUBSET (1..32) BY <1>3, <2>2
    <3>2. f[s \ {last[s]}] \in A BY <1>5, <3>1
    <3>3. step[<<f[s \ {last[s]}], last[s]>>] = Divided(f[s \ {last[s]}], user, maximum)
      BY <3>1, <3>2
    <3> QED BY <1>4, <1>5, <2>2, <3>3
  <2> QED BY <2>1, <2>2
<1>7. Solves(iter) BY <1>6
<1>8. SizeGivenHardUpperLimit(user, maximum) = iter[1..32]
  BY DEF SizeGivenHardUpperLimit, FoldLeft, MapThenFoldSet
<1> HIDE DEF iter
<1>9. ASSUME NEW k \in 1..32
      PROVE  iter[1..k] = Divided(iter[1..k-1], user, maximum)
  <2>1. 1..k \in SUBSET (1..32) /\ 1..k # {} BY <1>9
  <2>2. Max(1..k) \in 1..k /\ k <= Max(1..k)
    <3>1. k \in 1..k OBVIOUS
    <3>2. last[1..k] \in 1..k /\ \A i \in 1..k : i <= last[1..k] BY <1>3, <2>1, Zenon
    <3>3. last[1..k] = Max(1..k) BY <1>4, <2>1, Zenon
    <3> QED BY <3>1, <3>2, <3>3
  <2>3. Max(1..k) = k BY <2>2
  <2>4. (1..k) \ {k} = 1..k-1 OBVIOUS
  <2> QED BY <1>7, <2>1, <2>3, <2>4
<1> DEFINE g == [k \in 0..32 |-> iter[1..k]]
<1>10. g[0] = user
  <2>1. 1..0 = {} /\ {} \in SUBSET (1..32) OBVIOUS
  <2>2. iter[{}] = user BY <1>7, <2>1
  <2> QED BY <2>1, <2>2
<1>11. ASSUME NEW k \in 1..32 PROVE g[k] = Divided(g[k-1], user, maximum)
  <2>1. k \in 0..32 /\ k - 1 \in 0..32 OBVIOUS
  <2>2. g[k] = iter[1..k] /\ g[k-1] = iter[1..k-1] BY <2>1
  <2> QED BY <1>9, <2>2
<1> DEFINE K == {k \in Nat : k <= 32 => g[k] \in A}
<1>12. \A k \in 0..32 : g[k] \in A
  <2> HIDE DEF g
  <2>1. 0 \in K BY <1>1, <1>10
  <2>2. ASSUME NEW k \in Nat, k \in K PROVE k + 1 \in K
    <3> SUFFICES ASSUME k + 1 <= 32 PROVE g[k+1] \in A OBVIOUS
    <3>1. g[k+1] = Divided(g[k], user, maximum)
      <4>1. k + 1 \in 1..32 /\ (k + 1) - 1 = k OBVIOUS
      <4> QED BY <1>11, <4>1
    <3>2. g[k] \in A BY <2>2
    <3> QED BY <1>1, <3>1, <3>2
  <2> HIDE DEF K
  <2>3. Nat \subseteq K BY <2>1, <2>2, SetInduction
  <2> USE DEF K
  <2> QED BY <2>3
<1>13. g \in [0..32 -> 1..user] BY <1>12 DEF A
<1>14. SizeGivenHardUpperLimit(user, maximum) = g[32] BY <1>8
<1> QED BY <1>10, <1>11, <1>13, <1>14

\* MaxFrames is less than 2^32, which is what 32 halvings bring down to one.  The
\* factors are never multiplied out: the provers write large numbers as successors.
LEMMA MaxFramesBound ==
  /\ MaxFrames \in Nat \ {0}
  /\ \A x \in Nat : ((256 * 256) * (256 * 256)) * x <= MaxFrames => x = 0
<1>1. Kibi = 1024 BY DEF Kibi
<1> QED BY <1>1, SMT DEF MaxFrames
\* a rounds of the loop reach the limit or divide by factor at least.
Rounds(g, maximum, a, factor) ==
  \A k \in 0..32-a :
    /\ g[k] <= maximum => g[k + a] <= maximum
    /\ g[k + a] <= maximum \/ factor * g[k + a] <= g[k]

\* Twice the rounds divide by the square of the factor.
LEMMA TwiceTheRounds ==
  ASSUME NEW g, \A k \in 0..32 : g[k] \in Nat,
         NEW maximum \in Nat, NEW a \in 1..16, NEW factor \in Nat,
         Rounds(g, maximum, a, factor)
  PROVE  Rounds(g, maximum, 2 * a, factor * factor)
<1> SUFFICES ASSUME NEW k \in 0..32-2*a
             PROVE  /\ g[k] <= maximum => g[k + 2*a] <= maximum
                    /\ g[k + 2*a] <= maximum \/ (factor * factor) * g[k + 2*a] <= g[k]
  BY DEF Rounds
<1>1. k \in 0..32-a /\ k + a \in 0..32-a /\ (k + a) + a = k + 2*a
      /\ k + 2*a \in 0..32 /\ k \in 0..32 /\ k + a \in 0..32
  OBVIOUS
<1> DEFINE x == g[k]
           y == g[k + a]
           z == g[k + 2*a]
<1>2. x \in Nat /\ y \in Nat /\ z \in Nat BY <1>1
<1>3. /\ x <= maximum => y <= maximum
      /\ y <= maximum \/ factor * y <= x
  BY <1>1 DEF Rounds
<1>4. /\ y <= maximum => z <= maximum
      /\ z <= maximum \/ factor * z <= y
  BY <1>1 DEF Rounds
<1> HIDE DEF x, y, z
<1>5. factor * z <= y => factor * (factor * z) <= factor * y
  <2>1. factor * z \in Nat BY <1>2, SMT
  <2> DEFINE w == factor * z
  <2> HIDE DEF w
  <2>2. w <= y => factor * w <= factor * y BY <1>2, <2>1, SMT DEF w
  <2> QED BY <2>2 DEF w
<1>6. factor * (factor * z) = (factor * factor) * z BY <1>2, SMT
<1>7. factor * (factor * z) \in Int /\ factor * y \in Int BY <1>2, SMT
<1>8. \/ z <= maximum
      \/ (factor * factor) * z <= x
  BY <1>2, <1>3, <1>4, <1>5, <1>6, <1>7
<1> QED BY <1>3, <1>4, <1>8 DEF x, y, z

\* What ComputeHostBufferSizeGivenHardUpperLimit returns: at most the limit, and
\* an equal part of the user buffer if that has small factors enough.
LEMMA SizeIsDivided ==
  ASSUME NEW user \in 1..MaxFrames, NEW maximum \in Nat \ {0}
  PROVE  LET e == SizeGivenHardUpperLimit(user, maximum)
         IN  /\ e \in 1..user /\ e <= maximum
             /\ \A q \in 1..64, m \in Nat : user = q * m /\ m <= maximum => Divides(e, user)
<1>1. user \in Nat \ {0} BY MaxFramesBound
<1>2. PICK g \in [0..32 -> 1..user] :
        /\ g[0] = user
        /\ \A k \in 1..32 : g[k] = Divided(g[k-1], user, maximum)
        /\ SizeGivenHardUpperLimit(user, maximum) = g[32]
  BY <1>1, LoopValues
<1>3. ASSUME NEW k \in 0..31
      PROVE  /\ g[k] <= maximum => g[k+1] <= maximum
             /\ g[k+1] <= maximum \/ 2 * g[k+1] <= g[k]
             /\ \A q \in 1..64, m \in Nat :
                  user = q * m /\ m <= maximum /\ Divides(g[k], user) => Divides(g[k+1], user)
  <2>1. k + 1 \in 1..32 /\ (k + 1) - 1 = k /\ k \in 0..32 OBVIOUS
  <2>2. g[k+1] = Divided(g[k], user, maximum) BY <1>2, <2>1
  <2>3. g[k] \in 1..user BY <2>1
  <2>4. user \in Nat \ {0} /\ maximum \in Nat \ {0} BY <1>1
  <2>5. LET d == Divided(g[k], user, maximum)
        IN  /\ g[k] <= maximum => d = g[k]
            /\ d <= maximum \/ 2 * d <= g[k]
            /\ \A q \in 1..64, m \in Nat :
                 user = q * m /\ m <= maximum /\ Divides(g[k], user) => Divides(d, user)
    BY <2>3, <2>4, OneDivision, Zenon
  <2> QED BY <2>2, <2>5
<1>4. \A k \in 0..32 : g[k] \in Nat
  <2> SUFFICES ASSUME NEW k \in 0..32 PROVE g[k] \in Nat OBVIOUS
  <2>1. g[k] \in 1..user OBVIOUS
  <2> QED BY <2>1
<1>5. Rounds(g, maximum, 1, 2)
  <2>1. \A k \in 0..32-1 :
          /\ g[k] <= maximum => g[k + 1] <= maximum
          /\ g[k + 1] <= maximum \/ 2 * g[k + 1] <= g[k]
    <3>1. 32 - 1 = 31 OBVIOUS
    <3> QED BY <1>3, <3>1, Zenon
  <2> QED BY <2>1, Zenon DEF Rounds
<1>6. Rounds(g, maximum, 2, 4)
  <2>1. Rounds(g, maximum, 2 * 1, 2 * 2) BY <1>4, <1>5, TwiceTheRounds
  <2> QED BY <2>1
<1>7. Rounds(g, maximum, 4, 16)
  <2>1. Rounds(g, maximum, 2 * 2, 4 * 4) BY <1>4, <1>6, TwiceTheRounds
  <2> QED BY <2>1
<1>8. Rounds(g, maximum, 8, 256)
  <2>1. Rounds(g, maximum, 2 * 4, 16 * 16) BY <1>4, <1>7, TwiceTheRounds
  <2> QED BY <2>1
<1>9. Rounds(g, maximum, 16, 256 * 256)
  <2>1. Rounds(g, maximum, 2 * 8, 256 * 256) BY <1>4, <1>8, TwiceTheRounds
  <2> QED BY <2>1
<1>10. Rounds(g, maximum, 32, (256 * 256) * (256 * 256))
  <2>1. Rounds(g, maximum, 2 * 16, (256 * 256) * (256 * 256)) BY <1>4, <1>9, TwiceTheRounds
  <2> QED BY <2>1
<1>11. g[32] \in 1..user OBVIOUS
<1>12. g[32] <= maximum
  <2>1. 0 \in 0..32-32 /\ 0 + 32 = 32 OBVIOUS
  <2>2. g[32] <= maximum \/ (256 * 256) * (256 * 256) * g[32] <= g[0] BY <1>10, <2>1 DEF Rounds
  <2> QED BY <1>2, <1>11, <2>2, MaxFramesBound
<1>13. ASSUME NEW q \in 1..64, NEW m \in Nat, user = q * m, m <= maximum
       PROVE  Divides(g[32], user)
  <2> DEFINE K == {k \in Nat : k <= 32 => Divides(g[k], user)}
  <2>1. 0 \in K
    <3>1. user = user * 1 BY <1>1
    <3> QED BY <1>2, <3>1 DEF Divides
  <2>2. ASSUME NEW k \in Nat, k \in K PROVE k + 1 \in K
    <3> SUFFICES ASSUME k + 1 <= 32 PROVE Divides(g[k+1], user) OBVIOUS
    <3>1. k \in 0..31 /\ k <= 32 OBVIOUS
    <3>2. Divides(g[k], user) BY <2>2, <3>1
    <3> QED BY <1>3, <1>13, <3>1, <3>2
  <2> HIDE DEF K
  <2>3. Nat \subseteq K BY <2>1, <2>2, SetInduction
  <2>4. 32 \in Nat /\ 32 <= 32 OBVIOUS
  <2> USE DEF K
  <2> QED BY <2>3, <2>4
<1> QED BY <1>2, <1>11, <1>12, <1>13

-----------------------------------------------------------------------------
(* SelectHostBufferSizeFramesAndHostBufferCount.                           *)

\* The settings s hold the latency in all buffers but one.
Covers(s, latency, minimum) ==
  /\ s.size \in Nat \ {0} /\ s.count \in Nat
  /\ s.count >= minimum
  /\ (s.count - 1) * s.size >= latency

\* ComputeHostBufferCountForFixedBufferSizeFrames counts enough buffers.
LEMMA CountIsEnough ==
  ASSUME NEW latency \in Nat, NEW size \in Nat \ {0}, NEW minimum \in Nat
  PROVE  LET c == HostBufferCount(latency, size, minimum)
         IN  c \in Nat /\ c >= minimum /\ (c - 1) * size >= latency
<1> DEFINE a == (latency + size - 1) \div size
           c == HostBufferCount(latency, size, minimum)
<1>1. a \in Nat /\ a * size >= latency BY RoundedUp
<1>2. c = Max({a + 1, minimum}) BY DEF HostBufferCount
<1> HIDE DEF a, c
<1>3. c \in Nat /\ c >= minimum /\ c - 1 >= a BY <1>1, <1>2, GreaterOfTwo
<1>4. (c - 1) * size >= a * size
  <2> DEFINE b == c - 1
  <2>1. b \in Int /\ b >= a BY <1>3
  <2> HIDE DEF b
  <2>2. b * size >= a * size BY <1>1, <2>1, SMT
  <2> QED BY <2>2 DEF b
<1>5. (c - 1) * size \in Int /\ a * size \in Int BY <1>1, <1>3, SMT
<1> QED BY <1>1, <1>3, <1>4, <1>5 DEF c

\* So do settings made of a size and that count, unless they divide by zero.
LEMMA SizedCovers ==
  ASSUME NEW latency \in Nat, NEW size \in Nat, NEW minimum \in Nat \ {0}
  PROVE  LET s == Sized(latency, size, minimum)
         IN  /\ s = Crash <=> size = 0
             /\ size # 0 => s.size = size /\ Covers(s, latency, minimum)
<1>1. CASE size = 0 BY <1>1 DEF Sized
<1>2. CASE size # 0
  <2> DEFINE s == Sized(latency, size, minimum)
  <2>1. s = [size |-> size, count |-> HostBufferCount(latency, size, minimum)]
    BY <1>2 DEF Sized
  <2> HIDE DEF s
  <2>2. s.size = size /\ s.count = HostBufferCount(latency, size, minimum) BY <2>1
  <2>3. Covers(s, latency, minimum) BY <1>2, <2>2, CountIsEnough DEF Covers
  <2>4. s # Crash BY <1>2, <2>2 DEF Crash
  <2> QED BY <1>2, <2>2, <2>3, <2>4 DEF s
<1> QED BY <1>1, <1>2

\* User buffers are longer than a host buffer, and in equal parts they are not.
IsSmooth(user, absolute) == \E q \in 1..64 : user % q = 0 /\ user \div q <= absolute

\* What SelectHostBufferSizeFramesAndHostBufferCount chooses.
WellChosen(s, suggested, user, minimum, preferred, absolute) ==
  /\ s = Crash => user \in preferred + 1..absolute
  /\ s # Crash =>
       /\ Covers(s, suggested, minimum)
       /\ s.size <= absolute
       /\ user # 0 /\ user <= absolute => s.size % user = 0
       /\ user > absolute /\ IsSmooth(user, absolute) => user % s.size = 0

\* It does choose so, if there is room for the granularity of 16 frames: it divides
\* by zero only for a user buffer that is neither split nor preferred.
LEMMA SelectionIsWellChosen ==
  ASSUME NEW suggested \in Nat, NEW user \in 0..MaxFrames, NEW minimum \in Nat \ {0},
         NEW preferred \in Nat, preferred >= 16, NEW absolute \in Nat, absolute >= 16
  PROVE  WellChosen(SelectBuffers(suggested, user, minimum, preferred, absolute),
                    suggested, user, minimum, preferred, absolute)
<1> DEFINE effective == IF user = paFramesPerBufferUnspecified THEN GRANULARITY_WHEN_UNSPECIFIED
                        ELSE IF user > absolute THEN SizeGivenHardUpperLimit(user, absolute)
                        ELSE user
           latency == IF user > absolute THEN Max({suggested, user}) ELSE suggested
           plain == Sized(latency, effective, minimum)
           wanted == (plain.count - 1 + TARGET_HOST_BUFFER_COUNT - 2)
                       \div (TARGET_HOST_BUFFER_COUNT - 1)
           packed == Coalesced(wanted, effective, preferred, absolute)
           s == SelectBuffers(suggested, user, minimum, preferred, absolute)
<1>1. s = IF effective < user \/ wanted <= 1 THEN plain
          ELSE Sized(latency, effective * packed, minimum)
  BY DEF SelectBuffers
<1>0. user \in Nat BY MaxFramesBound
<1>2. /\ user = 0 => effective = 16
      /\ user # 0 /\ user > absolute => effective = SizeGivenHardUpperLimit(user, absolute)
      /\ user # 0 /\ ~(user > absolute) => effective = user
  BY DEF paFramesPerBufferUnspecified, GRANULARITY_WHEN_UNSPECIFIED
<1>3. user > absolute => user \in 1..MaxFrames BY <1>0
<1>4. /\ effective \in Nat \ {0} /\ effective <= absolute
      /\ user > absolute /\ IsSmooth(user, absolute) => user % effective = 0
  <2>1. CASE user > absolute
    <3> DEFINE e == SizeGivenHardUpperLimit(user, absolute)
    <3>1. effective = e BY <1>0, <1>2, <2>1
    <3>2. /\ e \in 1..user /\ e <= absolute
          /\ \A q \in 1..64, m \in Nat : user = q * m /\ m <= absolute => Divides(e, user)
      <4>1. user \in 1..MaxFrames /\ absolute \in Nat \ {0} BY <1>3, <2>1
      <4> QED BY <4>1, SizeIsDivided, Zenon
    <3> HIDE DEF e, effective
    <3>3. ASSUME IsSmooth(user, absolute) PROVE user % e = 0
      <4>1. PICK q \in 1..64 : user % q = 0 /\ user \div q <= absolute BY <3>3 DEF IsSmooth
      <4>2. user = q * (user \div q) + (user % q) BY <1>0, DivMod
      <4>3. user \div q \in Nat BY <1>0, QuotientBounds
      <4>4. q * (user \div q) \in Int BY <4>3, SMT
      <4>5. user = q * (user \div q) BY <4>1, <4>2, <4>4
      <4>6. Divides(e, user) BY <3>2, <4>1, <4>3, <4>5
      <4> QED BY <1>0, <3>2, <4>6, DividesMod
    <3> QED BY <1>0, <3>1, <3>2, <3>3
  <2>2. CASE ~(user > absolute)
    <3> HIDE DEF effective
    <3> QED BY <1>0, <1>2, <2>2
  <2> QED BY <2>1, <2>2
<1>5. latency \in Nat /\ latency >= suggested BY <1>0, GreaterOfTwo
<1> HIDE DEF effective, latency
<1>6. plain # Crash /\ plain.size = effective /\ Covers(plain, latency, minimum)
  BY <1>4, <1>5, SizedCovers
<1>7. wanted \in Nat
  <2>1. plain.count \in Nat /\ plain.count >= 1 BY <1>6 DEF Covers
  <2> HIDE DEF plain
  <2>2. plain.count - 1 + TARGET_HOST_BUFFER_COUNT - 2 \in Nat /\ TARGET_HOST_BUFFER_COUNT - 1 = 7
    BY <2>1 DEF TARGET_HOST_BUFFER_COUNT
  <2> DEFINE x == plain.count - 1 + TARGET_HOST_BUFFER_COUNT - 2
  <2> HIDE DEF x
  <2>3. x \in Nat BY <2>2 DEF x
  <2>4. x \div 7 \in Nat BY <2>3, QuotientBounds
  <2> QED BY <2>2, <2>4 DEF x
<1> HIDE DEF plain, wanted
<1>8. /\ packed \in Nat /\ effective * packed <= absolute
      /\ packed = 0 => wanted = 0 \/ preferred < effective
  <2> DEFINE limit == Min({absolute, preferred})
             room == limit \div effective
  <2>1. limit \in Nat /\ limit <= absolute /\ (limit = absolute \/ limit = preferred)
    BY LesserOfTwo
  <2> HIDE DEF limit
  <2>2. /\ room \in Nat /\ effective * room <= limit
        /\ effective <= limit => room >= 1
    BY <1>4, <2>1, QuotientBounds
  <2>3. packed = Min({wanted, room}) BY DEF Coalesced, limit
  <2> HIDE DEF room, packed
  <2>4. packed \in Nat /\ packed <= room /\ (packed = wanted \/ packed = room)
    BY <1>7, <2>2, <2>3, LesserOfTwo
  <2>5. effective * packed <= effective * room BY <1>4, <2>2, <2>4, SMT
  <2>6. effective * packed \in Int /\ effective * room \in Int BY <1>4, <2>2, <2>4, SMT
  <2> QED BY <1>4, <2>1, <2>2, <2>4, <2>5, <2>6
<1> HIDE DEF packed
<1>9. effective * packed \in Nat BY <1>4, <1>8, SMT
<1>10. Covers(plain, suggested, minimum)
  <2>1. (plain.count - 1) * plain.size \in Int BY <1>6, SMT DEF Covers
  <2> QED BY <1>5, <1>6, <2>1 DEF Covers
<1>11. user # 0 /\ user <= absolute => effective % user = 0
  <2>1. ASSUME user # 0, user <= absolute PROVE effective % user = 0
    <3>1. effective = user BY <1>0, <1>2, <2>1
    <3>2. (user * 1 + 0) % user = 0 BY <1>0, <2>1, ModUnique
    <3> QED BY <1>0, <3>1, <3>2
  <2> QED BY <2>1
<1>12. CASE effective < user \/ wanted <= 1
  <2>1. s = plain BY <1>1, <1>12
  <2> HIDE DEF s
  <2> QED BY <1>0, <1>4, <1>6, <1>10, <1>11, <2>1 DEF WellChosen, s
<1>13. CASE ~(effective < user) /\ ~(wanted <= 1)
  <2>1. s = Sized(latency, effective * packed, minimum) BY <1>1, <1>13
  <2>2. user <= absolute BY <1>0, <1>4, <1>13
  <2> HIDE DEF s
  <2>3. CASE packed = 0
    <3>1. preferred < effective BY <1>7, <1>8, <1>13, <2>3
    <3>2. effective = user BY <1>0, <1>2, <2>2, <3>1
    <3>3. s = Crash
      <4>1. effective * packed = 0 BY <1>4, <2>3, SMT
      <4> QED BY <1>5, <1>9, <2>1, <4>1, SizedCovers
    <3>4. user \in preferred + 1..absolute BY <1>0, <2>2, <3>1, <3>2
    <3> QED BY <3>3, <3>4 DEF WellChosen, s
  <2>4. CASE packed # 0
    <3>1. effective * packed # 0 BY <1>4, <1>8, <2>4, SMT
    <3>2. s # Crash /\ s.size = effective * packed /\ Covers(s, latency, minimum)
      BY <1>5, <1>9, <2>1, <3>1, SizedCovers
    <3>3. Covers(s, suggested, minimum)
      <4>1. (s.count - 1) * s.size \in Int BY <3>2, SMT DEF Covers
      <4> QED BY <1>5, <3>2, <4>1 DEF Covers
    <3>4. ASSUME user # 0 PROVE s.size % user = 0
      <4>1. effective = user BY <1>0, <1>2, <2>2, <3>4
      <4>2. (user * packed + 0) % user = 0 BY <1>0, <1>8, <3>4, ModUnique
      <4>3. user * packed \in Int BY <1>0, <1>8, SMT
      <4> QED BY <3>2, <4>1, <4>2, <4>3
    <3> QED BY <1>0, <1>8, <2>2, <3>2, <3>3, <3>4 DEF WellChosen, s
  <2> QED BY <2>3, <2>4
<1> QED BY <1>12, <1>13

-----------------------------------------------------------------------------
(* CalculateBufferSettings.                                                *)

\* The greatest number of channels is one of them.
LEMMA GreatestOf ==
  ASSUME NEW n \in Nat, NEW S \in SUBSET (1..n), S # {}
  PROVE  Max(S) \in 1..n
BY LargestExists

\* Sixteen frames of the devices of a direction have room in a host buffer.
LEMMA FramesAreSmall ==
  ASSUME NEW p \in StreamParameters, NEW d \in Direction, Uses(p, d)
  PROVE  FrameSizeBytes(p, d) \in Nat \ {0} /\ 16 * FrameSizeBytes(p, d) <= 32 * 1024
<1> DEFINE c == p.channels[d]
           f == FrameSizeBytes(p, d)
<1>1. c \in Seq(1..MaxChannels) /\ c # <<>> BY DEF StreamParameters, Uses
<1>2. ToSet(c) \in SUBSET (1..MaxChannels) /\ ToSet(c) # {}
  <2> HIDE DEF c
  <2>0. Len(c) \in Nat /\ Len(c) # 0 /\ c \in [1..Len(c) -> 1..MaxChannels]
    BY <1>1, EmptySeq, LenProperties
  <2>1. 1 \in DOMAIN c /\ \A i \in DOMAIN c : c[i] \in 1..MaxChannels
    BY <2>0
  <2> QED BY <2>1 DEF ToSet
<1>3. Max(ToSet(c)) \in 1..1024
  <2> HIDE DEF c
  <2>1. MaxChannels \in Nat BY DEF MaxChannels
  <2>2. Max(ToSet(c)) \in 1..MaxChannels BY <1>2, <2>1, GreatestOf
  <2> QED BY <2>2 DEF MaxChannels
<1>4. f \in Nat \ {0} /\ 16 * f <= 32 * 1024
  <2>1. f = 2 * Max(ToSet(c)) BY DEF FrameSizeBytes, SampleSize
  <2> HIDE DEF f, c
  <2> QED BY <1>3, <2>1
<1> QED BY <1>4

\* The host buffers of a direction have room for the granularity of 16 frames.
LEMMA LimitAllows ==
  ASSUME NEW p \in StreamParameters, NEW d \in Direction, Uses(p, d)
  PROVE  HardLimit(p, d) \in Nat /\ HardLimit(p, d) >= 16
<1> DEFINE f == FrameSizeBytes(p, d)
<1>4. f \in Nat \ {0} /\ 16 * f <= 32 * 1024 BY FramesAreSmall
<1>5. HardLimit(p, d) = (32 * 1024) \div f BY DEF HardLimit, MAX_HOST_BUFFER_BYTES
<1> DEFINE b == 32 * 1024
<1>6. b \in Nat /\ 16 * f <= b BY <1>4
<1> HIDE DEF f, b
<1>7. b \div f \in Nat /\ b = f * (b \div f) + (b % f) /\ b % f \in 0..f-1
  <2>1. b \div f \in Nat BY <1>4, <1>6, QuotientBounds
  <2>2. b = f * (b \div f) + (b % f) /\ b % f \in 0..f-1 BY <1>4, <1>6, DivMod
  <2> QED BY <2>1, <2>2
<1>8. b \div f >= 16
  <2> DEFINE q == b \div f
  <2>1. q \in Nat /\ f * q > b - f
    <3>1. f * q \in Int BY <1>4, <1>7, SMT
    <3> QED BY <1>4, <1>6, <1>7, <3>1
  <2> HIDE DEF q
  <2>2. q <= 15 => f * q <= 15 * f BY <1>4, <2>1, SMT
  <2>3. f * q \in Int BY <1>4, <2>1, SMT
  <2> QED BY <1>4, <1>6, <2>1, <2>2, <2>3 DEF q
<1> QED BY <1>5, <1>7, <1>8 DEF b

\* Of n bytes there are more frames of the one size than of the other only if they
\* are smaller.
LEMMA MoreFramesAreSmaller ==
  ASSUME NEW n \in Nat, NEW f \in Nat \ {0}, NEW g \in Nat \ {0}, n \div g > n \div f
  PROVE  g < f
<1> DEFINE a == n \div f
           b == n \div g
<1>1. /\ a \in Nat /\ n = f * a + (n % f) /\ n % f \in 0..f-1
      /\ b \in Nat /\ n = g * b + (n % g) /\ n % g \in 0..g-1
  <2>1. a \in Nat /\ b \in Nat BY QuotientBounds
  <2>2. n = f * a + (n % f) /\ n % f \in 0..f-1 BY DivMod
  <2>3. n = g * b + (n % g) /\ n % g \in 0..g-1 BY DivMod
  <2> QED BY <2>1, <2>2, <2>3
<1>2. b >= a + 1 BY <1>1
<1> HIDE DEF a, b
<1>3. f * a \in Int /\ g * b \in Int BY <1>1, SMT
<1>4. f * a + f > n /\ g * b <= n BY <1>1, <1>3
<1>5. SUFFICES ASSUME g >= f PROVE FALSE OBVIOUS
<1>6. g * b >= f * b /\ f * b >= f * (a + 1) /\ f * (a + 1) = f * a + f
  BY <1>1, <1>2, <1>5, SMT
<1>7. f * b \in Int /\ f * (a + 1) \in Int BY <1>1, SMT
<1> QED BY <1>3, <1>4, <1>6, <1>7

\* So the hard limit is lower for larger frames.
LEMMA LowerLimit ==
  ASSUME NEW p \in StreamParameters, NEW d \in Direction, NEW o \in Direction,
         Uses(p, d), Uses(p, o), HardLimit(p, o) > HardLimit(p, d)
  PROVE  FrameSizeBytes(p, o) < FrameSizeBytes(p, d)
<1>1. FrameSizeBytes(p, d) \in Nat \ {0} /\ FrameSizeBytes(p, o) \in Nat \ {0}
  BY FramesAreSmall
<1>2. /\ MAX_HOST_BUFFER_BYTES \in Nat
      /\ MAX_HOST_BUFFER_BYTES \div FrameSizeBytes(p, o)
           > MAX_HOST_BUFFER_BYTES \div FrameSizeBytes(p, d)
  BY DEF HardLimit, MAX_HOST_BUFFER_BYTES
<1> QED BY <1>1, <1>2, MoreFramesAreSmaller

\* What one direction needs on its own.
LEMMA DirectionIsWellChosen ==
  ASSUME NEW p \in StreamParameters, NEW d \in Direction, Uses(p, d)
  PROVE  LET s == SettingsOf(p, d)
         IN  /\ IsLowLevel(p, d) => s.size \in Nat \ {0} /\ s.count \in Nat \ {0} /\ s # Crash
             /\ ~IsLowLevel(p, d) =>
                  WellChosen(s, p.latency[d], p.framesPerBuffer, MinimumCount(p, d),
                             p.sampleRate \div 10, HardLimit(p, d))
<1> DEFINE s == SettingsOf(p, d)
<1>1. CASE IsLowLevel(p, d)
  <2>1. p.lowLevel[d] \in {NoBuffers} \cup [size : 1..MaxFrames, count : 1..MaxFrames]
    BY DEF StreamParameters
  <2>2. p.lowLevel[d] \in [size : 1..MaxFrames, count : 1..MaxFrames]
    BY <1>1, <2>1 DEF IsLowLevel
  <2>3. s = p.lowLevel[d] BY <1>1 DEF SettingsOf
  <2> HIDE DEF s
  <2>4. s.size \in Nat \ {0} /\ s.count \in Nat \ {0} BY <2>2, <2>3, MaxFramesBound
  <2>5. s # Crash BY <2>4 DEF Crash
  <2> QED BY <1>1, <2>4, <2>5 DEF s
<1>2. CASE ~IsLowLevel(p, d)
  <2> DEFINE preferred == p.sampleRate \div 10
             limit == HardLimit(p, d)
             minimum == MinimumCount(p, d)
             rate == p.sampleRate
  <2>1. p.latency[d] \in Nat /\ p.framesPerBuffer \in 0..MaxFrames
    BY MaxFramesBound DEF StreamParameters
  <2>2. preferred \in Nat /\ preferred >= 16
    <3>1. rate \in Nat /\ rate >= 1000 BY DEF StreamParameters
    <3> HIDE DEF rate
    <3>2. rate \div 10 \in Nat BY <3>1, QuotientBounds
    <3>3. rate = 10 * (rate \div 10) + (rate % 10) /\ rate % 10 \in 0..9
      <4>1. 10 \in Nat \ {0} /\ rate \in Int BY <3>1
      <4> QED BY <4>1, DivMod
    <3>4. rate \div 10 >= 16 BY <3>1, <3>2, <3>3
    <3> QED BY <3>2, <3>4 DEF rate
  <2>3. limit \in Nat /\ limit >= 16 BY LimitAllows
  <2>4. minimum \in Nat \ {0} BY DEF MinimumCount
  <2>5. s = SelectBuffers(p.latency[d], p.framesPerBuffer, minimum, preferred, limit)
    BY <1>2 DEF SettingsOf
  <2> HIDE DEF preferred, limit, minimum, s
  <2>6. WellChosen(s, p.latency[d], p.framesPerBuffer, minimum, preferred, limit)
    BY <2>1, <2>2, <2>3, <2>4, <2>5, SelectionIsWellChosen
  <2> QED BY <1>2, <2>6 DEF preferred, limit, minimum, s
<1> QED BY <1>1, <1>2

\* Crash and the sizes of one direction, whatever asked for them.
LEMMA DirectionHasBuffers ==
  ASSUME NEW p \in StreamParameters, NEW d \in Direction, Uses(p, d),
         SettingsOf(p, d) # Crash
  PROVE  SettingsOf(p, d).size \in Nat \ {0} /\ SettingsOf(p, d).count \in Nat \ {0}
<1>1. CASE IsLowLevel(p, d) BY <1>1, DirectionIsWellChosen
<1>2. CASE ~IsLowLevel(p, d)
  <2> DEFINE s == SettingsOf(p, d)
             minimum == MinimumCount(p, d)
  <2>1. WellChosen(s, p.latency[d], p.framesPerBuffer, minimum,
                   p.sampleRate \div 10, HardLimit(p, d))
    BY <1>2, DirectionIsWellChosen
  <2>2. Covers(s, p.latency[d], minimum) BY <2>1 DEF WellChosen
  <2>3. minimum \in Nat \ {0} BY DEF MinimumCount
  <2> HIDE DEF s, minimum
  <2>4. s.size \in Nat \ {0} /\ s.count \in Nat \ {0} BY <2>2, <2>3 DEF Covers
  <2> QED BY <2>4 DEF s
<1> QED BY <1>1, <1>2

\* Equal sizes divide each other.
LEMMA EqualSizesDivide ==
  ASSUME NEW x \in Nat \ {0}
  PROVE  Max({x, x}) % Min({x, x}) = 0
<1>1. Max({x, x}) = x /\ Min({x, x}) = x BY GreaterOfTwo, LesserOfTwo
<1>2. (x * 1 + 0) % x = 0 BY ModUnique
<1> QED BY <1>1, <1>2

\* What CalculateBufferSettings makes of the settings of both directions: it
\* leaves both, or changes one so that the sizes are equal.
LEMMA HowSettled ==
  ASSUME NEW p, NEW inputFirst
  PROVE  LET in == SettingsOf(p, "in")
             out == SettingsOf(p, "out")
             s == CalculateBufferSettings(p, inputFirst)
             settled == \/ ~IsFullDuplex(p) \/ in = Crash \/ out = Crash \/ in.size = out.size
                        \/ IsLowLevel(p, "in") /\ IsLowLevel(p, "out")
         IN  \/ settled /\ s["in"] = in /\ s["out"] = out
             \/ /\ ~settled /\ s["in"] = in
                /\ s["out"] = [size |-> in.size,
                               count |-> HostBufferCount(p.latency["out"], out.count, 2)]
             \/ ~settled /\ s["in"] = Sized(p.latency["in"], out.size, 3) /\ s["out"] = out
<1> DEFINE in == SettingsOf(p, "in")
           out == SettingsOf(p, "out")
           s == CalculateBufferSettings(p, inputFirst)
           first == [size |-> in.size, count |-> HostBufferCount(p.latency["out"], out.count, 2)]
           second == Sized(p.latency["in"], out.size, 3)
           settled == \/ ~IsFullDuplex(p) \/ in = Crash \/ out = Crash \/ in.size = out.size
                      \/ IsLowLevel(p, "in") /\ IsLowLevel(p, "out")
<1>1. s = IF settled THEN Settings(in, out)
          ELSE IF ~IsLowLevel(p, "out") /\ inputFirst THEN Settings(in, first)
          ELSE Settings(second, out)
  <2>1. s = IF ~IsFullDuplex(p) \/ Crash \in {in, out} \/ in.size = out.size
                 \/ (IsLowLevel(p, "in") /\ IsLowLevel(p, "out"))
              THEN Settings(in, out)
            ELSE IF ~IsLowLevel(p, "out") /\ inputFirst THEN Settings(in, first)
            ELSE Settings(second, out)
    BY DEF CalculateBufferSettings
  <2>2. Crash \in {in, out} <=> in = Crash \/ out = Crash OBVIOUS
  <2> HIDE DEF in, out, s, first, second
  <2> QED BY <2>1, <2>2
<1>2. \A x, y : Settings(x, y)["in"] = x /\ Settings(x, y)["out"] = y BY DEF Settings
<1> HIDE DEF settled, in, out, s, first, second
<1>3. \/ settled /\ s["in"] = in /\ s["out"] = out
      \/ ~settled /\ s["in"] = in /\ s["out"] = first
      \/ ~settled /\ s["in"] = second /\ s["out"] = out
  BY <1>1, <1>2
<1> QED BY <1>3 DEF settled, in, out, s, first, second

\* A stream's settings s, computed without a division by zero.
Fit(p, s) ==
  /\ Uses(p, "in") /\ Uses(p, "out") =>
       Max({s["in"].size, s["out"].size}) % Min({s["in"].size, s["out"].size}) = 0
  /\ \A d \in Direction :
       Uses(p, d) /\ ~IsLowLevel(p, d) =>
         \/ Covers(s[d], p.latency[d], MinimumCount(p, d))
         \/ d = "out" /\ Uses(p, "in") /\ s["out"].size # SettingsOf(p, "out").size
  /\ \A d \in Direction : Uses(p, d) =>
       \E o \in Direction :
         /\ Uses(p, o) /\ SettingsOf(p, o) # Crash
         /\ s[d].size = SettingsOf(p, o).size

\* Some direction that is used has no settings.
DividesByZero(p, s) == \E d \in Direction : Uses(p, d) /\ s[d] = Crash

\* The settings fit, and where there are none, there were none for that direction
\* on its own.
LEMMA SettingsFit ==
  ASSUME NEW p \in StreamParameters, NEW inputFirst, ~AreIncompatible(p)
  PROVE  LET s == CalculateBufferSettings(p, inputFirst)
         IN  /\ ~DividesByZero(p, s) => Fit(p, s)
             /\ \A d \in Direction : Uses(p, d) /\ s[d] = Crash => SettingsOf(p, d) = Crash
<1> DEFINE in == SettingsOf(p, "in")
           out == SettingsOf(p, "out")
           s == CalculateBufferSettings(p, inputFirst)
           settled == \/ ~IsFullDuplex(p) \/ in = Crash \/ out = Crash \/ in.size = out.size
                      \/ IsLowLevel(p, "in") /\ IsLowLevel(p, "out")
           both == Uses(p, "in") /\ Uses(p, "out")
<1>d. Direction = {"in", "out"} BY DEF Direction
<1>m. /\ both => MinimumCount(p, "in") = 3
      /\ IsFullDuplex(p) <=> both
  BY DEF MinimumCount, IsFullDuplex
<1>1. /\ Uses(p, "in") /\ in # Crash => in.size \in Nat \ {0} /\ in.count \in Nat \ {0}
      /\ Uses(p, "out") /\ out # Crash => out.size \in Nat \ {0} /\ out.count \in Nat \ {0}
  BY <1>d, DirectionHasBuffers
<1>2. \A d \in Direction : Uses(p, d) /\ ~IsLowLevel(p, d) /\ SettingsOf(p, d) # Crash =>
        Covers(SettingsOf(p, d), p.latency[d], MinimumCount(p, d))
  BY DirectionIsWellChosen DEF WellChosen
<1>3. p.latency["in"] \in Nat /\ p.latency["out"] \in Nat
  BY <1>d, MaxFramesBound DEF StreamParameters
<1>c. ~AreIncompatible(p) /\ both /\ IsLowLevel(p, "in") /\ IsLowLevel(p, "out") =>
        Max({in.size, out.size}) % Min({in.size, out.size}) = 0
  BY <1>m DEF AreIncompatible
<1>4. \/ settled /\ s["in"] = in /\ s["out"] = out
      \/ /\ ~settled /\ s["in"] = in
         /\ s["out"] = [size |-> in.size,
                        count |-> HostBufferCount(p.latency["out"], out.count, 2)]
      \/ ~settled /\ s["in"] = Sized(p.latency["in"], out.size, 3) /\ s["out"] = out
  BY HowSettled
<1> HIDE DEF s
<1>5. CASE settled /\ s["in"] = in /\ s["out"] = out
  <2>1. \A d \in Direction : s[d] = SettingsOf(p, d) BY <1>d, <1>5
  <2>2. ASSUME ~DividesByZero(p, s) PROVE Fit(p, s)
    <3>1. \A d \in Direction : Uses(p, d) => SettingsOf(p, d) # Crash
      BY <2>1, <2>2 DEF DividesByZero
    <3>2. ASSUME both PROVE Max({in.size, out.size}) % Min({in.size, out.size}) = 0
      <4>1. in # Crash /\ out # Crash BY <1>d, <3>1, <3>2
      <4>2. in.size = out.size \/ (IsLowLevel(p, "in") /\ IsLowLevel(p, "out"))
        <5>1. settled /\ IsFullDuplex(p) BY <1>5, <1>m, <3>2
        <5> HIDE DEF in, out
        <5> QED BY <4>1, <5>1
      <4>3. in.size \in Nat \ {0} BY <1>1, <3>2, <4>1
      <4> HIDE DEF in, out
      <4>4. CASE in.size = out.size BY <4>3, <4>4, EqualSizesDivide
      <4> QED BY <1>c, <3>2, <4>2, <4>4
    <3>3. \A d \in Direction : Uses(p, d) /\ ~IsLowLevel(p, d) =>
            Covers(s[d], p.latency[d], MinimumCount(p, d))
      BY <1>2, <2>1, <3>1
    <3>4. \A d \in Direction : Uses(p, d) =>
            \E o \in Direction :
              /\ Uses(p, o) /\ SettingsOf(p, o) # Crash
              /\ s[d].size = SettingsOf(p, o).size
      BY <2>1, <3>1
    <3> QED BY <1>5, <2>1, <3>2, <3>3, <3>4 DEF Fit
  <2>3. \A d \in Direction : s[d] = Crash => SettingsOf(p, d) = Crash BY <2>1
  <2> QED BY <2>2, <2>3 DEF s
<1>6. CASE /\ ~settled /\ s["in"] = in
           /\ s["out"] = [size |-> in.size,
                          count |-> HostBufferCount(p.latency["out"], out.count, 2)]
  <2>1. both /\ in # Crash /\ out # Crash /\ in.size # out.size BY <1>6, <1>m
  <2>2. in.size \in Nat \ {0} /\ out.count \in Nat \ {0} BY <1>1, <2>1
  <2>3. s["out"].size = in.size /\ s["in"].size = in.size BY <1>6
  <2>4. s["out"] # Crash BY <2>2, <2>3 DEF Crash
  <2>5. s["in"] # Crash BY <1>6, <2>1
  <2>6. Max({s["in"].size, s["out"].size}) % Min({s["in"].size, s["out"].size}) = 0
    BY <2>2, <2>3, EqualSizesDivide
  <2>7. ~IsLowLevel(p, "in") => Covers(s["in"], p.latency["in"], MinimumCount(p, "in"))
    BY <1>2, <1>6, <1>d, <2>1
  <2>8. s["out"].size # SettingsOf(p, "out").size BY <2>1, <2>3
  <2>o. \A d \in Direction : s[d].size = SettingsOf(p, "in").size BY <1>d, <2>3
  <2>9. Fit(p, s) BY <1>d, <1>m, <2>1, <2>6, <2>7, <2>8, <2>o DEF Fit
  <2>10. \A d \in Direction : s[d] # Crash BY <1>d, <2>4, <2>5
  <2> QED BY <2>9, <2>10 DEF s
<1>7. CASE ~settled /\ s["in"] = Sized(p.latency["in"], out.size, 3) /\ s["out"] = out
  <2>1. both /\ in # Crash /\ out # Crash BY <1>7, <1>m
  <2>2. out.size \in Nat \ {0} BY <1>1, <2>1
  <2>3. /\ s["in"] # Crash /\ s["in"].size = out.size
        /\ Covers(s["in"], p.latency["in"], 3)
    BY <1>3, <1>7, <2>2, SizedCovers
  <2>4. s["out"] = out BY <1>7
  <2>6. Max({s["in"].size, s["out"].size}) % Min({s["in"].size, s["out"].size}) = 0
    BY <2>2, <2>3, <2>4, EqualSizesDivide
  <2>7. ~IsLowLevel(p, "out") => Covers(s["out"], p.latency["out"], MinimumCount(p, "out"))
    BY <1>2, <2>4, <1>d, <2>1
  <2>8. Covers(s["in"], p.latency["in"], MinimumCount(p, "in")) BY <1>m, <2>1, <2>3
  <2>o. \A d \in Direction : s[d].size = SettingsOf(p, "out").size BY <1>d, <2>3, <2>4
  <2>9. Fit(p, s) BY <1>d, <1>m, <2>1, <2>6, <2>7, <2>8, <2>o DEF Fit
  <2>10. \A d \in Direction : s[d] # Crash BY <1>d, <2>1, <2>3, <2>4
  <2> QED BY <2>9, <2>10 DEF s
<1> QED BY <1>4, <1>5, <1>6, <1>7 DEF s

-----------------------------------------------------------------------------
(* The stream.                                                             *)

\* The stream was opened by r.
Opened(r) ==
  LET s == CalculateBufferSettings(r.p, r.inputFirst)
  IN  /\ stream = [p |-> r.p, settings |-> s]
      /\ ~AreIncompatible(r.p)
      /\ crashed <=> DividesByZero(r.p, s)

\* A stream has the settings computed from its parameters, which are compatible.
StreamInv ==
  \/ stream = NoStream /\ ~crashed
  \/ \E r \in Requests : Opened(r)

\* The stream of OpenStream keeps the settings CalculateBufferSettings gave it
\* until CloseStream, and the process has ended only if these divided by zero.
THEOREM StreamIsAsRequested == Spec => []StreamInv
<1>1. OpenInit => StreamInv BY DEF OpenInit, StreamInv
<1>2. StreamInv /\ [Next]_openVars => StreamInv'
  <2> SUFFICES ASSUME StreamInv, [Next]_openVars PROVE StreamInv' OBVIOUS
  <2>1. ASSUME UNCHANGED <<stream, crashed>> PROVE StreamInv'
    BY <2>1 DEF StreamInv, Opened
  <2>2. CASE UNCHANGED openVars BY <2>1, <2>2 DEF openVars
  <2>3. ASSUME NEW fault, InitializeHostApi(fault) /\ UNCHANGED <<stream, held, fields, misused, crashed>>
        PROVE  StreamInv'
    BY <2>1, <2>3
  <2>4. CASE TerminateHostApi /\ UNCHANGED <<stream, held, fields, misused, crashed>>
    BY <2>1, <2>4
  <2>5. ASSUME ~crashed, NEW r \in Requests, OpenStream(r) PROVE StreamInv'
    <3> DEFINE s == CalculateBufferSettings(r.p, r.inputFirst)
               opened == stream' = [p |-> r.p, settings |-> s]
    <3>1. /\ ~AreIncompatible(r.p)
          /\ IF DividesByZero(r.p, s) THEN crashed' = TRUE /\ opened
             ELSE \/ opened /\ UNCHANGED crashed
                  \/ UNCHANGED <<stream, crashed>>
      BY <2>5 DEF OpenStream, DividesByZero
    <3>2. CASE DividesByZero(r.p, s) /\ crashed' = TRUE /\ opened
      BY <3>1, <3>2 DEF StreamInv, Opened
    <3>3. CASE ~DividesByZero(r.p, s) /\ opened /\ UNCHANGED crashed
      BY <2>5, <3>1, <3>3 DEF StreamInv, Opened
    <3>4. CASE UNCHANGED <<stream, crashed>> BY <2>1, <3>4
    <3> QED BY <3>1, <3>2, <3>3, <3>4
  <2>6. ASSUME ~crashed, CloseStream PROVE StreamInv'
    BY <2>6 DEF CloseStream, StreamInv
  <2> QED BY <2>2, <2>3, <2>4, <2>5, <2>6 DEF Next
<1> QED BY <1>1, <1>2, PTL DEF Spec

\* The invariant implies each part of BuffersFit.
LEMMA StreamFits == OpenAssumption /\ StreamInv => BuffersFit
<1> SUFFICES ASSUME OpenAssumption, StreamInv PROVE BuffersFit OBVIOUS
<1>1. CASE stream = NoStream /\ ~crashed
  <2>1. \A d \in Direction : ~Open(d) BY <1>1 DEF Open
  <2>2. "in" \in Direction BY DEF Direction
  <2>3. FullDuplexSizesDivide BY <2>1, <2>2 DEF FullDuplexSizesDivide
  <2>4. LatencyIsCovered BY <2>1 DEF LatencyIsCovered
  <2>5. HostBuffersFitUserBuffers BY <2>1 DEF HostBuffersFitUserBuffers
  <2>6. HardLimitIsKept BY <2>1 DEF HardLimitIsKept
  <2>7. DividesUnlessUserBufferIsLong BY <1>1 DEF DividesUnlessUserBufferIsLong
  <2> QED BY <2>3, <2>4, <2>5, <2>6, <2>7 DEF BuffersFit
<1>2. ASSUME NEW r \in Requests, Opened(r) PROVE BuffersFit
  <2> DEFINE p == r.p
             s == CalculateBufferSettings(p, r.inputFirst)
  <2>1. p \in StreamParameters BY DEF OpenAssumption
  <2>2. /\ stream.p = p /\ stream.settings = s
        /\ ~AreIncompatible(p)
        /\ crashed <=> DividesByZero(p, s)
    BY <1>2 DEF Opened
  <2>3. /\ ~DividesByZero(p, s) => Fit(p, s)
        /\ \A d \in Direction : Uses(p, d) /\ s[d] = Crash => SettingsOf(p, d) = Crash
    BY <2>1, <2>2, SettingsFit
  <2> HIDE DEF p, s
  <2>4. \A d \in Direction : Open(d) => Uses(p, d) /\ ~crashed /\ Fit(p, s)
    BY <2>2, <2>3 DEF Open
  <2>5. \A d \in Direction : Size(d) = s[d].size /\ Count(d) = s[d].count
    BY <2>2 DEF Size, Count
  <2>d. Direction = {"in", "out"} BY DEF Direction
  <2>6. FullDuplexSizesDivide
    <3> SUFFICES ASSUME Open("in"), Open("out")
                 PROVE  Max({Size("in"), Size("out")}) % Min({Size("in"), Size("out")}) = 0
      BY DEF FullDuplexSizesDivide
    <3>1. Uses(p, "in") /\ Uses(p, "out") /\ Fit(p, s) BY <2>4, <2>d
    <3> QED BY <2>5, <2>d, <3>1 DEF Fit
  <2>7. LatencyIsCovered
    <3> SUFFICES ASSUME NEW d \in Direction, Open(d), ~IsLowLevel(p, d),
                        ~(d = "out" /\ OutputTookInputSize)
                 PROVE  /\ Count(d) >= MinimumCount(p, d)
                        /\ (Count(d) - 1) * Size(d) >= p.latency[d]
      BY <2>2 DEF LatencyIsCovered
    <3>1. Uses(p, d) /\ Fit(p, s) BY <2>4
    <3>2. ~(d = "out" /\ Uses(p, "in") /\ s["out"].size # SettingsOf(p, "out").size)
      BY <2>2, <2>5, <2>d DEF OutputTookInputSize, Open
    <3>3. Covers(s[d], p.latency[d], MinimumCount(p, d)) BY <3>1, <3>2 DEF Fit
    <3> QED BY <2>5, <3>3 DEF Covers
  <2>8. \A d \in Direction : Open(d) =>
          \E o \in SizeComesFrom(d) :
            /\ Uses(p, o)
            /\ \/ IsLowLevel(p, o)
               \/ WellChosen(SettingsOf(p, o), p.latency[o], p.framesPerBuffer,
                             MinimumCount(p, o), p.sampleRate \div 10, HardLimit(p, o))
            /\ SettingsOf(p, o) # Crash
            /\ Size(d) = SettingsOf(p, o).size
    <3> SUFFICES ASSUME NEW d \in Direction, Open(d)
                 PROVE  \E o \in SizeComesFrom(d) :
                          /\ Uses(p, o)
                          /\ \/ IsLowLevel(p, o)
                             \/ WellChosen(SettingsOf(p, o), p.latency[o], p.framesPerBuffer,
                                           MinimumCount(p, o), p.sampleRate \div 10,
                                           HardLimit(p, o))
                          /\ SettingsOf(p, o) # Crash
                          /\ Size(d) = SettingsOf(p, o).size
      OBVIOUS
    <3>1. Uses(p, d) /\ ~crashed /\ Fit(p, s) BY <2>4
    <3>2. PICK o \in Direction : /\ Uses(p, o) /\ SettingsOf(p, o) # Crash
                                 /\ s[d].size = SettingsOf(p, o).size
      BY <3>1 DEF Fit
    <3>3. stream # NoStream BY DEF Open
    <3>4. Open(o) BY <2>2, <3>1, <3>2, <3>3 DEF Open
    <3>5. Size(d) = SettingsOf(p, o).size BY <2>5, <3>2
    <3>6. o \in SizeComesFrom(d) BY <2>2, <3>4, <3>5 DEF SizeComesFrom
    <3>7. \/ IsLowLevel(p, o)
          \/ WellChosen(SettingsOf(p, o), p.latency[o], p.framesPerBuffer,
                        MinimumCount(p, o), p.sampleRate \div 10, HardLimit(p, o))
      BY <2>1, <3>2, DirectionIsWellChosen
    <3> QED BY <3>2, <3>5, <3>6, <3>7
  <2>9. HostBuffersFitUserBuffers
    <3> SUFFICES ASSUME NEW d \in Direction, Open(d), p.framesPerBuffer # 0
                 PROVE  \E o \in SizeComesFrom(d) :
                          \/ IsLowLevel(p, o)
                          \/ FitsUserBuffer(Size(d), p.framesPerBuffer, HardLimit(p, o))
      BY <2>2 DEF HostBuffersFitUserBuffers
    <3>1. PICK o \in SizeComesFrom(d) :
            /\ Uses(p, o)
            /\ \/ IsLowLevel(p, o)
               \/ WellChosen(SettingsOf(p, o), p.latency[o], p.framesPerBuffer,
                             MinimumCount(p, o), p.sampleRate \div 10, HardLimit(p, o))
            /\ SettingsOf(p, o) # Crash
            /\ Size(d) = SettingsOf(p, o).size
      BY <2>8
    <3>2. HardLimit(p, o) \in Nat /\ p.framesPerBuffer \in Nat
      <4>1. o \in Direction BY <3>1 DEF SizeComesFrom
      <4>2. HardLimit(p, o) \in Nat BY <2>1, <3>1, <4>1, LimitAllows
      <4>3. p.framesPerBuffer \in 0..MaxFrames BY <2>1 DEF StreamParameters
      <4> QED BY <4>2, <4>3, MaxFramesBound
    <3>3. ASSUME ~IsLowLevel(p, o) PROVE FitsUserBuffer(Size(d), p.framesPerBuffer, HardLimit(p, o))
      <4> SUFFICES ASSUME IsSmooth(p.framesPerBuffer, HardLimit(p, o))
                   PROVE  \/ Size(d) % p.framesPerBuffer = 0
                          \/ p.framesPerBuffer % Size(d) = 0 /\ p.framesPerBuffer > HardLimit(p, o)
        BY DEF FitsUserBuffer, IsSmooth
      <4>1. CASE p.framesPerBuffer <= HardLimit(p, o) BY <3>1, <3>3, <4>1 DEF WellChosen
      <4>2. CASE p.framesPerBuffer > HardLimit(p, o) BY <3>1, <3>3, <4>2 DEF WellChosen
      <4> QED BY <3>2, <4>1, <4>2
    <3> QED BY <3>1, <3>3
  <2>10. HardLimitIsKept
    <3> SUFFICES ASSUME NEW d \in Direction, Open(d), Size(d) > HardLimit(p, d)
                 PROVE  \E o \in SizeComesFrom(d) :
                          \/ IsLowLevel(p, o)
                          \/ FrameSizeBytes(p, o) < FrameSizeBytes(p, d)
      BY <2>2 DEF HardLimitIsKept
    <3>1. PICK o \in SizeComesFrom(d) :
            /\ Uses(p, o)
            /\ \/ IsLowLevel(p, o)
               \/ WellChosen(SettingsOf(p, o), p.latency[o], p.framesPerBuffer,
                             MinimumCount(p, o), p.sampleRate \div 10, HardLimit(p, o))
            /\ SettingsOf(p, o) # Crash
            /\ Size(d) = SettingsOf(p, o).size
      BY <2>8
    <3>2. ASSUME ~IsLowLevel(p, o) PROVE FrameSizeBytes(p, o) < FrameSizeBytes(p, d)
      <4>1. o \in Direction BY <3>1 DEF SizeComesFrom
      <4>2. Uses(p, d) BY <2>4
      <4>3. HardLimit(p, o) \in Nat /\ HardLimit(p, d) \in Nat
        BY <2>1, <3>1, <4>1, <4>2, LimitAllows
      <4>4. Size(d) \in Nat /\ Size(d) <= HardLimit(p, o)
        BY <3>1, <3>2 DEF WellChosen, Covers
      <4>5. HardLimit(p, o) > HardLimit(p, d) BY <4>3, <4>4
      <4> QED BY <2>1, <3>1, <4>1, <4>2, <4>5, LowerLimit
    <3> QED BY <3>1, <3>2
  <2>11. DividesUnlessUserBufferIsLong
    <3> SUFFICES ASSUME crashed
                 PROVE  \E d \in Direction :
                          /\ Uses(p, d) /\ ~IsLowLevel(p, d)
                          /\ p.framesPerBuffer \in p.sampleRate \div 10 + 1..HardLimit(p, d)
      BY <2>2 DEF DividesUnlessUserBufferIsLong
    <3>1. PICK d \in Direction : Uses(p, d) /\ s[d] = Crash BY <2>2 DEF DividesByZero
    <3>2. SettingsOf(p, d) = Crash BY <2>3, <3>1
    <3>3. ~IsLowLevel(p, d) BY <2>1, <3>1, <3>2, DirectionIsWellChosen
    <3>4. p.framesPerBuffer \in p.sampleRate \div 10 + 1..HardLimit(p, d)
      BY <2>1, <3>1, <3>2, <3>3, DirectionIsWellChosen DEF WellChosen
    <3> QED BY <3>1, <3>3, <3>4
  <2> QED BY <2>6, <2>7, <2>9, <2>10, <2>11 DEF BuffersFit
<1> QED BY <1>1, <1>2 DEF StreamInv

\* BuffersFit for every set of requests: whatever latencies, user buffers, channels
\* and sample rates OpenStream is called with, the two directions match, an input,
\* and an output with a size of its own, hold the latency, and the buffers divide
\* or are divided by the user's under the limit of the direction their size was
\* computed for.  A buffer is above the limit of its own direction only in full
\* duplex, with a size taken from the direction with smaller frames, or with a
\* low-level size, which is the caller's.  Only one kind of user buffer divides by
\* zero.
THEOREM SettingsAreRight == Spec => []BuffersFit
BY OpenAssumption, StreamIsAsRequested, StreamFits, PTL

-----------------------------------------------------------------------------
(* What is given back, one thing after the other.                          *)

Closing == INSTANCE NumberTheorems WITH Step <- Release
Freeing == INSTANCE NumberTheorems WITH Step <- TerminateBuffer
Ending == INSTANCE NumberTheorems WITH Step <- TerminateDevice

\* What TerminateStream works on, as long as nothing was misused.
Left(H, F) == [held |-> H, fields |-> F, misused |-> FALSE]

\* What is set, held and not rested on is given back.
LEMMA Released ==
  ASSUME NEW H, NEW F, NEW r, r \in F, r \in H, RestsOn(H, r) = {}
  PROVE  Release(Left(H, F), r) = Left(H \ {r}, F)
<1>1. (FALSE \/ r \notin H \/ RestsOn(H, r) # {}) = FALSE OBVIOUS
<1> QED BY <1>1 DEF Release, Left

\* What is not set is left alone.
LEMMA NotReleased ==
  ASSUME NEW H, NEW F, NEW r, r \notin F
  PROVE  Release(Left(H, F), r) = Left(H, F)
BY DEF Release, Left

LEMMA MarkCleared ==
  ASSUME NEW H, NEW F, NEW r
  PROVE  Cleared(Left(H, F), r) = Left(H, F \ {r})
<1> DEFINE Record(f, m) == [held |-> H, fields |-> f, misused |-> m]
<1>1. \A f, g, m : [Record(f, m) EXCEPT !.fields = g] = Record(g, m) OBVIOUS
<1>2. Left(H, F) = Record(F, FALSE) /\ Left(H, F \ {r}) = Record(F \ {r}, FALSE) BY DEF Left
<1>3. Left(H, F).fields = F BY DEF Left
<1>4. Cleared(Left(H, F), r) = [Left(H, F) EXCEPT !.fields = F \ {r}] BY <1>3 DEF Cleared
<1> HIDE DEF Record
<1> DEFINE no == FALSE
           G == F \ {r}
<1> HIDE DEF no, G
<1>5. [Record(F, no) EXCEPT !.fields = G] = Record(G, no) BY <1>1
<1> USE DEF no, G
<1> QED BY <1>2, <1>4, <1>5

\* The kinds of things, and their parts.
IsHandle(x, d) == x[1] \in {"bufferEvent", "waveHandles", "waveHandle"} /\ x[2] = d
IsBuffer(x, d, i) == x[1] \in {"lpData", "prepared"} /\ x[2] = d /\ x[3] = i
IsHeader(x, d) == x[1] \in {"waveHeaders", "deviceWaveHeaders", "lpData", "prepared"} /\ x[2] = d

\* Whatever is of a kind and has the first n parts of r.
OfKind(H, kind, n, r) == {x \in H : x[1] = kind /\ \A k \in 2..n : x[k] = r[k]}

LEMMA WhatRests ==
  ASSUME NEW H, NEW r
  PROVE  RestsOn(H, r) =
           CASE r[1] = "stream" -> H \ {r}
             [] r[1] \in {"bufferEvent", "waveHandles"} -> OfKind(H, "waveHandle", 2, r)
             [] r[1] = "waveHandle" -> OfKind(H, "prepared", 3, r)
             [] r[1] = "waveHeaders" -> OfKind(H, "deviceWaveHeaders", 2, r)
             [] r[1] = "deviceWaveHeaders" -> OfKind(H, "lpData", 3, r)
             [] r[1] = "lpData" -> OfKind(H, "prepared", 4, r)
             [] OTHER -> {}
BY DEF RestsOn, OfKind

\* What rests on a device that is open.
LEMMA RestsOnHandle ==
  ASSUME NEW H, NEW d, NEW i
  PROVE  RestsOn(H, <<"waveHandle", d, i>>) = {x \in H : x[1] = "prepared" /\ x[2] = d /\ x[3] = i}
<1>1. \A r, kind : OfKind(H, kind, 3, r)
        = {x \in H : x[1] = kind /\ x[2] = r[2] /\ x[3] = r[3]}
  <2>1. 2..3 = {2, 3} OBVIOUS
  <2> QED BY <2>1 DEF OfKind
<1> QED BY <1>1, WhatRests

\* What rests on the array of headers of a device.
LEMMA RestsOnDeviceHeaders ==
  ASSUME NEW H, NEW d, NEW i
  PROVE  RestsOn(H, <<"deviceWaveHeaders", d, i>>) = {x \in H : x[1] = "lpData" /\ x[2] = d /\ x[3] = i}
<1>1. \A r, kind : OfKind(H, kind, 3, r)
        = {x \in H : x[1] = kind /\ x[2] = r[2] /\ x[3] = r[3]}
  <2>1. 2..3 = {2, 3} OBVIOUS
  <2> QED BY <2>1 DEF OfKind
<1> QED BY <1>1, WhatRests

\* What rests on the event of a direction and on its array of devices.
LEMMA RestsOnHandles ==
  ASSUME NEW H, NEW d
  PROVE  /\ RestsOn(H, <<"bufferEvent", d>>) = {x \in H : x[1] = "waveHandle" /\ x[2] = d}
         /\ RestsOn(H, <<"waveHandles", d>>) = {x \in H : x[1] = "waveHandle" /\ x[2] = d}
<1>1. \A r, kind : OfKind(H, kind, 2, r) = {x \in H : x[1] = kind /\ x[2] = r[2]}
  <2>1. 2..2 = {2} OBVIOUS
  <2> QED BY <2>1 DEF OfKind
<1> QED BY <1>1, WhatRests

\* What rests on the array of all headers of a direction.
LEMMA RestsOnHeaders ==
  ASSUME NEW H, NEW d
  PROVE  RestsOn(H, <<"waveHeaders", d>>) = {x \in H : x[1] = "deviceWaveHeaders" /\ x[2] = d}
<1>1. \A r, kind : OfKind(H, kind, 2, r) = {x \in H : x[1] = kind /\ x[2] = r[2]}
  <2>1. 2..2 = {2} OBVIOUS
  <2> QED BY <2>1 DEF OfKind
<1> QED BY <1>1, WhatRests

\* What rests on the memory of a buffer.
LEMMA RestsOnMemory ==
  ASSUME NEW H, NEW d, NEW i, NEW j
  PROVE  RestsOn(H, <<"lpData", d, i, j>>)
           = {x \in H : x[1] = "prepared" /\ x[2] = d /\ x[3] = i /\ x[4] = j}
<1>1. \A r, kind : OfKind(H, kind, 4, r)
        = {x \in H : x[1] = kind /\ x[2] = r[2] /\ x[3] = r[3] /\ x[4] = r[4]}
  <2>1. 2..4 = {2, 3, 4} OBVIOUS
  <2> QED BY <2>1 DEF OfKind
<1> QED BY <1>1, WhatRests

\* Nothing rests on the others, but for the stream.
LEMMA RestsOnOthers ==
  ASSUME NEW H, NEW r
  PROVE  /\ r[1] \in {"prepared", "bufferProcessor", "abortEvent"} => RestsOn(H, r) = {}
         /\ r[1] = "stream" => RestsOn(H, r) = H \ {r}
BY WhatRests

-----------------------------------------------------------------------------
(* The buffers of a device.                                                *)

\* Buffers of a device are held if they are set, memory before it is prepared.
BufferAgrees(H, F, d, i, j) ==
  LET lpData == Buffer(d, i, j)[1]
      prepared == Buffer(d, i, j)[2]
  IN  /\ lpData \in F <=> lpData \in H
      /\ prepared \in F <=> prepared \in H
      /\ prepared \in H => lpData \in H

BuffersAgree(H, F, d, i, count) ==
  /\ \A j \in 1..count : BufferAgrees(H, F, d, i, j)
  /\ \A x \in H : IsBuffer(x, d, i) => \E j \in 1..count : x \in ToSet(Buffer(d, i, j))

LEMMA BufferParts ==
  ASSUME NEW d, NEW i, NEW j
  PROVE  /\ Buffer(d, i, j)[1] = <<"lpData", d, i, j>>
         /\ Buffer(d, i, j)[2] = <<"prepared", d, i, j>>
         /\ ToSet(Buffer(d, i, j)) = {<<"lpData", d, i, j>>, <<"prepared", d, i, j>>}
<1> DEFINE a == <<"lpData", d, i, j>>
           b == <<"prepared", d, i, j>>
<1>1. Buffer(d, i, j) = <<a, b>> BY DEF Buffer
<1> HIDE DEF a, b
<1>2. ToSet(<<a, b>>) = {a, b}
  <2>1. DOMAIN <<a, b>> = {1, 2} OBVIOUS
  <2>2. <<a, b>>[1] = a /\ <<a, b>>[2] = b OBVIOUS
  <2> QED BY <2>1, <2>2 DEF ToSet
<1>3. Buffer(d, i, j)[1] = a /\ Buffer(d, i, j)[2] = b BY <1>1
<1> QED BY <1>1, <1>2, <1>3 DEF a, b

\* TerminateBuffer gives back a buffer, prepared or not.
LEMMA BufferFreed ==
  ASSUME NEW H, NEW F, NEW d, NEW i, NEW j, BufferAgrees(H, F, d, i, j),
         \A x \in H : x[1] = "prepared" /\ x[2] = d /\ x[3] = i /\ x[4] = j
                        => x = <<"prepared", d, i, j>>
  PROVE  TerminateBuffer(Left(H, F), Buffer(d, i, j)) = Left(H \ ToSet(Buffer(d, i, j)), F)
<1> DEFINE a == <<"lpData", d, i, j>>
           b == <<"prepared", d, i, j>>
           u == Left(H, F)
<1>1. /\ Buffer(d, i, j)[1] = a /\ Buffer(d, i, j)[2] = b
      /\ ToSet(Buffer(d, i, j)) = {a, b}
  BY BufferParts
<1>2. u.fields = F BY DEF Left
<1>3. TerminateBuffer(u, Buffer(d, i, j)) = IF a \notin F THEN u ELSE Release(Release(u, b), a)
  BY <1>1, <1>2 DEF TerminateBuffer
<1>4. /\ a \in F <=> a \in H
      /\ b \in F <=> b \in H
      /\ b \in H => a \in H
  BY <1>1 DEF BufferAgrees
<1>5. a # b
  <2>1. a[1] # b[1] OBVIOUS
  <2> QED BY <2>1
<1>6. \A G : RestsOn(G, b) = {}
  <2>1. b[1] = "prepared" OBVIOUS
  <2> QED BY <2>1, RestsOnOthers
<1>7. RestsOn(H \ {b}, a) = {}
  <2> DEFINE G == H \ {b}
  <2> HIDE DEF G
  <2>1. RestsOn(G, <<"lpData", d, i, j>>)
          = {x \in G : x[1] = "prepared" /\ x[2] = d /\ x[3] = i /\ x[4] = j}
    BY RestsOnMemory
  <2> QED BY <2>1 DEF G
<1> HIDE DEF a, b, u
<1>8. CASE a \notin F
  <2>1. H \ {a, b} = H BY <1>4, <1>8
  <2> QED BY <1>1, <1>3, <1>8, <2>1 DEF u
<1>9. CASE a \in F
  <2>1. Release(u, b) = Left(H \ {b}, F)
    <3>1. CASE b \in F BY <1>4, <1>6, <3>1, Released DEF u
    <3>2. CASE b \notin F
      <4>1. H \ {b} = H BY <1>4, <3>2
      <4> QED BY <3>2, <4>1, NotReleased DEF u
    <3> QED BY <3>1, <3>2
  <2>2. a \in H \ {b} BY <1>4, <1>5, <1>9
  <2>3. Release(Left(H \ {b}, F), a) = Left((H \ {b}) \ {a}, F)
    BY <1>7, <1>9, <2>2, Released
  <2>4. (H \ {b}) \ {a} = H \ {a, b} OBVIOUS
  <2>5. TerminateBuffer(u, Buffer(d, i, j)) = Release(Release(u, b), a) BY <1>3, <1>9
  <2> QED BY <1>1, <2>1, <2>3, <2>4, <2>5 DEF u
<1> QED BY <1>8, <1>9

\* A sequence the other way round.
LEMMA Reversed ==
  ASSUME NEW n \in Nat, NEW s, s = [k \in 1..n |-> s[k]]
  PROVE  /\ Len(Reverse(s)) = n /\ DOMAIN Reverse(s) = 1..n
         /\ \A k \in 1..n : Reverse(s)[k] = s[n + 1 - k]
<1>1. Len(s) = n
  <2>1. DOMAIN s = 1..n OBVIOUS
  <2> QED BY <2>1
<1>2. Reverse(s) = [k \in 1..n |-> s[(n - k) + 1]] BY <1>1 DEF Reverse
<1>3. \A k \in 1..n : (n - k) + 1 = n + 1 - k OBVIOUS
<1>4. \A k \in 1..n : Reverse(s)[k] = s[n + 1 - k] BY <1>2, <1>3
<1>5. Len(Reverse(s)) = n
  <2> DEFINE r == Reverse(s)
  <2>1. r = [k \in 1..n |-> s[(n - k) + 1]] BY <1>2
  <2> HIDE DEF r
  <2>2. DOMAIN r = 1..n BY <2>1
  <2>3. Len(r) = n BY <2>2
  <2> QED BY <2>3 DEF r
<1> QED BY <1>2, <1>4, <1>5

\* What is held when the buffers of a device are given back from buffer j + 1 on.
WithoutBuffers(H, d, i, j) == {x \in H : ~(IsBuffer(x, d, i) /\ x[4] > j)}

\* All buffers of a device are given back.
LEMMA BuffersFreed ==
  ASSUME NEW H, NEW F, NEW d, NEW i, NEW count \in Nat, BuffersAgree(H, F, d, i, count)
  PROVE  FoldLeft(TerminateBuffer, Left(H, F), Reverse([j \in 1..count |-> Buffer(d, i, j)]))
           = Left({x \in H : ~IsBuffer(x, d, i)}, F)
<1> DEFINE s == [j \in 1..count |-> Buffer(d, i, j)]
           list == Reverse(s)
           base == Left(H, F)
           W(k) == WithoutBuffers(H, d, i, count - k)
<1>1. FoldLeft(TerminateBuffer, base, list) = Freeing!Folded(base, list)
  BY DEF Freeing!Folded, FoldLeft, MapThenFoldSet, Freeing!FoldLeft, Freeing!MapThenFoldSet,
         Max, Freeing!Max
<1>2. /\ Len(list) = count /\ DOMAIN list = 1..count
      /\ \A k \in 1..count : list[k] = Buffer(d, i, count + 1 - k)
  <2>1. s = [k \in 1..count |-> s[k]] OBVIOUS
  <2>2. \A k \in 1..count : s[count + 1 - k] = Buffer(d, i, count + 1 - k) OBVIOUS
  <2> HIDE DEF s
  <2> QED BY <2>1, <2>2, Reversed
<1> HIDE DEF s, list, base
<1>3. PICK g : Freeing!IsChain(g, base, list) /\ Freeing!Folded(base, list) = g[Len(list)]
  BY <1>2, Freeing!FoldIsChain, Zenon
<1>4. g[0] = base /\ \A k \in 1..count : g[k] = TerminateBuffer(g[k-1], list[k])
  BY <1>2, <1>3 DEF Freeing!IsChain
<1>5. \A x \in H : IsBuffer(x, d, i) =>
        \E j \in 1..count : x = <<"lpData", d, i, j>> \/ x = <<"prepared", d, i, j>>
  BY BufferParts DEF BuffersAgree
<1>b. ASSUME NEW x \in H, IsBuffer(x, d, i)
      PROVE  x[4] \in 1..count /\ x \in {<<"lpData", d, i, x[4]>>, <<"prepared", d, i, x[4]>>}
  BY <1>5, <1>b
<1> DEFINE K == {k \in Nat : k <= count => g[k] = Left(W(k), F)}
<1>6. 0 \in K
  <2>1. W(0) = H BY <1>b DEF WithoutBuffers
  <2> QED BY <1>4, <2>1 DEF base
<1>7. ASSUME NEW k \in Nat, k \in K PROVE k + 1 \in K
  <2> SUFFICES ASSUME k + 1 <= count PROVE g[k+1] = Left(W(k+1), F) OBVIOUS
  <2> DEFINE j == count - k
             a == <<"lpData", d, i, j>>
             b == <<"prepared", d, i, j>>
  <2>1. k + 1 \in 1..count /\ j \in 1..count /\ count + 1 - (k + 1) = j /\ (k + 1) - 1 = k OBVIOUS
  <2>2. g[k+1] = TerminateBuffer(Left(W(k), F), Buffer(d, i, j))
    BY <1>2, <1>4, <1>7, <2>1
  <2>3. a \in W(k) <=> a \in H
    <3>1. a[4] = j OBVIOUS
    <3> QED BY <2>1, <3>1 DEF WithoutBuffers
  <2>4. b \in W(k) <=> b \in H
    <3>1. b[4] = j OBVIOUS
    <3> QED BY <2>1, <3>1 DEF WithoutBuffers
  <2>5. BufferAgrees(W(k), F, d, i, j)
    <3>1. BufferAgrees(H, F, d, i, j) BY <2>1 DEF BuffersAgree
    <3>2. Buffer(d, i, j)[1] = a /\ Buffer(d, i, j)[2] = b BY BufferParts
    <3> HIDE DEF a, b, W, j
    <3> QED BY <2>3, <2>4, <3>1, <3>2 DEF BufferAgrees
  <2>6. \A x \in W(k) : x[1] = "prepared" /\ x[2] = d /\ x[3] = i /\ x[4] = j => x = b
    <3> SUFFICES ASSUME NEW x \in W(k), x[1] = "prepared", x[2] = d, x[3] = i, x[4] = j
                 PROVE  x = b
      OBVIOUS
    <3>1. x \in H /\ IsBuffer(x, d, i) BY DEF WithoutBuffers, IsBuffer
    <3>2. x \in {a, b} BY <1>b, <3>1
    <3>3. a[1] # "prepared" OBVIOUS
    <3> QED BY <3>2, <3>3
  <2>7. g[k+1] = Left(W(k) \ ToSet(Buffer(d, i, j)), F)
    <3> HIDE DEF W, j
    <3> QED BY <2>2, <2>5, <2>6, BufferFreed
  <2>8. ToSet(Buffer(d, i, j)) = {a, b} BY BufferParts
  <2>9. W(k) \ {a, b} = W(k+1)
    <3>1. ASSUME NEW x \in H
          PROVE  x \in W(k) \ {a, b} <=> x \in W(k+1)
      <4>1. x \in W(k+1) <=> ~(IsBuffer(x, d, i) /\ x[4] > count - (k + 1))
        BY DEF WithoutBuffers
      <4>2. x \in W(k) <=> ~(IsBuffer(x, d, i) /\ x[4] > j) BY DEF WithoutBuffers
      <4>3. CASE ~IsBuffer(x, d, i)
        <5>1. IsBuffer(a, d, i) /\ IsBuffer(b, d, i) BY DEF IsBuffer
        <5> QED BY <4>1, <4>2, <4>3, <5>1
      <4>4. CASE IsBuffer(x, d, i)
        <5>1. x[4] \in 1..count /\ x \in {<<"lpData", d, i, x[4]>>, <<"prepared", d, i, x[4]>>}
          BY <1>b, <4>4
        <5>2. x[4] = j <=> x \in {a, b}
          <6>1. a[4] = j /\ b[4] = j OBVIOUS
          <6> QED BY <5>1, <6>1
        <5> HIDE DEF a, b
        <5>3. x[4] > count - (k + 1) <=> x[4] > j \/ x[4] = j BY <2>1, <5>1
        <5> HIDE DEF W
        <5> QED BY <4>1, <4>2, <4>4, <5>2, <5>3
      <4> QED BY <4>3, <4>4
    <3>2. W(k) \subseteq H /\ W(k+1) \subseteq H BY DEF WithoutBuffers
    <3> HIDE DEF W, a, b
    <3> QED BY <3>1, <3>2
  <2> HIDE DEF W, a, b, j
  <2> QED BY <2>7, <2>8, <2>9
<1>8. count \in K
  <2> HIDE DEF K
  <2> QED BY <1>6, <1>7, SetInduction
<1>9. W(count) = {x \in H : ~IsBuffer(x, d, i)}
  <2>1. \A x \in H : IsBuffer(x, d, i) => x[4] > count - count BY <1>b
  <2> QED BY <2>1 DEF WithoutBuffers
<1>10. g[count] = Left(W(count), F)
  <2>1. count <= count OBVIOUS
  <2> HIDE DEF W
  <2> QED BY <1>8, <2>1
<1> HIDE DEF W
<1> QED BY <1>1, <1>2, <1>3, <1>9, <1>10 DEF s, list, base

-----------------------------------------------------------------------------
(* The headers of a direction.                                             *)

\* A device's array of headers is held if it is set, and before its buffers.
DeviceAgrees(H, F, d, i, count) ==
  /\ <<"deviceWaveHeaders", d, i>> \in F <=> <<"deviceWaveHeaders", d, i>> \in H
  /\ BuffersAgree(H, F, d, i, count)
  /\ \A x \in H : IsBuffer(x, d, i) => <<"deviceWaveHeaders", d, i>> \in H

\* The headers of device i, as TerminateDevice takes them.
HeadersOf(d, i, count) ==
  [array |-> <<"deviceWaveHeaders", d, i>>, buffers |-> [j \in 1..count |-> Buffer(d, i, j)]]

\* TerminateDevice gives back the headers of a device with their buffers.
LEMMA DeviceFreed ==
  ASSUME NEW H, NEW F, NEW d, NEW i, NEW count \in Nat, DeviceAgrees(H, F, d, i, count)
  PROVE  TerminateDevice(Left(H, F), HeadersOf(d, i, count))
           = Left({x \in H : ~IsBuffer(x, d, i) /\ x # <<"deviceWaveHeaders", d, i>>}, F)
<1> DEFINE a == <<"deviceWaveHeaders", d, i>>
           u == Left(H, F)
           bs == [j \in 1..count |-> Buffer(d, i, j)]
           G == {x \in H : ~IsBuffer(x, d, i)}
<1>1. TerminateDevice(u, HeadersOf(d, i, count))
        = IF a \notin F THEN u ELSE Release(FoldLeft(TerminateBuffer, u, Reverse(bs)), a)
  <2>1. HeadersOf(d, i, count).array = a /\ HeadersOf(d, i, count).buffers = bs
    BY DEF HeadersOf
  <2>2. u.fields = F BY DEF Left
  <2> HIDE DEF a, u, bs
  <2> QED BY <2>1, <2>2 DEF TerminateDevice
<1>2. FoldLeft(TerminateBuffer, u, Reverse(bs)) = Left(G, F)
  BY BuffersFreed DEF DeviceAgrees
<1>3. ~IsBuffer(a, d, i)
  <2>1. a[1] \notin {"lpData", "prepared"} OBVIOUS
  <2> QED BY <2>1 DEF IsBuffer
<1>4. RestsOn(G, a) = {}
  <2> HIDE DEF G
  <2>1. RestsOn(G, a) = {x \in G : x[1] = "lpData" /\ x[2] = d /\ x[3] = i}
    BY RestsOnDeviceHeaders
  <2> QED BY <2>1 DEF IsBuffer, G
<1>5. /\ a \in F <=> a \in H
      /\ \A x \in H : IsBuffer(x, d, i) => a \in H
  BY DEF DeviceAgrees
<1>6. CASE a \in F
  <2>1. a \in G BY <1>3, <1>5, <1>6
  <2>2. Release(Left(G, F), a) = Left(G \ {a}, F)
    <3> HIDE DEF G, a
    <3> QED BY <1>4, <1>6, <2>1, Released
  <2> DEFINE E == {x \in H : ~IsBuffer(x, d, i) /\ x # a}
  <2>3. G \ {a} = E
    <3> HIDE DEF a
    <3> QED OBVIOUS
  <2> HIDE DEF G, u, bs, E
  <2>4. TerminateDevice(u, HeadersOf(d, i, count)) = Left(E, F)
    BY <1>1, <1>2, <1>6, <2>2, <2>3
  <2> QED BY <2>4 DEF E, u
<1>7. CASE a \notin F
  <2>1. {x \in H : ~IsBuffer(x, d, i) /\ x # a} = H
    <3> HIDE DEF a
    <3> QED BY <1>5, <1>7
  <2> HIDE DEF u, bs
  <2> QED BY <1>1, <1>7, <2>1 DEF u
<1> QED BY <1>6, <1>7

DevicesAgree(H, F, d, n, count) ==
  /\ \A i \in 1..n : DeviceAgrees(H, F, d, i, count)
  /\ \A x \in H : IsHeader(x, d) =>
       \/ x = <<"waveHeaders", d>>
       \/ \E i \in 1..n : x = <<"deviceWaveHeaders", d, i>> \/ IsBuffer(x, d, i)

\* What is held when device i + 1 and those after it are given back.
WithoutDevices(H, d, i) == {x \in H : ~(IsHeader(x, d) /\ x[1] # "waveHeaders" /\ x[3] > i)}

\* The headers of all devices are given back.
LEMMA DevicesFreed ==
  ASSUME NEW H, NEW F, NEW d, NEW n \in Nat, NEW count \in Nat, DevicesAgree(H, F, d, n, count)
  PROVE  FoldLeft(TerminateDevice, Left(H, F), Reverse([i \in 1..n |-> HeadersOf(d, i, count)]))
           = Left({x \in H : ~(IsHeader(x, d) /\ x[1] # "waveHeaders")}, F)
<1> DEFINE s == [i \in 1..n |-> HeadersOf(d, i, count)]
           list == Reverse(s)
           base == Left(H, F)
           W(k) == WithoutDevices(H, d, n - k)
<1>1. FoldLeft(TerminateDevice, base, list) = Ending!Folded(base, list)
  BY DEF Ending!Folded, FoldLeft, MapThenFoldSet, Ending!FoldLeft, Ending!MapThenFoldSet,
         Max, Ending!Max
<1>2. /\ Len(list) = n /\ DOMAIN list = 1..n
      /\ \A k \in 1..n : list[k] = HeadersOf(d, n + 1 - k, count)
  <2>1. s = [k \in 1..n |-> s[k]] OBVIOUS
  <2>2. \A k \in 1..n : s[n + 1 - k] = HeadersOf(d, n + 1 - k, count) OBVIOUS
  <2> HIDE DEF s
  <2>3. /\ Len(Reverse(s)) = n /\ DOMAIN Reverse(s) = 1..n
        /\ \A k \in 1..n : Reverse(s)[k] = s[n + 1 - k]
    BY <2>1, Reversed
  <2> QED BY <2>2, <2>3
<1> HIDE DEF s, list, base
<1>3. PICK g : Ending!IsChain(g, base, list) /\ Ending!Folded(base, list) = g[Len(list)]
  BY <1>2, Ending!FoldIsChain, Zenon
<1>4. g[0] = base /\ \A k \in 1..n : g[k] = TerminateDevice(g[k-1], list[k])
  BY <1>2, <1>3 DEF Ending!IsChain
<1>b. ASSUME NEW x \in H, IsHeader(x, d), x[1] # "waveHeaders"
      PROVE  x[3] \in 1..n /\ (x = <<"deviceWaveHeaders", d, x[3]>> \/ IsBuffer(x, d, x[3]))
  <2>1. x # <<"waveHeaders", d>> BY <1>b
  <2>2. PICK i \in 1..n : x = <<"deviceWaveHeaders", d, i>> \/ IsBuffer(x, d, i)
    BY <1>b, <2>1 DEF DevicesAgree
  <2>3. x[3] = i BY <2>2 DEF IsBuffer
  <2> QED BY <2>2, <2>3
<1> DEFINE K == {k \in Nat : k <= n => g[k] = Left(W(k), F)}
<1>6. 0 \in K
  <2>1. W(0) = H BY <1>b DEF WithoutDevices
  <2> QED BY <1>4, <2>1 DEF base
<1>7. ASSUME NEW k \in Nat, k \in K PROVE k + 1 \in K
  <2> SUFFICES ASSUME k + 1 <= n PROVE g[k+1] = Left(W(k+1), F) OBVIOUS
  <2> DEFINE i == n - k
             a == <<"deviceWaveHeaders", d, i>>
  <2>1. k + 1 \in 1..n /\ i \in 1..n /\ n + 1 - (k + 1) = i /\ (k + 1) - 1 = k OBVIOUS
  <2>2. g[k+1] = TerminateDevice(Left(W(k), F), HeadersOf(d, i, count))
    BY <1>2, <1>4, <1>7, <2>1
  <2>3. \A x \in H : x[3] = i => x \in W(k) BY <2>1 DEF WithoutDevices
  <2>4. W(k) \subseteq H BY DEF WithoutDevices
  <2>5. DeviceAgrees(W(k), F, d, i, count)
    <3>1. DeviceAgrees(H, F, d, i, count) BY <2>1 DEF DevicesAgree
    <3>2. a \in W(k) <=> a \in H
      <4>1. a[3] = i OBVIOUS
      <4> HIDE DEF a, W, i
      <4> QED BY <2>3, <2>4, <4>1
    <3>3. BuffersAgree(W(k), F, d, i, count)
      <4>1. BuffersAgree(H, F, d, i, count) BY <3>1 DEF DeviceAgrees
      <4>2. ASSUME NEW j \in 1..count PROVE BufferAgrees(W(k), F, d, i, j)
        <5>1. BufferAgrees(H, F, d, i, j) BY <4>1 DEF BuffersAgree
        <5> DEFINE b == <<"lpData", d, i, j>>
                   c == <<"prepared", d, i, j>>
        <5>2. Buffer(d, i, j)[1] = b /\ Buffer(d, i, j)[2] = c BY BufferParts
        <5>3. b[3] = i /\ c[3] = i OBVIOUS
        <5> HIDE DEF b, c, W, i
        <5>4. (b \in W(k) <=> b \in H) /\ (c \in W(k) <=> c \in H) BY <2>3, <2>4, <5>3
        <5> QED BY <5>1, <5>2, <5>4 DEF BufferAgrees
      <4> HIDE DEF W, i
      <4> QED BY <2>4, <4>1, <4>2 DEF BuffersAgree
    <3> HIDE DEF W, i
    <3> QED BY <2>4, <3>1, <3>2, <3>3 DEF DeviceAgrees, a
  <2>6. g[k+1] = Left({x \in W(k) : ~IsBuffer(x, d, i) /\ x # a}, F)
    <3> HIDE DEF W, i
    <3> QED BY <2>2, <2>5, DeviceFreed
  <2>7. {x \in W(k) : ~IsBuffer(x, d, i) /\ x # a} = W(k+1)
    <3>1. ASSUME NEW x \in H
          PROVE  x \in W(k) /\ ~IsBuffer(x, d, i) /\ x # a <=> x \in W(k+1)
      <4> DEFINE inner == IsHeader(x, d) /\ x[1] # "waveHeaders"
      <4>1. x \in W(k+1) <=> ~(inner /\ x[3] > n - (k + 1)) BY DEF WithoutDevices
      <4>2. x \in W(k) <=> ~(inner /\ x[3] > i) BY DEF WithoutDevices
      <4>3. IsBuffer(x, d, i) \/ x = a => inner /\ x[3] = i
        BY DEF IsBuffer, IsHeader
      <4>4. inner => x[3] \in 1..n /\ (x = <<"deviceWaveHeaders", d, x[3]>> \/ IsBuffer(x, d, x[3]))
        BY <1>b
      <4>5. inner /\ x[3] = i => IsBuffer(x, d, i) \/ x = a BY <4>4
      <4> HIDE DEF inner, a
      <4>6. inner => (x[3] > n - (k + 1) <=> x[3] > i \/ x[3] = i) BY <2>1, <4>4
      <4> HIDE DEF W, i
      <4> QED BY <4>1, <4>2, <4>3, <4>5, <4>6
    <3>2. W(k) \subseteq H /\ W(k+1) \subseteq H BY DEF WithoutDevices
    <3> HIDE DEF W, a, i
    <3> QED BY <3>1, <3>2
  <2> HIDE DEF W, a, i
  <2> QED BY <2>6, <2>7
<1>8. n \in K
  <2> HIDE DEF K
  <2> QED BY <1>6, <1>7, SetInduction
<1>9. W(n) = {x \in H : ~(IsHeader(x, d) /\ x[1] # "waveHeaders")}
  <2>1. \A x \in H : IsHeader(x, d) /\ x[1] # "waveHeaders" => x[3] > n - n BY <1>b
  <2> QED BY <2>1 DEF WithoutDevices
<1>10. g[n] = Left(W(n), F)
  <2>1. n <= n OBVIOUS
  <2> HIDE DEF W
  <2> QED BY <1>8, <2>1
<1> HIDE DEF W
<1> QED BY <1>1, <1>2, <1>3, <1>9, <1>10 DEF s, list, base

\* The headers of a direction, while its array of headers is set and when it is not.
HeadersAgree(H, F, d, n, count) ==
  IF <<"waveHeaders", d>> \in F
    THEN /\ <<"waveHeaders", d>> \in H
         /\ n \in Nat /\ count \in Nat /\ DevicesAgree(H, F, d, n, count)
  ELSE \A x \in H : ~IsHeader(x, d)

WithoutHeaders(H, d) == {x \in H : ~IsHeader(x, d)}

\* TerminateWaveHeaders gives back all headers of a direction, or has done so before.
LEMMA HeadersFreed ==
  ASSUME NEW H, NEW F, NEW p, NEW s, NEW d,
         HeadersAgree(H, F, d, Len(p.devices[d]), s[d].count)
  PROVE  TerminateWaveHeaders(Left(H, F), p, s, d)
           = Left(WithoutHeaders(H, d), F \ {<<"waveHeaders", d>>})
<1> DEFINE a == <<"waveHeaders", d>>
           u == Left(H, F)
           n == Len(p.devices[d])
           count == s[d].count
           devices == [i \in 1..n |-> HeadersOf(d, i, count)]
           G == {x \in H : ~(IsHeader(x, d) /\ x[1] # "waveHeaders")}
<1>1. TerminateWaveHeaders(u, p, s, d)
        = IF a \notin F THEN u
          ELSE Cleared(Release(FoldLeft(TerminateDevice, u, Reverse(devices)), a), a)
  <2>1. u.fields = F BY DEF Left
  <2> HIDE DEF a, u
  <2> QED BY <2>1 DEF TerminateWaveHeaders, HeadersOf, a
<1>2. CASE a \notin F
  <2>1. WithoutHeaders(H, d) = H BY <1>2 DEF HeadersAgree, WithoutHeaders
  <2>2. F \ {a} = F
    <3> HIDE DEF a
    <3> QED BY <1>2
  <2> HIDE DEF u, devices
  <2> QED BY <1>1, <1>2, <2>1, <2>2 DEF u
<1>3. CASE a \in F
  <2>1. a \in H /\ n \in Nat /\ count \in Nat /\ DevicesAgree(H, F, d, n, count)
    BY <1>3 DEF HeadersAgree
  <2>2. FoldLeft(TerminateDevice, u, Reverse(devices)) = Left(G, F)
    <3> HIDE DEF n, count, G, a
    <3> QED BY <2>1, DevicesFreed DEF G
  <2>3. a \in G
    <3>1. a[1] = "waveHeaders" OBVIOUS
    <3> HIDE DEF a
    <3> QED BY <2>1, <3>1
  <2>4. RestsOn(G, a) = {}
    <3> HIDE DEF G
    <3>1. RestsOn(G, a) = {x \in G : x[1] = "deviceWaveHeaders" /\ x[2] = d}
      BY RestsOnHeaders
    <3> QED BY <3>1 DEF IsHeader, G
  <2>5. Release(Left(G, F), a) = Left(G \ {a}, F)
    <3> HIDE DEF G, a
    <3> QED BY <1>3, <2>3, <2>4, Released
  <2>6. Cleared(Left(G \ {a}, F), a) = Left(G \ {a}, F \ {a})
    <3> HIDE DEF G, a
    <3> QED BY MarkCleared
  <2>7. G \ {a} = WithoutHeaders(H, d)
    <3>1. IsHeader(a, d) BY DEF IsHeader
    <3>2. ASSUME NEW x \in H, IsHeader(x, d), x[1] = "waveHeaders" PROVE x = a
      <4>1. \/ x = a \/ \E i \in 1..n : x = <<"deviceWaveHeaders", d, i>> \/ IsBuffer(x, d, i)
        BY <2>1, <3>2 DEF DevicesAgree
      <4>2. ASSUME NEW i, x = <<"deviceWaveHeaders", d, i>> PROVE FALSE
        <5>1. x[1] = "deviceWaveHeaders" BY <4>2
        <5> QED BY <3>2, <5>1
      <4>3. ASSUME NEW i, IsBuffer(x, d, i) PROVE FALSE BY <3>2, <4>3 DEF IsBuffer
      <4> QED BY <4>1, <4>2, <4>3
    <3> HIDE DEF a
    <3> QED BY <3>1, <3>2 DEF WithoutHeaders
  <2> HIDE DEF G, u, devices
  <2>8. TerminateWaveHeaders(u, p, s, d)
          = Cleared(Release(FoldLeft(TerminateDevice, u, Reverse(devices)), a), a)
    BY <1>1, <1>3
  <2> QED BY <2>2, <2>5, <2>6, <2>7, <2>8 DEF u
<1> QED BY <1>2, <1>3

\* The devices of a direction, while their array is set and when it is not.
HandlesAgree(H, F, d, n) ==
  /\ <<"bufferEvent", d>> \in F <=> <<"bufferEvent", d>> \in H
  /\ <<"waveHandles", d>> \in F <=> <<"waveHandles", d>> \in H
  /\ \A x \in H : IsHandle(x, d) =>
       \/ x \in {<<"bufferEvent", d>>, <<"waveHandles", d>>}
       \/ <<"waveHandles", d>> \in H /\ n \in Nat /\ \E i \in 1..n : x = <<"waveHandle", d, i>>
  /\ <<"waveHandles", d>> \in F =>
       n \in Nat /\ \A i \in 1..n : <<"waveHandle", d, i>> \in F <=> <<"waveHandle", d, i>> \in H

WithoutHandles(H, d) == {x \in H : ~IsHandle(x, d)}

\* What is held when device i + 1 and those after it are closed.
WithoutOpened(H, d, i) == {x \in H : ~(x[1] = "waveHandle" /\ x[2] = d /\ x[3] > i)}

WithoutDevicesOpen(H, d) == {x \in H : ~(x[1] = "waveHandle" /\ x[2] = d)}

\* The n devices of a direction that are held are those that are set, and no buffer
\* of theirs is prepared.
OpenedAgree(H, F, d, n) ==
  /\ \A i \in 1..n : <<"waveHandle", d, i>> \in F <=> <<"waveHandle", d, i>> \in H
  /\ \A x \in H : x[1] = "waveHandle" /\ x[2] = d => \E i \in 1..n : x = <<"waveHandle", d, i>>
  /\ \A x \in H : ~(x[1] = "prepared" /\ x[2] = d)

\* All devices of a direction are closed, none under a prepared buffer.
LEMMA DevicesClosed ==
  ASSUME NEW H, NEW F, NEW p, NEW d, Len(p.devices[d]) \in Nat,
         OpenedAgree(H, F, d, Len(p.devices[d]))
  PROVE  FoldLeft(Release, Left(H, F), Reverse(WaveHandle(p, d)))
           = Left(WithoutDevicesOpen(H, d), F)
<1> DEFINE n == Len(p.devices[d])
<1>a. /\ n \in Nat
      /\ \A i \in 1..n : <<"waveHandle", d, i>> \in F <=> <<"waveHandle", d, i>> \in H
      /\ \A x \in H : x[1] = "waveHandle" /\ x[2] = d => \E i \in 1..n : x = <<"waveHandle", d, i>>
      /\ \A x \in H : ~(x[1] = "prepared" /\ x[2] = d)
  BY DEF OpenedAgree
<1>w. WaveHandle(p, d) = [i \in 1..n |-> <<"waveHandle", d, i>>] BY DEF WaveHandle
<1> HIDE DEF n
<1> DEFINE s == [i \in 1..n |-> <<"waveHandle", d, i>>]
           list == Reverse(s)
           base == Left(H, F)
           W(k) == WithoutOpened(H, d, n - k)
<1>1. FoldLeft(Release, base, list) = Closing!Folded(base, list)
  BY DEF Closing!Folded, FoldLeft, MapThenFoldSet, Closing!FoldLeft, Closing!MapThenFoldSet,
         Max, Closing!Max
<1>2. /\ Len(list) = n /\ DOMAIN list = 1..n
      /\ \A k \in 1..n : list[k] = <<"waveHandle", d, n + 1 - k>>
  <2>1. s = [k \in 1..n |-> s[k]] OBVIOUS
  <2>2. \A k \in 1..n : s[n + 1 - k] = <<"waveHandle", d, n + 1 - k>> BY <1>a
  <2> HIDE DEF s
  <2>3. /\ Len(Reverse(s)) = n /\ DOMAIN Reverse(s) = 1..n
        /\ \A k \in 1..n : Reverse(s)[k] = s[n + 1 - k]
    BY <1>a, <2>1, Reversed
  <2> QED BY <2>2, <2>3
<1> HIDE DEF s, list, base
<1>3. PICK g : Closing!IsChain(g, base, list) /\ Closing!Folded(base, list) = g[Len(list)]
  BY <1>2, <1>a, Closing!FoldIsChain, Zenon
<1>4. g[0] = base /\ \A k \in 1..n : g[k] = Release(g[k-1], list[k])
  BY <1>2, <1>3 DEF Closing!IsChain
<1>b. ASSUME NEW x \in H, x[1] = "waveHandle", x[2] = d
      PROVE  x[3] \in 1..n /\ x = <<"waveHandle", d, x[3]>>
  <2>1. PICK i \in 1..n : x = <<"waveHandle", d, i>> BY <1>a, <1>b
  <2>2. x[3] = i BY <2>1
  <2> QED BY <2>1, <2>2
<1> DEFINE K == {k \in Nat : k <= n => g[k] = Left(W(k), F)}
<1>6. 0 \in K
  <2>1. W(0) = H BY <1>a, <1>b DEF WithoutOpened
  <2> QED BY <1>4, <2>1 DEF base
<1>7. ASSUME NEW k \in Nat, k \in K PROVE k + 1 \in K
  <2> SUFFICES ASSUME k + 1 <= n PROVE g[k+1] = Left(W(k+1), F) OBVIOUS
  <2> DEFINE i == n - k
             a == <<"waveHandle", d, i>>
  <2>1. k + 1 \in 1..n /\ i \in 1..n /\ n + 1 - (k + 1) = i /\ (k + 1) - 1 = k BY <1>a
  <2>2. g[k+1] = Release(Left(W(k), F), a)
    <3>1. list[k+1] = a BY <1>2, <2>1
    <3>2. g[(k + 1) - 1] = Left(W(k), F) BY <1>a, <1>7, <2>1
    <3> HIDE DEF W, a
    <3> QED BY <1>4, <2>1, <3>1, <3>2
  <2>3. a \in W(k) <=> a \in H
    <3>1. a[3] = i OBVIOUS
    <3> QED BY <2>1, <3>1 DEF WithoutOpened
  <2>4. a \in F <=> a \in H BY <1>a, <2>1
  <2>5. RestsOn(W(k), a) = {}
    <3>1. W(k) \subseteq H BY DEF WithoutOpened
    <3> HIDE DEF W, i
    <3>2. RestsOn(W(k), a) = {x \in W(k) : x[1] = "prepared" /\ x[2] = d /\ x[3] = i}
      BY RestsOnHandle
    <3> QED BY <1>a, <3>1, <3>2
  <2>6. g[k+1] = Left(W(k) \ {a}, F)
    <3> HIDE DEF W, i, a
    <3>1. CASE a \in F BY <2>2, <2>3, <2>4, <2>5, <3>1, Released
    <3>2. CASE a \notin F
      <4>1. W(k) \ {a} = W(k) BY <2>3, <2>4, <3>2
      <4> QED BY <2>2, <3>2, <4>1, NotReleased
    <3> QED BY <3>1, <3>2
  <2>7. W(k) \ {a} = W(k+1)
    <3>1. ASSUME NEW x \in H
          PROVE  x \in W(k) /\ x # a <=> x \in W(k+1)
      <4> DEFINE opened == x[1] = "waveHandle" /\ x[2] = d
      <4>1. x \in W(k+1) <=> ~(opened /\ x[3] > n - (k + 1)) BY DEF WithoutOpened
      <4>2. x \in W(k) <=> ~(opened /\ x[3] > i) BY DEF WithoutOpened
      <4>3. x = a => opened /\ x[3] = i OBVIOUS
      <4>4. opened => x[3] \in 1..n /\ x = <<"waveHandle", d, x[3]>> BY <1>b
      <4>5. opened /\ x[3] = i => x = a BY <4>4
      <4> HIDE DEF opened, a
      <4>6. opened => (x[3] > n - (k + 1) <=> x[3] > i \/ x[3] = i) BY <1>a, <2>1, <4>4
      <4> HIDE DEF W, i
      <4> QED BY <4>1, <4>2, <4>3, <4>5, <4>6
    <3>2. W(k) \subseteq H /\ W(k+1) \subseteq H BY DEF WithoutOpened
    <3> HIDE DEF W, a, i
    <3> QED BY <3>1, <3>2
  <2> HIDE DEF W, a, i
  <2> QED BY <2>6, <2>7
<1>8. n \in K
  <2> HIDE DEF K
  <2> QED BY <1>a, <1>6, <1>7, SetInduction
<1>9. W(n) = WithoutDevicesOpen(H, d)
  <2>1. \A x \in H : x[1] = "waveHandle" /\ x[2] = d => x[3] > n - n BY <1>a, <1>b
  <2> QED BY <2>1 DEF WithoutOpened, WithoutDevicesOpen
<1>10. g[n] = Left(W(n), F)
  <2>1. n <= n BY <1>a
  <2> HIDE DEF W
  <2> QED BY <1>a, <1>8, <2>1
<1> HIDE DEF W
<1> QED BY <1>w, <1>1, <1>2, <1>3, <1>9, <1>10 DEF s, list, base

-----------------------------------------------------------------------------
(* The devices of a direction.                                             *)

\* TerminateWaveHandles closes all devices of a direction, or has done so before.
LEMMA HandlesFreed ==
  ASSUME NEW H, NEW F, NEW p, NEW d,
         HandlesAgree(H, F, d, Len(p.devices[d])),
         \A x \in H : ~(x[1] = "prepared" /\ x[2] = d)
  PROVE  TerminateWaveHandles(Left(H, F), p, d)
           = Left(WithoutHandles(H, d), F \ {<<"bufferEvent", d>>, <<"waveHandles", d>>})
<1> DEFINE a == <<"waveHandles", d>>
           e == <<"bufferEvent", d>>
           u == Left(H, F)
           n == Len(p.devices[d])
           closed == FoldLeft(Release, u, Reverse(WaveHandle(p, d)))
           G == WithoutDevicesOpen(H, d)
           freed == IF a \in F THEN Cleared(Release(closed, a), a) ELSE u
<1>1. TerminateWaveHandles(u, p, d) = Cleared(Release(freed, e), e)
  <2>1. u.fields = F BY DEF Left
  <2> HIDE DEF a, e, u
  <2> QED BY <2>1 DEF TerminateWaveHandles, a, e
<1>2. a # e /\ a[1] = "waveHandles" /\ e[1] = "bufferEvent" /\ IsHandle(a, d) /\ IsHandle(e, d)
  <2>1. a[1] # e[1] OBVIOUS
  <2> QED BY <2>1 DEF IsHandle
<1>3. /\ e \in F <=> e \in H
      /\ a \in F <=> a \in H
      /\ a \in F => n \in Nat /\ \A i \in 1..n : <<"waveHandle", d, i>> \in F <=> <<"waveHandle", d, i>> \in H
  BY DEF HandlesAgree
<1>4. ASSUME NEW x \in H, IsHandle(x, d)
      PROVE  \/ x \in {e, a}
             \/ a \in H /\ x[1] = "waveHandle" /\ n \in Nat /\ \E i \in 1..n : x = <<"waveHandle", d, i>>
  <2>1. \/ x \in {e, a}
        \/ a \in H /\ n \in Nat /\ \E i \in 1..n : x = <<"waveHandle", d, i>>
    BY <1>4 DEF HandlesAgree
  <2>2. \A i : x = <<"waveHandle", d, i>> => x[1] = "waveHandle" OBVIOUS
  <2> HIDE DEF a, e, n
  <2> QED BY <2>1, <2>2
<1>5. freed = Left(G \ {a}, F \ {a})
  <2>1. CASE a \in F
    <3>1. closed = Left(G, F)
      <4>1. \A x \in H : x[1] = "waveHandle" /\ x[2] = d => \E i \in 1..n : x = <<"waveHandle", d, i>>
        <5> SUFFICES ASSUME NEW x \in H, x[1] = "waveHandle", x[2] = d
                     PROVE  \E i \in 1..n : x = <<"waveHandle", d, i>>
          OBVIOUS
        <5>1. IsHandle(x, d) BY DEF IsHandle
        <5>2. x \notin {a, e} BY <1>2
        <5> HIDE DEF a, e, n
        <5> QED BY <1>4, <5>1, <5>2
      <4>2. n \in Nat /\ \A i \in 1..n : <<"waveHandle", d, i>> \in F <=> <<"waveHandle", d, i>> \in H
        BY <1>3, <2>1
      <4>3. OpenedAgree(H, F, d, n)
        <5> HIDE DEF n
        <5> QED BY <4>1, <4>2 DEF OpenedAgree
      <4> QED BY <4>2, <4>3, DevicesClosed
    <3>2. a \in G BY <1>2, <1>3, <2>1 DEF WithoutDevicesOpen
    <3>3. RestsOn(G, a) = {}
      <4> HIDE DEF G
      <4>1. RestsOn(G, a) = {x \in G : x[1] = "waveHandle" /\ x[2] = d} BY RestsOnHandles
      <4> QED BY <4>1 DEF G, WithoutDevicesOpen
    <3> HIDE DEF G, a, closed
    <3>4. Release(Left(G, F), a) = Left(G \ {a}, F) BY <2>1, <3>2, <3>3, Released
    <3>5. Cleared(Left(G \ {a}, F), a) = Left(G \ {a}, F \ {a}) BY MarkCleared
    <3> QED BY <2>1, <3>1, <3>4, <3>5
  <2>2. CASE a \notin F
    <3>1. G = H
      <4> SUFFICES ASSUME NEW x \in H, x[1] = "waveHandle", x[2] = d PROVE FALSE
        BY DEF WithoutDevicesOpen
      <4>1. IsHandle(x, d) BY DEF IsHandle
      <4>2. x \notin {a, e} BY <1>2
      <4> HIDE DEF a, e, n
      <4> QED BY <1>3, <1>4, <2>2, <4>1, <4>2
    <3> HIDE DEF a, G
    <3>2. G \ {a} = H /\ F \ {a} = F BY <1>3, <2>2, <3>1
    <3> HIDE DEF u, closed
    <3> QED BY <2>2, <3>2 DEF u
  <2> QED BY <2>1, <2>2
<1>6. RestsOn(G \ {a}, e) = {}
  <2> DEFINE E == G \ {a}
  <2>1. \A x \in E : ~(x[1] = "waveHandle" /\ x[2] = d) BY DEF WithoutDevicesOpen
  <2> HIDE DEF E
  <2>2. RestsOn(E, e) = {x \in E : x[1] = "waveHandle" /\ x[2] = d} BY RestsOnHandles
  <2>3. RestsOn(E, e) = {} BY <2>1, <2>2
  <2> QED BY <2>3 DEF E
<1>7. (G \ {a}) \ {e} = WithoutHandles(H, d)
  <2>1. ASSUME NEW x \in H
        PROVE  x \in (G \ {a}) \ {e} <=> ~IsHandle(x, d)
    <3>1. CASE IsHandle(x, d)
      <4>1. x \in {e, a} \/ (x[1] = "waveHandle" /\ x[2] = d) BY <1>4, <3>1 DEF IsHandle
      <4> HIDE DEF a, e
      <4> QED BY <3>1, <4>1 DEF WithoutDevicesOpen
    <3>2. CASE ~IsHandle(x, d)
      <4>1. ~(x[1] = "waveHandle" /\ x[2] = d) BY <3>2 DEF IsHandle
      <4> HIDE DEF a, e
      <4> QED BY <1>2, <3>2, <4>1 DEF WithoutDevicesOpen
    <3> QED BY <3>1, <3>2
  <2>2. (G \ {a}) \ {e} \subseteq H BY DEF WithoutDevicesOpen
  <2> HIDE DEF G, a, e
  <2> QED BY <2>1, <2>2 DEF WithoutHandles
<1>8. Release(Left(G \ {a}, F \ {a}), e) = Left((G \ {a}) \ {e}, F \ {a})
  <2>1. e \in F \ {a} <=> e \in G \ {a}
    <3>1. e[1] # "waveHandle" BY <1>2
    <3> HIDE DEF a, e
    <3> QED BY <1>2, <1>3, <3>1 DEF WithoutDevicesOpen
  <2> HIDE DEF G, a, e
  <2>2. CASE e \in F \ {a}
    <3> DEFINE G2 == G \ {a}
               F2 == F \ {a}
    <3>1. e \in F2 /\ e \in G2 /\ RestsOn(G2, e) = {} BY <1>6, <2>1, <2>2
    <3> HIDE DEF G2, F2
    <3>2. Release(Left(G2, F2), e) = Left(G2 \ {e}, F2) BY <3>1, Released
    <3> QED BY <3>2 DEF G2, F2
  <2>3. CASE e \notin F \ {a}
    <3>1. (G \ {a}) \ {e} = G \ {a} BY <2>1, <2>3
    <3> QED BY <2>3, <3>1, NotReleased
  <2> QED BY <2>2, <2>3
<1>9. (F \ {a}) \ {e} = F \ {e, a} OBVIOUS
<1> HIDE DEF G, a, e, freed, u
<1>10. Cleared(Left((G \ {a}) \ {e}, F \ {a}), e) = Left((G \ {a}) \ {e}, (F \ {a}) \ {e})
  BY MarkCleared
<1> QED BY <1>1, <1>5, <1>7, <1>8, <1>9, <1>10 DEF a, e, u

-----------------------------------------------------------------------------
(* A stream: whatever is held consistently is given back.                  *)

\* What is held and set of a direction has not changed.
SameOf(Is(_, _), H, F, H1, F1, d) ==
  \A x : Is(x, d) => (x \in H1 <=> x \in H) /\ (x \in F1 <=> x \in F)

LEMMA SameHeaders ==
  ASSUME NEW H, NEW F, NEW H1, NEW F1, NEW d, NEW n, NEW count,
         SameOf(IsHeader, H, F, H1, F1, d), HeadersAgree(H, F, d, n, count)
  PROVE  HeadersAgree(H1, F1, d, n, count)
<1> DEFINE a == <<"waveHeaders", d>>
<1>1. ASSUME NEW x, IsHeader(x, d) PROVE (x \in H1 <=> x \in H) /\ (x \in F1 <=> x \in F)
  BY <1>1 DEF SameOf
<1>0. /\ \A x \in H1 : IsHeader(x, d) => x \in H
      /\ \A x, i : IsBuffer(x, d, i) => IsHeader(x, d)
  BY <1>1 DEF IsHeader, IsBuffer
<1>2. a \in H1 <=> a \in H
  <2>1. IsHeader(a, d) BY DEF IsHeader
  <2> HIDE DEF a
  <2> QED BY <1>1, <2>1
<1>3. a \in F1 <=> a \in F
  <2>1. IsHeader(a, d) BY DEF IsHeader
  <2> HIDE DEF a
  <2> QED BY <1>1, <2>1
<1>4. CASE a \in F
  <2>1. a \in H /\ n \in Nat /\ count \in Nat /\ DevicesAgree(H, F, d, n, count)
    BY <1>4 DEF HeadersAgree
  <2>2. ASSUME NEW i \in 1..n PROVE DeviceAgrees(H1, F1, d, i, count)
    <3> DEFINE b == <<"deviceWaveHeaders", d, i>>
    <3>1. DeviceAgrees(H, F, d, i, count) BY <2>1 DEF DevicesAgree
    <3>2. IsHeader(b, d) BY DEF IsHeader
    <3>3. BuffersAgree(H1, F1, d, i, count)
      <4>1. BuffersAgree(H, F, d, i, count) BY <3>1 DEF DeviceAgrees
      <4>2. ASSUME NEW j \in 1..count PROVE BufferAgrees(H1, F1, d, i, j)
        <5> DEFINE l == Buffer(d, i, j)[1]
                   m == Buffer(d, i, j)[2]
        <5>1. BufferAgrees(H, F, d, i, j) BY <4>1 DEF BuffersAgree
        <5>2. IsHeader(l, d) /\ IsHeader(m, d)
          <6>1. l = <<"lpData", d, i, j>> /\ m = <<"prepared", d, i, j>> BY BufferParts
          <6>2. IsHeader(<<"lpData", d, i, j>>, d) /\ IsHeader(<<"prepared", d, i, j>>, d)
            BY DEF IsHeader
          <6> HIDE DEF l, m
          <6> QED BY <6>1, <6>2
        <5> HIDE DEF l, m
        <5>3. (l \in H1 <=> l \in H) /\ (l \in F1 <=> l \in F) BY <1>1, <5>2
        <5>4. (m \in H1 <=> m \in H) /\ (m \in F1 <=> m \in F) BY <1>1, <5>2
        <5> QED BY <5>1, <5>3, <5>4 DEF BufferAgrees, l, m
      <4> QED BY <1>0, <4>1, <4>2 DEF BuffersAgree
    <3> HIDE DEF b
    <3>4. (b \in H1 <=> b \in H) /\ (b \in F1 <=> b \in F) BY <1>1, <3>2
    <3> QED BY <1>0, <3>1, <3>3, <3>4 DEF DeviceAgrees, b
  <2>3. \A x \in H1 : IsHeader(x, d) =>
          \/ x = a
          \/ \E i \in 1..n : x = <<"deviceWaveHeaders", d, i>> \/ IsBuffer(x, d, i)
    BY <1>0, <2>1 DEF DevicesAgree
  <2>4. DevicesAgree(H1, F1, d, n, count) BY <2>2, <2>3 DEF DevicesAgree
  <2> QED BY <1>2, <1>3, <1>4, <2>1, <2>4 DEF HeadersAgree
<1>5. CASE a \notin F
  <2>1. \A x \in H : ~IsHeader(x, d) BY <1>5 DEF HeadersAgree
  <2> QED BY <1>0, <1>3, <1>5, <2>1 DEF HeadersAgree
<1> QED BY <1>4, <1>5

LEMMA SameHandles ==
  ASSUME NEW H, NEW F, NEW H1, NEW F1, NEW d, NEW n,
         SameOf(IsHandle, H, F, H1, F1, d), HandlesAgree(H, F, d, n)
  PROVE  HandlesAgree(H1, F1, d, n)
<1> DEFINE a == <<"waveHandles", d>>
           e == <<"bufferEvent", d>>
           h(i) == <<"waveHandle", d, i>>
<1>1. ASSUME NEW x, IsHandle(x, d) PROVE (x \in H1 <=> x \in H) /\ (x \in F1 <=> x \in F)
  BY <1>1 DEF SameOf
<1>2. IsHandle(a, d) /\ IsHandle(e, d) /\ \A i : IsHandle(h(i), d) BY DEF IsHandle
<1>3. /\ e \in F <=> e \in H
      /\ a \in F <=> a \in H
      /\ \A x \in H : IsHandle(x, d) =>
           \/ x \in {e, a}
           \/ a \in H /\ n \in Nat /\ \E i \in 1..n : x = h(i)
      /\ a \in F => n \in Nat /\ \A i \in 1..n : h(i) \in F <=> h(i) \in H
  BY DEF HandlesAgree
<1> HIDE DEF a, e, h
<1>4. /\ e \in F1 <=> e \in H1
      /\ a \in F1 <=> a \in H1
      /\ a \in H1 <=> a \in H
      /\ a \in F1 <=> a \in F
  BY <1>1, <1>2, <1>3
<1>5. \A x \in H1 : IsHandle(x, d) =>
        \/ x \in {e, a}
        \/ a \in H1 /\ n \in Nat /\ \E i \in 1..n : x = h(i)
  BY <1>1, <1>3, <1>4
<1>6. a \in F1 => n \in Nat /\ \A i \in 1..n : h(i) \in F1 <=> h(i) \in H1
  BY <1>1, <1>2, <1>3, <1>4
<1> QED BY <1>4, <1>5, <1>6 DEF HandlesAgree, a, e, h

\* What is held is what is set, and what it rests on is held.
Consistent(H, F, p, s) ==
  /\ \A d \in Direction : /\ HeadersAgree(H, F, d, Len(p.devices[d]), s[d].count)
                          /\ HandlesAgree(H, F, d, Len(p.devices[d]))
  /\ <<"stream">> \in F <=> <<"stream">> \in H
  /\ <<"bufferProcessor">> \in F <=> <<"bufferProcessor">> \in H
  /\ \A x \in H : \/ x \in {<<"stream">>, <<"bufferProcessor">>}
                  \/ \E d \in Direction : IsHeader(x, d) \/ IsHandle(x, d)

LEMMA HeadersGone ==
  ASSUME NEW H, NEW F, NEW p, NEW s, NEW d \in Direction, Consistent(H, F, p, s)
  PROVE  /\ TerminateWaveHeaders(Left(H, F), p, s, d)
              = Left(WithoutHeaders(H, d), F \ {<<"waveHeaders", d>>})
         /\ Consistent(WithoutHeaders(H, d), F \ {<<"waveHeaders", d>>}, p, s)
<1> DEFINE a == <<"waveHeaders", d>>
           H1 == WithoutHeaders(H, d)
           F1 == F \ {a}
<1>1. HeadersAgree(H, F, d, Len(p.devices[d]), s[d].count) BY DEF Consistent
<1>2. TerminateWaveHeaders(Left(H, F), p, s, d) = Left(H1, F1) BY <1>1, HeadersFreed
<1>3. IsHeader(a, d) /\ a[1] = "waveHeaders" /\ a[2] = d BY DEF IsHeader
<1>4. HeadersAgree(H1, F1, d, Len(p.devices[d]), s[d].count)
  <2>1. a \notin F1 OBVIOUS
  <2>2. \A x \in H1 : ~IsHeader(x, d) BY DEF WithoutHeaders
  <2> HIDE DEF H1, F1
  <2> QED BY <2>1, <2>2 DEF HeadersAgree
<1>5. H1 \subseteq H /\ F1 \subseteq F BY DEF WithoutHeaders
<1>6. ASSUME NEW e \in Direction, e # d
      PROVE  HeadersAgree(H1, F1, e, Len(p.devices[e]), s[e].count)
  <2>1. SameOf(IsHeader, H, F, H1, F1, e)
    <3>1. \A x : IsHeader(x, e) => ~IsHeader(x, d) /\ x # a
      <4> HIDE DEF a
      <4> QED BY <1>3, <1>6 DEF IsHeader
    <3> HIDE DEF a
    <3> QED BY <3>1 DEF SameOf, WithoutHeaders
  <2>2. HeadersAgree(H, F, e, Len(p.devices[e]), s[e].count) BY DEF Consistent
  <2> HIDE DEF H1, F1
  <2> QED BY <2>1, <2>2, SameHeaders
<1>7. ASSUME NEW e \in Direction PROVE HandlesAgree(H1, F1, e, Len(p.devices[e]))
  <2>1. SameOf(IsHandle, H, F, H1, F1, e)
    <3>1. \A x : IsHandle(x, e) => ~IsHeader(x, d) /\ x # a
      <4> HIDE DEF a
      <4> QED BY <1>3 DEF IsHeader, IsHandle
    <3> HIDE DEF a
    <3> QED BY <3>1 DEF SameOf, WithoutHeaders
  <2>2. HandlesAgree(H, F, e, Len(p.devices[e])) BY DEF Consistent
  <2> HIDE DEF H1, F1
  <2> QED BY <2>1, <2>2, SameHandles
<1>8. ASSUME NEW x, x[1] \in {"stream", "bufferProcessor"}
      PROVE  (x \in H1 <=> x \in H) /\ (x \in F1 <=> x \in F)
  <2>1. ~IsHeader(x, d) /\ x # a
    <3> HIDE DEF a
    <3> QED BY <1>3, <1>8 DEF IsHeader
  <2> HIDE DEF a
  <2> QED BY <2>1 DEF WithoutHeaders
<1> DEFINE st == <<"stream">>
           bp == <<"bufferProcessor">>
<1>9. (st \in F1 <=> st \in H1) /\ (bp \in F1 <=> bp \in H1)
  <2>1. st[1] = "stream" /\ bp[1] = "bufferProcessor" OBVIOUS
  <2>2. (st \in F <=> st \in H) /\ (bp \in F <=> bp \in H) BY DEF Consistent
  <2> HIDE DEF H1, F1, st, bp
  <2> QED BY <1>8, <2>1, <2>2
<1>10. Consistent(H1, F1, p, s)
  <2>1. \A x \in H1 : \/ x \in {st, bp}
                      \/ \E e \in Direction : IsHeader(x, e) \/ IsHandle(x, e)
    BY <1>5 DEF Consistent
  <2> HIDE DEF H1, F1
  <2> QED BY <1>4, <1>6, <1>7, <1>9, <2>1 DEF Consistent
<1> QED BY <1>2, <1>10

LEMMA HandlesGone ==
  ASSUME NEW H, NEW F, NEW p, NEW s, NEW d \in Direction, Consistent(H, F, p, s),
         \A x \in H : ~IsHeader(x, d)
  PROVE  LET F1 == F \ {<<"bufferEvent", d>>, <<"waveHandles", d>>}
         IN  /\ TerminateWaveHandles(Left(H, F), p, d) = Left(WithoutHandles(H, d), F1)
             /\ Consistent(WithoutHandles(H, d), F1, p, s)
<1> DEFINE a == <<"waveHandles", d>>
           b == <<"bufferEvent", d>>
           H1 == WithoutHandles(H, d)
           F1 == F \ {b, a}
<1>1. HandlesAgree(H, F, d, Len(p.devices[d])) BY DEF Consistent
<1>2. TerminateWaveHandles(Left(H, F), p, d) = Left(H1, F1)
  <2>1. \A x \in H : ~(x[1] = "prepared" /\ x[2] = d) BY DEF IsHeader
  <2> QED BY <1>1, <2>1, HandlesFreed
<1>3. /\ IsHandle(a, d) /\ a[1] = "waveHandles" /\ a[2] = d
      /\ IsHandle(b, d) /\ b[1] = "bufferEvent" /\ b[2] = d
  BY DEF IsHandle
<1>4. HandlesAgree(H1, F1, d, Len(p.devices[d]))
  <2>1. a \notin F1 /\ b \notin F1 OBVIOUS
  <2>2. \A x \in H1 : ~IsHandle(x, d) BY DEF WithoutHandles
  <2>3. a \notin H1 /\ b \notin H1
    <3> HIDE DEF a, b, H1
    <3> QED BY <1>3, <2>2
  <2> HIDE DEF H1, F1
  <2> QED BY <2>1, <2>2, <2>3 DEF HandlesAgree
<1>5. H1 \subseteq H /\ F1 \subseteq F BY DEF WithoutHandles
<1>6. ASSUME NEW e \in Direction, e # d PROVE HandlesAgree(H1, F1, e, Len(p.devices[e]))
  <2>1. SameOf(IsHandle, H, F, H1, F1, e)
    <3>1. \A x : IsHandle(x, e) => ~IsHandle(x, d) /\ x \notin {b, a}
      <4> HIDE DEF a, b
      <4> QED BY <1>3, <1>6 DEF IsHandle
    <3> HIDE DEF a, b
    <3> QED BY <3>1 DEF SameOf, WithoutHandles
  <2>2. HandlesAgree(H, F, e, Len(p.devices[e])) BY DEF Consistent
  <2> HIDE DEF H1, F1
  <2> QED BY <2>1, <2>2, SameHandles
<1>7. ASSUME NEW e \in Direction PROVE HeadersAgree(H1, F1, e, Len(p.devices[e]), s[e].count)
  <2>1. SameOf(IsHeader, H, F, H1, F1, e)
    <3>1. \A x : IsHeader(x, e) => ~IsHandle(x, d) /\ x \notin {b, a}
      <4> HIDE DEF a, b
      <4> QED BY <1>3 DEF IsHeader, IsHandle
    <3> HIDE DEF a, b
    <3> QED BY <3>1 DEF SameOf, WithoutHandles
  <2>2. HeadersAgree(H, F, e, Len(p.devices[e]), s[e].count) BY DEF Consistent
  <2> HIDE DEF H1, F1
  <2> QED BY <2>1, <2>2, SameHeaders
<1>8. ASSUME NEW x, x[1] \in {"stream", "bufferProcessor"}
      PROVE  (x \in H1 <=> x \in H) /\ (x \in F1 <=> x \in F)
  <2>1. ~IsHandle(x, d) /\ x \notin {b, a}
    <3> HIDE DEF a, b
    <3> QED BY <1>3, <1>8 DEF IsHandle
  <2> HIDE DEF a, b
  <2> QED BY <2>1 DEF WithoutHandles
<1> DEFINE st == <<"stream">>
           bp == <<"bufferProcessor">>
<1>9. (st \in F1 <=> st \in H1) /\ (bp \in F1 <=> bp \in H1)
  <2>1. st[1] = "stream" /\ bp[1] = "bufferProcessor" OBVIOUS
  <2>2. (st \in F <=> st \in H) /\ (bp \in F <=> bp \in H) BY DEF Consistent
  <2> HIDE DEF H1, F1, st, bp
  <2> QED BY <1>8, <2>1, <2>2
<1>10. Consistent(H1, F1, p, s)
  <2>1. \A x \in H1 : \/ x \in {st, bp}
                      \/ \E e \in Direction : IsHeader(x, e) \/ IsHandle(x, e)
    BY <1>5 DEF Consistent
  <2> HIDE DEF H1, F1
  <2> QED BY <1>4, <1>6, <1>7, <1>9, <2>1 DEF Consistent
<1> QED BY <1>2, <1>10

\* TerminateStream gives back everything, in an order in which nothing is misused.
LEMMA AllGivenBack ==
  ASSUME NEW H, NEW F, NEW p, NEW s, Consistent(H, F, p, s)
  PROVE  \E F1 : TerminateStream(Left(H, F), p, s) = Left({}, F1)
<1> DEFINE st == <<"stream">>
           bp == <<"bufferProcessor">>
           H1 == WithoutHeaders(H, "out")
           F1 == F \ {<<"waveHeaders", "out">>}
           H2 == WithoutHeaders(H1, "in")
           F2 == F1 \ {<<"waveHeaders", "in">>}
           H3 == WithoutHandles(H2, "out")
           F3 == F2 \ {<<"bufferEvent", "out">>, <<"waveHandles", "out">>}
           H4 == WithoutHandles(H3, "in")
           F4 == F3 \ {<<"bufferEvent", "in">>, <<"waveHandles", "in">>}
<1>d. "in" \in Direction /\ "out" \in Direction /\ Direction = {"in", "out"} BY DEF Direction
<1>1. /\ TerminateWaveHeaders(Left(H, F), p, s, "out") = Left(H1, F1)
      /\ Consistent(H1, F1, p, s)
  BY <1>d, HeadersGone
<1> HIDE DEF F1
<1>2. /\ TerminateWaveHeaders(Left(H1, F1), p, s, "in") = Left(H2, F2)
      /\ Consistent(H2, F2, p, s)
  <2> HIDE DEF H1
  <2> QED BY <1>1, <1>d, HeadersGone
<1> HIDE DEF F2
<1>3. \A x \in H2 : \A d \in Direction : ~IsHeader(x, d)
  <2>1. \A x \in H2 : ~IsHeader(x, "in") /\ ~IsHeader(x, "out") BY DEF WithoutHeaders
  <2> QED BY <1>d, <2>1
<1>4. /\ TerminateWaveHandles(Left(H2, F2), p, "out") = Left(H3, F3)
      /\ Consistent(H3, F3, p, s)
  <2> HIDE DEF H2
  <2> QED BY <1>2, <1>3, <1>d, HandlesGone
<1>5. \A x \in H3 : \A d \in Direction : ~IsHeader(x, d)
  <2> HIDE DEF H2
  <2> QED BY <1>3 DEF WithoutHandles
<1> HIDE DEF F3
<1>6. /\ TerminateWaveHandles(Left(H3, F3), p, "in") = Left(H4, F4)
      /\ Consistent(H4, F4, p, s)
  <2> HIDE DEF H3
  <2> QED BY <1>4, <1>5, <1>d, HandlesGone
<1> HIDE DEF F4
<1>7. H4 \subseteq {st, bp}
  <2>1. \A x \in H4 : x \in H3 /\ ~IsHandle(x, "in") /\ ~IsHandle(x, "out")
    <3> HIDE DEF H2
    <3> QED BY DEF WithoutHandles
  <2>2. \A x \in H4 : \/ x \in {st, bp}
                      \/ \E d \in Direction : IsHeader(x, d) \/ IsHandle(x, d)
    <3> HIDE DEF H4
    <3> QED BY <1>6 DEF Consistent
  <2> HIDE DEF H4, H3
  <2> QED BY <1>5, <1>d, <2>1, <2>2
<1>8. (st \in F4 <=> st \in H4) /\ (bp \in F4 <=> bp \in H4)
  <2> HIDE DEF H4
  <2> QED BY <1>6 DEF Consistent
<1>9. st # bp /\ st[1] = "stream" /\ bp[1] = "bufferProcessor"
  <2>1. st[1] # bp[1] OBVIOUS
  <2> QED BY <2>1
<1>10. TerminateStream(Left(H, F), p, s) = Release(Release(Left(H4, F4), bp), st)
  <2> HIDE DEF H1, H2, H3, H4
  <2> QED BY <1>1, <1>2, <1>4, <1>6 DEF TerminateStream
<1> HIDE DEF H1, H2, H3, H4, st, bp
<1>11. Release(Left(H4, F4), bp) = Left(H4 \ {bp}, F4)
  <2>1. RestsOn(H4, bp) = {} BY <1>9, RestsOnOthers
  <2>2. CASE bp \in F4 BY <1>8, <2>1, <2>2, Released
  <2>3. CASE bp \notin F4
    <3>1. H4 \ {bp} = H4 BY <1>8, <2>3
    <3> QED BY <2>3, <3>1, NotReleased
  <2> QED BY <2>2, <2>3
<1>12. Release(Left(H4 \ {bp}, F4), st) = Left({}, F4)
  <2> DEFINE E == H4 \ {bp}
  <2>0. E \subseteq {st} /\ (st \in F4 <=> st \in E) BY <1>7, <1>8, <1>9
  <2> HIDE DEF E
  <2>1. RestsOn(E, st) = E \ {st} BY <1>9, RestsOnOthers
  <2>2. E \ {st} = {} BY <2>0
  <2>3. CASE st \in F4
    <3>1. Release(Left(E, F4), st) = Left(E \ {st}, F4) BY <2>0, <2>1, <2>2, <2>3, Released
    <3> QED BY <2>2, <3>1 DEF E
  <2>4. CASE st \notin F4
    <3>1. E = {} BY <2>0, <2>4
    <3>2. Release(Left(E, F4), st) = Left(E, F4) BY <2>4, NotReleased
    <3> QED BY <3>1, <3>2 DEF E
  <2> QED BY <2>3, <2>4
<1> QED BY <1>10, <1>11, <1>12

\* Whichever acquisition has failed: the clean-up of InitializeWaveHandles, or of
\* InitializeWaveHeaders, and that of OpenStream after it give back what was acquired.
LEMMA FailureGivesBack ==
  ASSUME NEW H, NEW p, NEW s, NEW r, Consistent(H, H, p, s),
         (\E d \in Direction : IsHandle(r, d)) => \A x \in H, d \in Direction : ~IsHeader(x, d),
         \A d : IsHandle(r, d) \/ IsHeader(r, d) => d \in Direction
  PROVE  \E F1 : FailedAt(Left(H, H), p, s, r) = Left({}, F1)
<1> DEFINE d == r[2]
           handle == r[1] \in {"bufferEvent", "waveHandles", "waveHandle"}
           header == r[1] \in {"waveHeaders", "deviceWaveHeaders", "lpData", "prepared"}
           own == IF handle THEN TerminateWaveHandles(Left(H, H), p, d)
                  ELSE IF header THEN TerminateWaveHeaders(Left(H, H), p, s, d)
                  ELSE Left(H, H)
<1>1. FailedAt(Left(H, H), p, s, r) = TerminateStream(own, p, s) BY DEF FailedAt
<1>2. \E G, F : own = Left(G, F) /\ Consistent(G, F, p, s)
  <2>1. CASE handle
    <3>1. IsHandle(r, d) /\ d \in Direction BY <2>1 DEF IsHandle
    <3>2. \A x \in H : ~IsHeader(x, d) BY <3>1
    <3> HIDE DEF d, handle
    <3>3. own = TerminateWaveHandles(Left(H, H), p, d) BY <2>1
    <3> HIDE DEF own
    <3>4. LET F1 == H \ {<<"bufferEvent", d>>, <<"waveHandles", d>>}
          IN  /\ TerminateWaveHandles(Left(H, H), p, d) = Left(WithoutHandles(H, d), F1)
              /\ Consistent(WithoutHandles(H, d), F1, p, s)
      BY <3>1, <3>2, HandlesGone
    <3> QED BY <3>3, <3>4
  <2>2. CASE ~handle /\ header
    <3>1. d \in Direction BY <2>2 DEF IsHeader
    <3> HIDE DEF d, handle, header
    <3>3. own = TerminateWaveHeaders(Left(H, H), p, s, d) BY <2>2
    <3> HIDE DEF own
    <3>4. /\ TerminateWaveHeaders(Left(H, H), p, s, d)
               = Left(WithoutHeaders(H, d), H \ {<<"waveHeaders", d>>})
          /\ Consistent(WithoutHeaders(H, d), H \ {<<"waveHeaders", d>>}, p, s)
      BY <3>1, HeadersGone
    <3> QED BY <3>3, <3>4
  <2>3. CASE ~handle /\ ~header
    <3> HIDE DEF handle, header
    <3> QED BY <2>3
  <2> QED BY <2>1, <2>2, <2>3
<1> HIDE DEF own
<1> QED BY <1>1, <1>2, AllGivenBack

-----------------------------------------------------------------------------
(* What had been acquired when an acquisition failed.                      *)

\* An acquisition x of a sequence, and the set H of those before it.
IsCut(q, H, x) == \E k \in 1..Len(q) : x = q[k] /\ H = {q[m] : m \in 1..k-1}

LEMMA ToSetOf ==
  ASSUME NEW S, NEW q \in Seq(S)
  PROVE  ToSet(q) = {q[m] : m \in 1..Len(q)}
<1>1. DOMAIN q = 1..Len(q) OBVIOUS
<1> QED BY <1>1 DEF ToSet

\* A cut of c is one of q, or one of t after all of q.
Joins(c, q, t) ==
  /\ ToSet(c) = ToSet(q) \cup ToSet(t)
  /\ \A H, x : IsCut(c, H, x) =>
       IsCut(q, H, x) \/ \E G : IsCut(t, G, x) /\ H = ToSet(q) \cup G

LEMMA CutOfTwo ==
  ASSUME NEW S, NEW q \in Seq(S), NEW t \in Seq(S)
  PROVE  q \o t \in Seq(S) /\ Joins(q \o t, q, t)
<1> DEFINE c == q \o t
           a == Len(q)
           b == Len(t)
<1>1. /\ c \in Seq(S) /\ Len(c) = a + b /\ a \in Nat /\ b \in Nat
      /\ \A k \in 1..a : c[k] = q[k]
      /\ \A k \in 1..b : c[a + k] = t[k]
  BY ConcatProperties
<1>2. ToSet(c) = {c[m] : m \in 1..a+b} /\ ToSet(q) = {q[m] : m \in 1..a}
      /\ ToSet(t) = {t[m] : m \in 1..b}
  <2>1. ToSet(c) = {c[m] : m \in 1..Len(c)}
    <3> HIDE DEF c
    <3> QED BY <1>1, ToSetOf
  <2>2. ToSet(q) = {q[m] : m \in 1..Len(q)} BY ToSetOf
  <2>3. ToSet(t) = {t[m] : m \in 1..Len(t)} BY ToSetOf
  <2> QED BY <1>1, <2>1, <2>2, <2>3
<1> HIDE DEF c, a, b
<1>3. \A k \in 1..a+b : k \in 1..a \/ (k - a \in 1..b /\ a + (k - a) = k) BY <1>1
<1>4. ToSet(c) = ToSet(q) \cup ToSet(t)
  <2>1. ASSUME NEW k \in 1..a+b PROVE c[k] \in ToSet(q) \cup ToSet(t)
    <3>1. CASE k \in 1..a BY <1>1, <1>2, <3>1
    <3>2. CASE k - a \in 1..b /\ a + (k - a) = k
      <4>1. c[k] = t[k - a] BY <1>1, <3>2
      <4> QED BY <1>2, <3>2, <4>1
    <3> QED BY <1>3, <3>1, <3>2
  <2>2. ASSUME NEW k \in 1..a PROVE q[k] \in ToSet(c)
    <3>1. k \in 1..a+b /\ c[k] = q[k] BY <1>1
    <3> QED BY <1>2, <3>1
  <2>3. ASSUME NEW k \in 1..b PROVE t[k] \in ToSet(c)
    <3>1. a + k \in 1..a+b /\ c[a + k] = t[k] BY <1>1
    <3> QED BY <1>2, <3>1
  <2> QED BY <1>2, <2>1, <2>2, <2>3
<1>5. ASSUME NEW H, NEW x, IsCut(c, H, x)
      PROVE  \/ IsCut(q, H, x)
             \/ \E G : IsCut(t, G, x) /\ H = ToSet(q) \cup G
  <2>1. PICK k \in 1..a+b : x = c[k] /\ H = {c[m] : m \in 1..k-1} BY <1>1, <1>5 DEF IsCut
  <2>2. CASE k \in 1..a
    <3>1. x = q[k] BY <1>1, <2>1, <2>2
    <3>2. \A m \in 1..k-1 : c[m] = q[m] BY <1>1, <2>2
    <3>3. H = {q[m] : m \in 1..k-1} BY <2>1, <3>2
    <3> QED BY <2>2, <3>1, <3>3 DEF IsCut, a
  <2>3. CASE k - a \in 1..b /\ a + (k - a) = k
    <3> DEFINE G == {t[m] : m \in 1..(k-a)-1}
    <3>1. x = t[k - a] BY <1>1, <2>1, <2>3
    <3>2. IsCut(t, G, x) BY <2>3, <3>1 DEF IsCut, b
    <3>3. H = ToSet(q) \cup G
      <4>1. ASSUME NEW m \in 1..k-1 PROVE c[m] \in ToSet(q) \cup G
        <5>1. CASE m \in 1..a BY <1>1, <1>2, <5>1
        <5>2. CASE m \notin 1..a
          <6>1. m - a \in 1..(k-a)-1 /\ m - a \in 1..b /\ a + (m - a) = m BY <1>1, <2>3, <5>2
          <6>2. c[m] = t[m - a] BY <1>1, <6>1
          <6> QED BY <6>1, <6>2
        <5> QED BY <5>1, <5>2
      <4>2. ASSUME NEW m \in 1..a PROVE q[m] \in H
        <5>1. m \in 1..k-1 /\ c[m] = q[m] BY <1>1, <2>3
        <5> QED BY <2>1, <5>1
      <4>3. ASSUME NEW m \in 1..(k-a)-1 PROVE t[m] \in H
        <5>1. a + m \in 1..k-1 /\ m \in 1..b /\ c[a + m] = t[m] BY <1>1, <2>3
        <5> QED BY <2>1, <5>1
      <4> QED BY <1>2, <2>1, <4>1, <4>2, <4>3
    <3> HIDE DEF G
    <3> QED BY <3>2, <3>3
  <2> QED BY <1>3, <2>1, <2>2, <2>3
<1> QED BY <1>1, <1>4, <1>5 DEF c, Joins

\* FlattenSeq appends one sequence after the other.
Appends(f, seqs, n) == f = [i \in 1..n |-> IF i = 1 THEN seqs[i] ELSE f[i-1] \o seqs[i]]

LEMMA FlattenAppends ==
  ASSUME NEW n \in Nat \ {0}, NEW seqs, Len(seqs) = n
  PROVE  \E f : Appends(f, seqs, n) /\ FlattenSeq(seqs) = f[n]
<1> DEFINE K == {k \in Nat : \E f : Appends(f, seqs, k)}
<1>1. 0 \in K
  <2>1. Appends([i \in 1..0 |-> 0], seqs, 0)
    <3>1. 1..0 = {} OBVIOUS
    <3> QED BY <3>1 DEF Appends
  <2> QED BY <2>1
<1>2. ASSUME NEW k \in Nat, k \in K PROVE k + 1 \in K
  <2>1. PICK f : Appends(f, seqs, k) BY <1>2
  <2> DEFINE g == [i \in 1..k+1 |-> IF i = 1 THEN seqs[i] ELSE f[i-1] \o seqs[i]]
  <2>2. ASSUME NEW i \in 1..k+1, i # 1 PROVE g[i-1] = f[i-1]
    <3>1. i - 1 \in 1..k /\ i - 1 \in 1..k+1 BY <2>2
    <3> QED BY <2>1, <3>1 DEF Appends
  <2>3. g = [i \in 1..k+1 |-> IF i = 1 THEN seqs[i] ELSE g[i-1] \o seqs[i]]
    <3> SUFFICES ASSUME NEW i \in 1..k+1
                 PROVE  (IF i = 1 THEN seqs[i] ELSE f[i-1] \o seqs[i])
                          = (IF i = 1 THEN seqs[i] ELSE g[i-1] \o seqs[i])
      OBVIOUS
    <3> HIDE DEF g
    <3> QED BY <2>2
  <2> HIDE DEF g
  <2>4. Appends(g, seqs, k + 1) BY <2>3 DEF Appends
  <2> QED BY <2>4
<1>3. n \in K
  <2> HIDE DEF K
  <2> QED BY <1>1, <1>2, SetInduction
<1> DEFINE iter == CHOOSE f : Appends(f, seqs, n)
<1>4. Appends(iter, seqs, n) BY <1>3
<1>5. FlattenSeq(seqs) = iter[n] BY DEF FlattenSeq, Appends
<1> HIDE DEF iter
<1> QED BY <1>4, <1>5

\* What the first k of some sequences hold.
UpTo(seqs, k) == UNION {ToSet(seqs[i]) : i \in 1..k}

\* A cut of one of the first n of some sequences, after those before it.
IsCutAmong(seqs, n, H, x) ==
  \E i \in 1..n : \E G : IsCut(seqs[i], G, x) /\ H = UpTo(seqs, i - 1) \cup G

LEMMA OneMore ==
  ASSUME NEW seqs, NEW k \in Nat
  PROVE  /\ UpTo(seqs, 0) = {}
         /\ UpTo(seqs, k + 1) = UpTo(seqs, k) \cup ToSet(seqs[k+1])
<1>1. 1..0 = {} OBVIOUS
<1>2. 1..k+1 = (1..k) \cup {k+1} OBVIOUS
<1> QED BY <1>1, <1>2 DEF UpTo

\* A cut of a flattened sequence is one of a member, after the members before it.
LEMMA CutOfMany ==
  ASSUME NEW S, NEW n \in Nat, NEW seqs \in [1..n -> Seq(S)]
  PROVE  /\ FlattenSeq(seqs) \in Seq(S)
         /\ ToSet(FlattenSeq(seqs)) = UpTo(seqs, n)
         /\ \A H, x : IsCut(FlattenSeq(seqs), H, x) => IsCutAmong(seqs, n, H, x)
<1>1. Len(seqs) = n
  <2>1. DOMAIN seqs = 1..n OBVIOUS
  <2> QED BY <2>1
<1>2. CASE n = 0
  <2>1. FlattenSeq(seqs) = seqs BY <1>1, <1>2 DEF FlattenSeq
  <2>2. seqs = <<>> BY <1>2
  <2>3. ToSet(<<>>) = {} BY DEF ToSet
  <2>4. \A H, x : ~IsCut(<<>>, H, x) BY DEF IsCut
  <2>5. UpTo(seqs, n) = {} BY <1>2, OneMore
  <2>6. <<>> \in Seq(S) OBVIOUS
  <2> QED BY <2>1, <2>2, <2>3, <2>4, <2>5, <2>6
<1>3. CASE n # 0
  <2>0. n \in Nat \ {0} BY <1>3
  <2>1. PICK f : Appends(f, seqs, n) /\ FlattenSeq(seqs) = f[n] BY <1>1, <2>0, FlattenAppends
  <2>2. \A i \in 1..n : f[i] = IF i = 1 THEN seqs[i] ELSE f[i-1] \o seqs[i]
    BY <2>1 DEF Appends
  <2> DEFINE Good(k) == /\ f[k] \in Seq(S)
                        /\ ToSet(f[k]) = UpTo(seqs, k)
                        /\ \A H, x : IsCut(f[k], H, x) => IsCutAmong(seqs, k, H, x)
             K == {k \in Nat : k \in 1..n => Good(k)}
  <2>3. 0 \in K OBVIOUS
  <2>4. ASSUME NEW k \in Nat, k \in K PROVE k + 1 \in K
    <3> HIDE DEF Good
    <3> SUFFICES ASSUME k + 1 \in 1..n PROVE Good(k + 1) OBVIOUS
    <3>1. CASE k = 0
      <4>1. f[1] = seqs[1] /\ 1 \in 1..n BY <2>0, <2>2
      <4>2. UpTo(seqs, 0) = {} /\ UpTo(seqs, 0 + 1) = UpTo(seqs, 0) \cup ToSet(seqs[0+1])
        BY OneMore
      <4>3. UpTo(seqs, 1) = ToSet(seqs[1])
        <5>1. 0 + 1 = 1 OBVIOUS
        <5> QED BY <4>2, <5>1
      <4>4. ASSUME NEW H, NEW x, IsCut(seqs[1], H, x) PROVE IsCutAmong(seqs, 1, H, x)
        <5>1. H = UpTo(seqs, 1 - 1) \cup H BY <4>2
        <5>2. 1 \in 1..1 OBVIOUS
        <5> QED BY <4>4, <5>1, <5>2, Zenon DEF IsCutAmong
      <4>5. seqs[1] \in Seq(S) BY <4>1
      <4>6. Good(1) BY <4>1, <4>3, <4>4, <4>5 DEF Good
      <4> QED BY <3>1, <4>6
    <3>2. CASE k # 0
      <4>1. k \in 1..n /\ (k + 1) - 1 = k /\ k + 1 # 1 BY <3>2
      <4>2. Good(k) BY <2>4, <4>1
      <4>3. f[k+1] = f[k] \o seqs[k+1] BY <2>2, <4>1
      <4>4. seqs[k+1] \in Seq(S) OBVIOUS
      <4>5. f[k] \in Seq(S) /\ ToSet(f[k]) = UpTo(seqs, k) BY <4>2 DEF Good
      <4>6. \A H, x : IsCut(f[k], H, x) => IsCutAmong(seqs, k, H, x) BY <4>2, Zenon DEF Good
      <4> DEFINE a == f[k]
                 b == seqs[k+1]
      <4>7. a \in Seq(S) /\ b \in Seq(S) /\ f[k+1] = a \o b BY <4>3, <4>4, <4>5
      <4> HIDE DEF a, b
      <4>8. f[k+1] \in Seq(S) /\ Joins(f[k+1], a, b) BY <4>7, CutOfTwo
      <4>9. UpTo(seqs, k + 1) = UpTo(seqs, k) \cup ToSet(b) BY OneMore DEF b
      <4>10. ASSUME NEW H, NEW x, IsCut(f[k+1], H, x) PROVE IsCutAmong(seqs, k + 1, H, x)
        <5>1. CASE IsCut(a, H, x)
          <6>1. IsCutAmong(seqs, k, H, x) BY <4>6, <5>1 DEF a
          <6>i. PICK i \in 1..k : \E G : IsCut(seqs[i], G, x) /\ H = UpTo(seqs, i - 1) \cup G
            BY <6>1, Zenon DEF IsCutAmong
          <6>2. PICK G : IsCut(seqs[i], G, x) /\ H = UpTo(seqs, i - 1) \cup G BY <6>i, Zenon
          <6>3. i \in 1..k+1 OBVIOUS
          <6> QED BY <6>2, <6>3, Zenon DEF IsCutAmong
        <5>2. ASSUME NEW G, IsCut(b, G, x), H = ToSet(a) \cup G
              PROVE  IsCutAmong(seqs, k + 1, H, x)
          <6>1. H = UpTo(seqs, (k + 1) - 1) \cup G BY <4>1, <4>5, <5>2 DEF a
          <6>2. k + 1 \in 1..k+1 OBVIOUS
          <6> QED BY <5>2, <6>1, <6>2, Zenon DEF IsCutAmong, b
        <5> QED BY <4>8, <4>10, <5>1, <5>2 DEF Joins
      <4> QED BY <4>5, <4>8, <4>9, <4>10 DEF Good, a, Joins
    <3> QED BY <3>1, <3>2
  <2>5. n \in K
    <3> HIDE DEF K
    <3> QED BY <2>3, <2>4, SetInduction
  <2>6. Good(n)
    <3>1. n \in 1..n BY <1>3
    <3> HIDE DEF Good
    <3> QED BY <2>5, <3>1
  <2> QED BY <2>1, <2>6
<1> QED BY <1>2, <1>3

Thing ==
  {<<"stream">>, <<"bufferProcessor">>, <<"abortEvent">>}
    \cup {<<kind, d>> : kind \in {"bufferEvent", "waveHandles", "waveHeaders"}, d \in Direction}
    \cup {<<kind, d, i>> : kind \in {"waveHandle", "deviceWaveHeaders"}, d \in Direction, i \in Nat}
    \cup {<<kind, d, i, j>> : kind \in {"lpData", "prepared"}, d \in Direction, i \in Nat, j \in Nat}

\* One thing, two things, none.
LEMMA CutOfFew ==
  ASSUME NEW a \in Thing, NEW b \in Thing
  PROVE  /\ <<a>> \in Seq(Thing) /\ ToSet(<<a>>) = {a}
         /\ \A H, x : IsCut(<<a>>, H, x) => H = {} /\ x = a
         /\ <<a, b>> \in Seq(Thing) /\ ToSet(<<a, b>>) = {a, b}
         /\ \A H, x : IsCut(<<a, b>>, H, x) => (H = {} /\ x = a) \/ (H = {a} /\ x = b)
         /\ <<>> \in Seq(Thing) /\ ToSet(<<>>) = {} /\ \A H, x : ~IsCut(<<>>, H, x)
<1>1. <<a>> \in Seq(Thing) /\ Len(<<a>>) = 1 /\ <<a>>[1] = a /\ DOMAIN <<a>> = {1} OBVIOUS
<1>2. /\ <<a, b>> \in Seq(Thing) /\ Len(<<a, b>>) = 2 /\ DOMAIN <<a, b>> = {1, 2}
      /\ <<a, b>>[1] = a /\ <<a, b>>[2] = b
  OBVIOUS
<1>3. ToSet(<<a>>) = {a} BY <1>1 DEF ToSet
<1>4. ToSet(<<a, b>>) = {a, b} BY <1>2 DEF ToSet
<1>5. 1..0 = {} /\ 1..1 = {1} /\ 1..2 = {1, 2} /\ 1 - 1 = 0 /\ 2 - 1 = 1 OBVIOUS
<1>6. ASSUME NEW H, NEW x, IsCut(<<a>>, H, x) PROVE H = {} /\ x = a
  <2> DEFINE q == <<a>>
  <2>1. Len(q) = 1 /\ q[1] = a BY <1>1
  <2> HIDE DEF q
  <2>2. PICK k \in 1..1 : x = q[k] /\ H = {q[m] : m \in 1..k-1} BY <1>6, <2>1 DEF IsCut, q
  <2>3. k = 1 BY <1>5
  <2> QED BY <1>5, <2>1, <2>2, <2>3
<1>7. ASSUME NEW H, NEW x, IsCut(<<a, b>>, H, x)
      PROVE  (H = {} /\ x = a) \/ (H = {a} /\ x = b)
  <2> DEFINE q == <<a, b>>
  <2>1. Len(q) = 2 /\ q[1] = a /\ q[2] = b BY <1>2
  <2> HIDE DEF q
  <2>2. PICK k \in 1..2 : x = q[k] /\ H = {q[m] : m \in 1..k-1} BY <1>7, <2>1 DEF IsCut, q
  <2>3. CASE k = 1
    <3>1. {q[m] : m \in 1..k-1} = {} BY <1>5, <2>3
    <3> QED BY <2>1, <2>2, <2>3, <3>1
  <2>4. CASE k = 2
    <3>1. 1..k-1 = {1} BY <1>5, <2>4
    <3>2. {q[m] : m \in 1..k-1} = {a} BY <2>1, <3>1
    <3> QED BY <2>1, <2>2, <2>4, <3>2
  <2> QED BY <2>3, <2>4
<1>8. <<>> \in Seq(Thing) /\ Len(<<>>) = 0 /\ DOMAIN <<>> = {} OBVIOUS
<1>9. ToSet(<<>>) = {} BY <1>8 DEF ToSet
<1>10. \A H, x : ~IsCut(<<>>, H, x) BY <1>5, <1>8 DEF IsCut
<1> QED BY <1>1, <1>2, <1>3, <1>4, <1>6, <1>7, <1>8, <1>9, <1>10

\* Some of the headers of a device, in order.
DevicePart(H, d, i, count) ==
  /\ \A x \in H : x = <<"deviceWaveHeaders", d, i>> \/ \E j \in 1..count : x \in ToSet(Buffer(d, i, j))
  /\ H # {} => <<"deviceWaveHeaders", d, i>> \in H
  /\ \A j \in 1..count : <<"prepared", d, i, j>> \in H => <<"lpData", d, i, j>> \in H

\* InitializeWaveHeaders for one device.
LEMMA DeviceParts ==
  ASSUME NEW d \in Direction, NEW i \in Nat, NEW count \in Nat
  PROVE  LET q == DeviceWaveHeaders(d, i, count)
         IN  /\ q \in Seq(Thing) /\ DevicePart(ToSet(q), d, i, count)
             /\ \A H, x : IsCut(q, H, x) => DevicePart(H, d, i, count) /\ IsHeader(x, d)
<1> DEFINE a == <<"deviceWaveHeaders", d, i>>
           l(j) == <<"lpData", d, i, j>>
           m(j) == <<"prepared", d, i, j>>
           bs == [j \in 1..count |-> Buffer(d, i, j)]
           flat == FlattenSeq(bs)
           q == DeviceWaveHeaders(d, i, count)
<1>1. a \in Thing /\ \A j \in Nat : l(j) \in Thing /\ m(j) \in Thing BY DEF Thing
<1>2. IsHeader(a, d) /\ \A j : IsHeader(l(j), d) /\ IsHeader(m(j), d) BY DEF IsHeader
<1>3. \A j : Buffer(d, i, j) = <<l(j), m(j)>> BY DEF Buffer
<1>4. \A j, k : l(j) # a /\ m(j) # a /\ l(j) # m(k) /\ (m(j) = m(k) => j = k)
  <2>1. \A j, k : l(j)[1] # a[1] /\ m(j)[1] # a[1] /\ l(j)[1] # m(k)[1] OBVIOUS
  <2>2. \A j : m(j)[4] = j OBVIOUS
  <2> HIDE DEF a, l, m
  <2> QED BY <2>1, <2>2
<1>5. q = <<a>> \o flat BY DEF DeviceWaveHeaders
<1> HIDE DEF a, l, m, q
<1>6. \A j \in 1..count :
        /\ bs[j] \in Seq(Thing) /\ ToSet(bs[j]) = {l(j), m(j)}
        /\ \A H, x : IsCut(bs[j], H, x) => (H = {} /\ x = l(j)) \/ (H = {l(j)} /\ x = m(j))
  <2> SUFFICES ASSUME NEW j \in 1..count
               PROVE  /\ bs[j] \in Seq(Thing) /\ ToSet(bs[j]) = {l(j), m(j)}
                      /\ \A H, x : IsCut(bs[j], H, x) =>
                           (H = {} /\ x = l(j)) \/ (H = {l(j)} /\ x = m(j))
    OBVIOUS
  <2>1. bs[j] = <<l(j), m(j)>> /\ l(j) \in Thing /\ m(j) \in Thing BY <1>1, <1>3
  <2> DEFINE y == l(j)
             z == m(j)
  <2> HIDE DEF bs, y, z
  <2>2. y \in Thing /\ z \in Thing /\ bs[j] = <<y, z>> BY <2>1 DEF y, z
  <2>3. /\ <<y, z>> \in Seq(Thing) /\ ToSet(<<y, z>>) = {y, z}
        /\ \A H, x : IsCut(<<y, z>>, H, x) => (H = {} /\ x = y) \/ (H = {y} /\ x = z)
    BY <2>2, CutOfFew
  <2> QED BY <2>2, <2>3 DEF y, z
<1>7. bs \in [1..count -> Seq(Thing)] BY <1>6
<1> HIDE DEF bs
<1>8. /\ flat \in Seq(Thing) /\ ToSet(flat) = UpTo(bs, count)
      /\ \A H, x : IsCut(flat, H, x) => IsCutAmong(bs, count, H, x)
  BY <1>7, CutOfMany
<1> HIDE DEF flat
<1>9. /\ <<a>> \in Seq(Thing) /\ ToSet(<<a>>) = {a}
      /\ \A H, x : IsCut(<<a>>, H, x) => H = {} /\ x = a
  BY <1>1, CutOfFew
<1>10. q \in Seq(Thing) /\ Joins(q, <<a>>, flat) BY <1>5, <1>8, <1>9, CutOfTwo
<1>11. ASSUME NEW k \in 0..count
       PROVE  /\ \A x \in UpTo(bs, k) : \E j \in 1..k : x \in {l(j), m(j)}
              /\ \A j \in 1..count : m(j) \in UpTo(bs, k) => l(j) \in UpTo(bs, k)
              /\ a \notin UpTo(bs, k)
  <2>1. \A x : x \in UpTo(bs, k) <=> \E j \in 1..k : x \in {l(j), m(j)}
    <3>1. \A x : x \in UpTo(bs, k) <=> \E j \in 1..k : x \in ToSet(bs[j]) BY DEF UpTo
    <3>2. \A j \in 1..k : ToSet(bs[j]) = {l(j), m(j)}
      <4>1. 1..k \subseteq 1..count OBVIOUS
      <4> QED BY <1>6, <4>1
    <3> QED BY <3>1, <3>2
  <2> QED BY <1>4, <2>1
<1>12. \A j : ToSet(Buffer(d, i, j)) = {l(j), m(j)} BY BufferParts DEF l, m
<1>13. ASSUME NEW G, a \notin G, \A x \in G : \E j \in 1..count : x \in {l(j), m(j)},
              \A j \in 1..count : m(j) \in G => l(j) \in G
       PROVE  DevicePart({a} \cup G, d, i, count)
  <2>1. \A x \in {a} \cup G : x = a \/ \E j \in 1..count : x \in ToSet(Buffer(d, i, j))
    BY <1>12, <1>13
  <2>2. \A j \in 1..count : m(j) \in {a} \cup G => l(j) \in {a} \cup G BY <1>4, <1>13
  <2> QED BY <2>1, <2>2, Zenon DEF DevicePart, a, l, m
<1>14. DevicePart(ToSet(q), d, i, count)
  <2>1. ToSet(q) = {a} \cup UpTo(bs, count) BY <1>8, <1>9, <1>10 DEF Joins
  <2>2. count \in 0..count OBVIOUS
  <2> QED BY <1>11, <1>13, <2>1, <2>2
<1>15. ASSUME NEW H, NEW x, IsCut(q, H, x)
       PROVE  DevicePart(H, d, i, count) /\ IsHeader(x, d)
  <2>1. \/ IsCut(<<a>>, H, x)
        \/ \E G : IsCut(flat, G, x) /\ H = ToSet(<<a>>) \cup G
    BY <1>10, <1>15 DEF Joins
  <2>2. CASE IsCut(<<a>>, H, x)
    <3>1. H = {} /\ x = a BY <1>9, <2>2
    <3> QED BY <1>2, <3>1 DEF DevicePart
  <2>3. ASSUME NEW G, IsCut(flat, G, x), H = ToSet(<<a>>) \cup G
        PROVE  DevicePart(H, d, i, count) /\ IsHeader(x, d)
    <3>1. IsCutAmong(bs, count, G, x) BY <1>8, <2>3
    <3>j. PICK j \in 1..count : \E E : IsCut(bs[j], E, x) /\ G = UpTo(bs, j - 1) \cup E
      BY <3>1 DEF IsCutAmong
    <3>2. PICK E : IsCut(bs[j], E, x) /\ G = UpTo(bs, j - 1) \cup E BY <3>j, Zenon
    <3>3. (E = {} /\ x = l(j)) \/ (E = {l(j)} /\ x = m(j)) BY <1>6, <3>2
    <3>4. IsHeader(x, d) BY <1>2, <3>3
    <3>5. j - 1 \in 0..count /\ 1..j-1 \subseteq 1..count OBVIOUS
    <3>6. \A y \in G : \E k \in 1..count : y \in {l(k), m(k)} BY <1>11, <3>2, <3>3, <3>5
    <3>7. \A k \in 1..count : m(k) \in G => l(k) \in G BY <1>4, <1>11, <3>2, <3>3, <3>5
    <3>8. a \notin G BY <1>4, <1>11, <3>2, <3>3, <3>5
    <3>9. DevicePart({a} \cup G, d, i, count) BY <1>13, <3>6, <3>7, <3>8
    <3>10. H = {a} \cup G BY <1>9, <2>3
    <3> QED BY <3>4, <3>9, <3>10
  <2> QED BY <2>1, <2>2, <2>3
<1> QED BY <1>10, <1>14, <1>15 DEF q

\* Some of the headers of a direction, in order: the parts of its devices.
HeadersPart(H, d, n, count) ==
  \/ H = {}
  \/ \E D : /\ H = {<<"waveHeaders", d>>} \cup UNION {D[i] : i \in 1..n}
            /\ \A i \in 1..n : DevicePart(D[i], d, i, count)

\* InitializeWaveHeaders for all devices.
LEMMA HeaderParts ==
  ASSUME NEW p, NEW s, NEW d \in Direction, Len(p.devices[d]) \in Nat, s[d].count \in Nat
  PROVE  LET q == WaveHeaders(p, s, d)
         IN  /\ q \in Seq(Thing) /\ HeadersPart(ToSet(q), d, Len(p.devices[d]), s[d].count)
             /\ \A H, x : IsCut(q, H, x) =>
                  HeadersPart(H, d, Len(p.devices[d]), s[d].count) /\ IsHeader(x, d)
<1> DEFINE a == <<"waveHeaders", d>>
           n == Len(p.devices[d])
           count == s[d].count
           seqs == [i \in 1..n |-> DeviceWaveHeaders(d, i, count)]
           flat == FlattenSeq(seqs)
           q == WaveHeaders(p, s, d)
<1>1. a \in Thing /\ IsHeader(a, d) BY DEF Thing, IsHeader
<1>2. q = <<a>> \o flat BY DEF WaveHeaders
<1>n. n \in Nat /\ count \in Nat OBVIOUS
<1> HIDE DEF a, q, n, count
<1>3. \A i \in 1..n :
        /\ seqs[i] \in Seq(Thing) /\ DevicePart(ToSet(seqs[i]), d, i, count)
        /\ \A H, x : IsCut(seqs[i], H, x) => DevicePart(H, d, i, count) /\ IsHeader(x, d)
  <2> SUFFICES ASSUME NEW i \in 1..n
               PROVE  /\ seqs[i] \in Seq(Thing) /\ DevicePart(ToSet(seqs[i]), d, i, count)
                      /\ \A H, x : IsCut(seqs[i], H, x) =>
                           DevicePart(H, d, i, count) /\ IsHeader(x, d)
    OBVIOUS
  <2> DEFINE c == DeviceWaveHeaders(d, i, count)
  <2>1. seqs[i] = c /\ i \in Nat BY <1>n
  <2> HIDE DEF seqs
  <2>2. /\ c \in Seq(Thing) /\ DevicePart(ToSet(c), d, i, count)
        /\ \A H, x : IsCut(c, H, x) => DevicePart(H, d, i, count) /\ IsHeader(x, d)
    BY <1>n, <2>1, DeviceParts
  <2> HIDE DEF c
  <2> QED BY <2>1, <2>2
<1>4. seqs \in [1..n -> Seq(Thing)] BY <1>3
<1> HIDE DEF seqs
<1>5. /\ flat \in Seq(Thing) /\ ToSet(flat) = UpTo(seqs, n)
      /\ \A H, x : IsCut(flat, H, x) => IsCutAmong(seqs, n, H, x)
  BY <1>4, <1>n, CutOfMany
<1> HIDE DEF flat
<1>6. /\ <<a>> \in Seq(Thing) /\ ToSet(<<a>>) = {a}
      /\ \A H, x : IsCut(<<a>>, H, x) => H = {} /\ x = a
  BY <1>1, CutOfFew
<1>7. q \in Seq(Thing) /\ Joins(q, <<a>>, flat) BY <1>2, <1>5, <1>6, CutOfTwo
<1>8. HeadersPart(ToSet(q), d, n, count)
  <2> DEFINE D == [i \in 1..n |-> ToSet(seqs[i])]
  <2>1. ToSet(q) = {a} \cup UpTo(seqs, n) BY <1>5, <1>6, <1>7 DEF Joins
  <2>2. UpTo(seqs, n) = UNION {D[i] : i \in 1..n} BY DEF UpTo
  <2>3. \A i \in 1..n : DevicePart(D[i], d, i, count) BY <1>3
  <2> HIDE DEF D
  <2> QED BY <2>1, <2>2, <2>3 DEF HeadersPart, a
<1>9. ASSUME NEW H, NEW x, IsCut(q, H, x)
      PROVE  HeadersPart(H, d, n, count) /\ IsHeader(x, d)
  <2>1. \/ IsCut(<<a>>, H, x)
        \/ \E G : IsCut(flat, G, x) /\ H = ToSet(<<a>>) \cup G
    BY <1>7, <1>9 DEF Joins
  <2>2. CASE IsCut(<<a>>, H, x)
    <3>1. H = {} /\ x = a BY <1>6, <2>2
    <3> QED BY <1>1, <3>1 DEF HeadersPart
  <2>3. ASSUME NEW G, IsCut(flat, G, x), H = ToSet(<<a>>) \cup G
        PROVE  HeadersPart(H, d, n, count) /\ IsHeader(x, d)
    <3>1. IsCutAmong(seqs, n, G, x) BY <1>5, <2>3
    <3>i. PICK i \in 1..n : \E E : IsCut(seqs[i], E, x) /\ G = UpTo(seqs, i - 1) \cup E
      BY <3>1 DEF IsCutAmong
    <3>2. PICK E : IsCut(seqs[i], E, x) /\ G = UpTo(seqs, i - 1) \cup E BY <3>i, Zenon
    <3>3. DevicePart(E, d, i, count) /\ IsHeader(x, d) BY <1>3, <3>2
    <3> DEFINE D == [m \in 1..n |-> IF m < i THEN ToSet(seqs[m]) ELSE IF m = i THEN E ELSE {}]
    <3>4. \A m \in 1..n : DevicePart(D[m], d, m, count)
      <4> SUFFICES ASSUME NEW m \in 1..n PROVE DevicePart(D[m], d, m, count) OBVIOUS
      <4>1. CASE m < i BY <1>3, <4>1
      <4>2. CASE m = i BY <3>3, <4>2
      <4>3. CASE m > i
        <5>1. D[m] = {} BY <1>n, <4>3
        <5>2. DevicePart({}, d, m, count) BY DEF DevicePart
        <5> QED BY <5>1, <5>2
      <4> QED BY <1>n, <4>1, <4>2, <4>3
    <3>5. G = UNION {D[m] : m \in 1..n}
      <4>1. ASSUME NEW y \in UpTo(seqs, i - 1) PROVE \E m \in 1..n : y \in D[m]
        <5>1. PICK m \in 1..i-1 : y \in ToSet(seqs[m]) BY DEF UpTo
        <5>2. m \in 1..n /\ D[m] = ToSet(seqs[m]) BY <1>n
        <5> QED BY <5>1, <5>2
      <4>2. D[i] = E OBVIOUS
      <4>3. ASSUME NEW m \in 1..n, NEW y \in D[m] PROVE y \in UpTo(seqs, i - 1) \cup E
        <5>1. CASE m < i
          <6>1. m \in 1..i-1 /\ y \in ToSet(seqs[m]) BY <1>n, <5>1
          <6> QED BY <6>1 DEF UpTo
        <5>2. CASE m = i BY <4>2, <5>2
        <5>3. CASE m > i BY <1>n, <5>3
        <5> QED BY <1>n, <5>1, <5>2, <5>3
      <4> HIDE DEF D
      <4> QED BY <3>2, <4>1, <4>2, <4>3
    <3>6. H = {a} \cup UNION {D[m] : m \in 1..n} BY <1>6, <2>3, <3>5
    <3> HIDE DEF D
    <3> QED BY <3>3, <3>4, <3>6 DEF HeadersPart, a
  <2> QED BY <2>1, <2>2, <2>3
<1> QED BY <1>7, <1>8, <1>9 DEF q, n, count

\* Some of the devices of a direction, in order.
HandlesPart(H, d, n) ==
  /\ \A x \in H : \/ x \in {<<"bufferEvent", d>>, <<"waveHandles", d>>}
                  \/ \E i \in 1..n : x = <<"waveHandle", d, i>>
  /\ \A i \in 1..n : <<"waveHandle", d, i>> \in H => <<"waveHandles", d>> \in H

\* InitializeWaveHandles.
LEMMA HandleParts ==
  ASSUME NEW p, NEW d \in Direction, Len(p.devices[d]) \in Nat
  PROVE  LET q == WaveHandles(p, d)
         IN  /\ q \in Seq(Thing) /\ HandlesPart(ToSet(q), d, Len(p.devices[d]))
             /\ \A H, x : IsCut(q, H, x) => HandlesPart(H, d, Len(p.devices[d])) /\ IsHandle(x, d)
<1> DEFINE e == <<"bufferEvent", d>>
           a == <<"waveHandles", d>>
           h(i) == <<"waveHandle", d, i>>
           n == Len(p.devices[d])
           hs == WaveHandle(p, d)
           q == WaveHandles(p, d)
<1>1. e \in Thing /\ a \in Thing /\ \A i \in Nat : h(i) \in Thing BY DEF Thing
<1>2. IsHandle(e, d) /\ IsHandle(a, d) /\ \A i : IsHandle(h(i), d) BY DEF IsHandle
<1>3. \A i : h(i) # a /\ h(i) # e
  <2>1. \A i : h(i)[1] # a[1] /\ h(i)[1] # e[1] OBVIOUS
  <2> HIDE DEF h, a, e
  <2> QED BY <2>1
<1>4. hs = [i \in 1..n |-> h(i)] BY DEF WaveHandle
<1>5. q = <<e, a>> \o hs BY DEF WaveHandles
<1>n. n \in Nat OBVIOUS
<1> HIDE DEF e, a, h, n, hs, q
<1>6. hs \in Seq(Thing) /\ Len(hs) = n /\ \A i \in 1..n : hs[i] = h(i)
  <2>1. hs \in [1..n -> Thing] BY <1>1, <1>4, <1>n
  <2>2. hs \in Seq(Thing) BY <1>n, <2>1
  <2>3. DOMAIN hs = 1..n BY <1>4
  <2> QED BY <1>4, <1>n, <2>2, <2>3
<1>7. /\ <<e, a>> \in Seq(Thing) /\ ToSet(<<e, a>>) = {e, a}
      /\ \A H, x : IsCut(<<e, a>>, H, x) => (H = {} /\ x = e) \/ (H = {e} /\ x = a)
  BY <1>1, CutOfFew
<1>8. q \in Seq(Thing) /\ Joins(q, <<e, a>>, hs) BY <1>5, <1>6, <1>7, CutOfTwo
<1>9. ASSUME NEW G, \A x \in G : \E i \in 1..n : x = h(i)
      PROVE  HandlesPart({e, a} \cup G, d, n)
  BY <1>9 DEF HandlesPart, e, a, h
<1>10. ASSUME NEW G, G \subseteq {e} PROVE HandlesPart(G, d, n)
  BY <1>3, <1>10, Zenon DEF HandlesPart, e, a, h
<1>11. HandlesPart(ToSet(q), d, n)
  <2>1. ToSet(hs) = {hs[i] : i \in 1..n} BY <1>6, ToSetOf
  <2>2. \A x \in ToSet(hs) : \E i \in 1..n : x = h(i) BY <1>6, <2>1
  <2>3. ToSet(q) = {e, a} \cup ToSet(hs) BY <1>7, <1>8 DEF Joins
  <2> QED BY <1>9, <2>2, <2>3
<1>12. ASSUME NEW H, NEW x, IsCut(q, H, x)
       PROVE  HandlesPart(H, d, n) /\ IsHandle(x, d)
  <2>1. \/ IsCut(<<e, a>>, H, x)
        \/ \E G : IsCut(hs, G, x) /\ H = ToSet(<<e, a>>) \cup G
    BY <1>8, <1>12 DEF Joins
  <2>2. CASE IsCut(<<e, a>>, H, x)
    <3>1. (H = {} /\ x = e) \/ (H = {e} /\ x = a) BY <1>7, <2>2
    <3> QED BY <1>2, <1>10, <3>1
  <2>3. ASSUME NEW G, IsCut(hs, G, x), H = ToSet(<<e, a>>) \cup G
        PROVE  HandlesPart(H, d, n) /\ IsHandle(x, d)
    <3>1. PICK k \in 1..n : x = hs[k] /\ G = {hs[m] : m \in 1..k-1} BY <1>6, <2>3 DEF IsCut
    <3>2. IsHandle(x, d) BY <1>2, <1>6, <3>1
    <3>3. \A y \in G : \E i \in 1..n : y = h(i)
      <4>1. \A m \in 1..k-1 : m \in 1..n BY <1>n
      <4> QED BY <1>6, <3>1, <4>1
    <3>4. H = {e, a} \cup G BY <1>7, <2>3
    <3> QED BY <1>9, <3>2, <3>3, <3>4
  <2> QED BY <2>1, <2>2, <2>3
<1> QED BY <1>8, <1>11, <1>12 DEF q, n

\* Some of the headers of a direction agree with the marks that are set with them.
LEMMA PartOfHeaders ==
  ASSUME NEW E, NEW d, NEW n \in Nat, NEW count \in Nat, HeadersPart(E, d, n, count)
  PROVE  /\ HeadersAgree(E, E, d, n, count)
         /\ \A x \in E : IsHeader(x, d)
<1> DEFINE a == <<"waveHeaders", d>>
           b(i) == <<"deviceWaveHeaders", d, i>>
           l(i, j) == <<"lpData", d, i, j>>
           m(i, j) == <<"prepared", d, i, j>>
<1>1. CASE E = {}
  <2>1. <<"waveHeaders", d>> \notin E /\ \A x \in E : ~IsHeader(x, d) BY <1>1
  <2> QED BY <1>1, <2>1 DEF HeadersAgree
<1>2. ASSUME NEW D, E = {a} \cup UNION {D[i] : i \in 1..n},
             \A i \in 1..n : DevicePart(D[i], d, i, count)
      PROVE  HeadersAgree(E, E, d, n, count) /\ \A x \in E : IsHeader(x, d)
  <2>1. \A i, j : ToSet(Buffer(d, i, j)) = {l(i, j), m(i, j)} BY BufferParts
  <2>2. /\ a[1] = "waveHeaders" /\ IsHeader(a, d)
        /\ \A i : b(i)[1] = "deviceWaveHeaders" /\ b(i)[3] = i /\ IsHeader(b(i), d)
        /\ \A i, j : l(i, j)[1] = "lpData" /\ l(i, j)[3] = i /\ IsHeader(l(i, j), d)
        /\ \A i, j : m(i, j)[1] = "prepared" /\ m(i, j)[3] = i /\ IsHeader(m(i, j), d)
    BY DEF IsHeader
  <2>3. ASSUME NEW i \in 1..n
        PROVE  /\ \A x \in D[i] : x = b(i) \/ \E j \in 1..count : x \in {l(i, j), m(i, j)}
               /\ D[i] # {} => b(i) \in D[i]
               /\ \A j \in 1..count : m(i, j) \in D[i] => l(i, j) \in D[i]
    <3>1. DevicePart(D[i], d, i, count) BY <1>2
    <3>2. \A x \in D[i] : x = <<"deviceWaveHeaders", d, i>>
                            \/ \E j \in 1..count : x \in ToSet(Buffer(d, i, j))
      BY <3>1, Zenon DEF DevicePart
    <3>3. D[i] # {} => b(i) \in D[i] BY <3>1, Zenon DEF DevicePart
    <3>4. \A j \in 1..count : m(i, j) \in D[i] => l(i, j) \in D[i]
      BY <3>1, Zenon DEF DevicePart
    <3> QED BY <2>1, <3>2, <3>3, <3>4
  <2>u. \A x \in E : x = a \/ \E i \in 1..n : x \in D[i]
    <3> HIDE DEF a
    <3> QED BY <1>2
  <2>v. \A i \in 1..n : D[i] \subseteq E
    <3> HIDE DEF a
    <3> QED BY <1>2
  <2>w. a \in E BY <1>2
  <2> HIDE DEF a, b, l, m
  <2>4. ASSUME NEW x \in E, x # a
        PROVE  \E i \in 1..n : x \in D[i] /\ x[3] = i /\ b(i) \in D[i]
                 /\ (x = b(i) \/ \E j \in 1..count : x \in {l(i, j), m(i, j)})
    <3>1. PICK i \in 1..n : x \in D[i] BY <2>u, <2>4
    <3> QED BY <2>2, <2>3, <3>1
  <2>5. \A x \in E : IsHeader(x, d) BY <2>2, <2>4
  <2>6. ASSUME NEW x \in E, NEW i, IsBuffer(x, d, i)
        PROVE  i \in 1..n /\ x \in D[i] /\ b(i) \in D[i] /\ \E j \in 1..count : x \in {l(i, j), m(i, j)}
    <3>1. x[1] \in {"lpData", "prepared"} /\ x[3] = i BY <2>6 DEF IsBuffer
    <3>2. x # a BY <2>2, <3>1
    <3>3. PICK k \in 1..n : x \in D[k] /\ x[3] = k /\ b(k) \in D[k]
                 /\ (x = b(k) \/ \E j \in 1..count : x \in {l(k, j), m(k, j)})
      BY <2>4, <3>2
    <3>4. k = i BY <3>1, <3>3
    <3>5. x # b(i) BY <2>2, <3>1
    <3> QED BY <3>3, <3>4, <3>5
  <2>7. ASSUME NEW i \in 1..n PROVE DeviceAgrees(E, E, d, i, count)
    <3>1. ASSUME NEW j \in 1..count PROVE BufferAgrees(E, E, d, i, j)
      <4>1. Buffer(d, i, j)[1] = l(i, j) /\ Buffer(d, i, j)[2] = m(i, j)
        BY BufferParts DEF l, m
      <4>2. m(i, j) \in E => l(i, j) \in E
        <5> SUFFICES ASSUME m(i, j) \in E PROVE l(i, j) \in E OBVIOUS
        <5>1. IsBuffer(m(i, j), d, i) BY DEF IsBuffer, m
        <5>2. m(i, j) \in D[i] BY <2>6, <5>1
        <5> QED BY <2>3, <2>v, <5>2
      <4> QED BY <4>1, <4>2 DEF BufferAgrees
    <3>2. \A x \in E : IsBuffer(x, d, i) => \E j \in 1..count : x \in ToSet(Buffer(d, i, j))
      BY <2>6, BufferParts DEF l, m
    <3>3. BuffersAgree(E, E, d, i, count) BY <3>1, <3>2 DEF BuffersAgree
    <3>4. \A x \in E : IsBuffer(x, d, i) => b(i) \in E BY <2>6, <2>v
    <3> QED BY <3>3, <3>4, Zenon DEF DeviceAgrees, b
  <2>8. \A x \in E : IsHeader(x, d) =>
          x = a \/ \E i \in 1..n : x = b(i) \/ IsBuffer(x, d, i)
    <3> SUFFICES ASSUME NEW x \in E, x # a
                 PROVE  \E i \in 1..n : x = b(i) \/ IsBuffer(x, d, i)
      OBVIOUS
    <3>1. PICK i \in 1..n : x = b(i) \/ \E j \in 1..count : x \in {l(i, j), m(i, j)} BY <2>4
    <3>2. \A j : IsBuffer(l(i, j), d, i) /\ IsBuffer(m(i, j), d, i) BY DEF IsBuffer, l, m
    <3> QED BY <3>1, <3>2
  <2>9. DevicesAgree(E, E, d, n, count) BY <2>7, <2>8, Zenon DEF DevicesAgree, a, b
  <2> QED BY <2>5, <2>9, <2>w DEF HeadersAgree, a
<1> QED BY <1>1, <1>2 DEF HeadersPart

\* So do some of the devices.
LEMMA PartOfHandles ==
  ASSUME NEW A, NEW d, NEW n \in Nat, HandlesPart(A, d, n)
  PROVE  HandlesAgree(A, A, d, n) /\ \A x \in A : IsHandle(x, d)
<1> DEFINE a == <<"waveHandles", d>>
           e == <<"bufferEvent", d>>
           h(i) == <<"waveHandle", d, i>>
<1>1. \A x \in A : x \in {e, a} \/ \E i \in 1..n : x = h(i) BY DEF HandlesPart
<1>2. \A i \in 1..n : h(i) \in A => a \in A BY Zenon DEF HandlesPart
<1>3. IsHandle(a, d) /\ IsHandle(e, d) /\ \A i : IsHandle(h(i), d) BY DEF IsHandle
<1> HIDE DEF a, e, h
<1>4. \A x \in A : x \in {e, a} \/ (a \in A /\ n \in Nat /\ \E i \in 1..n : x = h(i))
  BY <1>1, <1>2
<1>5. HandlesAgree(A, A, d, n) BY <1>4, Zenon DEF HandlesAgree, a, e, h
<1> QED BY <1>1, <1>3, <1>5

\* Some of the devices, and some of the headers, of a direction that may be unused.
SomeHandles(A, p, d) ==
  A = {} \/ (Len(p.devices[d]) \in Nat /\ HandlesPart(A, d, Len(p.devices[d])))

SomeHeaders(E, p, s, d) ==
  E = {} \/ (/\ Len(p.devices[d]) \in Nat /\ s[d].count \in Nat
             /\ HeadersPart(E, d, Len(p.devices[d]), s[d].count))

\* They are handles and headers, and agree with the marks among whatever else is held.
LEMMA HandlesAmong ==
  ASSUME NEW p, NEW d, NEW A, SomeHandles(A, p, d)
  PROVE  /\ \A x \in A : IsHandle(x, d)
         /\ \A H, F : (\A x : IsHandle(x, d) => (x \in H <=> x \in A) /\ (x \in F <=> x \in A)) =>
              HandlesAgree(H, F, d, Len(p.devices[d]))
<1> DEFINE n == Len(p.devices[d])
<1>1. HandlesAgree(A, A, d, n) /\ \A x \in A : IsHandle(x, d)
  <2>1. CASE A = {} BY <2>1 DEF HandlesAgree
  <2>2. CASE A # {}
    <3>1. n \in Nat /\ HandlesPart(A, d, n) BY <2>2 DEF SomeHandles
    <3> HIDE DEF n
    <3> QED BY <3>1, PartOfHandles
  <2> QED BY <2>1, <2>2
<1>2. ASSUME NEW H, NEW F,
             \A x : IsHandle(x, d) => (x \in H <=> x \in A) /\ (x \in F <=> x \in A)
      PROVE  HandlesAgree(H, F, d, n)
  <2>1. SameOf(IsHandle, A, A, H, F, d) BY <1>2 DEF SameOf
  <2> HIDE DEF n
  <2> QED BY <1>1, <2>1, SameHandles
<1> QED BY <1>1, <1>2

LEMMA HeadersAmong ==
  ASSUME NEW p, NEW s, NEW d, NEW E, SomeHeaders(E, p, s, d)
  PROVE  /\ \A x \in E : IsHeader(x, d)
         /\ \A H, F : (\A x : IsHeader(x, d) => (x \in H <=> x \in E) /\ (x \in F <=> x \in E)) =>
              HeadersAgree(H, F, d, Len(p.devices[d]), s[d].count)
<1> DEFINE n == Len(p.devices[d])
           c == s[d].count
<1>1. HeadersAgree(E, E, d, n, c) /\ \A x \in E : IsHeader(x, d)
  <2>1. CASE E = {} BY <2>1 DEF HeadersAgree
  <2>2. CASE E # {}
    <3>1. n \in Nat /\ c \in Nat /\ HeadersPart(E, d, n, c) BY <2>2 DEF SomeHeaders
    <3> HIDE DEF n, c
    <3> QED BY <3>1, PartOfHeaders
  <2> QED BY <2>1, <2>2
<1>2. ASSUME NEW H, NEW F,
             \A x : IsHeader(x, d) => (x \in H <=> x \in E) /\ (x \in F <=> x \in E)
      PROVE  HeadersAgree(H, F, d, n, c)
  <2>1. SameOf(IsHeader, E, E, H, F, d) BY <1>2 DEF SameOf
  <2> HIDE DEF n, c
  <2> QED BY <1>1, <2>1, SameHeaders
<1> QED BY <1>1, <1>2

\* What is held of a stream: some of the memory of the stream itself, and some of the
\* devices and headers of each direction.
Parts(H, B, Ai, Ao, Ei, Eo, p, s) ==
  /\ B \subseteq {<<"stream">>, <<"bufferProcessor">>}
  /\ SomeHandles(Ai, p, "in") /\ SomeHandles(Ao, p, "out")
  /\ SomeHeaders(Ei, p, s, "in") /\ SomeHeaders(Eo, p, s, "out")
  /\ H = B \cup Ai \cup Ao \cup Ei \cup Eo

LEMMA PartsAreConsistent ==
  ASSUME NEW p, NEW s, NEW H, NEW B, NEW Ai, NEW Ao, NEW Ei, NEW Eo, NEW F,
         Parts(H, B, Ai, Ao, Ei, Eo, p, s), F \in {H, H \cup {<<"abortEvent">>}}
  PROVE  Consistent(H, F, p, s) /\ <<"abortEvent">> \notin H
<1> DEFINE st == <<"stream">>
           bp == <<"bufferProcessor">>
           ab == <<"abortEvent">>
<1>1. st[1] = "stream" /\ bp[1] = "bufferProcessor" /\ ab[1] = "abortEvent" OBVIOUS
<1>2. /\ B \subseteq {st, bp}
      /\ SomeHandles(Ai, p, "in") /\ SomeHandles(Ao, p, "out")
      /\ SomeHeaders(Ei, p, s, "in") /\ SomeHeaders(Eo, p, s, "out")
      /\ \A x : x \in H <=> x \in B \/ x \in Ai \/ x \in Ao \/ x \in Ei \/ x \in Eo
  BY DEF Parts
<1>3. F = H \/ F = H \cup {ab} OBVIOUS
<1> HIDE DEF st, bp, ab
<1>4. /\ \A x \in Ai : IsHandle(x, "in")
      /\ \A x \in Ao : IsHandle(x, "out")
      /\ \A x \in Ei : IsHeader(x, "in")
      /\ \A x \in Eo : IsHeader(x, "out")
  BY <1>2, HandlesAmong, HeadersAmong
<1>5. \A x \in B : x[1] \in {"stream", "bufferProcessor"} BY <1>1, <1>2
<1>6. \A x : IsHandle(x, "in") => (x \in H <=> x \in Ai) /\ (x \in F <=> x \in Ai)
  BY <1>1, <1>2, <1>3, <1>4, <1>5 DEF IsHandle, IsHeader
<1>7. \A x : IsHandle(x, "out") => (x \in H <=> x \in Ao) /\ (x \in F <=> x \in Ao)
  BY <1>1, <1>2, <1>3, <1>4, <1>5 DEF IsHandle, IsHeader
<1>8. \A x : IsHeader(x, "in") => (x \in H <=> x \in Ei) /\ (x \in F <=> x \in Ei)
  BY <1>1, <1>2, <1>3, <1>4, <1>5 DEF IsHandle, IsHeader
<1>9. \A x : IsHeader(x, "out") => (x \in H <=> x \in Eo) /\ (x \in F <=> x \in Eo)
  BY <1>1, <1>2, <1>3, <1>4, <1>5 DEF IsHandle, IsHeader
<1>10. /\ HandlesAgree(H, F, "in", Len(p.devices["in"]))
       /\ HandlesAgree(H, F, "out", Len(p.devices["out"]))
  BY <1>2, <1>6, <1>7, HandlesAmong
<1>11. /\ HeadersAgree(H, F, "in", Len(p.devices["in"]), s["in"].count)
       /\ HeadersAgree(H, F, "out", Len(p.devices["out"]), s["out"].count)
  BY <1>2, <1>8, <1>9, HeadersAmong
<1>12. (st \in F <=> st \in H) /\ (bp \in F <=> bp \in H) BY <1>1, <1>3
<1>13. ab \notin H BY <1>1, <1>2, <1>4, <1>5 DEF IsHandle, IsHeader
<1>14. Direction = {"in", "out"} BY DEF Direction
<1>15. \A x \in H : x \in {st, bp} \/ \E d \in Direction : IsHeader(x, d) \/ IsHandle(x, d)
  BY <1>2, <1>4, <1>14
<1>16. \A d \in Direction : /\ HeadersAgree(H, F, d, Len(p.devices[d]), s[d].count)
                            /\ HandlesAgree(H, F, d, Len(p.devices[d]))
  BY <1>10, <1>11, <1>14
<1> QED BY <1>12, <1>13, <1>15, <1>16, Zenon DEF Consistent, st, bp, ab

\* Every direction in use has devices and buffers that can be counted.
Counted(p, s) ==
  \A d \in Direction : Uses(p, d) => Len(p.devices[d]) \in Nat /\ s[d].count \in Nat

\* The devices of a direction, as far as it is used.
LEMMA HandlesInUse ==
  ASSUME NEW p, NEW s, NEW d \in Direction, Counted(p, s)
  PROVE  LET q == IF Uses(p, d) THEN WaveHandles(p, d) ELSE <<>>
         IN  /\ q \in Seq(Thing) /\ SomeHandles(ToSet(q), p, d)
             /\ \A H, x : IsCut(q, H, x) => SomeHandles(H, p, d) /\ IsHandle(x, d)
<1> DEFINE n == Len(p.devices[d])
           w == WaveHandles(p, d)
<1>1. CASE Uses(p, d)
  <2>1. n \in Nat BY <1>1 DEF Counted
  <2>2. /\ w \in Seq(Thing) /\ HandlesPart(ToSet(w), d, n)
        /\ \A H, x : IsCut(w, H, x) => HandlesPart(H, d, n) /\ IsHandle(x, d)
    BY <2>1, HandleParts
  <2> HIDE DEF w
  <2> QED BY <1>1, <2>1, <2>2 DEF w, SomeHandles
<1>2. CASE ~Uses(p, d)
  <2> DEFINE e == <<"stream">>
  <2>1. e \in Thing BY DEF Thing
  <2> HIDE DEF e
  <2>2. <<>> \in Seq(Thing) /\ ToSet(<<>>) = {} /\ \A H, x : ~IsCut(<<>>, H, x)
    BY <2>1, CutOfFew
  <2> QED BY <1>2, <2>2 DEF SomeHandles
<1> QED BY <1>1, <1>2

LEMMA HeadersInUse ==
  ASSUME NEW p, NEW s, NEW d \in Direction, Counted(p, s)
  PROVE  LET q == IF Uses(p, d) THEN WaveHeaders(p, s, d) ELSE <<>>
         IN  /\ q \in Seq(Thing) /\ SomeHeaders(ToSet(q), p, s, d)
             /\ \A H, x : IsCut(q, H, x) => SomeHeaders(H, p, s, d) /\ IsHeader(x, d)
<1> DEFINE n == Len(p.devices[d])
           c == s[d].count
           w == WaveHeaders(p, s, d)
<1>1. CASE Uses(p, d)
  <2>1. n \in Nat /\ c \in Nat BY <1>1 DEF Counted
  <2>2. /\ w \in Seq(Thing) /\ HeadersPart(ToSet(w), d, n, c)
        /\ \A H, x : IsCut(w, H, x) => HeadersPart(H, d, n, c) /\ IsHeader(x, d)
    BY <2>1, HeaderParts
  <2> HIDE DEF w
  <2> QED BY <1>1, <2>1, <2>2 DEF w, SomeHeaders
<1>2. CASE ~Uses(p, d)
  <2> DEFINE e == <<"stream">>
  <2>1. e \in Thing BY DEF Thing
  <2> HIDE DEF e
  <2>2. <<>> \in Seq(Thing) /\ ToSet(<<>>) = {} /\ \A H, x : ~IsCut(<<>>, H, x)
    BY <2>1, CutOfFew
  <2> QED BY <1>2, <2>2 DEF SomeHeaders
<1> QED BY <1>1, <1>2

\* What was acquired when the acquisition x failed, and what the whole stream needs.
Wanted(H, x, p, s) ==
  \E B, Ai, Ao, Ei, Eo :
    /\ Parts(H, B, Ai, Ao, Ei, Eo, p, s)
    /\ \/ x \in {<<"stream">>, <<"bufferProcessor">>, <<"abortEvent">>}
       \/ IsHeader(x, "in") \/ IsHeader(x, "out")
       \/ Ei = {} /\ Eo = {} /\ (IsHandle(x, "in") \/ IsHandle(x, "out"))

IsWhole(W, p, s) ==
  \E H, B, Ai, Ao, Ei, Eo :
    Parts(H, B, Ai, Ao, Ei, Eo, p, s) /\ W \in {H, H \cup {<<"abortEvent">>}}

LEMMA CutsOfAcquisitions ==
  ASSUME NEW p, NEW s, Counted(p, s)
  PROVE  /\ Acquisitions(p, s) \in Seq(Thing)
         /\ IsWhole(ToSet(Acquisitions(p, s)), p, s)
         /\ \A H, x : IsCut(Acquisitions(p, s), H, x) => Wanted(H, x, p, s)
<1> DEFINE st == <<"stream">>
           bp == <<"bufferProcessor">>
           ab == <<"abortEvent">>
           q0 == <<st, bp>>
           q1 == IF Uses(p, "in") THEN WaveHandles(p, "in") ELSE <<>>
           q2 == IF Uses(p, "out") THEN WaveHandles(p, "out") ELSE <<>>
           q3 == IF Uses(p, "in") THEN WaveHeaders(p, s, "in") ELSE <<>>
           q4 == IF Uses(p, "out") THEN WaveHeaders(p, s, "out") ELSE <<>>
           q5 == IF p.callback THEN <<ab>> ELSE <<>>
           c1 == q0 \o q1
           c2 == c1 \o q2
           c3 == c2 \o q3
           c4 == c3 \o q4
           c5 == c4 \o q5
           q == Acquisitions(p, s)
<1>1. q = c5 BY DEF Acquisitions
<1>d. "in" \in Direction /\ "out" \in Direction BY DEF Direction
<1>t. st \in Thing /\ bp \in Thing /\ ab \in Thing BY DEF Thing
<1> HIDE DEF st, bp, ab, q
<1>2. /\ q0 \in Seq(Thing) /\ ToSet(q0) = {st, bp}
      /\ \A H, x : IsCut(q0, H, x) => H \subseteq {st, bp} /\ x \in {st, bp}
  <2>1. /\ <<st, bp>> \in Seq(Thing) /\ ToSet(<<st, bp>>) = {st, bp}
        /\ \A H, x : IsCut(<<st, bp>>, H, x) => (H = {} /\ x = st) \/ (H = {st} /\ x = bp)
    BY <1>t, CutOfFew
  <2> QED BY <2>1
<1>3. /\ q1 \in Seq(Thing) /\ SomeHandles(ToSet(q1), p, "in")
      /\ \A H, x : IsCut(q1, H, x) => SomeHandles(H, p, "in") /\ IsHandle(x, "in")
  BY <1>d, HandlesInUse
<1>4. /\ q2 \in Seq(Thing) /\ SomeHandles(ToSet(q2), p, "out")
      /\ \A H, x : IsCut(q2, H, x) => SomeHandles(H, p, "out") /\ IsHandle(x, "out")
  BY <1>d, HandlesInUse
<1>5. /\ q3 \in Seq(Thing) /\ SomeHeaders(ToSet(q3), p, s, "in")
      /\ \A H, x : IsCut(q3, H, x) => SomeHeaders(H, p, s, "in") /\ IsHeader(x, "in")
  BY <1>d, HeadersInUse
<1>6. /\ q4 \in Seq(Thing) /\ SomeHeaders(ToSet(q4), p, s, "out")
      /\ \A H, x : IsCut(q4, H, x) => SomeHeaders(H, p, s, "out") /\ IsHeader(x, "out")
  BY <1>d, HeadersInUse
<1>7. /\ q5 \in Seq(Thing) /\ ToSet(q5) \subseteq {ab}
      /\ \A H, x : IsCut(q5, H, x) => H = {} /\ x = ab
  <2>1. /\ <<ab>> \in Seq(Thing) /\ ToSet(<<ab>>) = {ab}
        /\ \A H, x : IsCut(<<ab>>, H, x) => H = {} /\ x = ab
        /\ <<>> \in Seq(Thing) /\ ToSet(<<>>) = {} /\ \A H, x : ~IsCut(<<>>, H, x)
    BY <1>t, CutOfFew
  <2> QED BY <2>1
<1> HIDE DEF q0, q1, q2, q3, q4, q5
<1>8. c1 \in Seq(Thing) /\ Joins(c1, q0, q1) BY <1>2, <1>3, CutOfTwo
<1> HIDE DEF c1
<1>9. c2 \in Seq(Thing) /\ Joins(c2, c1, q2) BY <1>4, <1>8, CutOfTwo
<1> HIDE DEF c2
<1>10. c3 \in Seq(Thing) /\ Joins(c3, c2, q3) BY <1>5, <1>9, CutOfTwo
<1> HIDE DEF c3
<1>11. c4 \in Seq(Thing) /\ Joins(c4, c3, q4) BY <1>6, <1>10, CutOfTwo
<1> HIDE DEF c4
<1>12. c5 \in Seq(Thing) /\ Joins(c5, c4, q5) BY <1>7, <1>11, CutOfTwo
<1> HIDE DEF c5
<1> DEFINE B == ToSet(q0)
           Ai == ToSet(q1)
           Ao == ToSet(q2)
           Ei == ToSet(q3)
           Eo == ToSet(q4)
<1>13. /\ ToSet(c1) = B \cup Ai
       /\ ToSet(c2) = B \cup Ai \cup Ao
       /\ ToSet(c3) = B \cup Ai \cup Ao \cup Ei
       /\ ToSet(c4) = B \cup Ai \cup Ao \cup Ei \cup Eo
       /\ ToSet(c5) = B \cup Ai \cup Ao \cup Ei \cup Eo \cup ToSet(q5)
  BY <1>8, <1>9, <1>10, <1>11, <1>12 DEF Joins
<1>14. /\ B = {st, bp} /\ SomeHandles(Ai, p, "in") /\ SomeHandles(Ao, p, "out")
       /\ SomeHeaders(Ei, p, s, "in") /\ SomeHeaders(Eo, p, s, "out")
  BY <1>2, <1>3, <1>4, <1>5, <1>6
<1>n. /\ SomeHandles({}, p, "in") /\ SomeHandles({}, p, "out")
      /\ SomeHeaders({}, p, s, "in") /\ SomeHeaders({}, p, s, "out")
  BY DEF SomeHandles, SomeHeaders
<1> DEFINE C(b, ai, ao, ei, eo) == b \cup ai \cup ao \cup ei \cup eo
<1>p. ASSUME NEW b, NEW ai, NEW ao, NEW ei, NEW eo, b \subseteq {st, bp},
             SomeHandles(ai, p, "in"), SomeHandles(ao, p, "out"),
             SomeHeaders(ei, p, s, "in"), SomeHeaders(eo, p, s, "out")
      PROVE  Parts(C(b, ai, ao, ei, eo), b, ai, ao, ei, eo, p, s)
  BY <1>p DEF Parts, st, bp
<1>15. IsWhole(ToSet(q), p, s)
  <2> DEFINE H == C(B, Ai, Ao, Ei, Eo)
  <2>1. Parts(H, B, Ai, Ao, Ei, Eo, p, s)
    <3>1. B \subseteq {st, bp} BY <1>14
    <3> HIDE DEF C, B, Ai, Ao, Ei, Eo
    <3> QED BY <1>14, <1>p, <3>1
  <2>2. ToSet(q) \in {H, H \cup {ab}} BY <1>1, <1>7, <1>13
  <2> HIDE DEF H, B, Ai, Ao, Ei, Eo
  <2> QED BY <2>1, <2>2 DEF IsWhole, ab
<1>16. ASSUME NEW H, NEW x, IsCut(q, H, x) PROVE Wanted(H, x, p, s)
  <2> DEFINE Shown(b, ai, ao, ei, eo) ==
               /\ b \subseteq {st, bp}
               /\ SomeHandles(ai, p, "in") /\ SomeHandles(ao, p, "out")
               /\ SomeHeaders(ei, p, s, "in") /\ SomeHeaders(eo, p, s, "out")
               /\ H = C(b, ai, ao, ei, eo)
               /\ \/ x \in {st, bp, ab} \/ IsHeader(x, "in") \/ IsHeader(x, "out")
                  \/ ei = {} /\ eo = {} /\ (IsHandle(x, "in") \/ IsHandle(x, "out"))
  <2>1. ASSUME NEW b, NEW ai, NEW ao, NEW ei, NEW eo, Shown(b, ai, ao, ei, eo)
        PROVE  Wanted(H, x, p, s)
    <3>1. Parts(H, b, ai, ao, ei, eo, p, s) BY <1>p, <2>1
    <3> HIDE DEF C
    <3> QED BY <2>1, <3>1, Zenon DEF Wanted, st, bp, ab
  <2>2. \/ IsCut(q0, H, x)
        \/ \E G : IsCut(q1, G, x) /\ H = B \cup G
        \/ \E G : IsCut(q2, G, x) /\ H = (B \cup Ai) \cup G
        \/ \E G : IsCut(q3, G, x) /\ H = (B \cup Ai \cup Ao) \cup G
        \/ \E G : IsCut(q4, G, x) /\ H = (B \cup Ai \cup Ao \cup Ei) \cup G
        \/ \E G : IsCut(q5, G, x) /\ H = (B \cup Ai \cup Ao \cup Ei \cup Eo) \cup G
    <3>1. \/ IsCut(c4, H, x)
          \/ \E G : IsCut(q5, G, x) /\ H = (B \cup Ai \cup Ao \cup Ei \cup Eo) \cup G
      BY <1>1, <1>12, <1>13, <1>16 DEF Joins
    <3>2. IsCut(c4, H, x) =>
            \/ IsCut(c3, H, x)
            \/ \E G : IsCut(q4, G, x) /\ H = (B \cup Ai \cup Ao \cup Ei) \cup G
      BY <1>11, <1>13 DEF Joins
    <3>3. IsCut(c3, H, x) =>
            \/ IsCut(c2, H, x)
            \/ \E G : IsCut(q3, G, x) /\ H = (B \cup Ai \cup Ao) \cup G
      BY <1>10, <1>13 DEF Joins
    <3>4. IsCut(c2, H, x) =>
            \/ IsCut(c1, H, x)
            \/ \E G : IsCut(q2, G, x) /\ H = (B \cup Ai) \cup G
      BY <1>9, <1>13 DEF Joins
    <3>5. IsCut(c1, H, x) =>
            \/ IsCut(q0, H, x)
            \/ \E G : IsCut(q1, G, x) /\ H = B \cup G
      BY <1>8 DEF Joins
    <3> HIDE DEF B, Ai, Ao, Ei, Eo
    <3> QED BY <3>1, <3>2, <3>3, <3>4, <3>5
  <2> HIDE DEF B, Ai, Ao, Ei, Eo
  <2>3. CASE IsCut(q0, H, x)
    <3>1. Shown(H, {}, {}, {}, {}) BY <1>2, <1>n, <2>3
    <3> HIDE DEF Shown
    <3> QED BY <2>1, <3>1
  <2>4. ASSUME NEW G, IsCut(q1, G, x), H = B \cup G PROVE Wanted(H, x, p, s)
    <3>1. Shown(B, G, {}, {}, {}) BY <1>3, <1>14, <1>n, <2>4
    <3> HIDE DEF Shown
    <3> QED BY <2>1, <3>1
  <2>5. ASSUME NEW G, IsCut(q2, G, x), H = (B \cup Ai) \cup G PROVE Wanted(H, x, p, s)
    <3>1. Shown(B, Ai, G, {}, {}) BY <1>4, <1>14, <1>n, <2>5
    <3> HIDE DEF Shown
    <3> QED BY <2>1, <3>1
  <2>6. ASSUME NEW G, IsCut(q3, G, x), H = (B \cup Ai \cup Ao) \cup G PROVE Wanted(H, x, p, s)
    <3>1. Shown(B, Ai, Ao, G, {}) BY <1>5, <1>14, <1>n, <2>6
    <3> HIDE DEF Shown
    <3> QED BY <2>1, <3>1
  <2>7. ASSUME NEW G, IsCut(q4, G, x), H = (B \cup Ai \cup Ao \cup Ei) \cup G
        PROVE  Wanted(H, x, p, s)
    <3>1. Shown(B, Ai, Ao, Ei, G) BY <1>6, <1>14, <2>7
    <3> HIDE DEF Shown
    <3> QED BY <2>1, <3>1
  <2>8. ASSUME NEW G, IsCut(q5, G, x), H = (B \cup Ai \cup Ao \cup Ei \cup Eo) \cup G
        PROVE  Wanted(H, x, p, s)
    <3>1. Shown(B, Ai, Ao, Ei, Eo) BY <1>7, <1>14, <2>8
    <3> HIDE DEF Shown
    <3> QED BY <2>1, <3>1
  <2> QED BY <2>2, <2>3, <2>4, <2>5, <2>6, <2>7, <2>8
<1> QED BY <1>1, <1>12, <1>15, <1>16 DEF q

-----------------------------------------------------------------------------
(* OpenStream and CloseStream leave nothing behind.                        *)

\* Whichever acquisition failed, nothing is left of the stream.
LEMMA FailureIsClean ==
  ASSUME NEW p, NEW s, Counted(p, s), NEW H, NEW x, IsCut(Acquisitions(p, s), H, x)
  PROVE  \E F1 : FailedAt(Left(H, H), p, s, x) = Left({}, F1)
<1>1. Wanted(H, x, p, s) BY CutsOfAcquisitions
<1>2. PICK B, Ai, Ao, Ei, Eo :
        /\ Parts(H, B, Ai, Ao, Ei, Eo, p, s)
        /\ \/ x \in {<<"stream">>, <<"bufferProcessor">>, <<"abortEvent">>}
           \/ IsHeader(x, "in") \/ IsHeader(x, "out")
           \/ Ei = {} /\ Eo = {} /\ (IsHandle(x, "in") \/ IsHandle(x, "out"))
  BY <1>1, Zenon DEF Wanted
<1>3. Consistent(H, H, p, s)
  <2>1. H \in {H, H \cup {<<"abortEvent">>}} OBVIOUS
  <2> QED BY <1>2, <2>1, PartsAreConsistent
<1>4. /\ x \in {<<"stream">>, <<"bufferProcessor">>, <<"abortEvent">>} =>
           x[1] \in {"stream", "bufferProcessor", "abortEvent"}
      /\ Direction = {"in", "out"}
  BY DEF Direction
<1>5. ASSUME NEW d, IsHandle(x, d) \/ IsHeader(x, d) PROVE d \in Direction
  BY <1>2, <1>4, <1>5 DEF IsHandle, IsHeader
<1>6. ASSUME NEW d \in Direction, IsHandle(x, d) PROVE \A y \in H, e \in Direction : ~IsHeader(y, e)
  <2>1. Ei = {} /\ Eo = {} BY <1>2, <1>4, <1>6 DEF IsHandle, IsHeader
  <2>2. /\ \A y \in B : y[1] \in {"stream", "bufferProcessor"}
        /\ SomeHandles(Ai, p, "in") /\ SomeHandles(Ao, p, "out")
        /\ H = B \cup Ai \cup Ao
    <3>1. \A y \in {<<"stream">>, <<"bufferProcessor">>} : y[1] \in {"stream", "bufferProcessor"}
      OBVIOUS
    <3> QED BY <1>2, <2>1, <3>1 DEF Parts
  <2>3. (\A y \in Ai : IsHandle(y, "in")) /\ (\A y \in Ao : IsHandle(y, "out"))
    BY <2>2, HandlesAmong
  <2> QED BY <2>2, <2>3 DEF IsHandle, IsHeader
<1> QED BY <1>3, <1>5, <1>6, FailureGivesBack

\* CloseStream gives back all that OpenStream acquired.
LEMMA CloseIsClean ==
  ASSUME NEW p, NEW s, Counted(p, s), NEW W, W = ToSet(Acquisitions(p, s))
  PROVE  \E F1 : TerminateStream(Release(Left(W, W), <<"abortEvent">>), p, s) = Left({}, F1)
<1> DEFINE ab == <<"abortEvent">>
<1>1. IsWhole(W, p, s) BY CutsOfAcquisitions
<1>2. PICK H, B, Ai, Ao, Ei, Eo :
        Parts(H, B, Ai, Ao, Ei, Eo, p, s) /\ W \in {H, H \cup {<<"abortEvent">>}}
  BY <1>1, Zenon DEF IsWhole
<1>3. Consistent(H, W, p, s) /\ ab \notin H BY <1>2, PartsAreConsistent
<1>4. RestsOn(W, ab) = {}
  <2>1. ab[1] = "abortEvent" OBVIOUS
  <2> HIDE DEF ab
  <2> QED BY <2>1, RestsOnOthers
<1>5. W = H \/ W = H \cup {ab} BY <1>2
<1> HIDE DEF ab
<1>6. Release(Left(W, W), ab) = Left(H, W)
  <2>1. CASE ab \in W
    <3>1. Release(Left(W, W), ab) = Left(W \ {ab}, W) BY <1>4, <2>1, Released
    <3>2. W \ {ab} = H BY <1>3, <1>5, <2>1
    <3> QED BY <3>1, <3>2
  <2>2. CASE ab \notin W
    <3>1. W = H BY <1>5, <2>2
    <3> QED BY <2>2, <3>1, NotReleased
  <2> QED BY <2>1, <2>2
<1> QED BY <1>3, <1>6, AllGivenBack DEF ab

\* The settings of a stream whose opening did not divide by zero have counts.
LEMMA StreamIsCounted ==
  ASSUME NEW p \in StreamParameters, NEW inputFirst,
         ~DividesByZero(p, CalculateBufferSettings(p, inputFirst))
  PROVE  Counted(p, CalculateBufferSettings(p, inputFirst))
<1> DEFINE in == SettingsOf(p, "in")
           out == SettingsOf(p, "out")
           s == CalculateBufferSettings(p, inputFirst)
           settled == \/ ~IsFullDuplex(p) \/ in = Crash \/ out = Crash \/ in.size = out.size
                      \/ IsLowLevel(p, "in") /\ IsLowLevel(p, "out")
<1>d. Direction = {"in", "out"} BY DEF Direction
<1>1. \A d \in Direction : Len(p.devices[d]) \in Nat
  <2>1. \A d \in Direction : p.devices[d] \in Seq(Nat) BY DEF StreamParameters
  <2>2. \A c \in Seq(Nat) : Len(c) \in Nat OBVIOUS
  <2> QED BY <2>1, <2>2
<1>2. \A d \in Direction : Uses(p, d) /\ SettingsOf(p, d) # Crash =>
        SettingsOf(p, d).size \in Nat \ {0} /\ SettingsOf(p, d).count \in Nat \ {0}
  BY DirectionHasBuffers
<1>3. p.latency["in"] \in Nat /\ p.latency["out"] \in Nat
  BY <1>d, MaxFramesBound DEF StreamParameters
<1>4. \/ settled /\ s["in"] = in /\ s["out"] = out
      \/ /\ ~settled /\ s["in"] = in
         /\ s["out"] = [size |-> in.size,
                        count |-> HostBufferCount(p.latency["out"], out.count, 2)]
      \/ ~settled /\ s["in"] = Sized(p.latency["in"], out.size, 3) /\ s["out"] = out
  BY HowSettled
<1>5. \A d \in Direction : Uses(p, d) => s[d] # Crash BY DEF DividesByZero
<1>6. ~settled => Uses(p, "in") /\ Uses(p, "out") /\ in # Crash /\ out # Crash
  BY DEF IsFullDuplex
<1> HIDE DEF s, settled
<1>7. CASE settled /\ s["in"] = in /\ s["out"] = out
  <2>1. \A d \in Direction : Uses(p, d) => s[d].count \in Nat
    <3> SUFFICES ASSUME NEW d \in Direction, Uses(p, d) PROVE s[d].count \in Nat OBVIOUS
    <3>1. s[d] = SettingsOf(p, d) BY <1>7, <1>d
    <3> QED BY <1>2, <1>5, <3>1
  <2> QED BY <1>1, <2>1 DEF Counted, s
<1>8. CASE /\ ~settled /\ s["in"] = in
           /\ s["out"] = [size |-> in.size,
                          count |-> HostBufferCount(p.latency["out"], out.count, 2)]
  <2>1. in.count \in Nat /\ out.count \in Nat \ {0} BY <1>2, <1>6, <1>8, <1>d
  <2>2. HostBufferCount(p.latency["out"], out.count, 2) \in Nat
    <3> DEFINE c == out.count
    <3>1. c \in Nat \ {0} BY <2>1
    <3> HIDE DEF c
    <3>2. HostBufferCount(p.latency["out"], c, 2) \in Nat BY <1>3, <3>1, CountIsEnough
    <3> QED BY <3>2 DEF c
  <2>3. s["in"].count \in Nat /\ s["out"].count \in Nat BY <1>8, <2>1, <2>2
  <2> QED BY <1>1, <1>d, <2>3 DEF Counted, s
<1>9. CASE ~settled /\ s["in"] = Sized(p.latency["in"], out.size, 3) /\ s["out"] = out
  <2>1. out.size \in Nat \ {0} /\ out.count \in Nat BY <1>2, <1>6, <1>9, <1>d
  <2>2. Covers(s["in"], p.latency["in"], 3)
    <3> DEFINE c == out.size
    <3>1. c \in Nat \ {0} /\ s["in"] = Sized(p.latency["in"], c, 3) BY <1>9, <2>1
    <3> HIDE DEF c
    <3> QED BY <1>3, <3>1, SizedCovers
  <2>3. s["in"].count \in Nat /\ s["out"].count \in Nat BY <1>9, <2>1, <2>2 DEF Covers
  <2> QED BY <1>1, <1>d, <2>3 DEF Counted, s
<1> QED BY <1>4, <1>7, <1>8, <1>9

\* A stream is not NoStream: it has parameters.
LEMMA StreamIsAStream ==
  ASSUME NEW r \in Requests, NEW s
  PROVE  [p |-> r.p, settings |-> s] # NoStream
<1>1. r.p \in StreamParameters BY OpenAssumption
<1>2. "callback" \in DOMAIN r.p
  <2> DEFINE p == r.p
  <2>1. p \in StreamParameters BY <1>1
  <2> HIDE DEF p
  <2>2. "callback" \in DOMAIN p BY <2>1 DEF StreamParameters
  <2> QED BY <2>2 DEF p
<1>3. DOMAIN <<>> = {} OBVIOUS
<1>4. r.p # <<>> BY <1>2, <1>3
<1>5. [p |-> r.p, settings |-> s].p # NoStream.p BY <1>4 DEF NoStream
<1> QED BY <1>5

\* The stream that r opened has all it needs, from devices that exist.
IsComplete(r) ==
  /\ Opened(r)
  /\ hostApi.initialized /\ \A d \in Direction : DevicesAreValid(r.p, d)
  /\ fields = held
  /\ ~crashed => held = ToSet(Acquisitions(r.p, stream.settings))

\* All that a stream needs, or nothing, is held, and nothing was misused.
CleanInv ==
  /\ misused = FALSE
  /\ \/ stream = NoStream /\ ~crashed /\ held = {} /\ fields = {}
     \/ \E r \in Requests : IsComplete(r)

\* CleanInv holds: each operation that ends without a stream gives back everything,
\* in a legal order.
LEMMA CleanInvHolds == Spec => []CleanInv
<1>1. OpenInit => CleanInv BY DEF OpenInit, CleanInv
<1>2. OpenAssumption /\ CleanInv /\ [Next]_openVars => CleanInv'
  <2> SUFFICES ASSUME OpenAssumption, CleanInv, [Next]_openVars PROVE CleanInv' OBVIOUS
  <2>m. misused = FALSE /\ fields = held BY DEF CleanInv, IsComplete
  <2>n. ASSUME NEW F1, Becomes(Left({}, F1))
        PROVE  held' = {} /\ fields' = {} /\ misused' = FALSE
    <3>1. Left({}, F1).held = {} /\ Left({}, F1).misused = FALSE BY DEF Left
    <3> HIDE DEF Left
    <3> QED BY <2>m, <2>n, <3>1 DEF Becomes
  <2>1. ASSUME UNCHANGED <<hostApi, stream, held, fields, misused, crashed>> PROVE CleanInv'
    BY <2>1 DEF CleanInv, IsComplete, Opened, DevicesAreValid
  <2>2. CASE UNCHANGED openVars BY <2>1, <2>2 DEF openVars
  <2>3. ASSUME NEW fault, InitializeHostApi(fault),
               UNCHANGED <<stream, held, fields, misused, crashed>>
        PROVE  CleanInv'
    <3>1. ~hostApi.initialized BY <2>3 DEF InitializeHostApi
    <3>2. stream = NoStream /\ ~crashed /\ held = {} /\ fields = {}
      BY <3>1 DEF CleanInv, IsComplete
    <3> QED BY <2>3, <2>m, <3>2 DEF CleanInv
  <2>4. CASE stream = NoStream /\ UNCHANGED <<stream, held, fields, misused, crashed>>
    <3>1. CASE stream = NoStream /\ ~crashed /\ held = {} /\ fields = {}
      BY <2>4, <2>m, <3>1 DEF CleanInv
    <3>2. ASSUME NEW r \in Requests, IsComplete(r) PROVE FALSE
      BY <2>4, <3>2, StreamIsAStream DEF IsComplete, Opened
    <3> QED BY <3>1, <3>2 DEF CleanInv
  <2>5. ASSUME ~crashed, NEW r \in Requests, OpenStream(r) PROVE CleanInv'
    <3> DEFINE p == r.p
               s == CalculateBufferSettings(p, r.inputFirst)
               q == Acquisitions(p, s)
               H == {q[k] : k \in 1..r.fault-1}
               x == q[r.fault]
    <3>1. /\ hostApi.initialized /\ stream = NoStream
          /\ \A d \in Direction : DevicesAreValid(p, d)
          /\ ~AreIncompatible(p)
          /\ r.fault <= Len(q)
          /\ UNCHANGED hostApi
          /\ \/ /\ DividesByZero(p, s) /\ crashed' = TRUE
                /\ stream' = [p |-> p, settings |-> s] /\ UNCHANGED <<held, fields, misused>>
             \/ /\ ~DividesByZero(p, s) /\ r.fault = 0
                /\ stream' = [p |-> p, settings |-> s]
                /\ held' = ToSet(q) /\ fields' = ToSet(q)
                /\ UNCHANGED <<misused, crashed>>
             \/ /\ ~DividesByZero(p, s) /\ r.fault # 0
                /\ Becomes(FailedAt(Left(H, H), p, s, x))
                /\ UNCHANGED <<stream, crashed>>
      BY <2>5 DEF OpenStream, DividesByZero, Left
    <3>2. p \in StreamParameters /\ r.fault \in Nat BY DEF OpenAssumption
    <3>3. \A d \in Direction : DevicesAreValid(p, d)' BY <3>1 DEF DevicesAreValid
    <3> HIDE DEF q, H, x
    <3>4. CASE crashed' = TRUE /\ DividesByZero(p, s)
                 /\ stream' = [p |-> p, settings |-> s] /\ UNCHANGED <<held, fields, misused>>
      BY <2>m, <3>1, <3>3, <3>4 DEF CleanInv, IsComplete, Opened
    <3>5. CASE /\ ~DividesByZero(p, s) /\ stream' = [p |-> p, settings |-> s]
               /\ held' = ToSet(q) /\ fields' = ToSet(q)
               /\ UNCHANGED <<misused, crashed>>
      <4>1. stream'.settings = s BY <3>5
      <4> QED BY <2>5, <2>m, <3>1, <3>3, <3>5, <4>1 DEF CleanInv, IsComplete, Opened, q
    <3>6. CASE /\ ~DividesByZero(p, s) /\ r.fault # 0
               /\ Becomes(FailedAt(Left(H, H), p, s, x))
               /\ UNCHANGED <<stream, crashed>>
      <4>1. Counted(p, s) BY <3>2, <3>6, StreamIsCounted
      <4>2. q \in Seq(Thing) BY <4>1, CutsOfAcquisitions DEF q
      <4>3. r.fault \in 1..Len(q) BY <3>1, <3>2, <3>6, <4>2
      <4>4. IsCut(q, H, x) BY <4>3 DEF IsCut, H, x
      <4>5. PICK F1 : FailedAt(Left(H, H), p, s, x) = Left({}, F1)
        <5> HIDE DEF p, s
        <5> QED BY <4>1, <4>4, FailureIsClean DEF q
      <4>6. held' = {} /\ fields' = {} /\ misused' = FALSE
        <5> HIDE DEF p, s
        <5> QED BY <2>n, <3>6, <4>5
      <4> QED BY <2>5, <3>1, <3>6, <4>6 DEF CleanInv
    <3> QED BY <3>1, <3>4, <3>5, <3>6
  <2>6. ASSUME ~crashed, CloseStream PROVE CleanInv'
    <3> DEFINE u == [held |-> held, fields |-> fields, misused |-> FALSE]
    <3>1. /\ stream # NoStream /\ stream' = NoStream /\ UNCHANGED crashed
          /\ Becomes(TerminateStream(Release(u, <<"abortEvent">>), stream.p, stream.settings))
      BY <2>6 DEF CloseStream
    <3>2. PICK r \in Requests : IsComplete(r) BY <3>1 DEF CleanInv
    <3> DEFINE p == r.p
               s == CalculateBufferSettings(p, r.inputFirst)
               W == ToSet(Acquisitions(p, s))
    <3>3. /\ stream.p = p /\ stream.settings = s /\ ~DividesByZero(p, s)
          /\ held = W /\ fields = W
      BY <2>6, <3>2 DEF IsComplete, Opened
    <3>4. p \in StreamParameters BY DEF OpenAssumption
    <3>5. Counted(p, s) BY <3>3, <3>4, StreamIsCounted
    <3>6. u = Left(W, W) BY <3>3 DEF Left
    <3> HIDE DEF p, s, W, u
    <3>7. PICK F1 : TerminateStream(Release(Left(W, W), <<"abortEvent">>), p, s) = Left({}, F1)
      BY <3>5, CloseIsClean DEF W
    <3>8. held' = {} /\ fields' = {} /\ misused' = FALSE BY <2>n, <3>1, <3>3, <3>6, <3>7
    <3> QED BY <2>6, <3>1, <3>8 DEF CleanInv
  <2> QED BY <2>2, <2>3, <2>4, <2>5, <2>6 DEF Next
<1> QED BY <1>1, <1>2, OpenAssumption, PTL DEF Spec

\* OpeningIsClean for every set of requests, every system and every acquisition that
\* may fail: OpenStream acquires what it needs or nothing, the two levels of clean-up
\* of a failed OpenStream, and CloseStream, give everything back once and in a legal
\* order, and the devices of a stream stay devices of the host API.
THEOREM NothingIsLeftBehind == Spec => []OpeningIsClean
<1>1. OpenAssumption /\ CleanInv => OpeningIsClean
  <2> SUFFICES ASSUME OpenAssumption, CleanInv PROVE OpeningIsClean OBVIOUS
  <2>1. NothingIsMisused BY DEF CleanInv, NothingIsMisused
  <2>2. CASE stream = NoStream /\ held = {}
    BY <2>1, <2>2 DEF OpeningIsClean, NothingLeaks, StreamDevicesExist, Open
  <2>3. ASSUME NEW r \in Requests, IsComplete(r) PROVE OpeningIsClean
    <3>1. NothingLeaks BY <2>3, StreamIsAStream DEF NothingLeaks, IsComplete, Opened
    <3>2. stream.p = r.p BY <2>3 DEF IsComplete, Opened
    <3>3. StreamDevicesExist
      BY <2>3, <3>2 DEF StreamDevicesExist, IsComplete, DevicesAreValid
    <3> QED BY <2>1, <3>1, <3>3 DEF OpeningIsClean
  <2> QED BY <2>2, <2>3 DEF CleanInv
<1> QED BY <1>1, CleanInvHolds, OpenAssumption, PTL

-----------------------------------------------------------------------------
(* The memory of a host API.                                               *)

\* The fields of a memory, and of a group.
MemoryFields == {"blocks", "group", "calls", "fault", "ok"}
GroupFields == {"linkCount", "linkBlocks", "spareLinks", "allocations"}

\* m has a group, which accounts for all blocks but for itself and the host API.
HasGroup(m) ==
  /\ MemoryFields \subseteq DOMAIN m /\ m.ok \in BOOLEAN
  /\ DOMAIN m.group = GroupFields
  /\ m.group.linkCount \in Nat \ {0} /\ m.group.linkBlocks \in Nat \ {0}
  /\ m.group.spareLinks \in Nat /\ m.group.allocations \in Nat
  /\ LinksAreConserved(m)
  /\ m.blocks = 2 + m.group.linkBlocks + m.group.allocations

\* m has no group, but maybe the memory of the host API.
HasNoGroup(m) ==
  /\ MemoryFields \subseteq DOMAIN m /\ m.ok \in BOOLEAN
  /\ m.group = NoGroup /\ m.blocks \in {0, 1}

\* n has what m has besides the memory.
SameApi(m, n) == DOMAIN n = DOMAIN m /\ ("api" \in DOMAIN m => n.api = m.api)

\* PaUtil_AllocateMemory.
LEMMA AllocateAdds ==
  ASSUME NEW m, MemoryFields \subseteq DOMAIN m
  PROVE  LET n == Allocate(m)
         IN  /\ SameApi(m, n) /\ n.group = m.group /\ n.ok \in BOOLEAN
             /\ n.blocks = IF n.ok THEN m.blocks + 1 ELSE m.blocks
<1>1. LET n == Allocate(m)
      IN  /\ DOMAIN n = DOMAIN m
          /\ n.ok = ~(m.calls + 1 = m.fault)
          /\ n.blocks = IF n.ok THEN m.blocks + 1 ELSE m.blocks
          /\ n.group = m.group
          /\ "api" \in DOMAIN m => n.api = m.api
  BY DEF Allocate, MemoryFields
<1> QED BY <1>1 DEF SameApi

\* AllocateLinks.
LEMMA LinksAdd ==
  ASSUME NEW m, NEW count, MemoryFields \subseteq DOMAIN m, DOMAIN m.group = GroupFields
  PROVE  LET n == AllocateLinks(m, count)
         IN  /\ SameApi(m, n) /\ n.ok \in BOOLEAN
             /\ n.ok => /\ n.blocks = m.blocks + 1 /\ DOMAIN n.group = GroupFields
                        /\ n.group.linkCount = m.group.linkCount + count
                        /\ n.group.linkBlocks = m.group.linkBlocks + 1
                        /\ n.group.spareLinks = m.group.spareLinks + count - 1
                        /\ n.group.allocations = m.group.allocations
             /\ ~n.ok => n.blocks = m.blocks /\ n.group = m.group
<1> DEFINE a == Allocate(m)
           n == AllocateLinks(m, count)
           q == [a EXCEPT !.group.linkCount = @ + count, !.group.linkBlocks = @ + 1,
                          !.group.spareLinks = @ + count - 1]
<1>1. /\ SameApi(m, a) /\ a.group = m.group /\ a.ok \in BOOLEAN
      /\ a.blocks = IF a.ok THEN m.blocks + 1 ELSE m.blocks
  BY AllocateAdds
<1>2. n = IF ~a.ok THEN a ELSE q BY DEF AllocateLinks
<1> HIDE DEF a
<1>3. /\ DOMAIN q = DOMAIN a /\ DOMAIN q.group = GroupFields
      /\ q.group.linkCount = a.group.linkCount + count
      /\ q.group.linkBlocks = a.group.linkBlocks + 1
      /\ q.group.spareLinks = a.group.spareLinks + count - 1
      /\ q.group.allocations = a.group.allocations
      /\ q.ok = a.ok /\ q.blocks = a.blocks
      /\ "api" \in DOMAIN a => q.api = a.api
  BY <1>1 DEF MemoryFields, GroupFields, SameApi
<1> HIDE DEF q, n
<1> QED BY <1>1, <1>2, <1>3 DEF SameApi, n

\* PaUtil_GroupAllocateMemory: whatever fails, the group accounts for the blocks.
LEMMA GroupAllocated ==
  ASSUME NEW m, HasGroup(m)
  PROVE  HasGroup(GroupAllocateMemory(m)) /\ SameApi(m, GroupAllocateMemory(m))
<1> DEFINE links == IF m.group.spareLinks = 0 THEN AllocateLinks(m, m.group.linkCount) ELSE m
           n == Allocate(links)
           stuck == [links EXCEPT !.ok = FALSE]
           taken == [n EXCEPT !.group.spareLinks = @ - 1, !.group.allocations = @ + 1]
           r == GroupAllocateMemory(m)
<1>1. HasGroup(links) /\ SameApi(m, links)
  <2>1. CASE m.group.spareLinks # 0 BY <2>1 DEF SameApi
  <2>2. CASE m.group.spareLinks = 0
    <3> DEFINE c == m.group.linkCount
               l == AllocateLinks(m, c)
    <3>1. c \in Nat \ {0} /\ MemoryFields \subseteq DOMAIN m /\ DOMAIN m.group = GroupFields
      BY DEF HasGroup
    <3>2. /\ SameApi(m, l) /\ l.ok \in BOOLEAN
          /\ l.ok => /\ l.blocks = m.blocks + 1 /\ DOMAIN l.group = GroupFields
                     /\ l.group.linkCount = m.group.linkCount + c
                     /\ l.group.linkBlocks = m.group.linkBlocks + 1
                     /\ l.group.spareLinks = m.group.spareLinks + c - 1
                     /\ l.group.allocations = m.group.allocations
          /\ ~l.ok => l.blocks = m.blocks /\ l.group = m.group
      BY <3>1, LinksAdd
    <3>3. links = l BY <2>2
    <3> HIDE DEF l, links
    <3>4. HasGroup(l)
      <4>1. MemoryFields \subseteq DOMAIN l BY <3>1, <3>2 DEF SameApi
      <4>2. CASE l.ok BY <2>2, <3>1, <3>2, <4>1, <4>2 DEF HasGroup, LinksAreConserved
      <4>3. CASE ~l.ok BY <3>2, <4>1, <4>3 DEF HasGroup, LinksAreConserved
      <4> QED BY <4>2, <4>3
    <3> QED BY <3>2, <3>3, <3>4
  <2> QED BY <2>1, <2>2
<1>2. r = IF links.group.spareLinks = 0 THEN stuck ELSE IF ~n.ok THEN n ELSE taken
  BY DEF GroupAllocateMemory
<1> HIDE DEF links
<1>3. MemoryFields \subseteq DOMAIN links BY <1>1 DEF HasGroup
<1>4. /\ SameApi(links, n) /\ n.group = links.group /\ n.ok \in BOOLEAN
      /\ n.blocks = IF n.ok THEN links.blocks + 1 ELSE links.blocks
  BY <1>3, AllocateAdds
<1> HIDE DEF n
<1>5. HasGroup(stuck) /\ SameApi(links, stuck)
  <2>1. /\ DOMAIN stuck = DOMAIN links /\ stuck.group = links.group
        /\ stuck.blocks = links.blocks /\ stuck.ok = FALSE
        /\ "api" \in DOMAIN links => stuck.api = links.api
    BY <1>3 DEF MemoryFields
  <2> HIDE DEF stuck
  <2> QED BY <1>1, <2>1 DEF HasGroup, SameApi, LinksAreConserved
<1>6. CASE ~n.ok
  <2>1. HasGroup(n) BY <1>1, <1>4, <1>6 DEF HasGroup, SameApi, LinksAreConserved
  <2> HIDE DEF stuck, taken, r
  <2> QED BY <1>1, <1>2, <1>4, <1>5, <1>6, <2>1 DEF SameApi, r
<1>7. CASE n.ok
  <2>1. DOMAIN n.group = GroupFields /\ MemoryFields \subseteq DOMAIN n
    BY <1>1, <1>4 DEF HasGroup, SameApi
  <2>2. /\ DOMAIN taken = DOMAIN n /\ DOMAIN taken.group = GroupFields
        /\ taken.group.spareLinks = n.group.spareLinks - 1
        /\ taken.group.allocations = n.group.allocations + 1
        /\ taken.group.linkCount = n.group.linkCount
        /\ taken.group.linkBlocks = n.group.linkBlocks
        /\ taken.ok = n.ok /\ taken.blocks = n.blocks
        /\ "api" \in DOMAIN n => taken.api = n.api
    BY <2>1 DEF MemoryFields, GroupFields
  <2> HIDE DEF taken, stuck, r
  <2>3. links.group.spareLinks # 0 => HasGroup(taken)
    BY <1>1, <1>4, <1>7, <2>1, <2>2 DEF HasGroup, LinksAreConserved
  <2> QED BY <1>1, <1>2, <1>4, <1>5, <1>7, <2>2, <2>3 DEF SameApi, r
<1> QED BY <1>6, <1>7

\* The memory of the host API, and its group: one of the three allocations may fail.
LEMMA GroupCreated ==
  ASSUME NEW m, MemoryFields \subseteq DOMAIN m, m.group = NoGroup, m.blocks = 0, m.ok
  PROVE  LET n == Then(Allocate(m), CreateAllocationGroup)
         IN  /\ SameApi(m, n)
             /\ IF n.ok THEN HasGroup(n) ELSE HasNoGroup(n)
<1> DEFINE a == Allocate(m)
           links == AllocateLinks(a, InitialLinkCount)
           group == Allocate(links)
           q == [group EXCEPT !.group = NoGroup]
           freed == Free(q, 1)
           n == Then(a, CreateAllocationGroup)
<1> SUFFICES SameApi(m, n) /\ IF n.ok THEN HasGroup(n) ELSE HasNoGroup(n) OBVIOUS
<1>1. /\ SameApi(m, a) /\ a.group = NoGroup /\ a.ok \in BOOLEAN
      /\ a.blocks = IF a.ok THEN 1 ELSE 0
  BY AllocateAdds
<1>2. MemoryFields \subseteq DOMAIN a BY <1>1 DEF SameApi
<1>3. n = IF ~a.ok THEN a ELSE IF ~links.ok THEN links ELSE IF group.ok THEN group ELSE freed
  BY DEF Then, CreateAllocationGroup
<1> HIDE DEF a
<1>4. InitialLinkCount \in Nat \ {0, 1} BY GroupAssumption
<1>5. /\ SameApi(a, links) /\ links.ok \in BOOLEAN
      /\ links.ok => /\ links.blocks = a.blocks + 1 /\ DOMAIN links.group = GroupFields
                     /\ links.group.linkCount = InitialLinkCount
                     /\ links.group.linkBlocks = 1
                     /\ links.group.spareLinks = InitialLinkCount - 1
                     /\ links.group.allocations = 0
      /\ ~links.ok => links.blocks = a.blocks /\ links.group = a.group
  <2>1. /\ a.group.linkCount = 0 /\ a.group.linkBlocks = 0 /\ a.group.spareLinks = 0
        /\ a.group.allocations = 0 /\ DOMAIN a.group = GroupFields
    BY <1>1 DEF NoGroup, GroupFields
  <2> HIDE DEF links
  <2>2. /\ SameApi(a, links) /\ links.ok \in BOOLEAN
        /\ links.ok => /\ links.blocks = a.blocks + 1 /\ DOMAIN links.group = GroupFields
                       /\ links.group.linkCount = a.group.linkCount + InitialLinkCount
                       /\ links.group.linkBlocks = a.group.linkBlocks + 1
                       /\ links.group.spareLinks = a.group.spareLinks + InitialLinkCount - 1
                       /\ links.group.allocations = a.group.allocations
        /\ ~links.ok => links.blocks = a.blocks /\ links.group = a.group
    BY <1>2, <2>1, LinksAdd DEF links
  <2> QED BY <1>4, <2>1, <2>2
<1> HIDE DEF links
<1>6. MemoryFields \subseteq DOMAIN links BY <1>2, <1>5 DEF SameApi
<1>7. /\ SameApi(links, group) /\ group.group = links.group /\ group.ok \in BOOLEAN
      /\ group.blocks = IF group.ok THEN links.blocks + 1 ELSE links.blocks
  BY <1>6, AllocateAdds
<1> HIDE DEF group
<1>8. MemoryFields \subseteq DOMAIN group BY <1>6, <1>7 DEF SameApi
<1>9. /\ SameApi(group, freed) /\ freed.ok = group.ok /\ freed.group = NoGroup
      /\ freed.blocks = group.blocks - 1
  <2>1. /\ DOMAIN q = DOMAIN group /\ q.ok = group.ok /\ q.group = NoGroup
        /\ q.blocks = group.blocks
        /\ "api" \in DOMAIN group => q.api = group.api
    BY <1>8 DEF MemoryFields
  <2> HIDE DEF q
  <2>2. /\ DOMAIN freed = DOMAIN q /\ freed.ok = q.ok /\ freed.group = q.group
        /\ freed.blocks = q.blocks - 1
        /\ "api" \in DOMAIN q => freed.api = q.api
    BY <1>8, <2>1 DEF MemoryFields, Free
  <2> HIDE DEF freed
  <2> QED BY <2>1, <2>2 DEF SameApi
<1> HIDE DEF freed
<1>10. CASE ~a.ok
  <2>1. n = a BY <1>3, <1>10
  <2> QED BY <1>1, <1>2, <1>10, <2>1 DEF HasNoGroup
<1>11. CASE a.ok /\ ~links.ok
  <2>1. n = links BY <1>3, <1>11
  <2> QED BY <1>1, <1>5, <1>6, <1>11, <2>1 DEF HasNoGroup, SameApi
<1>12. CASE a.ok /\ links.ok /\ ~group.ok
  <2>1. n = freed BY <1>3, <1>12
  <2>2. MemoryFields \subseteq DOMAIN freed BY <1>8, <1>9 DEF SameApi
  <2>3. freed.blocks = 1 BY <1>1, <1>5, <1>7, <1>9, <1>12
  <2>4. HasNoGroup(freed) /\ ~freed.ok BY <1>7, <1>9, <1>12, <2>2, <2>3 DEF HasNoGroup
  <2>5. SameApi(m, freed) BY <1>1, <1>5, <1>7, <1>9 DEF SameApi
  <2> QED BY <2>1, <2>4, <2>5
<1>13. CASE a.ok /\ links.ok /\ group.ok
  <2>1. n = group BY <1>3, <1>13
  <2>2. HasGroup(group)
    BY <1>1, <1>4, <1>5, <1>7, <1>8, <1>13 DEF HasGroup, LinksAreConserved
  <2>3. SameApi(m, group) BY <1>1, <1>5, <1>7 DEF SameApi
  <2> QED BY <1>13, <2>1, <2>2, <2>3
<1> QED BY <1>1, <1>5, <1>7, <1>10, <1>11, <1>12, <1>13

\* What a failed PaWinMme_Initialize and Terminate free is all there is.
LEMMA AllIsFreed ==
  ASSUME NEW m, HasGroup(m) \/ HasNoGroup(m)
  PROVE  LET n == FreeHostApi(m)
         IN  n.blocks = 0 /\ n.group = NoGroup /\ n.ok = m.ok
<1> DEFINE f == FreeAllAllocations(m)
           none == IF m.group = NoGroup THEN m ELSE DestroyAllocationGroup(f)
           n == FreeHostApi(m)
<1>1. /\ MemoryFields \subseteq DOMAIN none /\ none.blocks \in {0, 1}
      /\ none.group = NoGroup /\ none.ok = m.ok
  <2>1. CASE m.group = NoGroup
    <3>1. ~HasGroup(m) BY <2>1 DEF HasGroup, NoGroup
    <3> QED BY <2>1, <3>1 DEF HasNoGroup
  <2>2. CASE m.group # NoGroup
    <3> DEFINE g == Free(m, m.group.allocations)
               h == Free(f, f.group.linkBlocks + 1)
               d == [h EXCEPT !.group = NoGroup]
    <3>1. HasGroup(m) BY <2>2 DEF HasNoGroup
    <3>2. MemoryFields \subseteq DOMAIN m /\ DOMAIN m.group = GroupFields
      BY <3>1 DEF HasGroup
    <3>3. /\ DOMAIN g = DOMAIN m /\ g.blocks = m.blocks - m.group.allocations
          /\ g.group = m.group /\ g.ok = m.ok
      BY <3>2 DEF Free, MemoryFields
    <3>4. f = [g EXCEPT !.group.spareLinks = @ + m.group.allocations,
                        !.group.allocations = 0]
      BY DEF FreeAllAllocations
    <3> HIDE DEF f, g
    <3>5. /\ DOMAIN f = DOMAIN m /\ f.blocks = g.blocks
          /\ f.group.linkBlocks = m.group.linkBlocks /\ f.ok = m.ok
      BY <3>2, <3>3, <3>4 DEF MemoryFields, GroupFields
    <3>6. /\ DOMAIN h = DOMAIN m /\ h.blocks = f.blocks - (f.group.linkBlocks + 1)
          /\ h.ok = m.ok
      BY <3>2, <3>5 DEF Free, MemoryFields
    <3>7. h.blocks = 1 BY <3>1, <3>3, <3>5, <3>6 DEF HasGroup
    <3> HIDE DEF h
    <3>8. DOMAIN d = DOMAIN m /\ d.blocks = 1 /\ d.group = NoGroup /\ d.ok = m.ok
      BY <3>2, <3>6, <3>7 DEF MemoryFields
    <3>9. none = d BY <2>2 DEF DestroyAllocationGroup, h
    <3> HIDE DEF d, none
    <3> QED BY <3>2, <3>8, <3>9
  <2> QED BY <2>1, <2>2
<1>2. n = IF none.blocks > 0 THEN Free(none, 1) ELSE none BY DEF FreeHostApi
<1> HIDE DEF none, n
<1>3. CASE none.blocks = 1
  <2>1. n = Free(none, 1) BY <1>2, <1>3
  <2> QED BY <1>1, <1>3, <2>1 DEF Free, MemoryFields, n
<1>4. CASE none.blocks = 0 BY <1>1, <1>2, <1>4 DEF n
<1> QED BY <1>1, <1>3, <1>4

-----------------------------------------------------------------------------
(* The devices that are listed.                                            *)

\* The devices of the system, as devices of the host API.
HostApiDevice == [direction : Direction, id : Int]
DeviceOf(d, i) == [direction |-> d, id |-> i - 2]
IsUsable(d, i) == system.caps[d][i] = "ok"

\* devices are the usable ones among the first done[d] of each direction.
AreUsable(devices, done) ==
  \A k \in 1..Len(devices) :
    \E d \in Direction : \E i \in 1..done[d] : IsUsable(d, i) /\ devices[k] = DeviceOf(d, i)
AreAll(devices, done) ==
  \A d \in Direction : \A i \in 1..done[d] :
    IsUsable(d, i) => \E k \in 1..Len(devices) : devices[k] = DeviceOf(d, i)

\* They are in order.
AreOrdered(devices) ==
  \A k, l \in 1..Len(devices) : k < l =>
    \/ devices[k].direction = "in" /\ devices[l].direction = "out"
    \/ devices[k].direction = devices[l].direction /\ devices[k].id < devices[l].id

\* They are counted, and the inputs come first.
AreCounted(devices, count, done) ==
  /\ count \in [Direction -> Nat]
  /\ \A d \in Direction : count[d] <= done[d]
  /\ Len(devices) = count["in"] + count["out"]
  /\ \A k \in 1..Len(devices) : devices[k].direction = "in" <=> k <= count["in"]

\* The first device of direction d, or one that is preferred, is its default.
IndicesOf(devices, d) == {i \in 0..Len(devices)-1 : devices[i + 1].direction = d}
PreferredOf(devices, d) ==
  {i \in IndicesOf(devices, d) : devices[i + 1].id = system.preferred[d]}
IsDefault(default, devices, d) ==
  IF IndicesOf(devices, d) = {} THEN default = paNoDevice
  ELSE default \in IF PreferredOf(devices, d) # {} THEN PreferredOf(devices, d)
                   ELSE IndicesOf(devices, d)

ApiFields == {"initialized", "devices", "maximumPossibleDeviceCount", "count", "default"}

Lists(api, done) ==
  /\ DOMAIN api = ApiFields
  /\ api.initialized = TRUE
  /\ api.maximumPossibleDeviceCount = WaveDeviceCount("in") + WaveDeviceCount("out")
  /\ api.devices \in Seq(HostApiDevice)
  /\ AreUsable(api.devices, done)
  /\ AreAll(api.devices, done)
  /\ AreOrdered(api.devices)
  /\ AreCounted(api.devices, api.count, done)
  /\ api.default \in [Direction -> Int]
  /\ \A d \in Direction : IsDefault(api.default[d], api.devices, d)

LEMMA Appended ==
  ASSUME NEW devices \in Seq(HostApiDevice), NEW device \in HostApiDevice
  PROVE  LET q == Append(devices, device)
         IN  /\ q \in Seq(HostApiDevice) /\ Len(q) = Len(devices) + 1 /\ Len(devices) \in Nat
             /\ q[Len(devices) + 1] = device
             /\ \A k \in 1..Len(devices) : q[k] = devices[k] /\ devices[k] \in HostApiDevice
OBVIOUS

\* The next usable device of direction d is listed after the others.
LEMMA NextIsListed ==
  ASSUME NEW devices \in Seq(HostApiDevice), NEW count, NEW done \in [Direction -> Nat],
         NEW d \in Direction, d = "in" => done["out"] = 0,
         AreUsable(devices, done), AreAll(devices, done), AreOrdered(devices),
         AreCounted(devices, count, done), IsUsable(d, done[d] + 1)
  PROVE  LET q == Append(devices, DeviceOf(d, done[d] + 1))
             now == [done EXCEPT ![d] = @ + 1]
         IN  /\ q \in Seq(HostApiDevice)
             /\ AreUsable(q, now) /\ AreAll(q, now) /\ AreOrdered(q)
             /\ AreCounted(q, [count EXCEPT ![d] = @ + 1], now)
<1> DEFINE n == done[d] + 1
           device == DeviceOf(d, n)
           q == Append(devices, device)
           now == [done EXCEPT ![d] = @ + 1]
           L == Len(devices)
<1> SUFFICES /\ q \in Seq(HostApiDevice)
             /\ AreUsable(q, now) /\ AreAll(q, now) /\ AreOrdered(q)
             /\ AreCounted(q, [count EXCEPT ![d] = @ + 1], now)
  OBVIOUS
<1>1. n \in Nat /\ device \in HostApiDevice BY DEF DeviceOf, HostApiDevice
<1>2. device.direction = d /\ device.id = n - 2 BY DEF DeviceOf
<1>3. /\ q \in Seq(HostApiDevice) /\ Len(q) = L + 1 /\ L \in Nat
      /\ q[L + 1] = device
      /\ \A k \in 1..L : q[k] = devices[k] /\ devices[k] \in HostApiDevice
  BY <1>1, Appended
<1>4. /\ now[d] = n /\ now[d] = done[d] + 1
      /\ \A e \in Direction : e # d => now[e] = done[e]
      /\ \A e \in Direction : now[e] \in Nat /\ done[e] \in Nat /\ done[e] <= now[e]
  OBVIOUS
<1>5. IsUsable(d, n) OBVIOUS
<1>6. \A k \in 1..L : \E e \in Direction : \E i \in 1..done[e] :
        IsUsable(e, i) /\ devices[k] = DeviceOf(e, i)
  BY DEF AreUsable
<1>7. \A k \in 1..L : devices[k].direction \in Direction /\ devices[k].id \in Int
  BY <1>3 DEF HostApiDevice
<1>8. \A k \in 1..L : /\ devices[k].direction = d => devices[k].id < n - 2
                      /\ d = "in" => devices[k].direction = "in"
  <2> SUFFICES ASSUME NEW k \in 1..L
      PROVE /\ devices[k].direction = d => devices[k].id < n - 2
            /\ d = "in" => devices[k].direction = "in"
    OBVIOUS
  <2>0. PICK e \in Direction : \E i \in 1..done[e] : devices[k] = DeviceOf(e, i) BY <1>6
  <2>1. PICK i \in 1..done[e] : devices[k] = DeviceOf(e, i) BY <2>0
  <2>2. devices[k].direction = e /\ devices[k].id = i - 2 BY <2>1 DEF DeviceOf
  <2>3. d = "in" => e = "in"
    <3>1. SUFFICES ASSUME d = "in", e = "out" PROVE FALSE BY DEF Direction
    <3>2. i \in 1..0 BY <3>1
    <3> QED BY <3>2
  <2> QED BY <2>2, <2>3
<1> HIDE DEF n, device, q, now, L
<1>9. 1..Len(q) = 1..L \cup {L + 1} BY <1>3
<1>10. AreUsable(q, now)
  <2> SUFFICES ASSUME NEW k \in 1..Len(q)
      PROVE \E e \in Direction : \E i \in 1..now[e] : IsUsable(e, i) /\ q[k] = DeviceOf(e, i)
    BY DEF AreUsable
  <2>1. CASE k \in 1..L
    <3>0. PICK e \in Direction : \E i \in 1..done[e] :
            IsUsable(e, i) /\ devices[k] = DeviceOf(e, i)
      BY <1>6, <2>1
    <3>1. PICK i \in 1..done[e] : IsUsable(e, i) /\ devices[k] = DeviceOf(e, i)
      BY <3>0
    <3>2. i \in 1..now[e] BY <1>4
    <3>3. q[k] = DeviceOf(e, i) BY <1>3, <2>1, <3>1
    <3> QED BY <3>1, <3>2, <3>3
  <2>2. CASE k = L + 1
    <3>1. n \in 1..now[d] BY <1>1, <1>4 DEF n
    <3>2. q[k] = DeviceOf(d, n) BY <1>3, <2>2 DEF device
    <3> QED BY <1>5, <3>1, <3>2
  <2> QED BY <1>9, <2>1, <2>2
<1>11. AreAll(q, now)
  <2> SUFFICES ASSUME NEW e \in Direction, NEW i \in 1..now[e], IsUsable(e, i)
      PROVE \E k \in 1..Len(q) : q[k] = DeviceOf(e, i)
    BY DEF AreAll
  <2>1. CASE i \in 1..done[e]
    <3>1. PICK k \in 1..L : devices[k] = DeviceOf(e, i) BY <2>1 DEF AreAll, L
    <3>2. k \in 1..Len(q) /\ q[k] = DeviceOf(e, i) BY <1>3, <1>9, <3>1
    <3> QED BY <3>2
  <2>2. CASE ~(i \in 1..done[e])
    <3>1. e = d /\ i = n
      <4>1. e = d
        <5> SUFFICES ASSUME e # d PROVE FALSE OBVIOUS
        <5>1. now[e] = done[e] BY <1>4
        <5> QED BY <2>2, <5>1
      <4>2. i \in 1..done[d] + 1 BY <1>4, <4>1
      <4> QED BY <1>4, <2>2, <4>1, <4>2
    <3>2. L + 1 \in 1..Len(q) /\ q[L + 1] = DeviceOf(e, i) BY <1>3, <3>1 DEF device
    <3> QED BY <3>2
  <2> QED BY <2>1, <2>2
<1>12. AreOrdered(q)
  <2> SUFFICES ASSUME NEW k \in 1..Len(q), NEW l \in 1..Len(q), k < l
      PROVE \/ q[k].direction = "in" /\ q[l].direction = "out"
            \/ q[k].direction = q[l].direction /\ q[k].id < q[l].id
    BY DEF AreOrdered
  <2>1. CASE l \in 1..L
    <3>1. k \in 1..L BY <1>3, <2>1
    <3>2. q[k] = devices[k] /\ q[l] = devices[l] BY <1>3, <2>1, <3>1
    <3> QED BY <2>1, <3>1, <3>2 DEF AreOrdered, L
  <2>2. CASE l = L + 1
    <3>1. k \in 1..L BY <1>3, <2>2
    <3>2. q[k] = devices[k] /\ q[l] = device BY <1>3, <2>2, <3>1
    <3>3. devices[k].direction \in {"in", "out"} BY <1>7, <3>1 DEF Direction
    <3>4. /\ devices[k].direction = d => devices[k].id < n - 2
          /\ d = "in" => devices[k].direction = "in"
      BY <1>8, <3>1
    <3>5. d \in {"in", "out"} BY DEF Direction
    <3> QED BY <1>2, <3>2, <3>3, <3>4, <3>5
  <2> QED BY <1>9, <2>1, <2>2
<1>13. AreCounted(q, [count EXCEPT ![d] = @ + 1], now)
  <2> DEFINE c == [count EXCEPT ![d] = @ + 1]
  <2>1. /\ count \in [Direction -> Nat]
        /\ \A e \in Direction : count[e] <= done[e]
        /\ L = count["in"] + count["out"]
        /\ \A k \in 1..L : devices[k].direction = "in" <=> k <= count["in"]
    BY DEF AreCounted, L
  <2>2. c \in [Direction -> Nat] /\ c[d] = count[d] + 1
        /\ \A e \in Direction : e # d => c[e] = count[e]
    BY <2>1
  <2> HIDE DEF c
  <2>3. ASSUME NEW e \in Direction PROVE c[e] <= now[e]
    <3>1. count[e] \in Nat /\ count[e] <= done[e] /\ done[e] \in Nat BY <1>4, <2>1
    <3>2. CASE e = d BY <1>4, <2>2, <3>1, <3>2
    <3>3. CASE e # d BY <1>4, <2>2, <3>1, <3>3
    <3> QED BY <3>2, <3>3
  <2>4. "in" \in Direction /\ "out" \in Direction /\ d \in {"in", "out"} BY DEF Direction
  <2>5. Len(q) = c["in"] + c["out"]
    <3>1. CASE d = "in" BY <1>3, <2>1, <2>2, <2>4, <3>1
    <3>2. CASE d = "out" BY <1>3, <2>1, <2>2, <2>4, <3>2
    <3> QED BY <2>4, <3>1, <3>2
  <2>6. ASSUME d = "in" PROVE count["out"] = 0
    <3>1. count["out"] <= 0 BY <2>1, <2>4, <2>6
    <3> QED BY <2>1, <2>4, <3>1
  <2>7. ASSUME NEW k \in 1..Len(q) PROVE q[k].direction = "in" <=> k <= c["in"]
    <3>1. CASE k \in 1..L
      <4>1. q[k].direction = "in" <=> k <= count["in"] BY <1>3, <2>1, <3>1
      <4>2. CASE d = "in"
        <5>1. L = count["in"] BY <2>1, <2>4, <2>6, <4>2
        <5>2. c["in"] = L + 1 BY <2>2, <4>2, <5>1
        <5> QED BY <3>1, <4>1, <5>1, <5>2, <1>3
      <4>3. CASE d = "out" BY <2>2, <2>4, <4>1, <4>3
      <4> QED BY <2>4, <4>2, <4>3
    <3>2. CASE k = L + 1
      <4>1. q[k].direction = d BY <1>2, <1>3, <3>2
      <4>2. CASE d = "in" BY <1>3, <2>1, <2>2, <2>4, <2>6, <3>2, <4>1, <4>2
      <4>3. CASE d = "out" BY <1>3, <2>1, <2>2, <2>4, <3>2, <4>1, <4>3
      <4> QED BY <2>4, <4>2, <4>3
    <3> QED BY <1>9, <3>1, <3>2
  <2> QED BY <2>2, <2>3, <2>5, <2>7 DEF AreCounted, c
<1> QED BY <1>3, <1>10, <1>11, <1>12, <1>13

\* A device that is listed after those of lower ID is the default of its direction if it
\* is the first or preferred.
LEMMA NextDefault ==
  ASSUME NEW devices \in Seq(HostApiDevice), NEW device \in HostApiDevice,
         NEW default, NEW d \in Direction, IsDefault(default, devices, d),
         \A k \in 1..Len(devices) :
           devices[k].direction = d /\ device.direction = d => devices[k].id < device.id
  PROVE  LET q == Append(devices, device)
             later == IF default = paNoDevice \/ device.id = system.preferred[d]
                        THEN Len(devices) ELSE default
         IN  IF device.direction = d THEN IsDefault(later, q, d) ELSE IsDefault(default, q, d)
<1> DEFINE q == Append(devices, device)
           L == Len(devices)
           later == IF default = paNoDevice \/ device.id = system.preferred[d] THEN L ELSE default
           old == IndicesOf(devices, d)
           oldPreferred == PreferredOf(devices, d)
           now == IndicesOf(q, d)
           nowPreferred == PreferredOf(q, d)
<1> SUFFICES IF device.direction = d THEN IsDefault(later, q, d) ELSE IsDefault(default, q, d)
  OBVIOUS
<1>1. /\ q \in Seq(HostApiDevice) /\ Len(q) = L + 1 /\ L \in Nat
      /\ q[L + 1] = device
      /\ \A k \in 1..L : q[k] = devices[k] /\ devices[k] \in HostApiDevice
  BY Appended
<1>2. 0..Len(q)-1 = 0..L-1 \cup {L} BY <1>1
<1>3. \A i \in 0..L-1 : i + 1 \in 1..L /\ q[i + 1] = devices[i + 1] BY <1>1
<1> HIDE DEF q, L
<1>4. /\ old = {i \in 0..L-1 : devices[i + 1].direction = d}
      /\ oldPreferred = {i \in old : devices[i + 1].id = system.preferred[d]}
      /\ now = {i \in 0..Len(q)-1 : q[i + 1].direction = d}
      /\ nowPreferred = {i \in now : q[i + 1].id = system.preferred[d]}
  BY DEF IndicesOf, PreferredOf, L
<1>5. /\ IF old = {} THEN default = paNoDevice
         ELSE default \in IF oldPreferred # {} THEN oldPreferred ELSE old
  BY DEF IsDefault
<1> HIDE DEF old, oldPreferred, now, nowPreferred
<1>6. CASE device.direction # d
  <2>1. now = old BY <1>1, <1>2, <1>3, <1>4, <1>6
  <2>2. nowPreferred = oldPreferred BY <1>3, <1>4, <2>1
  <2>3. IsDefault(default, q, d)
    BY <1>5, <2>1, <2>2 DEF IsDefault, old, oldPreferred, now, nowPreferred
  <2> QED BY <1>6, <2>3
<1>7. CASE device.direction = d
  <2>1. now = old \cup {L} BY <1>1, <1>2, <1>3, <1>4, <1>7
  <2>2. \A i \in old : q[i + 1] = devices[i + 1] /\ devices[i + 1].id < device.id
    <3> SUFFICES ASSUME NEW i \in old
        PROVE q[i + 1] = devices[i + 1] /\ devices[i + 1].id < device.id
      OBVIOUS
    <3>1. i \in 0..L-1 /\ devices[i + 1].direction = d BY <1>4
    <3>2. i + 1 \in 1..Len(devices) /\ q[i + 1] = devices[i + 1] BY <1>3, <3>1 DEF L
    <3> QED BY <1>7, <3>1, <3>2
  <2>3. \A i \in old : devices[i + 1].id \in Int
    <3>1. \A i \in old : devices[i + 1] \in HostApiDevice BY <1>1, <1>3, <1>4
    <3> QED BY <3>1 DEF HostApiDevice
  <2>4. device.id \in Int BY DEF HostApiDevice
  <2>5. IF device.id = system.preferred[d] THEN nowPreferred = {L} ELSE nowPreferred = oldPreferred
    <3>1. CASE device.id = system.preferred[d]
      <4>1. \A i \in old : q[i + 1].id # device.id BY <2>2, <2>3, <2>4
      <4>2. nowPreferred = {L} BY <1>1, <1>4, <2>1, <3>1, <4>1
      <4> QED BY <3>1, <4>2
    <3>2. CASE device.id # system.preferred[d]
      <4>1. nowPreferred = oldPreferred BY <1>1, <1>4, <2>1, <2>2, <3>2
      <4> QED BY <3>2, <4>1
    <3> QED BY <3>1, <3>2
  <2>6. old # {} => default \in old /\ default # paNoDevice
    <3>1. oldPreferred \subseteq old BY <1>4
    <3>2. old \subseteq Nat BY <1>1, <1>4
    <3>3. old # {} => default \in old BY <1>5, <3>1
    <3>4. paNoDevice \notin Nat BY DEF paNoDevice
    <3> QED BY <3>2, <3>3, <3>4
  <2>7. /\ IF now = {} THEN later = paNoDevice
           ELSE later \in IF nowPreferred # {} THEN nowPreferred ELSE now
    <3>1. CASE device.id = system.preferred[d] BY <2>1, <2>5, <3>1
    <3>2. CASE device.id # system.preferred[d] /\ old = {}
      <4>1. default = paNoDevice /\ oldPreferred = {} BY <1>4, <1>5, <3>2
      <4> QED BY <2>1, <2>5, <3>2, <4>1
    <3>3. CASE device.id # system.preferred[d] /\ old # {}
      BY <1>5, <2>1, <2>5, <2>6, <3>3
    <3> QED BY <3>1, <3>2, <3>3
  <2> HIDE DEF later
  <2>8. IsDefault(later, q, d) BY <2>7 DEF IsDefault, now, nowPreferred
  <2> QED BY <1>7, <2>8
<1> QED BY <1>6, <1>7

\* What is listed names device i of direction d next.
LEMMA NamedIsListed ==
  ASSUME NEW m, {"api"} \cup MemoryFields \subseteq DOMAIN m, NEW done \in [Direction -> Nat],
         NEW d \in Direction, d = "in" => done["out"] = 0,
         Lists(m.api, done), IsUsable(d, done[d] + 1), done[d] + 1 \in 1..WaveDeviceCount(d)
  PROVE  LET n == Named(m, WaveDevices(d)[done[d] + 1])
         IN  /\ DOMAIN n = DOMAIN m /\ n.group = m.group /\ n.blocks = m.blocks /\ n.ok = m.ok
             /\ Lists(n.api, [done EXCEPT ![d] = @ + 1])
<1> DEFINE i == done[d] + 1
           w == WaveDevices(d)[i]
           n == Named(m, w)
           api == m.api
           q == Append(api.devices, DeviceOf(d, i))
           now == [done EXCEPT ![d] = @ + 1]
           later == DefaultAfter(api, w)
<1> SUFFICES /\ DOMAIN n = DOMAIN m /\ n.group = m.group /\ n.blocks = m.blocks /\ n.ok = m.ok
             /\ Lists(n.api, now)
  OBVIOUS
<1>1. /\ w.direction = d /\ w.id = i - 2 /\ w.caps = system.caps[d][i]
      /\ w.preferred <=> system.preferred[d] = i - 2
  BY DEF WaveDevices
<1> HIDE DEF w
<1>2. DOMAIN api = ApiFields BY DEF Lists
<1>3. /\ DOMAIN n = DOMAIN m /\ n.group = m.group /\ n.blocks = m.blocks /\ n.ok = m.ok
      /\ DOMAIN n.api = ApiFields
      /\ n.api.initialized = api.initialized
      /\ n.api.maximumPossibleDeviceCount = api.maximumPossibleDeviceCount
      /\ n.api.devices = Append(api.devices, [direction |-> d, id |-> w.id])
      /\ n.api.count = [api.count EXCEPT ![d] = @ + 1]
      /\ n.api.default = [api.default EXCEPT ![d] = later]
  BY <1>1, <1>2 DEF Named, ApiFields, MemoryFields
<1> HIDE DEF n
<1>4. n.api.devices = q BY <1>1, <1>3 DEF DeviceOf
<1>5. /\ q \in Seq(HostApiDevice)
      /\ AreUsable(q, now) /\ AreAll(q, now) /\ AreOrdered(q)
      /\ AreCounted(q, n.api.count, now)
  <2>1. /\ api.devices \in Seq(HostApiDevice)
        /\ AreUsable(api.devices, done) /\ AreAll(api.devices, done) /\ AreOrdered(api.devices)
        /\ AreCounted(api.devices, api.count, done)
    BY DEF Lists
  <2> HIDE DEF api
  <2>2. /\ q \in Seq(HostApiDevice)
        /\ AreUsable(q, now) /\ AreAll(q, now) /\ AreOrdered(q)
        /\ AreCounted(q, [api.count EXCEPT ![d] = @ + 1], now)
    BY <2>1, NextIsListed, Zenon
  <2>3. n.api.count = [api.count EXCEPT ![d] = @ + 1] BY <1>3
  <2> HIDE DEF q, now, i
  <2> QED BY <2>2, <2>3, Zenon
<1>6. /\ later = IF api.default[d] = paNoDevice \/ DeviceOf(d, i).id = system.preferred[d]
                   THEN Len(api.devices) ELSE api.default[d]
      /\ DeviceOf(d, i).direction = d
  BY <1>1 DEF DefaultAfter, DeviceOf
<1> HIDE DEF later, q
<1>7. later \in Int
  <2>1. api.default[d] \in Int /\ Len(api.devices) \in Nat BY DEF Lists
  <2> QED BY <1>6, <2>1
<1>8. n.api.default \in [Direction -> Int] BY <1>3, <1>7 DEF Lists
<1>9. ASSUME NEW e \in Direction PROVE IsDefault(n.api.default[e], q, e)
  <2>1. DeviceOf(d, i) \in HostApiDevice BY DEF DeviceOf, HostApiDevice
  <2>2. \A k \in 1..Len(api.devices) :
          api.devices[k].direction = e /\ DeviceOf(d, i).direction = e
            => api.devices[k].id < DeviceOf(d, i).id
    <3> SUFFICES ASSUME NEW k \in 1..Len(api.devices), api.devices[k].direction = d
        PROVE api.devices[k].id < i - 2
      BY DEF DeviceOf
    <3>1. PICK c \in Direction : \E j \in 1..done[c] : api.devices[k] = DeviceOf(c, j)
      BY DEF Lists, AreUsable
    <3>2. PICK j \in 1..done[c] : api.devices[k] = DeviceOf(c, j) BY <3>1
    <3>3. api.devices[k].direction = c /\ api.devices[k].id = j - 2 BY <3>2 DEF DeviceOf
    <3> QED BY <3>3
  <2>3. IsDefault(api.default[e], api.devices, e) /\ api.devices \in Seq(HostApiDevice)
    BY DEF Lists
  <2> DEFINE l == IF api.default[e] = paNoDevice \/ DeviceOf(d, i).id = system.preferred[e]
                    THEN Len(api.devices) ELSE api.default[e]
  <2> HIDE DEF api, i
  <2>4. IF DeviceOf(d, i).direction = e THEN IsDefault(l, q, e)
        ELSE IsDefault(api.default[e], q, e)
    BY <2>1, <2>2, <2>3, NextDefault DEF q
  <2>5. CASE e = d
    <3>1. n.api.default[e] = later BY <1>3, <2>5 DEF Lists, api
    <3>2. l = later BY <1>6, <2>5
    <3> QED BY <1>6, <2>4, <2>5, <3>1, <3>2
  <2>6. CASE e # d
    <3>1. n.api.default[e] = api.default[e] BY <1>3, <2>6 DEF Lists, api
    <3> QED BY <1>6, <2>4, <2>6, <3>1
  <2> QED BY <2>5, <2>6
<1>10. Lists(n.api, now)
  <2>1. api.initialized = TRUE
        /\ api.maximumPossibleDeviceCount = WaveDeviceCount("in") + WaveDeviceCount("out")
    BY DEF Lists
  <2> HIDE DEF now, api
  <2> QED BY <1>3, <1>4, <1>5, <1>8, <1>9, <2>1 DEF Lists
<1> QED BY <1>3, <1>10

Adding == INSTANCE NumberTheorems WITH Step <- AddDevice

\* The host API m being enumerated: its group accounts for the memory, and the devices
\* asked for so far are listed, unless one of the steps has failed.
Enumerated(m, done) ==
  /\ HasGroup(m) /\ "api" \in DOMAIN m
  /\ m.ok => Lists(m.api, done)

\* A device that is not usable is not listed.
LEMMA NotListed ==
  ASSUME NEW api, NEW done \in [Direction -> Nat], Lists(api, done),
         NEW d \in Direction, ~IsUsable(d, done[d] + 1)
  PROVE  Lists(api, [done EXCEPT ![d] = @ + 1])
<1> DEFINE now == [done EXCEPT ![d] = @ + 1]
<1>1. /\ now[d] = done[d] + 1
      /\ \A e \in Direction : e # d => now[e] = done[e]
      /\ \A e \in Direction : done[e] \in Nat
  OBVIOUS
<1> HIDE DEF now
<1>2. ASSUME NEW e \in Direction, NEW i, IsUsable(e, i)
      PROVE  i \in 1..now[e] <=> i \in 1..done[e]
  <2>1. CASE e = d
    <3>1. i # done[d] + 1 BY <1>2, <2>1
    <3> QED BY <1>1, <2>1, <3>1
  <2>2. CASE e # d BY <1>1, <2>2
  <2> QED BY <2>1, <2>2
<1>3. AreUsable(api.devices, now)
  <2> SUFFICES ASSUME NEW k \in 1..Len(api.devices)
      PROVE \E e \in Direction : \E i \in 1..now[e] : IsUsable(e, i) /\ api.devices[k] = DeviceOf(e, i)
    BY DEF AreUsable
  <2>1. PICK e \in Direction : \E i \in 1..done[e] :
          IsUsable(e, i) /\ api.devices[k] = DeviceOf(e, i)
    BY DEF Lists, AreUsable
  <2>2. PICK i \in 1..done[e] : IsUsable(e, i) /\ api.devices[k] = DeviceOf(e, i) BY <2>1
  <2>3. i \in 1..now[e] BY <1>2, <2>2
  <2> QED BY <2>2, <2>3
<1>4. AreAll(api.devices, now) BY <1>2 DEF Lists, AreAll
<1>5. AreCounted(api.devices, api.count, now)
  <2>1. AreCounted(api.devices, api.count, done) BY DEF Lists
  <2>2. ASSUME NEW e \in Direction PROVE api.count[e] <= now[e]
    <3>1. api.count[e] \in Nat /\ api.count[e] <= done[e] BY <2>1 DEF AreCounted
    <3>2. done[e] \in Nat /\ (now[e] = done[e] \/ now[e] = done[e] + 1) BY <1>1
    <3> QED BY <3>1, <3>2
  <2> QED BY <2>1, <2>2 DEF AreCounted
<1> QED BY <1>3, <1>4, <1>5 DEF Lists, now

\* AddDevice for the next device of direction d.
LEMMA DeviceAdded ==
  ASSUME NEW m, NEW done \in [Direction -> Nat], Enumerated(m, done),
         NEW d \in Direction, d = "in" => done["out"] = 0,
         done[d] + 1 \in 1..WaveDeviceCount(d), system.caps[d] \in Seq(Capabilities)
  PROVE  Enumerated(AddDevice(m, WaveDevices(d)[done[d] + 1]), [done EXCEPT ![d] = @ + 1])
<1> DEFINE i == done[d] + 1
           w == WaveDevices(d)[i]
           now == [done EXCEPT ![d] = @ + 1]
           stuck == [m EXCEPT !.ok = FALSE]
           n == GroupAllocateMemory(m)
           r == Named(n, w)
<1> SUFFICES Enumerated(AddDevice(m, w), now) OBVIOUS
<1>1. w.caps = system.caps[d][i] /\ w.caps \in Capabilities BY DEF WaveDevices, WaveDeviceCount
<1>2. AddDevice(m, w) = IF ~m.ok \/ w.caps = "ignored" THEN m
                        ELSE IF w.caps = "MMSYSERR_NOMEM" THEN stuck
                        ELSE IF n.ok THEN r ELSE n
  <2>1. m.ok \in BOOLEAN BY DEF Enumerated, HasGroup
  <2>2. w.caps \in {"ok", "ignored", "MMSYSERR_NOMEM"} BY <1>1 DEF Capabilities
  <2> HIDE DEF w, n, stuck
  <2>3. CASE ~m.ok \/ w.caps = "ignored" BY <2>3 DEF AddDevice
  <2>4. CASE m.ok /\ w.caps = "MMSYSERR_NOMEM" BY <2>4 DEF AddDevice, stuck
  <2>5. CASE m.ok /\ w.caps = "ok" BY <2>5 DEF AddDevice, Then, n
  <2> QED BY <2>1, <2>2, <2>3, <2>4, <2>5
<1>3. HasGroup(m) /\ "api" \in DOMAIN m /\ (m.ok => Lists(m.api, done)) BY DEF Enumerated
<1>4. HasGroup(n) /\ SameApi(m, n) BY <1>3, GroupAllocated
<1>5. "api" \in DOMAIN n /\ n.api = m.api BY <1>3, <1>4 DEF SameApi
<1>6. CASE ~m.ok \/ w.caps = "ignored"
  <2>1. w.caps = "ignored" => ~IsUsable(d, i) BY <1>1 DEF IsUsable
  <2>2. m.ok => Lists(m.api, now)
    <3> SUFFICES ASSUME m.ok PROVE Lists(m.api, now) OBVIOUS
    <3>1. ~IsUsable(d, i) BY <1>6, <2>1
    <3> QED BY <1>3, <3>1, NotListed, Zenon
  <2>3. AddDevice(m, w) = m BY <1>2, <1>6
  <2> HIDE DEF now, w
  <2> QED BY <1>3, <2>2, <2>3 DEF Enumerated
<1>7. CASE m.ok /\ w.caps = "MMSYSERR_NOMEM"
  <2>1. AddDevice(m, w) = stuck BY <1>2, <1>7
  <2>2. /\ DOMAIN stuck = DOMAIN m /\ stuck.ok = FALSE /\ stuck.group = m.group
        /\ stuck.blocks = m.blocks
    BY <1>3 DEF HasGroup, MemoryFields
  <2> HIDE DEF stuck, now, w
  <2>3. HasGroup(stuck) BY <1>3, <2>2 DEF HasGroup, LinksAreConserved
  <2>4. Enumerated(stuck, now) BY <1>3, <2>2, <2>3 DEF Enumerated
  <2> QED BY <2>1, <2>4
<1>8. CASE m.ok /\ w.caps = "ok" /\ ~n.ok
  <2>1. AddDevice(m, w) = n BY <1>2, <1>8
  <2> HIDE DEF now, w, n
  <2>2. Enumerated(n, now) BY <1>4, <1>5, <1>8 DEF Enumerated
  <2> QED BY <2>1, <2>2
<1>9. CASE m.ok /\ w.caps = "ok" /\ n.ok
  <2>1. AddDevice(m, w) = r BY <1>2, <1>9
  <2>2. IsUsable(d, i) BY <1>1, <1>9 DEF IsUsable
  <2>3. {"api"} \cup MemoryFields \subseteq DOMAIN n BY <1>4, <1>5 DEF HasGroup
  <2>4. Lists(n.api, done) BY <1>3, <1>5, <1>9
  <2> HIDE DEF n
  <2>5. /\ DOMAIN r = DOMAIN n /\ r.group = n.group /\ r.blocks = n.blocks /\ r.ok = n.ok
        /\ Lists(r.api, now)
    BY <2>2, <2>3, <2>4, NamedIsListed, Zenon
  <2> HIDE DEF r, now, w
  <2>6. HasGroup(r) BY <1>4, <2>5 DEF HasGroup, LinksAreConserved
  <2>7. Enumerated(r, now) BY <1>5, <2>5, <2>6 DEF Enumerated
  <2> QED BY <2>1, <2>7
<1> QED BY <1>1, <1>2, <1>6, <1>7, <1>8, <1>9 DEF Capabilities

\* All devices of a direction.
LEMMA DevicesAdded ==
  ASSUME NEW m, NEW done \in [Direction -> Nat], Enumerated(m, done),
         NEW d \in Direction, d = "in" => done["out"] = 0, done[d] = 0,
         system.caps[d] \in Seq(Capabilities)
  PROVE  Enumerated(AddDevices(m, d), [done EXCEPT ![d] = WaveDeviceCount(d)])
<1> DEFINE count == WaveDeviceCount(d)
           list == WaveDevices(d)
           At(k) == [done EXCEPT ![d] = k]
<1>1. count \in Nat /\ Len(list) = count /\ DOMAIN list = 1..count
  BY DEF WaveDeviceCount, WaveDevices
<1>2. PICK g : Adding!IsChain(g, m, list) /\ Adding!Folded(m, list) = g[Len(list)]
  <2>1. Len(list) \in Nat /\ DOMAIN list = 1..Len(list) BY <1>1
  <2> HIDE DEF list
  <2> QED BY <2>1, Adding!FoldIsChain, Zenon
<1>3. g[0] = m /\ \A k \in 1..count : g[k] = AddDevice(g[k-1], list[k])
  BY <1>1, <1>2 DEF Adding!IsChain
<1> HIDE DEF count, list
<1>8. FoldLeft(AddDevice, m, list) = Adding!Folded(m, list)
  BY DEF Adding!Folded, FoldLeft, MapThenFoldSet, Adding!FoldLeft, Adding!MapThenFoldSet,
         Max, Adding!Max
<1>4. AddDevices(m, d) = g[count]
  <2>1. AddDevices(m, d) = FoldLeft(AddDevice, m, list) BY DEF AddDevices, list
  <2> QED BY <1>1, <1>2, <1>8, <2>1
<1> DEFINE K == {k \in Nat : k <= count => Enumerated(g[k], At(k))}
<1>5. 0 \in K
  <2>1. At(0) = done OBVIOUS
  <2> HIDE DEF At
  <2> QED BY <1>3, <2>1
<1>6. ASSUME NEW k \in Nat, k \in K PROVE k + 1 \in K
  <2> SUFFICES ASSUME k + 1 <= count PROVE Enumerated(g[k + 1], At(k + 1)) OBVIOUS
  <2>1. Enumerated(g[k], At(k)) BY <1>1, <1>6
  <2>2. /\ At(k) \in [Direction -> Nat] /\ At(k)[d] = k
        /\ d = "in" => At(k)["out"] = 0
        /\ [At(k) EXCEPT ![d] = @ + 1] = At(k + 1)
    BY DEF Direction
  <2>3. g[k + 1] = AddDevice(g[k], list[k + 1])
    <3>1. k + 1 \in 1..count /\ (k + 1) - 1 = k BY <1>1
    <3> QED BY <1>3, <3>1
  <2>4. k + 1 \in 1..WaveDeviceCount(d) BY <1>1 DEF count
  <2> HIDE DEF At, K
  <2>5. Enumerated(AddDevice(g[k], WaveDevices(d)[At(k)[d] + 1]), [At(k) EXCEPT ![d] = @ + 1])
    <3>1. At(k)[d] + 1 \in 1..WaveDeviceCount(d) BY <2>2, <2>4
    <3> QED BY <2>1, <2>2, <3>1, DeviceAdded, Zenon
  <2> QED BY <2>2, <2>3, <2>5 DEF list
<1>7. count \in K
  <2> HIDE DEF K
  <2> QED BY <1>1, <1>5, <1>6, SetInduction
<1> QED BY <1>1, <1>4, <1>7 DEF count

-----------------------------------------------------------------------------
(* Starting a host API.                                                    *)

\* After a failure no device is added.
LEMMA FailedStays ==
  ASSUME NEW m, ~m.ok, NEW d \in Direction, WaveDeviceCount(d) \in Nat
  PROVE  AddDevices(m, d) = m
<1> DEFINE count == WaveDeviceCount(d)
           list == WaveDevices(d)
<1>1. count \in Nat /\ Len(list) = count /\ DOMAIN list = 1..count
  BY DEF WaveDeviceCount, WaveDevices
<1>2. PICK g : Adding!IsChain(g, m, list) /\ Adding!Folded(m, list) = g[Len(list)]
  <2>1. Len(list) \in Nat /\ DOMAIN list = 1..Len(list) BY <1>1
  <2> HIDE DEF list
  <2> QED BY <2>1, Adding!FoldIsChain, Zenon
<1>3. g[0] = m /\ \A k \in 1..count : g[k] = AddDevice(g[k-1], list[k])
  BY <1>1, <1>2 DEF Adding!IsChain
<1> HIDE DEF count, list
<1>4. FoldLeft(AddDevice, m, list) = Adding!Folded(m, list)
  BY DEF Adding!Folded, FoldLeft, MapThenFoldSet, Adding!FoldLeft, Adding!MapThenFoldSet,
         Max, Adding!Max
<1>5. AddDevices(m, d) = g[count]
  <2>1. AddDevices(m, d) = FoldLeft(AddDevice, m, list) BY DEF AddDevices, list
  <2> QED BY <1>1, <1>2, <1>4, <2>1
<1> DEFINE K == {k \in Nat : k <= count => g[k] = m}
<1>6. 0 \in K BY <1>3
<1>7. ASSUME NEW k \in Nat, k \in K PROVE k + 1 \in K
  <2> SUFFICES ASSUME k + 1 <= count PROVE g[k + 1] = m OBVIOUS
  <2>1. g[k] = m BY <1>1, <1>7
  <2>2. k + 1 \in 1..count /\ (k + 1) - 1 = k BY <1>1
  <2>3. g[k + 1] = AddDevice(m, list[k + 1]) BY <1>3, <2>1, <2>2
  <2> QED BY <2>3 DEF AddDevice
<1>8. count \in K
  <2> HIDE DEF K
  <2> QED BY <1>1, <1>6, <1>7, SetInduction
<1> QED BY <1>1, <1>5, <1>8

Full == [d \in Direction |-> WaveDeviceCount(d)]

\* The devices are listed, and the recommended ones have become defaults.
IsFinished(api) ==
  \E base :
    /\ Lists(base, Full)
    /\ DOMAIN api = ApiFields
    /\ \A x \in ApiFields \ {"default"} : api[x] = base[x]
    /\ api.default = [d \in Direction |->
                        IF IsRecommended(base, d) THEN system.recommended[d] ELSE base.default[d]]

\* A host API that has its memory as started, or none.
IsStarted(m) ==
  /\ m.ok \in BOOLEAN
  /\ IF m.ok THEN HasGroup(m) /\ IsFinished(m.api) ELSE HasGroup(m) \/ HasNoGroup(m)

\* One of the arrays of the host API.
LEMMA ArrayAllocated ==
  ASSUME NEW m, NEW done, Enumerated(m, done)
  PROVE  Enumerated(Then(m, GroupAllocateMemory), done)
<1> DEFINE n == GroupAllocateMemory(m)
<1>1. HasGroup(n) /\ SameApi(m, n) BY GroupAllocated DEF Enumerated
<1>2. Then(m, GroupAllocateMemory) = IF m.ok THEN n ELSE m BY DEF Then
<1> HIDE DEF n
<1>3. "api" \in DOMAIN n /\ n.api = m.api BY <1>1 DEF Enumerated, SameApi
<1>4. CASE m.ok
  <2>1. Enumerated(n, done) BY <1>1, <1>3, <1>4 DEF Enumerated
  <2> QED BY <1>2, <1>4, <2>1
<1>5. CASE ~m.ok BY <1>2, <1>5
<1> QED BY <1>4, <1>5

LEMMA RecommendedAreDefault ==
  ASSUME NEW m, Enumerated(m, Full)
  PROVE  IsStarted(Then(m, InitializeDefaultDeviceIdsFromEnv))
<1> DEFINE n == InitializeDefaultDeviceIdsFromEnv(m)
           api == m.api
<1>1. Then(m, InitializeDefaultDeviceIdsFromEnv) = IF m.ok THEN n ELSE m BY DEF Then
<1>2. HasGroup(m) /\ "api" \in DOMAIN m /\ m.ok \in BOOLEAN BY DEF Enumerated, HasGroup
<1>3. CASE ~m.ok BY <1>1, <1>2, <1>3 DEF IsStarted
<1>4. CASE m.ok
  <2>1. Lists(api, Full) BY <1>4 DEF Enumerated
  <2>2. DOMAIN api = ApiFields BY <2>1 DEF Lists
  <2>3. /\ DOMAIN n = DOMAIN m /\ n.group = m.group /\ n.blocks = m.blocks /\ n.ok = m.ok
        /\ DOMAIN n.api = ApiFields
        /\ n.api.initialized = api.initialized /\ n.api.devices = api.devices
        /\ n.api.maximumPossibleDeviceCount = api.maximumPossibleDeviceCount
        /\ n.api.count = api.count
        /\ n.api.default = [d \in Direction |->
             IF IsRecommended(api, d) THEN system.recommended[d] ELSE api.default[d]]
    BY <1>2, <2>2 DEF InitializeDefaultDeviceIdsFromEnv, ApiFields, HasGroup, MemoryFields
  <2> HIDE DEF n, api
  <2>4. \A x \in ApiFields \ {"default"} : n.api[x] = api[x] BY <2>3 DEF ApiFields
  <2>5. IsFinished(n.api) BY <2>1, <2>3, <2>4 DEF IsFinished
  <2>6. HasGroup(n) BY <1>2, <2>3 DEF HasGroup, LinksAreConserved
  <2>7. IsStarted(n) BY <1>4, <2>3, <2>5, <2>6 DEF IsStarted
  <2> QED BY <1>1, <1>4, <2>7
<1> QED BY <1>2, <1>3, <1>4

\* A host API that has listed nothing yet.
LEMMA NothingListed ==
  ASSUME NEW max, max = WaveDeviceCount("in") + WaveDeviceCount("out")
  PROVE  Lists([NoHostApi EXCEPT !.initialized = TRUE, !.maximumPossibleDeviceCount = max],
               [d \in Direction |-> 0])
<1> DEFINE api == [NoHostApi EXCEPT !.initialized = TRUE, !.maximumPossibleDeviceCount = max]
           none == [d \in Direction |-> 0]
<1>1. /\ DOMAIN api = ApiFields /\ api.initialized = TRUE
      /\ api.maximumPossibleDeviceCount = max
      /\ api.devices = <<>> /\ api.count = none
      /\ api.default = [d \in Direction |-> paNoDevice]
  BY DEF NoHostApi, ApiFields
<1>2. /\ Len(api.devices) = 0 /\ 1..0 = {} /\ 0..0-1 = {}
      /\ api.devices \in Seq(HostApiDevice)
  <2>1. Len(<<>>) = 0 /\ <<>> \in Seq(HostApiDevice) OBVIOUS
  <2>2. 1..0 = {} /\ 0..0-1 = {} OBVIOUS
  <2> HIDE DEF api
  <2> QED BY <1>1, <2>1, <2>2
<1> HIDE DEF api
<1>3. AreUsable(api.devices, none) /\ AreOrdered(api.devices) BY <1>2 DEF AreUsable, AreOrdered
<1>4. AreAll(api.devices, none)
  <2>1. \A d \in Direction : 1..none[d] = {} BY <1>2
  <2> QED BY <2>1 DEF AreAll
<1>5. AreCounted(api.devices, api.count, none)
  BY <1>1, <1>2 DEF AreCounted, Direction
<1>6. ASSUME NEW d \in Direction PROVE IsDefault(api.default[d], api.devices, d)
  <2>1. IndicesOf(api.devices, d) = {} BY <1>2 DEF IndicesOf
  <2>2. api.default[d] = paNoDevice BY <1>1
  <2> QED BY <2>1, <2>2 DEF IsDefault
<1>7. api.default \in [Direction -> Int] BY <1>1 DEF paNoDevice
<1> QED BY <1>1, <1>2, <1>3, <1>4, <1>5, <1>6, <1>7 DEF Lists, api

\* PaWinMme_Initialize, whichever of its allocations fails.
LEMMA InitializeStarts ==
  ASSUME system \in Systems, NEW fault
  PROVE  IsStarted(PaWinMme_Initialize(fault))
<1> DEFINE count == WaveDeviceCount("in") + WaveDeviceCount("out")
           api == [NoHostApi EXCEPT !.initialized = TRUE, !.maximumPossibleDeviceCount = count]
           none == [blocks |-> 0, group |-> NoGroup, calls |-> 0, fault |-> fault, ok |-> TRUE,
                    api |-> api]
           m == Then(Allocate(none), CreateAllocationGroup)
           arrays == DeviceArrays(m)
           inputs == AddDevices(arrays, "in")
           both == AddDevices(inputs, "out")
           devices == IF count = 0 THEN m ELSE both
           zero == [d \in Direction |-> 0]
           half == [zero EXCEPT !["in"] = WaveDeviceCount("in")]
<1>1. PaWinMme_Initialize(fault) = Then(devices, InitializeDefaultDeviceIdsFromEnv)
  BY DEF PaWinMme_Initialize
<1>2. \A d \in Direction : system.caps[d] \in Seq(Capabilities) /\ WaveDeviceCount(d) \in Nat
  BY HostApiAssumption DEF WaveDeviceCount
<1>3. "in" \in Direction /\ "out" \in Direction BY DEF Direction
<1>4. Lists(api, zero) BY NothingListed
<1>5. /\ {"api"} \cup MemoryFields \subseteq DOMAIN none /\ none.group = NoGroup
      /\ none.blocks = 0 /\ none.ok /\ none.api = api
  BY DEF MemoryFields
<1> HIDE DEF api, none
<1>6. /\ SameApi(none, m)
      /\ IF m.ok THEN HasGroup(m) ELSE HasNoGroup(m)
  BY <1>5, GroupCreated, Zenon
<1>7. "api" \in DOMAIN m /\ m.api = api BY <1>5, <1>6 DEF SameApi
<1>8. m.ok \in BOOLEAN BY <1>6 DEF HasGroup, HasNoGroup
<1> HIDE DEF m
<1>9. CASE ~m.ok
  <2>1. arrays = m BY <1>9 DEF DeviceArrays, Then
  <2>2. inputs = m BY <1>2, <1>3, <1>9, <2>1, FailedStays
  <2>3. both = m BY <1>2, <1>3, <1>9, <2>2, FailedStays
  <2> HIDE DEF both
  <2>4. devices = m BY <2>3
  <2>5. PaWinMme_Initialize(fault) = m BY <1>1, <1>9, <2>4 DEF Then
  <2> QED BY <1>6, <1>8, <1>9, <2>5 DEF IsStarted
<1>10. CASE m.ok
  <2>1. Enumerated(m, zero) BY <1>4, <1>6, <1>7, <1>10 DEF Enumerated
  <2>2. zero \in [Direction -> Nat] /\ half \in [Direction -> Nat]
        /\ zero["in"] = 0 /\ zero["out"] = 0 /\ half["out"] = 0
        /\ [half EXCEPT !["out"] = WaveDeviceCount("out")] = Full
    BY <1>2, <1>3 DEF Full, Direction
  <2>3. Enumerated(arrays, zero)
    <3> HIDE DEF zero
    <3> QED BY <2>1, ArrayAllocated, Zenon DEF DeviceArrays
  <2> HIDE DEF arrays, zero
  <2>4. Enumerated(inputs, half)
    BY <1>2, <1>3, <2>2, <2>3, DevicesAdded, Zenon
  <2> HIDE DEF inputs, half
  <2>5. Enumerated(both, [half EXCEPT !["out"] = WaveDeviceCount("out")])
    <3>1. "out" # "in" OBVIOUS
    <3> QED BY <1>2, <1>3, <2>2, <2>4, <3>1, DevicesAdded, Zenon
  <2>6. Enumerated(both, Full) BY <2>2, <2>5
  <2> HIDE DEF both
  <2>7. count = 0 => zero = Full
    <3> SUFFICES ASSUME count = 0 PROVE zero = Full OBVIOUS
    <3>1. \A d \in Direction : WaveDeviceCount(d) = 0 BY <1>2, <1>3 DEF Direction
    <3> QED BY <3>1 DEF Full, zero
  <2>8. Enumerated(devices, Full)
    <3> HIDE DEF count
    <3> QED BY <2>1, <2>6, <2>7
  <2> HIDE DEF devices
  <2> QED BY <1>1, <2>8, RecommendedAreDefault
<1> QED BY <1>8, <1>9, <1>10

-----------------------------------------------------------------------------
(* The host API while streams are opened and closed.                       *)

\* The host API has what it needs, if it has started, or nothing.
HostInv ==
  /\ system \in Systems
  /\ memory.ok /\ crashed \in BOOLEAN
  /\ IF hostApi.initialized THEN HasGroup(memory) /\ IsFinished(hostApi)
     ELSE hostApi = NoHostApi /\ memory.group = NoGroup /\ memory.blocks = 0

\* A list is as right in the next state as the system is the same.
LEMMA FinishedStays ==
  ASSUME UNCHANGED system, NEW api, IsFinished(api), hostApi' = api
  PROVE  IsFinished(hostApi)'
<1>1. Full' = Full BY DEF Full, WaveDeviceCount
<1>2. ASSUME NEW base PROVE Lists(base, Full)' <=> Lists(base, Full)
  <2>1. AreUsable(base.devices, Full)' <=> AreUsable(base.devices, Full)
    BY <1>1 DEF AreUsable, IsUsable
  <2>2. AreAll(base.devices, Full)' <=> AreAll(base.devices, Full)
    BY <1>1 DEF AreAll, IsUsable
  <2>3. AreCounted(base.devices, base.count, Full)' <=> AreCounted(base.devices, base.count, Full)
    BY <1>1 DEF AreCounted
  <2>4. ASSUME NEW d \in Direction
        PROVE  IsDefault(base.default[d], base.devices, d)'
                 <=> IsDefault(base.default[d], base.devices, d)
    <3>1. PreferredOf(base.devices, d)' = PreferredOf(base.devices, d)
      BY DEF PreferredOf, IndicesOf
    <3>2. IndicesOf(base.devices, d)' = IndicesOf(base.devices, d)
      BY DEF IndicesOf
    <3> QED BY <3>1, <3>2 DEF IsDefault
  <2>5. (WaveDeviceCount("in") + WaveDeviceCount("out"))' = WaveDeviceCount("in") + WaveDeviceCount("out")
    BY DEF WaveDeviceCount
  <2>6. AreOrdered(base.devices)' <=> AreOrdered(base.devices) BY DEF AreOrdered
  <2> QED BY <2>1, <2>2, <2>3, <2>4, <2>5, <2>6 DEF Lists
<1>3. PICK base :
        /\ Lists(base, Full)
        /\ DOMAIN api = ApiFields
        /\ \A x \in ApiFields \ {"default"} : api[x] = base[x]
        /\ api.default = [d \in Direction |->
             IF IsRecommended(base, d) THEN system.recommended[d] ELSE base.default[d]]
  BY DEF IsFinished
<1>4. Lists(base, Full)' BY <1>2, <1>3
<1>5. \A d \in Direction : IsRecommended(base, d)' <=> IsRecommended(base, d)
  BY DEF IsRecommended
<1>6. hostApi'.default = [d \in Direction |->
        IF IsRecommended(base, d) THEN system.recommended[d] ELSE base.default[d]]'
  BY <1>3, <1>5
<1> QED BY <1>3, <1>4, <1>6 DEF IsFinished

\* HostInv holds: only starting and terminating change the host API.
LEMMA HostInvHolds == Spec => []HostInv
<1>1. OpenInit => HostInv
  <2> SUFFICES ASSUME OpenInit PROVE HostInv OBVIOUS
  <2>1. /\ system \in Systems /\ hostApi = NoHostApi /\ memory = Memory(0, 0)
        /\ crashed = FALSE
    BY DEF OpenInit, HostApiInit
  <2>2. memory.ok = TRUE /\ memory.group = NoGroup /\ memory.blocks = 0 BY <2>1 DEF Memory
  <2>3. hostApi.initialized = FALSE BY <2>1 DEF NoHostApi
  <2> QED BY <2>1, <2>2, <2>3 DEF HostInv
<1>2. HostApiAssumption /\ HostInv /\ [Next]_openVars => HostInv'
  <2> SUFFICES ASSUME HostApiAssumption, HostInv, [Next]_openVars PROVE HostInv' OBVIOUS
  <2>1. ASSUME UNCHANGED <<system, hostApi, memory>>, crashed' \in BOOLEAN PROVE HostInv'
    <3>1. CASE hostApi.initialized
      <4>1. HasGroup(memory) /\ IsFinished(hostApi) BY <3>1 DEF HostInv
      <4>2. HasGroup(memory)' BY <2>1, <4>1 DEF HasGroup, LinksAreConserved
      <4>3. IsFinished(hostApi)' BY <2>1, <4>1, FinishedStays
      <4> QED BY <2>1, <3>1, <4>2, <4>3 DEF HostInv
    <3>2. CASE ~hostApi.initialized BY <2>1, <3>2 DEF HostInv
    <3> QED BY <3>1, <3>2
  <2>2. CASE UNCHANGED openVars BY <2>1, <2>2 DEF openVars, HostInv
  <2>3. ASSUME NEW fault, InitializeHostApi(fault), UNCHANGED crashed PROVE HostInv'
    <3> DEFINE m == PaWinMme_Initialize(fault)
               kept == [blocks |-> m.blocks, group |-> m.group, calls |-> 0, fault |-> 0,
                        ok |-> TRUE]
    <3>1. /\ hostApi' = IF m.ok THEN m.api ELSE NoHostApi
          /\ memory' = IF m.ok THEN kept ELSE FreeHostApi(kept)
          /\ system' = system
      BY <2>3 DEF InitializeHostApi
    <3>2. system \in Systems /\ crashed \in BOOLEAN BY DEF HostInv
    <3>3. IsStarted(m) BY <3>2, InitializeStarts
    <3>4. /\ MemoryFields \subseteq DOMAIN kept /\ kept.ok = TRUE
          /\ kept.group = m.group /\ kept.blocks = m.blocks
      BY DEF MemoryFields
    <3> HIDE DEF m, kept
    <3>5. CASE m.ok
      <4>1. HasGroup(m) /\ IsFinished(m.api) BY <3>3, <3>5 DEF IsStarted
      <4>2. HasGroup(kept) BY <3>4, <4>1 DEF HasGroup, LinksAreConserved
      <4>3. hostApi' = m.api /\ memory' = kept BY <3>1, <3>5
      <4>4. hostApi'.initialized = TRUE BY <4>1, <4>3 DEF IsFinished, Lists, ApiFields
      <4>5. HasGroup(memory)' BY <4>2, <4>3 DEF HasGroup, LinksAreConserved
      <4>6. IsFinished(hostApi)' BY <3>1, <4>1, <4>3, FinishedStays
      <4> QED BY <2>3, <3>1, <3>2, <3>4, <4>1, <4>3, <4>4, <4>5, <4>6 DEF HostInv
    <3>6. CASE ~m.ok
      <4>1. HasGroup(m) \/ HasNoGroup(m) BY <3>3, <3>6 DEF IsStarted
      <4>2. HasGroup(kept) \/ HasNoGroup(kept)
        BY <3>4, <4>1 DEF HasGroup, HasNoGroup, LinksAreConserved
      <4>3. hostApi' = NoHostApi /\ memory' = FreeHostApi(kept) BY <3>1, <3>6
      <4>4. memory'.blocks = 0 /\ memory'.group = NoGroup /\ memory'.ok = kept.ok
        BY <4>2, <4>3, AllIsFreed
      <4>5. hostApi'.initialized = FALSE BY <4>3 DEF NoHostApi
      <4> QED BY <2>3, <3>1, <3>2, <3>4, <4>3, <4>4, <4>5 DEF HostInv
    <3> QED BY <3>3, <3>5, <3>6 DEF IsStarted
  <2>4. ASSUME TerminateHostApi, UNCHANGED crashed PROVE HostInv'
    <3>1. /\ hostApi.initialized /\ hostApi' = NoHostApi /\ system' = system
          /\ memory' = FreeHostApi(memory)
      BY <2>4 DEF TerminateHostApi
    <3>2. HasGroup(memory) /\ memory.ok /\ crashed \in BOOLEAN /\ system \in Systems
      BY <3>1 DEF HostInv
    <3>3. memory'.blocks = 0 /\ memory'.group = NoGroup /\ memory'.ok = memory.ok
      BY <3>1, <3>2, AllIsFreed
    <3>4. hostApi'.initialized = FALSE BY <3>1 DEF NoHostApi
    <3> QED BY <2>4, <3>1, <3>2, <3>3, <3>4 DEF HostInv
  <2>5. ASSUME NEW r \in Requests, OpenStream(r) PROVE HostInv'
    <3>1. UNCHANGED <<system, hostApi, memory>> /\ (crashed' = TRUE \/ UNCHANGED crashed)
      BY <2>5 DEF OpenStream
    <3> QED BY <2>1, <3>1 DEF HostInv
  <2>6. CASE CloseStream BY <2>1, <2>6 DEF CloseStream, HostInv
  <2> QED BY <2>2, <2>3, <2>4, <2>5, <2>6 DEF Next
<1> QED BY <1>1, <1>2, HostApiAssumption, PTL DEF Spec

\* The devices of the system, as WaveDevices gives them.
LEMMA DevicesOfSystem ==
  ASSUME \A d \in Direction : WaveDeviceCount(d) \in Nat
  PROVE  \A x : x \in ToSet(WaveDevices("in")) \cup ToSet(WaveDevices("out")) <=>
                \E d \in Direction : \E i \in 1..WaveDeviceCount(d) : x = WaveDevices(d)[i]
<1>1. \A d \in Direction : DOMAIN WaveDevices(d) = 1..WaveDeviceCount(d) BY DEF WaveDevices
<1>2. \A d \in Direction : ToSet(WaveDevices(d)) = {WaveDevices(d)[i] : i \in 1..WaveDeviceCount(d)}
  BY <1>1 DEF ToSet
<1> QED BY <1>2 DEF Direction

\* What the listed devices are, as the properties say it.
LEMMA FinishedIsRight ==
  ASSUME HostApiAssumption, HostInv, hostApi.initialized
  PROVE  /\ hostApi.devices \in Seq([direction : Direction, id : Int])
         /\ hostApi.count \in [Direction -> Nat]
         /\ hostApi.default \in [Direction -> Int]
         /\ DevicesAreThoseOfTheSystem
         /\ DefaultsAreUsable
<1>1. PICK base :
        /\ Lists(base, Full)
        /\ DOMAIN hostApi = ApiFields
        /\ \A x \in ApiFields \ {"default"} : hostApi[x] = base[x]
        /\ hostApi.default = [d \in Direction |->
             IF IsRecommended(base, d) THEN system.recommended[d] ELSE base.default[d]]
  BY DEF HostInv, IsFinished
<1>2. /\ hostApi.devices = base.devices /\ hostApi.count = base.count
      /\ hostApi.maximumPossibleDeviceCount = base.maximumPossibleDeviceCount
  BY <1>1 DEF ApiFields
<1>3. \A d \in Direction : /\ system.recommended[d] \in Int
                           /\ WaveDeviceCount(d) \in Nat /\ Full[d] = WaveDeviceCount(d)
  BY DEF HostApiAssumption, HostInv, WaveDeviceCount, Full
<1> DEFINE devices == base.devices
           count == base.count
<1>4. /\ devices \in Seq(HostApiDevice)
      /\ AreUsable(devices, Full) /\ AreAll(devices, Full) /\ AreOrdered(devices)
      /\ AreCounted(devices, count, Full)
      /\ base.default \in [Direction -> Int]
      /\ \A d \in Direction : IsDefault(base.default[d], devices, d)
      /\ base.maximumPossibleDeviceCount = WaveDeviceCount("in") + WaveDeviceCount("out")
  BY <1>1 DEF Lists
<1> HIDE DEF devices, count
<1>5. Len(devices) \in Nat /\ DOMAIN devices = 1..Len(devices) BY <1>4
<1>6. hostApi.default \in [Direction -> Int] BY <1>1, <1>3, <1>4
<1>7. DevicesAreThoseOfTheSystem
  <2> DEFINE given == ToSet(WaveDevices("in")) \cup ToSet(WaveDevices("out"))
             usable == {x \in given : x.caps = "ok"}
             AsDevice(x) == [direction |-> x.direction, id |-> x.id]
  <2>1. \A x : x \in given <=>
          \E d \in Direction : \E i \in 1..WaveDeviceCount(d) : x = WaveDevices(d)[i]
    BY <1>3, DevicesOfSystem
  <2>2. \A d \in Direction : \A i \in 1..WaveDeviceCount(d) :
          /\ AsDevice(WaveDevices(d)[i]) = DeviceOf(d, i)
          /\ WaveDevices(d)[i].caps = "ok" <=> IsUsable(d, i)
    BY DEF WaveDevices, DeviceOf, IsUsable
  <2> HIDE DEF given, AsDevice
  <2>3. ToSet(devices) \subseteq {AsDevice(x) : x \in usable}
    <3> SUFFICES ASSUME NEW k \in 1..Len(devices) PROVE devices[k] \in {AsDevice(x) : x \in usable}
      BY <1>5 DEF ToSet
    <3>1. PICK d \in Direction : \E i \in 1..Full[d] : IsUsable(d, i) /\ devices[k] = DeviceOf(d, i)
      BY <1>4 DEF AreUsable
    <3>2. PICK i \in 1..Full[d] : IsUsable(d, i) /\ devices[k] = DeviceOf(d, i) BY <3>1
    <3>3. i \in 1..WaveDeviceCount(d) BY <1>3
    <3>4. WaveDevices(d)[i] \in usable BY <2>1, <2>2, <3>2, <3>3
    <3> QED BY <2>2, <3>2, <3>3, <3>4
  <2>4. {AsDevice(x) : x \in usable} \subseteq ToSet(devices)
    <3> SUFFICES ASSUME NEW x \in usable PROVE AsDevice(x) \in ToSet(devices) OBVIOUS
    <3>1. PICK d \in Direction : \E i \in 1..WaveDeviceCount(d) : x = WaveDevices(d)[i] BY <2>1
    <3>2. PICK i \in 1..WaveDeviceCount(d) : x = WaveDevices(d)[i] BY <3>1
    <3>3. IsUsable(d, i) /\ AsDevice(x) = DeviceOf(d, i) BY <2>2, <3>2
    <3>4. i \in 1..Full[d] BY <1>3
    <3>5. PICK k \in 1..Len(devices) : devices[k] = DeviceOf(d, i)
      BY <1>4, <3>3, <3>4 DEF AreAll
    <3> QED BY <1>5, <3>3, <3>5 DEF ToSet
  <2>5. ToSet(devices) = {[direction |-> x.direction, id |-> x.id] : x \in usable}
    BY <2>3, <2>4 DEF AsDevice
  <2>6. \A k, l \in DOMAIN devices : k < l =>
          \/ devices[k].direction = "in" /\ devices[l].direction = "out"
          \/ devices[k].direction = devices[l].direction /\ devices[k].id < devices[l].id
    BY <1>4, <1>5 DEF AreOrdered
  <2>7. /\ \A k \in DOMAIN devices : devices[k].direction = "in" <=> k <= count["in"]
        /\ Len(devices) = count["in"] + count["out"]
    BY <1>4, <1>5 DEF AreCounted
  <2>8. Len(devices) <= WaveDeviceCount("in") + WaveDeviceCount("out")
    <3>1. "in" \in Direction /\ "out" \in Direction BY DEF Direction
    <3>2. /\ count["in"] \in Nat /\ count["in"] <= WaveDeviceCount("in")
          /\ count["out"] \in Nat /\ count["out"] <= WaveDeviceCount("out")
      BY <1>3, <1>4, <3>1 DEF AreCounted
    <3> QED BY <1>3, <2>7, <3>1, <3>2
  <2> HIDE DEF usable
  <2> QED
    BY <1>2, <1>4, <2>5, <2>6, <2>7, <2>8
    DEF DevicesAreThoseOfTheSystem, usable, given, devices, count
<1>8. DefaultsAreUsable
  <2> SUFFICES ASSUME NEW d \in Direction
      PROVE LET default == hostApi.default[d]
                indices == {i \in 0..Len(hostApi.devices)-1 : hostApi.devices[i + 1].direction = d}
                preferred == {i \in indices : hostApi.devices[i + 1].id = system.preferred[d]}
            IN  IF indices = {} THEN default = paNoDevice
                ELSE default \in IF system.recommended[d] \in indices THEN {system.recommended[d]}
                                 ELSE IF preferred # {} THEN preferred ELSE indices
    BY DEF DefaultsAreUsable
  <2> DEFINE indices == IndicesOf(hostApi.devices, d)
             preferred == PreferredOf(hostApi.devices, d)
             default == hostApi.default[d]
             rec == system.recommended[d]
  <2>1. IsRecommended(base, d) <=> rec \in indices
    BY <1>2 DEF IsRecommended, IndicesOf
  <2>2. default = IF rec \in indices THEN rec ELSE base.default[d] BY <1>1, <2>1
  <2>3. IF indices = {} THEN base.default[d] = paNoDevice
        ELSE base.default[d] \in IF preferred # {} THEN preferred ELSE indices
    BY <1>2, <1>4 DEF IsDefault, devices
  <2> HIDE DEF indices, preferred, default, rec
  <2>4. IF indices = {} THEN default = paNoDevice
        ELSE default \in IF rec \in indices THEN {rec}
                         ELSE IF preferred # {} THEN preferred ELSE indices
    BY <2>2, <2>3
  <2> QED BY <2>4 DEF indices, preferred, default, rec, IndicesOf, PreferredOf
<1>9. hostApi.devices \in Seq([direction : Direction, id : Int])
  BY <1>2, <1>4 DEF HostApiDevice, devices
<1>10. hostApi.count \in [Direction -> Nat] BY <1>2, <1>4 DEF AreCounted, count
<1> QED BY <1>6, <1>7, <1>8, <1>9, <1>10

\* HostApiIsComplete for every system, whatever its devices say of themselves, and
\* every call that may fail: PaWinMme_Initialize lists the usable devices in order and
\* chooses usable defaults, with the memory that takes, or gives all of it back.
THEOREM HostApiStarts == Spec => []HostApiIsComplete
<1>1. HostApiAssumption /\ HostInv /\ CleanInv => HostApiIsComplete
  <2> SUFFICES ASSUME HostApiAssumption, HostInv, CleanInv PROVE HostApiIsComplete OBVIOUS
  <2>1. /\ stream.p \in RequestedParameters \cup {NoStream.p}
        /\ fields \subseteq held /\ misused \in BOOLEAN
    <3>1. CASE stream = NoStream /\ fields = {}
      BY <3>1 DEF CleanInv
    <3>2. ASSUME NEW r \in Requests, IsComplete(r)
          PROVE  stream.p = r.p /\ fields = held
      BY <3>2 DEF IsComplete, Opened
    <3> QED BY <3>1, <3>2 DEF CleanInv, RequestedParameters
  <2>2. system \in Systems /\ memory.ok /\ crashed \in BOOLEAN BY DEF HostInv
  <2>3. CASE hostApi.initialized
    <3>1. HasGroup(memory) BY <2>3 DEF HostInv
    <3>2. MemoryIsAccountedFor /\ memory.blocks \in Nat
      BY <2>3, <3>1 DEF MemoryIsAccountedFor, HasGroup
    <3>3. OpenTypeOK
      BY <2>1, <2>2, <2>3, <3>2, FinishedIsRight DEF OpenTypeOK, HostApiTypeOK
    <3> QED BY <2>3, <3>2, <3>3, FinishedIsRight DEF HostApiIsComplete
  <2>4. CASE ~hostApi.initialized
    <3>1. hostApi = NoHostApi /\ memory.group = NoGroup /\ memory.blocks = 0
      BY <2>4 DEF HostInv
    <3>2. MemoryIsAccountedFor
      BY <2>4, <3>1 DEF MemoryIsAccountedFor, LinksAreConserved, NoGroup
    <3>3. /\ hostApi.devices = <<>> /\ hostApi.count = [d \in Direction |-> 0]
          /\ hostApi.default = [d \in Direction |-> paNoDevice]
      BY <3>1 DEF NoHostApi
    <3>4. /\ hostApi.devices \in Seq([direction : Direction, id : Int])
          /\ hostApi.count \in [Direction -> Nat]
          /\ hostApi.default \in [Direction -> Int]
      <4>1. <<>> \in Seq([direction : Direction, id : Int]) OBVIOUS
      <4>2. paNoDevice \in Int BY DEF paNoDevice
      <4> QED BY <3>3, <4>1, <4>2
    <3>5. OpenTypeOK BY <2>1, <2>2, <3>1, <3>4 DEF OpenTypeOK, HostApiTypeOK
    <3> QED
      BY <2>4, <3>2, <3>5
      DEF HostApiIsComplete, DevicesAreThoseOfTheSystem, DefaultsAreUsable
  <2> QED BY <2>3, <2>4
<1> QED BY <1>1, HostInvHolds, CleanInvHolds, HostApiAssumption, PTL
=============================================================================
