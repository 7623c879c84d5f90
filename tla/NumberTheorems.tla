--------------------------- MODULE NumberTheorems ---------------------------
(***************************************************************************)
(* Facts about numbers that the proofs of several components need: the     *)
(* remainders of positions in a ring, divisors and quotients, induction,   *)
(* and folds.  The library's theorems of induction and of recursion are    *)
(* about operators, which no installed prover can instantiate; here        *)
(* induction is stated about a set, and a fold about the function that is  *)
(* folded.                                                                 *)
(***************************************************************************)
EXTENDS Integers, Sequences, SequencesExt, WellFoundedInduction, TLAPS

(* The step of a fold: a module that folds instantiates this module with   *)
(* its own.                                                                *)
CONSTANT Step(_, _)

-----------------------------------------------------------------------------
(* Remainders.                                                             *)


LEMMA DivMod ==
  ASSUME NEW a \in Int, NEW M \in Nat \ {0}
  PROVE  /\ a \div M \in Int /\ a % M \in 0..M-1
         /\ a = M * (a \div M) + (a % M)
  BY SMT

LEMMA ModUnique ==
  ASSUME NEW q \in Int, NEW M \in Nat \ {0}, NEW r \in 0..M-1
  PROVE  (M * q + r) % M = r
<1> DEFINE a == M*q + r
<1>1. a \in Int BY SMT
<1>2. a = M * (a \div M) + (a % M) /\ a % M \in 0..M-1 /\ a \div M \in Int BY <1>1, DivMod
<1>3. M * (q - (a \div M)) = (a % M) - r BY <1>1, <1>2, SMT
<1>4. q = a \div M BY <1>2, <1>3, SMT
<1> QED BY <1>2, <1>3,<1>4, SMT

LEMMA ModSum ==
  ASSUME NEW a \in Int, NEW c \in Int, NEW M \in Nat \ {0}
  PROVE  ((a % M) + c) % M = (a + c) % M
<1> DEFINE q == a \div M
           x == (a % M) + c
           p == x \div M
           r == x % M
<1>1. q \in Int /\ a % M \in 0..M-1 /\ a = M * q + (a % M) BY DivMod
<1>2. x \in Int BY <1>1
<1>3. p \in Int /\ r \in 0..M-1 /\ x = M * p + r BY <1>2, DivMod
<1>4. q + p \in Int /\ a + c = M * (q + p) + r BY <1>1, <1>3, SMT
<1>5. (M * (q + p) + r) % M = r BY <1>3, <1>4, ModUnique
<1> QED BY <1>4, <1>5

LEMMA ModDifference ==
  ASSUME NEW a \in Int, NEW b \in Int, NEW M \in Nat \ {0}, a - b \in 0..M-1
  PROVE  ((a % M) - (b % M)) % M = a - b
<1> DEFINE q == a \div M
           p == b \div M
           d == (a % M) - (b % M)
<1>1. q \in Int /\ a % M \in 0..M-1 /\ a = M * q + (a % M) BY DivMod
<1>2. p \in Int /\ b % M \in 0..M-1 /\ b = M * p + (b % M) BY DivMod
<1>3. p - q \in Int /\ d = M * (p - q) + (a - b) BY <1>1, <1>2, SMT
<1>4. (M * (p - q) + (a - b)) % M = a - b BY <1>3, ModUnique
<1> QED BY <1>3, <1>4

LEMMA ModDistinct ==
  ASSUME NEW a \in Int, NEW b \in Int, NEW M \in Nat \ {0}, b - a \in 1..M-1
  PROVE  a % M # b % M
<1>0. b - a \in 0..M-1 OBVIOUS
<1>1. ((b % M) - (a % M)) % M = b - a BY <1>0, ModDifference
<1>2. a % M \in Int /\ b % M \in Int BY DivMod
<1>3. 0 % M = 0
  <2>1. (M * 0 + 0) % M = 0 BY ModUnique
  <2> QED BY <2>1
<1> QED BY <1>1, <1>2, <1>3

LEMMA DivDouble ==
  ASSUME NEW M \in Int, NEW q \in Int, NEW x \in Int, NEW p \in Int,
         NEW r \in Int, x = M * p + r
  PROVE  (2 * M) * q + x = M * (2 * q + p) + r
<1>1. (2 * M) * q = M * (2 * q) BY SMT
<1>2. M * (2 * q + p) = M * (2 * q) + M * p BY SMT
<1> QED BY <1>1, <1>2, SMT

LEMMA ModDouble ==
  ASSUME NEW a \in Int, NEW M \in Nat \ {0}
  PROVE  (a % (2 * M)) % M = a % M
<1> DEFINE q == a \div (2 * M)
           x == a % (2 * M)
           p == x \div M
           r == x % M
<1>0. 2 * M \in Nat \ {0} OBVIOUS
<1>1. q \in Int /\ x \in 0..(2*M)-1 /\ a = (2 * M) * q + x BY <1>0, DivMod
<1>2. p \in Int /\ r \in 0..M-1 /\ x = M * p + r
  <2>1. x \in Int BY <1>0, <1>1
  <2> QED BY <2>1, DivMod
<1>3. 2 * q + p \in Int /\ a = M * (2 * q + p) + r
  <2>1. M \in Int /\ x \in Int /\ r \in Int BY <1>0, <1>1, <1>2
  <2> HIDE DEF q, x, p, r
  <2> QED BY <1>1, <1>2, <2>1, DivDouble
<1>4. (M * (2 * q + p) + r) % M = r BY <1>2, <1>3, ModUnique
<1> QED BY <1>3, <1>4

LEMMA ModSmall ==
  ASSUME NEW M \in Nat \ {0}, NEW x \in Int, -M <= x, x < M
  PROVE  x % M = IF x < 0 THEN x + M ELSE x
<1>1. CASE x < 0
  <2>1. x + M \in 0..M-1 /\ M * (-1) + (x + M) = x BY <1>1
  <2> QED BY <1>1, <2>1, ModUnique
<1>2. CASE x >= 0
  <2>1. x \in 0..M-1 /\ M * 0 + x = x BY <1>2
  <2> QED BY <1>2, <2>1, ModUnique
<1> QED BY <1>1, <1>2

-----------------------------------------------------------------------------
(* Divisors and quotients.                                                 *)

\* a divides b.
Divides(a, b) == \E c \in Nat : b = a * c

\* A divisor leaves no remainder.
LEMMA DividesMod ==
  ASSUME NEW a \in Nat \ {0}, NEW b \in Nat
  PROVE  Divides(a, b) <=> b % a = 0
<1>1. ASSUME NEW c \in Nat, b = a * c PROVE b % a = 0
  <2>1. (a * c + 0) % a = 0 BY ModUnique
  <2> QED BY <1>1, <2>1
<1>2. ASSUME b % a = 0 PROVE \E c \in Nat : b = a * c
  <2>1. b \div a \in Int /\ b = a * (b \div a) + (b % a) BY DivMod
  <2>2. b \div a \in Nat BY <2>1, <1>2
  <2> QED BY <1>2, <2>1, <2>2
<1> QED BY <1>1, <1>2 DEF Divides

\* A factor is determined by the product.
LEMMA ProductOf ==
  ASSUME NEW a \in Nat \ {0}, NEW c \in Nat, NEW d \in Nat, a * c = a * d
  PROVE  c = d
  BY SMT

\* What divides a number is at most that number.
LEMMA DivisorBounds ==
  ASSUME NEW a \in Nat \ {0}, NEW b \in Nat \ {0}, Divides(a, b)
  PROVE  /\ b \div a \in 1..b /\ b = a * (b \div a)
         /\ a <= b /\ (a >= 2 => 2 * (b \div a) <= b)
<1>1. PICK c \in Nat : b = a * c BY DEF Divides
<1>2. (a * c + 0) % a = 0 BY ModUnique
<1>3. b \div a \in Int /\ b = a * (b \div a) BY <1>1, <1>2, DivMod
<1> DEFINE q == b \div a
<1> HIDE DEF q
<1>4. q \in Int /\ b = a * q BY <1>3 DEF q
<1>5. q >= 1
  <2> SUFFICES ASSUME q <= 0 PROVE FALSE BY <1>4
  <2>1. a * q <= 0 BY <1>4, SMT
  <2> QED BY <1>4, <2>1
<1>6. a * q >= q /\ a * q >= a BY <1>4, <1>5, SMT
<1>7. a >= 2 => a * q >= 2 * q BY <1>4, <1>5, SMT
<1> QED BY <1>4, <1>5, <1>6, <1>7 DEF q

\* A quotient rounded up.
LEMMA RoundedUp ==
  ASSUME NEW x \in Nat, NEW m \in Nat \ {0}
  PROVE  LET d == (x + m - 1) \div m
         IN  d \in Nat /\ d * m >= x /\ (x > 0 => d >= 1) /\ d <= x
<1> DEFINE d == (x + m - 1) \div m
           r == (x + m - 1) % m
<1>0. x + m - 1 \in Int OBVIOUS
<1>1. d \in Int /\ r \in 0..m-1 /\ x + m - 1 = m * d + r BY <1>0, DivMod
<1> HIDE DEF d, r
<1>2. m * d >= x BY <1>1
<1>3. d >= 0
  <2> SUFFICES ASSUME d <= -1 PROVE FALSE BY <1>1
  <2>1. m * d <= -m BY <1>1, SMT
  <2> QED BY <1>1, <2>1
<1>4. x > 0 => d >= 1
  <2> SUFFICES ASSUME x > 0, d = 0 PROVE FALSE BY <1>1, <1>3
  <2>1. m * d = 0 BY <2>1
  <2> QED BY <1>2, <2>1
<1>5. d <= x
  <2> SUFFICES ASSUME d >= x + 1 PROVE FALSE BY <1>1
  <2>1. m * d >= m * (x + 1) BY <1>1, SMT
  <2>2. m * (x + 1) = m * x + m BY SMT
  <2>3. m * x >= x BY SMT
  <2> QED BY <1>1, <2>1, <2>2, <2>3
<1>6. d * m = m * d BY <1>1, SMT
<1> QED BY <1>1, <1>2, <1>3, <1>4, <1>5, <1>6 DEF d

\* A quotient of positive numbers.
LEMMA QuotientBounds ==
  ASSUME NEW x \in Nat, NEW d \in Nat \ {0}
  PROVE  /\ x \div d \in Nat /\ x \div d <= x /\ (d <= x => x \div d >= 1)
         /\ \A m \in Nat : x <= d * m => x \div d <= m
         /\ d * (x \div d) <= x
<1> DEFINE q == x \div d
           r == x % d
<1>1. q \in Int /\ r \in 0..d-1 /\ x = d * q + r BY DivMod
<1> HIDE DEF q, r
<1>2. q >= 0
  <2> SUFFICES ASSUME q <= -1 PROVE FALSE BY <1>1
  <2>1. d * q <= -d BY <1>1, SMT
  <2> QED BY <1>1, <2>1
<1>3. d * q >= q BY <1>1, <1>2, SMT
<1>4. d <= x => q >= 1
  <2> SUFFICES ASSUME d <= x, q = 0 PROVE FALSE BY <1>1, <1>2
  <2>1. d * q = 0 BY <2>1
  <2> QED BY <1>1, <2>1
<1>5. ASSUME NEW m \in Nat, x <= d * m PROVE q <= m
  <2> SUFFICES ASSUME q >= m + 1 PROVE FALSE BY <1>1
  <2>1. d * q >= d * (m + 1) BY <1>1, SMT
  <2>2. d * (m + 1) = d * m + d BY SMT
  <2> QED BY <1>1, <1>5, <2>1, <2>2
<1> QED BY <1>1, <1>2, <1>3, <1>4, <1>5 DEF q

-----------------------------------------------------------------------------
(* Induction.                                                              *)

LEMMA SmallestExists ==
  ASSUME NEW S \in SUBSET Nat, S # {}
  PROVE  \E m \in S : \A k \in S : m <= k
<1>1. PICK m \in S : \A k \in S : ~(<<k, m>> \in OpToRel(<, Nat))
  BY NatLessThanWellFounded, WFMin, Zenon
<1>2. \A k \in S : ~(k < m) BY <1>1, Zenon DEF OpToRel
<1> QED BY <1>2

LEMMA SetInduction ==
  ASSUME NEW S, 0 \in S, \A n \in Nat : n \in S => n + 1 \in S
  PROVE  Nat \subseteq S
<1> SUFFICES ASSUME Nat \ S # {} PROVE FALSE OBVIOUS
<1>1. PICK m \in Nat \ S : \A k \in Nat \ S : m <= k BY SmallestExists
<1>2. m # 0 /\ m - 1 \in Nat /\ m - 1 \in S BY <1>1
<1> QED BY <1>1, <1>2

-----------------------------------------------------------------------------
(* Folds.                                                                  *)

\* The largest element of each set of indices up to n.
PicksLast(last, n) ==
  \A s \in SUBSET (1..n) : s # {} => last[s] \in s /\ \A i \in s : i <= last[s]

\* The recursion of a fold over sets of indices up to n, the last index first.
FoldsUpTo(f, n, base, step, last) ==
  \A s \in SUBSET (1..n) :
    f[s] = IF s = {} THEN base ELSE step[<<f[s \ {last[s]}], last[s]>>]

\* A fold over 1..n, as the library defines it: the recursion over all sets of
\* indices, the largest index first, has a solution.
LEMMA FoldExists ==
  ASSUME NEW A, NEW base \in A, NEW n \in Nat, NEW step \in [A \X (1..n) -> A],
         NEW last, PicksLast(last, n)
  PROVE  \E f \in [SUBSET (1..n) -> A] : FoldsUpTo(f, n, base, step, last)
<1> USE DEF PicksLast, FoldsUpTo
<1> DEFINE Solves(f, k) ==
             /\ f \in [SUBSET (1..k) -> A]
             /\ \A s \in SUBSET (1..k) :
                  f[s] = IF s = {} THEN base ELSE step[<<f[s \ {last[s]}], last[s]>>]
           K == {k \in Nat : k <= n => \E f : Solves(f, k)}
<1>1. 0 \in K
  <2>1. Solves([s \in SUBSET (1..0) |-> base], 0)
    <3>1. SUBSET (1..0) = {{}} BY 1..0 = {}
    <3> QED BY <3>1
  <2> QED BY <2>1
<1>2. ASSUME NEW k \in Nat, k \in K PROVE k + 1 \in K
  <2> HIDE DEF Solves
  <2>s. k + 1 \in Nat OBVIOUS
  <2> SUFFICES ASSUME k + 1 <= n PROVE \E f : Solves(f, k + 1) BY <2>s, Zenon
  <2>0. k <= n OBVIOUS
  <2>1. PICK f : Solves(f, k) BY <1>2, <2>0, Zenon
  <2> USE DEF Solves
  <2> DEFINE g == [s \in SUBSET (1..k+1) |->
                     IF k + 1 \in s THEN step[<<f[s \ {k+1}], k + 1>>] ELSE f[s]]
  <2>2. ASSUME NEW s \in SUBSET (1..k+1)
        PROVE  /\ k + 1 \notin s => s \in SUBSET (1..k)
               /\ s \ {k+1} \in SUBSET (1..k)
               /\ k + 1 \in s => last[s] = k + 1
    <3>1. s \in SUBSET (1..n) BY <2>2
    <3>2. \A i \in s : i \in 1..k \/ i = k + 1 BY <2>2
    <3>3. ASSUME k + 1 \in s PROVE last[s] = k + 1
      <4>1. last[s] \in s /\ k + 1 <= last[s] BY <3>1, <3>3
      <4>2. last[s] \in 1..k \/ last[s] = k + 1 BY <3>2, <4>1, Zenon
      <4> QED BY <4>1, <4>2
    <3> QED BY <3>2, <3>3
  <2>3. g \in [SUBSET (1..k+1) -> A]
    <3> SUFFICES ASSUME NEW s \in SUBSET (1..k+1) PROVE g[s] \in A OBVIOUS
    <3>1. CASE k + 1 \in s
      <4>1. f[s \ {k+1}] \in A BY <2>1, <2>2
      <4>2. k + 1 \in 1..n OBVIOUS
      <4> QED BY <3>1, <4>1, <4>2
    <3>2. CASE k + 1 \notin s BY <2>1, <2>2, <3>2
    <3> QED BY <3>1, <3>2
  <2>4. ASSUME NEW s \in SUBSET (1..k+1)
        PROVE  g[s] = IF s = {} THEN base ELSE step[<<g[s \ {last[s]}], last[s]>>]
    <3>1. CASE k + 1 \in s
      <4>1. s # {} /\ last[s] = k + 1 BY <2>2, <3>1
      <4>2. s \ {k+1} \in SUBSET (1..k+1) BY <2>4
      <4>3. g[s \ {k+1}] = f[s \ {k+1}] BY <4>2
      <4> QED BY <3>1, <4>1, <4>3
    <3>2. CASE k + 1 \notin s
      <4>1. s \in SUBSET (1..k) BY <2>2, <3>2
      <4>2. g[s] = f[s] BY <3>2
      <4>3. s \ {last[s]} \in SUBSET (1..k+1) /\ k + 1 \notin s \ {last[s]} BY <3>2
      <4>4. g[s \ {last[s]}] = f[s \ {last[s]}] BY <4>3
      <4> QED BY <2>1, <4>1, <4>2, <4>4
    <3> QED BY <3>1, <3>2
  <2> HIDE DEF g
  <2>5. Solves(g, k + 1) BY <2>3, <2>4
  <2> QED BY <2>5
<1>3. n \in K
  <2> HIDE DEF K
  <2> QED BY <1>1, <1>2, SetInduction
<1> HIDE DEF Solves
<1>4. PICK f : Solves(f, n)
  <2>1. n <= n OBVIOUS
  <2> QED BY <1>3, <2>1, Zenon
<1> USE DEF Solves
<1> QED BY <1>4

-----------------------------------------------------------------------------
(* FoldLeft of the community modules, for any step: it goes through a      *)
(* sequence from its first to its last element.  FoldLeft is defined by    *)
(* recursion over sets of positions; here the function this chooses is     *)
(* shown to exist, and its values to be a chain of steps.                  *)

Folded(base, list) == FoldLeft(Step, base, list)

\* choose picks the greatest element of a set.
Chooses(choose, n) ==
  \A s \in SUBSET (1..n) : s # {} => choose[s] \in s /\ \A i \in s : i <= choose[s]

\* f folds the elements of list over every set of positions.
Recursion(f, base, list, n, choose) ==
  f = [s \in SUBSET (1..n) |->
         IF s = {} THEN base ELSE Step(f[s \ {choose[s]}], list[choose[s]])]

\* Such an f exists, whatever the step.
LEMMA SetFold ==
  ASSUME NEW base, NEW list, NEW n \in Nat, NEW choose, Chooses(choose, n)
  PROVE  \E f : Recursion(f, base, list, n, choose)
<1> USE DEF Chooses, Recursion
<1> DEFINE Solves(f, k) ==
             \A s \in SUBSET (1..k) :
               f[s] = IF s = {} THEN base ELSE Step(f[s \ {choose[s]}], list[choose[s]])
           K == {k \in Nat : k <= n => \E f : Solves(f, k)}
<1>1. 0 \in K
  <2>1. Solves([s \in SUBSET (1..0) |-> base], 0)
    <3>1. SUBSET (1..0) = {{}} BY 1..0 = {}
    <3> QED BY <3>1
  <2> QED BY <2>1
<1>2. ASSUME NEW k \in Nat, k \in K PROVE k + 1 \in K
  <2> HIDE DEF Solves
  <2>s. k + 1 \in Nat OBVIOUS
  <2> SUFFICES ASSUME k + 1 <= n PROVE \E f : Solves(f, k + 1) BY <2>s, Zenon
  <2>0. k <= n OBVIOUS
  <2>1. PICK f : Solves(f, k) BY <1>2, <2>0, Zenon
  <2> USE DEF Solves
  <2> DEFINE g == [s \in SUBSET (1..k+1) |->
                     IF k + 1 \in s THEN Step(f[s \ {k+1}], list[k+1]) ELSE f[s]]
  <2>2. ASSUME NEW s \in SUBSET (1..k+1)
        PROVE  /\ k + 1 \notin s => s \in SUBSET (1..k)
               /\ s \ {k+1} \in SUBSET (1..k)
               /\ k + 1 \in s => choose[s] = k + 1
    <3>1. s \in SUBSET (1..n) BY <2>2
    <3>2. \A i \in s : i \in 1..k \/ i = k + 1 BY <2>2
    <3>3. ASSUME k + 1 \in s PROVE choose[s] = k + 1
      <4>1. choose[s] \in s /\ k + 1 <= choose[s] BY <3>1, <3>3
      <4>2. choose[s] \in 1..k \/ choose[s] = k + 1 BY <3>2, <4>1, Zenon
      <4> QED BY <4>1, <4>2
    <3> QED BY <3>2, <3>3
  <2>4. ASSUME NEW s \in SUBSET (1..k+1)
        PROVE  g[s] = IF s = {} THEN base ELSE Step(g[s \ {choose[s]}], list[choose[s]])
    <3>1. CASE k + 1 \in s
      <4>1. s # {} /\ choose[s] = k + 1 BY <2>2, <3>1
      <4>2. s \ {k+1} \in SUBSET (1..k+1) BY <2>4
      <4>3. g[s \ {k+1}] = f[s \ {k+1}] BY <4>2
      <4> QED BY <3>1, <4>1, <4>3
    <3>2. CASE k + 1 \notin s
      <4>1. s \in SUBSET (1..k) BY <2>2, <3>2
      <4>2. g[s] = f[s] BY <3>2
      <4>3. s \ {choose[s]} \in SUBSET (1..k+1) /\ k + 1 \notin s \ {choose[s]} BY <3>2
      <4>4. g[s \ {choose[s]}] = f[s \ {choose[s]}] BY <4>3
      <4> QED BY <2>1, <4>1, <4>2, <4>4
    <3> QED BY <3>1, <3>2
  <2> HIDE DEF g
  <2>5. Solves(g, k + 1) BY <2>4
  <2> QED BY <2>5
<1>3. n \in K
  <2> HIDE DEF K
  <2> QED BY <1>1, <1>2, SetInduction
<1> HIDE DEF Solves
<1>4. PICK f : Solves(f, n)
  <2>1. n <= n OBVIOUS
  <2> QED BY <1>3, <2>1, Zenon
<1> DEFINE h == [s \in SUBSET (1..n) |-> f[s]]
<1>5. h = [s \in SUBSET (1..n) |->
             IF s = {} THEN base ELSE Step(h[s \ {choose[s]}], list[choose[s]])]
  <2> SUFFICES ASSUME NEW s \in SUBSET (1..n)
      PROVE f[s] = IF s = {} THEN base ELSE Step(h[s \ {choose[s]}], list[choose[s]])
    OBVIOUS
  <2>1. s \ {choose[s]} \in SUBSET (1..n) OBVIOUS
  <2>2. h[s \ {choose[s]}] = f[s \ {choose[s]}] BY <2>1
  <2> HIDE DEF h
  <2> QED BY <1>4, <2>2 DEF Solves
<1> HIDE DEF h
<1> QED BY <1>5

\* A set of positions has a greatest element.
LEMMA GreatestExists ==
  ASSUME NEW n \in Nat, NEW S \in SUBSET (1..n), S # {}
  PROVE  Max(S) \in S /\ \A x \in S : x <= Max(S)
<1> DEFINE T == {n - x : x \in S}
<1>1. T \in SUBSET Nat /\ T # {}
  <2>1. \A x \in S : n - x \in Nat OBVIOUS
  <2> QED BY <2>1
<1>2. PICK t \in T : \A u \in T : t <= u BY <1>1, SmallestExists
<1>3. PICK m \in S : t = n - m BY <1>2
<1>4. \A x \in S : m >= x
  <2> SUFFICES ASSUME NEW x \in S PROVE m >= x OBVIOUS
  <2>1. n - x \in T OBVIOUS
  <2>2. n - m <= n - x BY <1>2, <1>3, <2>1
  <2> QED BY <2>2
<1>5. \A x \in S : x \in Int OBVIOUS
<1>6. Max(S) \in S /\ \A x \in S : Max(S) >= x BY <1>4 DEF Max
<1> QED BY <1>5, <1>6

\* The values a fold goes through.
IsChain(g, base, list) ==
  /\ g[0] = base
  /\ \A k \in 1..Len(list) : g[k] = Step(g[k-1], list[k])

\* FoldLeft is the last value of a chain of steps from base.
LEMMA FoldIsChain ==
  ASSUME NEW base, NEW list, Len(list) \in Nat, DOMAIN list = 1..Len(list)
  PROVE  \E g : IsChain(g, base, list) /\ Folded(base, list) = g[Len(list)]
<1> DEFINE n == Len(list)
           Solves(f) == f = [s \in SUBSET (1..n) |->
                               IF s = {} THEN base
                               ELSE Step(f[s \ {Max(s)}], list[Max(s)])]
           iter == CHOOSE f : Solves(f)
           choose == [s \in SUBSET (1..n) |-> Max(s)]
<1>1. Folded(base, list) = iter[1..n]
  BY DEF Folded, FoldLeft, MapThenFoldSet
<1>2. \A s \in SUBSET (1..n) : choose[s] = Max(s) OBVIOUS
<1>3. \A s \in SUBSET (1..n) : s # {} => Max(s) \in s /\ \A i \in s : i <= Max(s)
  BY GreatestExists
<1>4. \E f : Solves(f)
  <2> HIDE DEF choose
  <2>1. Chooses(choose, n) BY <1>2, <1>3 DEF Chooses
  <2>2. PICK f : Recursion(f, base, list, n, choose)
    <3>1. n \in Nat OBVIOUS
    <3> HIDE DEF n
    <3> QED BY <2>1, <3>1, SetFold, Zenon
  <2> USE DEF Recursion
  <2>3. Solves(f) BY <1>2, <2>2
  <2> QED BY <2>3
<1>5. Solves(iter) BY <1>4
<1> HIDE DEF iter
<1> DEFINE g == [k \in 0..n |-> iter[1..k]]
<1>6. g[0] = base
  <2>1. 1..0 = {} /\ {} \in SUBSET (1..n) OBVIOUS
  <2>2. iter[{}] = base BY <1>5, <2>1
  <2> QED BY <2>1, <2>2
<1>7. ASSUME NEW k \in 1..n PROVE g[k] = Step(g[k-1], list[k])
  <2>0. n \in Nat OBVIOUS
  <2> HIDE DEF n
  <2>1. 1..k \in SUBSET (1..n) /\ 1..k # {} /\ k \in 1..k BY <1>7, <2>0
  <2>2. Max(1..k) \in 1..k /\ k <= Max(1..k) BY <1>3, <2>1, Zenon
  <2>3. Max(1..k) = k BY <2>2
  <2>4. (1..k) \ {k} = 1..k-1 OBVIOUS
  <2>5. iter[1..k] = Step(iter[1..k-1], list[k]) BY <1>5, <2>1, <2>3, <2>4
  <2>6. k \in 0..n /\ k - 1 \in 0..n BY <1>7, <2>0
  <2> QED BY <2>5, <2>6
<1>8. g[n] = iter[1..n] OBVIOUS
<1> QED BY <1>1, <1>6, <1>7, <1>8 DEF IsChain

=============================================================================
