------------------------ MODULE DataProcessingProofs ------------------------
(***************************************************************************)
(* Proofs about the data processing instructions: what comparisons,        *)
(* two-word sums and shifts compute and what an instruction may change,    *)
(* for every size of words and every content of the registers.             *)
(*                                                                         *)
(* The operators of DataProcessing on bits are defined by sums of weights; *)
(* the first part relates them to the quotients and remainders of numbers, *)
(* by induction on the positions.                                          *)
(***************************************************************************)
EXTENDS DataProcessing, ArmCoreProofs, Induction

\* Division has one quotient and one remainder.
LEMMA Division ==
    ASSUME NEW d \in Nat \ {0}, NEW q \in Int, NEW m \in 0 .. d - 1
    PROVE  (m + d * q) \div d = q /\ (m + d * q) % d = m
OBVIOUS

\* The quotient and the remainder of a number.
LEMMA Divided ==
    ASSUME NEW d \in Nat \ {0}, NEW x \in Nat
    PROVE  x \div d \in Nat /\ x % d \in 0 .. d - 1 /\ x = (x % d) + d * (x \div d)
OBVIOUS

\* Division by a product is two divisions.
LEMMA DividedTwice ==
    ASSUME NEW d \in Nat \ {0}, NEW e \in Nat \ {0}, NEW x \in Nat
    PROVE  /\ x \div (d * e) = (x \div d) \div e
           /\ x % (d * e) = (x % d) + d * ((x \div d) % e)
<1> DEFINE q == x \div d
           m == x % d
           q1 == q \div e
           m1 == q % e
           w == m + d * m1
<1>1. q \in Nat /\ m \in 0 .. d - 1 /\ x = m + d * q
  BY Divided
<1> HIDE DEF q, m
<1>2. q1 \in Nat /\ m1 \in 0 .. e - 1 /\ q = m1 + e * q1
  BY <1>1, Divided
<1> HIDE DEF q1, m1
<1>3. d * e \in Nat \ {0}
  OBVIOUS
<1>4. w \in 0 .. d * e - 1
  <2>1. m1 + 1 <= e /\ m1 \in Nat /\ m \in Nat /\ m < d
    BY <1>1, <1>2
  <2>2. d * (m1 + 1) <= d * e
    BY <2>1
  <2>3. d * (m1 + 1) = d * m1 + d /\ d * m1 \in Nat
    BY <2>1
  <2> QED
    BY <1>3, <2>1, <2>2, <2>3
<1>5. x = w + (d * e) * q1
  <2>1. m \in Int /\ m1 \in Int /\ q1 \in Int
    BY <1>1, <1>2
  <2> QED
    BY <1>1, <1>2, <2>1
<1> DEFINE p == d * e
<1> HIDE DEF w, p
<1>6. x \div p = q1 /\ x % p = w
  <2>1. p \in Nat \ {0} /\ w \in 0 .. p - 1 /\ q1 \in Int /\ x = w + p * q1
    BY <1>2, <1>3, <1>4, <1>5 DEF p
  <2> QED
    BY <2>1, Division
<1> QED
  BY <1>6 DEF p, w, q1, m1, q, m

\* The weights of the bits: each is twice the one before.
LEMMA Pow2 ==
    /\ pow2 \in [0 .. WordBits -> Nat \ {0}] /\ pow2[0] = 1
    /\ \A i \in 1 .. WordBits : pow2[i] = 2 * pow2[i - 1]
<1> DEFINE S == Nat \ {0}
           F == [n \in 1 .. WordBits |-> [s \in S |-> 2 * s]]
           Step(g) == [i \in 0 .. WordBits |-> IF i = 0 THEN 1 ELSE 2 * g[i - 1]]
<1>1. WordBits \in Nat /\ 1 \in S
  BY BitsAssumption
<1>2. F \in [1 .. WordBits -> [S -> S]] /\ \A n \in 1 .. WordBits, s \in S : F[n][s] = 2 * s
  OBVIOUS
<1> HIDE DEF S, F
<1>3. PICK f : States(f, WordBits, S, 1, F)
  BY <1>1, <1>2, LoopHasStates
<1>4. f = Step(f)
  <2>1. ASSUME NEW n \in 0 .. WordBits PROVE f[n] = IF n = 0 THEN 1 ELSE 2 * f[n - 1]
    <3>1. CASE n = 0
      BY <3>1, <1>3 DEF States
    <3>2. CASE n # 0
      <4>1. n \in 1 .. WordBits /\ n - 1 \in 0 .. WordBits
        BY <1>1, <3>2
      <4>2. f[n - 1] \in S /\ f[n] = F[n][f[n - 1]]
        BY <4>1, <1>3 DEF States
      <4> QED
        BY <3>2, <4>1, <4>2, <1>2
    <3> QED
      BY <3>1, <3>2
  <2> QED
    BY <2>1, <1>3 DEF States
<1>5. pow2 = Step(pow2)
  <2>1. pow2 = CHOOSE h : h = Step(h)
    BY DEF pow2
  <2> HIDE DEF Step
  <2> QED
    BY <1>4, <2>1
<1>6. DOMAIN pow2 = 0 .. WordBits /\ pow2 = [n \in DOMAIN pow2 |-> pow2[n]] /\ pow2[0] = 1
  BY <1>1, <1>5
<1>7. \A n \in 1 .. WordBits : pow2[n - 1] \in S => pow2[n] = F[n][pow2[n - 1]]
  <2> SUFFICES ASSUME NEW n \in 1 .. WordBits, pow2[n - 1] \in S PROVE pow2[n] = F[n][pow2[n - 1]]
    OBVIOUS
  <2>1. n \in 0 .. WordBits /\ n # 0
    OBVIOUS
  <2>2. pow2[n] = 2 * pow2[n - 1]
    BY <1>5, <2>1
  <2> QED
    BY <1>2, <2>2
<1>8. States(pow2, WordBits, S, 1, F)
  BY <1>1, <1>2, <1>6, <1>7, LoopStays
<1>9. \A i \in 1 .. WordBits : i - 1 \in 0 .. WordBits /\ pow2[i] = 2 * pow2[i - 1]
  BY <1>2, <1>8, <1>1 DEF States
<1> QED
  BY <1>8, <1>9 DEF States, S

\* 1 << (i + j) is (1 << i) << j.
LEMMA PowSum ==
    ASSUME NEW i \in Nat, NEW j \in Nat, i + j <= WordBits
    PROVE  pow2[i + j] = pow2[i] * pow2[j]
<1> DEFINE P == {n \in Nat : i + n <= WordBits => pow2[i + n] = pow2[i] * pow2[n]}
<1>1. 0 \in P
  <2>1. i <= WordBits => i \in 0 .. WordBits /\ pow2[i] \in Nat
    BY Pow2, BitsAssumption
  <2> QED
    BY <2>1, Pow2
<1>2. \A n \in Nat : n \in P => n + 1 \in P
  <2> SUFFICES ASSUME NEW n \in Nat, pow2[i + n] = pow2[i] * pow2[n], i + (n + 1) <= WordBits
               PROVE  pow2[i + (n + 1)] = pow2[i] * pow2[n + 1]
    BY BitsAssumption
  <2>1. /\ i + n + 1 \in 1 .. WordBits /\ n + 1 \in 1 .. WordBits /\ i \in 0 .. WordBits
        /\ n \in 0 .. WordBits /\ (i + n + 1) - 1 = i + n /\ (n + 1) - 1 = n
        /\ i + (n + 1) = i + n + 1
    BY BitsAssumption
  <2>2. pow2[i + n + 1] = 2 * pow2[i + n] /\ pow2[n + 1] = 2 * pow2[n]
    BY <2>1, Pow2
  <2>3. pow2[i] \in Nat /\ pow2[n] \in Nat
    BY <2>1, Pow2
  <2>4. ASSUME NEW a \in Nat, NEW b \in Nat PROVE 2 * (a * b) = a * (2 * b)
    OBVIOUS
  <2> QED
    BY <2>1, <2>2, <2>3, <2>4
<1>3. Nat \subseteq P
  <2> HIDE DEF P
  <2> QED
    BY <1>1, <1>2, Induction
<1> QED
  BY <1>3

\* The sums that make a word of its ones.
LEMMA Sums ==
    ASSUME NEW S
    PROVE  /\ sums(S) \in [0 .. WordBits -> Nat] /\ sums(S)[0] = 0
           /\ \A n \in 1 .. WordBits :
                sums(S)[n] = sums(S)[n - 1] + (IF n - 1 \in S THEN pow2[n - 1] ELSE 0)
<1> DEFINE w(n) == IF n - 1 \in S THEN pow2[n - 1] ELSE 0
           F == [n \in 1 .. WordBits |-> [s \in Nat |-> s + w(n)]]
           Step(g) == [n \in 0 .. WordBits |-> IF n = 0 THEN 0 ELSE g[n - 1] + w(n)]
<1>0. \A n \in 1 .. WordBits : w(n) \in Nat
  BY Pow2, BitsAssumption
<1>1. WordBits \in Nat /\ 0 \in Nat
  BY BitsAssumption
<1>1a. sums(S) = CHOOSE h : h = Step(h)
  BY DEF sums
<1> HIDE DEF w
<1>2. F \in [1 .. WordBits -> [Nat -> Nat]] /\ \A n \in 1 .. WordBits, s \in Nat : F[n][s] = s + w(n)
  BY <1>0
<1> HIDE DEF F
<1>3. PICK f : States(f, WordBits, Nat, 0, F)
  BY <1>1, <1>2, LoopHasStates
<1>4. f = Step(f)
  <2>1. ASSUME NEW n \in 0 .. WordBits PROVE f[n] = IF n = 0 THEN 0 ELSE f[n - 1] + w(n)
    <3>1. CASE n = 0
      BY <3>1, <1>3 DEF States
    <3>2. CASE n # 0
      <4>1. n \in 1 .. WordBits /\ n - 1 \in 0 .. WordBits
        BY <1>1, <3>2
      <4>2. f[n - 1] \in Nat /\ f[n] = F[n][f[n - 1]]
        BY <4>1, <1>3 DEF States
      <4> QED
        BY <3>2, <4>1, <4>2, <1>2
    <3> QED
      BY <3>1, <3>2
  <2> QED
    BY <2>1, <1>3 DEF States
<1> DEFINE c == sums(S)
<1>5. c = Step(c)
  <2> HIDE DEF Step
  <2> QED
    BY <1>4, <1>1a
<1> HIDE DEF c
<1>6. DOMAIN c = 0 .. WordBits /\ c = [n \in DOMAIN c |-> c[n]] /\ c[0] = 0
  BY <1>1, <1>5
<1>7. \A n \in 1 .. WordBits : c[n - 1] \in Nat => c[n] = F[n][c[n - 1]]
  <2> SUFFICES ASSUME NEW n \in 1 .. WordBits, c[n - 1] \in Nat PROVE c[n] = F[n][c[n - 1]]
    OBVIOUS
  <2>1. n \in 0 .. WordBits /\ n # 0
    OBVIOUS
  <2>2. c[n] = c[n - 1] + w(n)
    BY <1>5, <2>1
  <2> QED
    BY <1>2, <2>2
<1>8. States(c, WordBits, Nat, 0, F)
  BY <1>1, <1>2, <1>6, <1>7, LoopStays
<1>9. \A i \in 1 .. WordBits : c[i] = c[i - 1] + w(i)
  <2> SUFFICES ASSUME NEW i \in 1 .. WordBits PROVE c[i] = c[i - 1] + w(i)
    OBVIOUS
  <2>1. i - 1 \in 0 .. WordBits
    BY <1>1
  <2> QED
    BY <1>2, <1>8, <2>1 DEF States
<1> QED
  BY <1>8, <1>9 DEF States, c, w

\* One more bit.
LEMMA NextBit ==
    ASSUME NEW k \in Nat, k + 1 <= WordBits
    PROVE  /\ pow2[k] \in Nat \ {0} /\ pow2[k + 1] = 2 * pow2[k]
           /\ \A S : /\ sums(S)[k] \in Nat
                    /\ sums(S)[k + 1] = sums(S)[k] + (IF k \in S THEN pow2[k] ELSE 0)
<1>1. k + 1 \in 1 .. WordBits /\ k \in 0 .. WordBits /\ (k + 1) - 1 = k
  BY BitsAssumption
<1>2. pow2[k] \in Nat \ {0} /\ pow2[k + 1] = 2 * pow2[k]
  BY <1>1, Pow2
<1>3. ASSUME NEW S
      PROVE  /\ sums(S)[k] \in Nat
             /\ sums(S)[k + 1] = sums(S)[k] + (IF k \in S THEN pow2[k] ELSE 0)
  <2>1. /\ sums(S) \in [0 .. WordBits -> Nat]
        /\ \A n \in 1 .. WordBits :
             sums(S)[n] = sums(S)[n - 1] + (IF n - 1 \in S THEN pow2[n - 1] ELSE 0)
    BY Sums
  <2>2. sums(S)[k + 1] = sums(S)[(k + 1) - 1]
                           + (IF (k + 1) - 1 \in S THEN pow2[(k + 1) - 1] ELSE 0)
    BY <1>1, <2>1
  <2> QED
    BY <1>1, <2>1, <2>2
<1> QED
  BY <1>2, <1>3

\* What bits below n can make is less than 1 << n.
LEMMA SumBound ==
    ASSUME NEW S, NEW n \in 0 .. WordBits
    PROVE  sums(S)[n] \in Nat /\ sums(S)[n] < pow2[n]
<1> DEFINE P == {k \in Nat : k <= WordBits => sums(S)[k] < pow2[k]}
<1>1. 0 \in P
  BY Sums, Pow2
<1>2. \A k \in Nat : k \in P => k + 1 \in P
  <2> SUFFICES ASSUME NEW k \in Nat, sums(S)[k] < pow2[k], k + 1 <= WordBits
               PROVE  sums(S)[k + 1] < pow2[k + 1]
    BY BitsAssumption
  <2>1. k + 1 \in 1 .. WordBits /\ k \in 0 .. WordBits /\ (k + 1) - 1 = k
    BY BitsAssumption
  <2>2. /\ sums(S)[k] \in Nat /\ pow2[k] \in Nat /\ pow2[k + 1] = 2 * pow2[k]
        /\ sums(S)[k + 1] = sums(S)[k] + (IF k \in S THEN pow2[k] ELSE 0)
    BY NextBit
  <2> QED
    BY <2>2
<1>3. Nat \subseteq P
  <2> HIDE DEF P
  <2> QED
    BY <1>1, <1>2, Induction
<1> QED
  BY <1>3, Sums, BitsAssumption

\* The ones of a sum are those it was made of.
LEMMA SumBits ==
    ASSUME NEW S, NEW n \in 0 .. WordBits, NEW i \in Nat, i < n
    PROVE  (sums(S)[n] \div pow2[i]) % 2 = IF i \in S THEN 1 ELSE 0
<1> DEFINE is == IF i \in S THEN 1 ELSE 0
           P == {k \in Nat : i < k /\ k <= WordBits => (sums(S)[k] \div pow2[i]) % 2 = is}
<1>1. 0 \in P
  OBVIOUS
<1>2. \A k \in Nat : k \in P => k + 1 \in P
  <2> SUFFICES ASSUME NEW k \in Nat, i < k => (sums(S)[k] \div pow2[i]) % 2 = is,
                      i <= k, k + 1 <= WordBits
               PROVE  (sums(S)[k + 1] \div pow2[i]) % 2 = is
    BY BitsAssumption
  <2> DEFINE s == sums(S)[k]
             e == IF k \in S THEN 1 ELSE 0
             p == pow2[i]
             w == pow2[k]
  <2>1. k + 1 \in 1 .. WordBits /\ k \in 0 .. WordBits /\ (k + 1) - 1 = k /\ i \in 0 .. WordBits
    BY BitsAssumption
  <2>2. s \in Nat /\ s < w /\ w \in Nat \ {0} /\ p \in Nat \ {0} /\ e \in {0, 1}
    BY <2>1, SumBound, Pow2
  <2>3. sums(S)[k + 1] = s + w * e
    BY <2>2, NextBit
  <2>4. CASE i = k
    <3>1. s \in 0 .. w - 1 /\ e \in Int
      BY <2>2
    <3>2. (s + w * e) \div w = e
      <4> HIDE DEF s, w, e
      <4> QED
        BY <2>2, <3>1, Division
    <3>3. e % 2 = e
      BY <2>2
    <3> QED
      BY <2>3, <2>4, <3>2, <3>3
  <2>5. CASE i < k
    <3> DEFINE j == k - i - 1
               t == pow2[j]
               q == s \div p
               m == s % p
    <3>1. j \in Nat /\ j \in 0 .. WordBits /\ j + 1 \in 1 .. WordBits /\ (j + 1) - 1 = j /\ i + (j + 1) = k
      BY <2>1, <2>5, BitsAssumption
    <3>2. w = p * (2 * t) /\ t \in Nat
      <4>1. w = p * pow2[j + 1]
        <5>1. j + 1 \in Nat /\ i + (j + 1) <= WordBits
          BY <3>1, <2>1
        <5> DEFINE j1 == j + 1
        <5> HIDE DEF j1
        <5>2. pow2[i + j1] = pow2[i] * pow2[j1]
          BY <5>1, PowSum DEF j1
        <5> QED
          BY <3>1, <5>2 DEF j1
      <4>2. pow2[j + 1] = 2 * t /\ t \in Nat
        <5> HIDE DEF j
        <5> QED
          BY <3>1, Pow2
      <4> QED
        BY <4>1, <4>2
    <3>3. q \in Nat /\ m \in 0 .. p - 1 /\ s = m + p * q
      <4> HIDE DEF s, p
      <4> QED
        BY <2>2, Divided
    <3> HIDE DEF j, t, q, m, s, p, w, e
    <3>4. s + w * e = m + p * (q + 2 * (t * e))
      <4>1. m \in Int /\ e \in Int /\ p \in Int /\ t \in Int /\ q \in Int
        BY <2>2, <3>2, <3>3
      <4> QED
        BY <3>2, <3>3, <4>1
    <3>5. q + 2 * (t * e) \in Int /\ t * e \in Int
      BY <2>2, <3>2, <3>3
    <3>6. (s + w * e) \div p = q + 2 * (t * e)
      <4> DEFINE y == q + 2 * (t * e)
      <4>1. s + w * e = m + p * y /\ y \in Int
        BY <3>4, <3>5
      <4> HIDE DEF y
      <4>2. (s + w * e) \div p = y
        BY <2>2, <3>3, <4>1, Division
      <4> QED
        BY <4>2 DEF y
    <3>7. (q + 2 * (t * e)) % 2 = q % 2
      BY <3>3, <3>5
    <3> QED
      BY <2>3, <2>5, <3>6, <3>7 DEF q, s, p, w, e
  <2> QED
    BY <2>1, <2>4, <2>5
<1>3. Nat \subseteq P
  <2> HIDE DEF P
  <2> QED
    BY <1>1, <1>2, Induction
<1> QED
  BY <1>3, BitsAssumption

\* A word has bits, 32 in the code.
LEMMA SomeBits == WordBits \in Nat \ {0} /\ \A i \in Int : i % WordBits \in 0 .. WordBits - 1
<1>1. WordBits \in Nat \ {0}
  BY BitsAssumption, WordAssumption, Pow2
<1> QED
  BY <1>1

\* The positions of the bits are the counts that C defines.
LEMMA PowTyped == \A i \in 0 .. WordBits - 1 : pow2[i] \in Nat \ {0} /\ i % WordBits = i
<1>1. WordBits \in Nat
  BY SomeBits
<1>2. \A i \in 0 .. WordBits - 1 : i \in 0 .. WordBits
  BY <1>1
<1>3. \A i \in 0 .. WordBits - 1 : pow2[i] \in Nat \ {0}
  BY <1>2, Pow2
<1>4. \A i \in 0 .. WordBits - 1 : i % WordBits = i
  BY <1>1
<1> QED
  BY <1>3, <1>4

\* get_bit for the positions that a word has, and for any count.
LEMMA GetBit ==
    ASSUME NEW x \in Nat, NEW i \in Int
    PROVE  /\ get_bit(x, i) \in {0, 1}
           /\ i \in 0 .. WordBits - 1 =>
                i % WordBits = i /\ get_bit(x, i) = (x \div pow2[i]) % 2
<1>1. i % WordBits \in 0 .. WordBits - 1 /\ WordBits \in Nat
  BY SomeBits
<1>2. pow2[i % WordBits] \in Nat \ {0}
  BY <1>1, Pow2
<1>3. x \div pow2[i % WordBits] \in Nat
  BY <1>2, Divided
<1>4. i \in 0 .. WordBits - 1 => i % WordBits = i
  BY SomeBits
<1> QED
  BY <1>3, <1>4 DEF get_bit

\* The low bits of a number are its remainder.
LEMMA LowBits ==
    ASSUME NEW x \in Nat, NEW n \in 0 .. WordBits
    PROVE  sums(Ones(x))[n] = x % pow2[n]
<1> DEFINE S == Ones(x)
           P == {k \in Nat : k <= WordBits => sums(S)[k] = x % pow2[k]}
<1>1. 0 \in P
  <2>1. x % 1 = 0
    OBVIOUS
  <2> QED
    BY <2>1, Sums, Pow2
<1>2. \A k \in Nat : k \in P => k + 1 \in P
  <2> SUFFICES ASSUME NEW k \in Nat, sums(S)[k] = x % pow2[k], k + 1 <= WordBits
               PROVE  sums(S)[k + 1] = x % pow2[k + 1]
    BY BitsAssumption
  <2> DEFINE p == pow2[k]
             b == (x \div p) % 2
  <2>1. k \in 0 .. WordBits - 1
    BY BitsAssumption
  <2>2. /\ p \in Nat \ {0} /\ pow2[k + 1] = 2 * p
        /\ sums(S)[k + 1] = sums(S)[k] + (IF k \in S THEN p ELSE 0)
    BY NextBit
  <2>3. k \in S <=> b = 1
    BY <2>1, GetBit DEF Ones
  <2>4. b \in {0, 1}
    <3> HIDE DEF p
    <3>1. x \div p \in Nat
      BY <2>2, Divided
    <3> QED
      BY <3>1
  <2>5. x % (p * 2) = (x % p) + p * b
    <3> HIDE DEF p
    <3>1. 2 \in Nat \ {0}
      OBVIOUS
    <3> QED
      BY <2>2, <3>1, DividedTwice
  <2>6. p * b = IF k \in S THEN p ELSE 0
    <3> HIDE DEF p, b
    <3> QED
      BY <2>2, <2>3, <2>4
  <2>7. p * 2 = 2 * p
    BY <2>2
  <2> HIDE DEF p, b, S
  <2> QED
    BY <2>2, <2>5, <2>6, <2>7 DEF p
<1>3. Nat \subseteq P
  <2> HIDE DEF P
  <2> QED
    BY <1>1, <1>2, Induction
<1> QED
  BY <1>3, BitsAssumption

\* A set of positions is the ones of a word.
LEMMA WordOfOnes ==
    ASSUME NEW S
    PROVE  /\ OfOnes(S) \in Word
           /\ S \subseteq 0 .. WordBits - 1 => Ones(OfOnes(S)) = S
<1>1. WordBits \in 0 .. WordBits /\ WordBits \in Nat
  BY SomeBits
<1>2. OfOnes(S) \in Nat /\ OfOnes(S) < WordMod
  BY <1>1, SumBound, BitsAssumption DEF OfOnes
<1>3. OfOnes(S) \in Word
  BY <1>2, WordAssumption DEF Word
<1>4. ASSUME NEW i \in 0 .. WordBits - 1 PROVE i \in Ones(OfOnes(S)) <=> i \in S
  <2>1. i \in Nat /\ i < WordBits
    BY <1>1
  <2>2. (OfOnes(S) \div pow2[i]) % 2 = IF i \in S THEN 1 ELSE 0
    BY <1>1, <2>1, SumBits DEF OfOnes
  <2>3. get_bit(OfOnes(S), i) = (OfOnes(S) \div pow2[i]) % 2
    BY <1>2, GetBit
  <2> QED
    BY <2>2, <2>3 DEF Ones
<1>5. Ones(OfOnes(S)) \subseteq 0 .. WordBits - 1
  BY DEF Ones
<1> QED
  BY <1>3, <1>4, <1>5

\* A word is that of its ones.
LEMMA OnesOfWord ==
    ASSUME NEW x \in Word PROVE OfOnes(Ones(x)) = x
<1>1. WordBits \in 0 .. WordBits /\ x \in Nat
  BY SomeBits, WordAssumption DEF Word
<1>2. OfOnes(Ones(x)) = x % WordMod
  BY <1>1, LowBits, BitsAssumption DEF OfOnes
<1> QED
  BY <1>2, WordAssumption DEF Word

\* Words without a common one are or'ed by addition.
LEMMA OrAdds ==
    ASSUME NEW a \in Word, NEW b \in Word, Ones(a) \cap Ones(b) = {}
    PROVE  Or(a, b) = a + b
<1> DEFINE S == Ones(a)
           T == Ones(b)
           P == {k \in Nat : k <= WordBits => sums(S \cup T)[k] = sums(S)[k] + sums(T)[k]}
<1>1. 0 \in P
  BY Sums
<1>2. \A k \in Nat : k \in P => k + 1 \in P
  <2> SUFFICES ASSUME NEW k \in Nat, sums(S \cup T)[k] = sums(S)[k] + sums(T)[k], k + 1 <= WordBits
               PROVE  sums(S \cup T)[k + 1] = sums(S)[k + 1] + sums(T)[k + 1]
    BY BitsAssumption
  <2> DEFINE w(X) == IF k \in X THEN pow2[k] ELSE 0
  <2>1. /\ pow2[k] \in Nat
        /\ sums(S)[k] \in Nat /\ sums(S)[k + 1] = sums(S)[k] + w(S)
        /\ sums(T)[k] \in Nat /\ sums(T)[k + 1] = sums(T)[k] + w(T)
        /\ sums(S \cup T)[k + 1] = sums(S \cup T)[k] + w(S \cup T)
    BY NextBit
  <2>2. w(S \cup T) = w(S) + w(T) /\ w(S) \in Nat /\ w(T) \in Nat
    BY <2>1
  <2> HIDE DEF w, S, T
  <2> QED
    BY <2>1, <2>2
<1>3. Nat \subseteq P
  <2> HIDE DEF P
  <2> QED
    BY <1>1, <1>2, Induction
<1>4. OfOnes(S \cup T) = OfOnes(S) + OfOnes(T)
  <2>1. sums(S \cup T)[WordBits] = sums(S)[WordBits] + sums(T)[WordBits]
    <3> HIDE DEF S, T
    <3>1. WordBits \in P
      <4> HIDE DEF P
      <4> QED
        BY <1>3, BitsAssumption
    <3>2. WordBits <= WordBits
      BY BitsAssumption
    <3> QED
      BY <3>1, <3>2
  <2> HIDE DEF S, T
  <2> QED
    BY <2>1 DEF OfOnes
<1> QED
  BY <1>4, OnesOfWord DEF Or

\* The bitwise operators and the shifts compute words, for every count.
LEMMA BitsTyped ==
    ASSUME NEW a \in Word, NEW b \in Word, NEW n \in Int
    PROVE  /\ And(a, b) \in Word /\ Or(a, b) \in Word /\ Xor(a, b) \in Word
           /\ ShiftLeft(a, n) \in Word /\ ShiftRight(a, n) \in Word /\ Complement(a) \in Word
           /\ asr(a, n) \in Word /\ ror(a, n) \in Word
<1>1. \A x \in Word, y \in Word : And(x, y) \in Word /\ Or(x, y) \in Word /\ Xor(x, y) \in Word
  BY WordOfOnes DEF And, Or, Xor
<1>2. ASSUME NEW x \in Word, NEW k \in Int PROVE ShiftLeft(x, k) \in Word /\ ShiftRight(x, k) \in Word
  <2> DEFINE p == pow2[k % WordBits]
  <2>1. p \in Nat \ {0}
    <3>1. k % WordBits \in 0 .. WordBits
      BY SomeBits
    <3> QED
      BY <3>1, Pow2
  <2>2. x \in Nat /\ x < WordMod /\ WordMod \in Nat \ {0}
    BY WordAssumption DEF Word
  <2> HIDE DEF p
  <2>3. (x * p) % WordMod \in Word
    <3>1. x * p \in Nat
      BY <2>1, <2>2
    <3> QED
      BY <2>2, <3>1, Divided DEF Word
  <2>4. x \div p \in Word
    <3> DEFINE q == x \div p
    <3>1. q \in Nat /\ x % p \in 0 .. p - 1 /\ x = (x % p) + p * q
      BY <2>1, <2>2, Divided
    <3> HIDE DEF q
    <3>2. q <= p * q
      <4>1. p - 1 \in Nat /\ (p - 1) * q \in Nat
        BY <2>1, <3>1
      <4>2. p * q = (p - 1) * q + q
        BY <2>1, <3>1
      <4> QED
        BY <3>1, <4>1, <4>2
    <3>3. q <= x
      <4> DEFINE t == p * q
                 m == x % p
      <4>1. t \in Nat
        BY <2>1, <3>1
      <4>2. x = m + t /\ q <= t /\ m \in Nat
        BY <2>1, <3>1, <3>2
      <4> HIDE DEF t, m
      <4> QED
        BY <3>1, <4>1, <4>2
    <3> QED
      BY <2>2, <3>1, <3>3 DEF q, Word
  <2> QED
    BY <2>3, <2>4 DEF ShiftLeft, ShiftRight, p
<1>3. WordBits - n \in Int /\ 0 \in Word /\ WordMod - 1 \in Word
  BY SomeBits, WordAssumption DEF Word
<1>4. Complement(a) \in Word
  BY WordAssumption DEF Complement, Word
<1>5. asr(a, n) \in Word
  BY <1>1, <1>2, <1>3 DEF asr
<1>6. ror(a, n) \in Word
  BY <1>1, <1>2, <1>3 DEF ror
<1> QED
  BY <1>1, <1>2, <1>4, <1>5, <1>6

\* What is less than 1 << j has no one from bit j on.
LEMMA HighZero ==
    ASSUME NEW a \in Nat, NEW j \in Nat, NEW i \in j .. WordBits - 1, a < pow2[j]
    PROVE  get_bit(a, i) = 0
<1> DEFINE k == i - j
<1>1. /\ k \in Nat /\ i \in 0 .. WordBits - 1 /\ j + k = i /\ j + k <= WordBits
      /\ j \in 0 .. WordBits /\ k \in 0 .. WordBits
  BY SomeBits
<1>2. pow2[i] = pow2[j] * pow2[k]
  <2> HIDE DEF k
  <2> QED
    BY <1>1, PowSum
<1>3. pow2[j] \in Nat \ {0} /\ pow2[k] \in Nat \ {0}
  BY <1>1, Pow2
<1>4. a \div pow2[j] = 0
  <2> DEFINE p == pow2[j]
  <2>1. a = a + p * 0 /\ a \in 0 .. p - 1 /\ p \in Nat \ {0}
    BY <1>3
  <2> HIDE DEF p
  <2>2. a \div p = 0
    BY <2>1, Division
  <2> QED
    BY <2>2 DEF p
<1>5. a \div pow2[i] = 0 \div pow2[k]
  <2> DEFINE p == pow2[j]
             e == pow2[k]
  <2>1. p \in Nat \ {0} /\ e \in Nat \ {0} /\ pow2[i] = p * e /\ a \div p = 0
    BY <1>2, <1>3, <1>4
  <2> HIDE DEF p, e
  <2>2. a \div (p * e) = (a \div p) \div e
    BY <2>1, DividedTwice
  <2> QED
    BY <2>1, <2>2 DEF e
<1>6. 0 \div pow2[k] = 0
  BY <1>3
<1>7. get_bit(a, i) = (a \div pow2[i]) % 2
  BY <1>1, GetBit
<1> QED
  BY <1>5, <1>6, <1>7

\* A multiple of 1 << j has no one below bit j.
LEMMA LowZero ==
    ASSUME NEW m \in Nat, NEW j \in 0 .. WordBits, NEW i \in 0 .. j - 1
    PROVE  get_bit(m * pow2[j], i) = 0
<1> DEFINE k == j - i - 1
           k1 == k + 1
           p == pow2[i]
           t == pow2[k]
<1>1. /\ k \in Nat /\ k + 1 <= WordBits /\ i + k1 = j /\ k1 \in Nat /\ i \in Nat /\ j <= WordBits
      /\ i \in 0 .. WordBits - 1 /\ j \in 0 .. WordBits
  BY SomeBits
<1>2. pow2[j] = p * pow2[k1]
  <2> HIDE DEF k1
  <2> QED
    BY <1>1, PowSum
<1>3. pow2[k1] = 2 * t /\ t \in Nat /\ p \in Nat \ {0}
  <2>1. p \in Nat \ {0}
    BY <1>1, Pow2, BitsAssumption
  <2> HIDE DEF k
  <2>2. pow2[k + 1] = 2 * pow2[k] /\ pow2[k] \in Nat
    BY <1>1, NextBit
  <2> QED
    BY <2>1, <2>2
<1> HIDE DEF k, k1, p, t
<1>4. m * pow2[j] = 0 + p * (2 * (m * t)) /\ m * t \in Nat
  BY <1>2, <1>3
<1>5. (m * pow2[j]) \div p = 2 * (m * t)
  <2> DEFINE q == 2 * (m * t)
  <2>1. q \in Int /\ 0 \in 0 .. p - 1
    BY <1>3, <1>4
  <2> HIDE DEF q
  <2>2. (0 + p * q) \div p = q
    BY <1>3, <2>1, Division
  <2> QED
    BY <1>4, <2>2 DEF q
<1>6. (2 * (m * t)) % 2 = 0
  BY <1>4
<1>7. m * pow2[j] \in Nat
  <2>1. pow2[j] \in Nat
    BY <1>1, Pow2
  <2> QED
    BY <2>1
<1>8. get_bit(m * pow2[j], i) = ((m * pow2[j]) \div pow2[i]) % 2
  BY <1>1, <1>7, GetBit
<1> QED
  BY <1>5, <1>6, <1>8 DEF p

\* The value of a rotation: the low bits are put above the others.
LEMMA Rotated ==
    ASSUME NEW x \in Word, NEW n \in 1 .. WordBits - 1
    PROVE  /\ ShiftRight(x, n) = x \div pow2[n]
           /\ ror(x, n) = (x \div pow2[n]) + (x % pow2[n]) * pow2[WordBits - n]
<1> DEFINE k == WordBits - n
           p == pow2[n]
           t == pow2[k]
           q == x \div p
           m == x % p
<1>1. /\ WordBits \in Nat /\ n \in 0 .. WordBits - 1 /\ k \in 0 .. WordBits - 1
      /\ n \in Nat /\ k \in Nat /\ n + k = WordBits /\ n \in 0 .. WordBits /\ k \in 0 .. WordBits
  BY SomeBits
<1>2. n % WordBits = n /\ k % WordBits = k
  <2> HIDE DEF k
  <2> QED
    BY <1>1
<1>3. p \in Nat \ {0} /\ t \in Nat \ {0}
  BY <1>1, Pow2
<1>4. WordMod = p * t
  <2> HIDE DEF k
  <2> QED
    BY <1>1, PowSum, BitsAssumption
<1>5. x \in Nat /\ x < WordMod
  BY WordAssumption DEF Word
<1>6. ShiftRight(x, n) = q /\ ShiftLeft(x, k) = (x * t) % WordMod
  BY <1>2 DEF ShiftRight, ShiftLeft
<1> HIDE DEF p, t, k
<1>7. q \in Nat /\ m \in 0 .. p - 1 /\ x = m + p * q
  BY <1>3, <1>5, Divided
<1> HIDE DEF q, m
<1>8. q < t
  <2> SUFFICES ASSUME q >= t PROVE FALSE
    BY <1>3, <1>7
  <2>1. p * q >= p * t
    BY <1>3, <1>7
  <2>2. p * q \in Nat /\ p * t \in Nat
    BY <1>3, <1>7
  <2> QED
    BY <1>4, <1>5, <1>7, <2>1, <2>2
<1>9. m * t \in 0 .. WordMod - 1
  <2>1. m \in Nat /\ m + 1 <= p
    BY <1>3, <1>7
  <2>2. (m + 1) * t <= p * t /\ (m + 1) * t = m * t + t /\ m * t \in Nat
    BY <1>3, <2>1
  <2> QED
    BY <1>3, <1>4, <2>2
<1>10. (x * t) % WordMod = m * t
  <2>1. x * t = m * t + WordMod * q
    <3>1. m \in Int /\ q \in Int /\ p \in Int /\ t \in Int
      BY <1>3, <1>7
    <3> QED
      BY <1>4, <1>7, <3>1
  <2> DEFINE y == m * t
  <2>2. y \in 0 .. WordMod - 1 /\ x * t = y + WordMod * q /\ q \in Int /\ WordMod \in Nat \ {0}
    BY <1>7, <1>9, <2>1, WordAssumption
  <2> HIDE DEF y
  <2>3. (x * t) % WordMod = y
    BY <2>2, Division
  <2> QED
    BY <2>3 DEF y
<1>11. q \in Word /\ m * t \in Word
  <2>1. q \in Nat /\ q < WordMod
    <3>1. p * q \in Nat /\ q <= p * q
      <4>0. p * q \in Nat
        BY <1>3, <1>7
      <4>1. p - 1 \in Nat /\ (p - 1) * q \in Nat /\ p * q = (p - 1) * q + q
        BY <1>3, <1>7
      <4> DEFINE u == (p - 1) * q
      <4> HIDE DEF u
      <4> QED
        BY <1>7, <4>0, <4>1 DEF u
    <3> DEFINE u == p * q
    <3>2. x = m + u /\ m \in Nat /\ u \in Nat /\ q <= u /\ q \in Nat
      BY <1>7, <3>1
    <3> HIDE DEF u
    <3> QED
      BY <1>5, <3>2, WordAssumption
  <2> QED
    BY <1>9, <2>1, WordAssumption DEF Word
<1>12. Ones(q) \cap Ones(m * t) = {}
  <2> SUFFICES ASSUME NEW i \in 0 .. WordBits - 1, get_bit(q, i) = 1, get_bit(m * t, i) = 1
               PROVE  FALSE
    BY DEF Ones
  <2>1. m \in Nat
    BY <1>7
  <2>2. CASE i < k
    <3>1. i \in 0 .. k - 1
      BY <1>1, <2>2
    <3> QED
      BY <1>1, <2>1, <3>1, LowZero DEF t
  <2>3. CASE i >= k
    <3>1. i \in k .. WordBits - 1
      BY <1>1, <2>3
    <3> QED
      BY <1>1, <1>7, <1>8, <3>1, HighZero DEF t
  <2> QED
    BY <1>1, <2>2, <2>3
<1>13. Or(q, m * t) = q + m * t
  BY <1>11, <1>12, OrAdds
<1> QED
  BY <1>6, <1>10, <1>13 DEF ror, q, m, p, t, k

\* A shift to the left by n > 1 places is one by n - 1 places and one by one more.
LEMMA LeftTwice ==
    ASSUME NEW x \in Word, NEW n \in 2 .. WordBits - 1
    PROVE  LET y == ShiftLeft(x, n - 1)
           IN  /\ ShiftLeft(x, n) = ShiftLeft(y, 1)
               /\ get_bit(x, WordBits - n) = get_bit(y, WordBits - 1)
<1> DEFINE p == pow2[n - 1]
           t == pow2[WordBits - n]
           h == pow2[WordBits - 1]
           z == x * p
           y == z % WordMod
<1>1. /\ WordBits \in Nat /\ n \in Nat /\ n - 1 \in 0 .. WordBits - 1 /\ n \in 0 .. WordBits - 1
      /\ WordBits - n \in 0 .. WordBits - 1 /\ WordBits - 1 \in 0 .. WordBits - 1
      /\ 1 \in 0 .. WordBits - 1 /\ (n - 1) + 1 = n /\ (WordBits - n) + (n - 1) = WordBits - 1
      /\ (WordBits - 1) + 1 = WordBits
  BY SomeBits
<1>2. p \in Nat \ {0} /\ t \in Nat \ {0} /\ h \in Nat \ {0}
  BY <1>1, PowTyped
<1>3. pow2[n] = 2 * p /\ WordMod = 2 * h /\ pow2[1] = 2
  <2>1. n \in 1 .. WordBits /\ WordBits \in 1 .. WordBits /\ 1 \in 1 .. WordBits /\ 1 - 1 = 0
    BY <1>1
  <2> QED
    BY <2>1, Pow2, BitsAssumption
<1>4. h = t * p
  <2> DEFINE i == WordBits - n
             j == n - 1
  <2>1. i \in Nat /\ j \in Nat /\ i + j <= WordBits /\ i + j = WordBits - 1
    BY <1>1
  <2> HIDE DEF i, j
  <2>2. pow2[i + j] = pow2[i] * pow2[j]
    BY <2>1, PowSum
  <2> QED
    BY <2>1, <2>2 DEF i, j
<1>5. \A i \in 0 .. WordBits - 1 : i % WordBits = i
  BY PowTyped
<1>6. /\ ShiftLeft(x, n - 1) = y /\ ShiftLeft(x, n) = (x * (2 * p)) % WordMod
      /\ ShiftLeft(y, 1) = (y * 2) % WordMod
  BY <1>1, <1>3, <1>5 DEF ShiftLeft
<1>7. x \in Nat /\ WordMod \in Nat \ {0}
  BY WordAssumption DEF Word
<1> HIDE DEF p, t, h
<1>8. z \in Nat /\ x * (2 * p) = 2 * z
  BY <1>2, <1>7
<1> HIDE DEF z
<1> DEFINE q == z \div WordMod
<1>9. q \in Nat /\ y \in 0 .. WordMod - 1 /\ z = y + WordMod * q
  BY <1>7, <1>8, Divided
<1>10. z \div h = x \div t
  <2> DEFINE m == x % t
             u == x \div t
  <2>1. u \in Nat /\ m \in 0 .. t - 1 /\ x = m + t * u
    BY <1>2, <1>7, Divided
  <2> HIDE DEF m, u
  <2>2. m * p \in 0 .. h - 1
    <3>1. m \in Nat /\ m + 1 <= t
      BY <1>2, <2>1
    <3>2. (m + 1) * p <= t * p /\ (m + 1) * p = m * p + p /\ m * p \in Nat
      BY <1>2, <3>1
    <3> QED
      BY <1>2, <1>4, <3>2
  <2>3. z = m * p + h * u
    <3>1. m \in Int /\ u \in Int /\ p \in Int /\ t \in Int
      BY <1>2, <2>1
    <3> QED
      BY <1>4, <2>1, <3>1 DEF z
  <2> DEFINE w == m * p
  <2>4. w \in 0 .. h - 1 /\ z = w + h * u /\ u \in Int
    BY <2>1, <2>2, <2>3
  <2> HIDE DEF w
  <2>5. z \div h = u
    BY <1>2, <2>4, Division
  <2> QED
    BY <2>5 DEF u
<1>11. y = (z % h) + h * ((z \div h) % 2)
  <2>1. 2 \in Nat \ {0} /\ h * 2 = WordMod
    BY <1>2, <1>3
  <2>2. z % (h * 2) = (z % h) + h * ((z \div h) % 2)
    BY <1>2, <1>8, <2>1, DividedTwice
  <2> QED
    BY <2>1, <2>2
<1> HIDE DEF y, q
<1>12. (y * 2) % WordMod = (2 * z) % WordMod
  <2> DEFINE y2 == y * 2
             m == y2 % WordMod
             u == y2 \div WordMod
  <2>1. y2 \in Nat
    BY <1>7, <1>9
  <2> HIDE DEF y2
  <2>2. u \in Nat /\ m \in 0 .. WordMod - 1 /\ y2 = m + WordMod * u
    BY <1>7, <2>1, Divided
  <2> HIDE DEF m, u
  <2> DEFINE v == u + 2 * q
  <2>3. 2 * z = m + WordMod * v /\ v \in Int
    <3>1. y \in Int /\ q \in Int /\ m \in Int /\ u \in Int /\ WordMod \in Int
      BY <1>7, <1>9, <2>2
    <3>2. 2 * z = y * 2 + WordMod * (2 * q)
      BY <1>9, <3>1
    <3> QED
      BY <2>2, <3>1, <3>2 DEF y2
  <2> HIDE DEF v
  <2>4. (2 * z) % WordMod = m
    BY <1>7, <2>2, <2>3, Division
  <2> QED
    BY <2>4 DEF m, y2
<1>13. get_bit(x, WordBits - n) = (x \div t) % 2
  BY <1>1, <1>7, GetBit DEF t
<1>14. get_bit(y, WordBits - 1) = (y \div h) % 2
  BY <1>1, <1>7, <1>9, GetBit DEF h
<1>15. y \div h = (x \div t) % 2 /\ x \div t \in Nat
  <2> DEFINE m == z % h
             b == (x \div t) % 2
  <2>1. m \in 0 .. h - 1 /\ x \div t \in Nat
    BY <1>2, <1>7, <1>8, Divided
  <2>2. y = m + h * b /\ b \in Int
    BY <1>10, <1>11, <2>1
  <2> HIDE DEF m, b
  <2>3. y \div h = b
    BY <1>2, <2>1, <2>2, Division
  <2> QED
    BY <2>1, <2>3 DEF b
<1>16. ((x \div t) % 2) % 2 = (x \div t) % 2
  BY <1>15
<1> QED
  BY <1>6, <1>8, <1>12, <1>13, <1>14, <1>15, <1>16

\* The same to the right, where the carry is the bit shifted out last.
LEMMA RightTwice ==
    ASSUME NEW x \in Word, NEW n \in 2 .. WordBits - 1
    PROVE  LET y == ShiftRight(x, n - 1)
           IN  /\ ShiftRight(x, n) = ShiftRight(y, 1)
               /\ get_bit(x, n - 1) = get_bit(y, 0)
               /\ get_bit(x, n - 1) = y % 2
<1> DEFINE p == pow2[n - 1]
<1>1. /\ WordBits \in Nat /\ n \in Nat /\ n - 1 \in 0 .. WordBits - 1 /\ n \in 0 .. WordBits - 1
      /\ 1 \in 0 .. WordBits - 1 /\ 0 \in 0 .. WordBits - 1
  BY SomeBits
<1>2. p \in Nat \ {0}
  BY <1>1, PowTyped
<1>3. pow2[n] = p * 2 /\ pow2[1] = 2 /\ pow2[0] = 1
  <2>1. n \in 1 .. WordBits /\ 1 \in 1 .. WordBits /\ 1 - 1 = 0
    BY <1>1
  <2>2. pow2[n] = 2 * p /\ pow2[1] = 2 /\ pow2[0] = 1
    BY <2>1, Pow2
  <2> QED
    BY <1>2, <2>2
<1>4. \A i \in 0 .. WordBits - 1 : i % WordBits = i
  BY PowTyped
<1>5. x \in Nat
  BY WordAssumption DEF Word
<1> DEFINE y == x \div p
<1>6. ShiftRight(x, n - 1) = y /\ ShiftRight(x, n) = x \div (p * 2) /\ ShiftRight(y, 1) = y \div 2
  BY <1>1, <1>3, <1>4 DEF ShiftRight
<1>7. get_bit(x, n - 1) = y % 2
  BY <1>1, <1>5, GetBit
<1> HIDE DEF p
<1>8. y \in Nat /\ x \div (p * 2) = y \div 2
  <2>1. 2 \in Nat \ {0}
    OBVIOUS
  <2> QED
    BY <1>2, <1>5, <2>1, Divided, DividedTwice
<1> HIDE DEF y
<1>9. get_bit(y, 0) = (y \div 1) % 2
  BY <1>1, <1>3, <1>8, GetBit
<1>10. y \div 1 = y
  BY <1>8
<1> QED
  BY <1>6, <1>7, <1>8, <1>9, <1>10

\* The same for rotations.
LEMMA RotateTwice ==
    ASSUME NEW x \in Word, NEW n \in 2 .. WordBits - 1
    PROVE  LET y == ror(x, n - 1)
           IN  /\ ror(x, n) = ror(y, 1)
               /\ get_bit(x, n - 1) = get_bit(y, 0)
<1> DEFINE p == pow2[n - 1]
           t == pow2[WordBits - n]
           h == pow2[WordBits - 1]
           q == x \div p
           m == x % p
           b == q % 2
           y == ror(x, n - 1)
<1>1. /\ WordBits \in Nat /\ n \in Nat /\ n \in 1 .. WordBits - 1 /\ n - 1 \in 1 .. WordBits - 1
      /\ n - 1 \in 0 .. WordBits - 1 /\ WordBits - n \in 0 .. WordBits - 1
      /\ WordBits - 1 \in 0 .. WordBits - 1 /\ 1 \in 1 .. WordBits - 1 /\ 0 \in 0 .. WordBits - 1
      /\ WordBits - n \in Nat /\ (WordBits - n) + 1 <= WordBits
      /\ WordBits - (n - 1) = (WordBits - n) + 1 /\ n - 1 \in Nat
  BY SomeBits
<1>2. p \in Nat \ {0} /\ t \in Nat \ {0} /\ h \in Nat \ {0}
  BY <1>1, PowTyped
<1>3. pow2[n] = p * 2 /\ pow2[1] = 2 /\ pow2[0] = 1
  <2>1. n \in 1 .. WordBits /\ 1 \in 1 .. WordBits /\ 1 - 1 = 0
    BY <1>1
  <2>2. pow2[n] = 2 * p /\ pow2[1] = 2 /\ pow2[0] = 1
    BY <2>1, Pow2
  <2> QED
    BY <1>2, <2>2
<1>4. pow2[WordBits - (n - 1)] = 2 * t
  <2> DEFINE k == WordBits - n
  <2> HIDE DEF k
  <2>1. pow2[k + 1] = 2 * pow2[k]
    BY <1>1, NextBit DEF k
  <2> QED
    BY <1>1, <2>1 DEF k
<1>5. h = t * p
  <2> DEFINE i == WordBits - n
             j == n - 1
  <2>1. i \in Nat /\ j \in Nat /\ i + j <= WordBits /\ i + j = WordBits - 1
    BY <1>1
  <2> HIDE DEF i, j
  <2>2. pow2[i + j] = pow2[i] * pow2[j]
    BY <2>1, PowSum
  <2> QED
    BY <2>1, <2>2 DEF i, j
<1>6. x \in Nat
  BY WordAssumption DEF Word
<1>7. y = q + m * (2 * t) /\ y \in Word
  <2> DEFINE k == n - 1
  <2>1. k \in 1 .. WordBits - 1 /\ k \in Int /\ pow2[WordBits - k] = 2 * t
    BY <1>1, <1>4
  <2> HIDE DEF k
  <2>2. ror(x, k) = (x \div pow2[k]) + (x % pow2[k]) * pow2[WordBits - k]
    BY <2>1, Rotated
  <2>3. ror(x, k) \in Word
    BY <2>1, BitsTyped
  <2> QED
    BY <2>1, <2>2, <2>3 DEF k
<1>8. ror(x, n) = (x \div (p * 2)) + (x % (p * 2)) * t
  BY <1>1, <1>3, Rotated
<1>9. get_bit(x, n - 1) = b
  BY <1>1, <1>6, GetBit
<1> HIDE DEF y
<1>10. ror(y, 1) = (y \div 2) + (y % 2) * h
  BY <1>1, <1>3, <1>7, Rotated
<1>11. y \in Nat
  BY <1>7, WordAssumption DEF Word
<1>12. get_bit(y, 0) = y % 2
  <2>1. get_bit(y, 0) = (y \div pow2[0]) % 2
    BY <1>1, <1>11, GetBit
  <2>2. y \div 1 = y
    BY <1>11
  <2> QED
    BY <1>3, <2>1, <2>2
<1> HIDE DEF p, t, h
<1>13. q \in Nat /\ m \in Nat /\ x = m + p * q
  <2>1. q \in Nat /\ m \in 0 .. p - 1 /\ x = m + p * q
    BY <1>2, <1>6, Divided
  <2> QED
    BY <1>2, <2>1
<1>14. x \div (p * 2) = q \div 2 /\ x % (p * 2) = m + p * b
  <2>1. 2 \in Nat \ {0}
    OBVIOUS
  <2> QED
    BY <1>2, <1>6, <2>1, DividedTwice
<1> HIDE DEF q, m
<1>15. b \in {0, 1} /\ q \div 2 \in Nat /\ q = b + 2 * (q \div 2)
  BY <1>13
<1> DEFINE u == q \div 2
<1> HIDE DEF b, u
<1>16. y = b + 2 * (u + m * t) /\ u + m * t \in Int
  <2>1. m * t \in Int /\ u \in Int /\ b \in Int /\ m * (2 * t) = 2 * (m * t)
    BY <1>2, <1>13, <1>15 DEF u
  <2> QED
    BY <1>7, <1>15, <2>1 DEF u
<1>17. y \div 2 = u + m * t /\ y % 2 = b
  <2> DEFINE v == u + m * t
  <2>1. y = b + 2 * v /\ v \in Int /\ b \in {0, 1}
    BY <1>15, <1>16
  <2> HIDE DEF v
  <2>2. y \div 2 = v /\ y % 2 = b
    BY <2>1
  <2> QED
    BY <2>2 DEF v
<1>18. (m + p * b) * t = m * t + b * h
  <2>1. m \in Int /\ p \in Int /\ b \in Int /\ t \in Int
    BY <1>2, <1>13, <1>15
  <2> QED
    BY <1>5, <2>1
<1>19. u \in Int /\ m * t \in Int /\ b * h \in Int
  BY <1>2, <1>13, <1>15 DEF u
<1> QED
  BY <1>8, <1>9, <1>10, <1>12, <1>14, <1>17, <1>18, <1>19 DEF u, y

----------------------------------------------------------------------------

\* A shift by n places is n shifts by one place, in its value and in its carry, for
\* every word size: the counts of LSL, LSR and ROR and the carries shifter_operand
\* takes are consistent.
THEOREM ShiftsAlwaysCompose == CoreSpec => []ShiftsCompose
<1>1. RegTypeOK => ShiftsCompose
  <2> SUFFICES ASSUME RegTypeOK, NEW type \in {"LSL", "LSR", "ROR"},
                      NEW n \in 2 .. WordBits - 1, NEW R \in {0, 1}
               PROVE  LET f(v, k) == [r EXCEPT ![0] = v, ![1] = k]
                          by(v, k) == shifter_operand(f(v, k),
                                        [I |-> 0, rm |-> 0, type |-> type, R |-> R,
                                         amount |-> IF R = 1 THEN 1 ELSE k])
                      IN  by(r[0], n) = by(by(r[0], n - 1).value, 1)
    BY DEF ShiftsCompose
  <2> DEFINE f(v, k) == [r EXCEPT ![0] = v, ![1] = k]
             o(k) == [I |-> 0, rm |-> 0, type |-> type, R |-> R,
                      amount |-> IF R = 1 THEN 1 ELSE k]
             by(v, k) == shifter_operand(f(v, k), o(k))
             x == r[0]
  <2>1. r \in RegisterFile /\ x \in Word
    BY DEF RegTypeOK, RegisterFile, Slot
  <2>2. /\ n \in 1 .. WordBits - 1 /\ n - 1 \in 1 .. WordBits - 1 /\ 1 \in 1 .. WordBits - 1
        /\ WordBits \in Nat /\ n \in Int /\ n - 1 \in Int /\ 1 - 1 = 0
    BY SomeBits
  <2>3. ASSUME NEW v \in Word, NEW k \in 1 .. WordBits - 1
        PROVE  by(v, k) = CASE type = "LSL" -> [value |-> ShiftLeft(v, k),
                                                carry |-> get_bit(v, WordBits - k)]
                            [] type = "LSR" -> [value |-> ShiftRight(v, k),
                                                carry |-> get_bit(v, k - 1)]
                            [] type = "ROR" -> [value |-> ror(v, k), carry |-> get_bit(v, k - 1)]
    <3> DEFINE g == f(v, k)
    <3>1. g[0] = v /\ g[1] = k
      BY <2>1 DEF RegisterFile, Slot
    <3> HIDE DEF g
    <3>2. arm_read_register(g, 0) = v /\ arm_read_register(g, 1) = k
      BY <3>1 DEF arm_read_register, read_register, register_slot, banked, PC
    <3>3. k # 0
      OBVIOUS
    <3>4. shift_amount(g, o(k)) = k
      BY <3>2, <3>3 DEF shift_amount
    <3>5. o(k).rm = 0 /\ o(k).type = type
      OBVIOUS
    <3> HIDE DEF o
    <3>6. CASE type = "LSL"
      BY <3>2, <3>3, <3>4, <3>5, <3>6 DEF shifter_operand, g
    <3>7. CASE type = "LSR"
      BY <3>2, <3>3, <3>4, <3>5, <3>7 DEF shifter_operand, g
    <3>8. CASE type = "ROR"
      BY <3>2, <3>3, <3>4, <3>5, <3>8 DEF shifter_operand, g
    <3> QED
      BY <3>6, <3>7, <3>8
  <2> HIDE DEF by
  <2>4. CASE type = "LSL"
    <3> DEFINE y == ShiftLeft(x, n - 1)
    <3>1. y \in Word
      BY <2>1, <2>2, BitsTyped
    <3>2. ShiftLeft(x, n) = ShiftLeft(y, 1) /\ get_bit(x, WordBits - n) = get_bit(y, WordBits - 1)
      BY <2>1, LeftTwice
    <3> HIDE DEF y, x
    <3>3. by(x, n - 1) = [value |-> y, carry |-> get_bit(x, WordBits - (n - 1))]
      BY <2>1, <2>2, <2>3, <2>4 DEF y
    <3>4. by(y, 1) = [value |-> ShiftLeft(y, 1), carry |-> get_bit(y, WordBits - 1)]
      BY <2>2, <2>3, <2>4, <3>1
    <3>5. by(x, n) = [value |-> ShiftLeft(x, n), carry |-> get_bit(x, WordBits - n)]
      BY <2>1, <2>2, <2>3, <2>4
    <3>6. by(x, n) = by(by(x, n - 1).value, 1)
      BY <3>2, <3>3, <3>4, <3>5
    <3> QED
      BY <3>6 DEF by, x
  <2>5. CASE type = "LSR"
    <3> DEFINE y == ShiftRight(x, n - 1)
    <3>1. y \in Word
      BY <2>1, <2>2, BitsTyped
    <3>2. ShiftRight(x, n) = ShiftRight(y, 1) /\ get_bit(x, n - 1) = get_bit(y, 0)
      BY <2>1, RightTwice
    <3> HIDE DEF y, x
    <3>3. by(x, n - 1) = [value |-> y, carry |-> get_bit(x, (n - 1) - 1)]
      BY <2>1, <2>2, <2>3, <2>5 DEF y
    <3>4. by(y, 1) = [value |-> ShiftRight(y, 1), carry |-> get_bit(y, 0)]
      BY <2>2, <2>3, <2>5, <3>1
    <3>5. by(x, n) = [value |-> ShiftRight(x, n), carry |-> get_bit(x, n - 1)]
      BY <2>1, <2>2, <2>3, <2>5
    <3>6. by(x, n) = by(by(x, n - 1).value, 1)
      BY <3>2, <3>3, <3>4, <3>5
    <3> QED
      BY <3>6 DEF by, x
  <2>6. CASE type = "ROR"
    <3> DEFINE y == ror(x, n - 1)
    <3>1. y \in Word
      BY <2>1, <2>2, BitsTyped
    <3>2. ror(x, n) = ror(y, 1) /\ get_bit(x, n - 1) = get_bit(y, 0)
      BY <2>1, RotateTwice
    <3> HIDE DEF y, x
    <3>3. by(x, n - 1) = [value |-> y, carry |-> get_bit(x, (n - 1) - 1)]
      BY <2>1, <2>2, <2>3, <2>6 DEF y
    <3>4. by(y, 1) = [value |-> ror(y, 1), carry |-> get_bit(y, 0)]
      BY <2>2, <2>3, <2>6, <3>1
    <3>5. by(x, n) = [value |-> ror(x, n), carry |-> get_bit(x, n - 1)]
      BY <2>1, <2>2, <2>3, <2>6
    <3>6. by(x, n) = by(by(x, n - 1).value, 1)
      BY <3>2, <3>3, <3>4, <3>5
    <3> QED
      BY <3>6 DEF by, x
  <2> QED
    BY <2>4, <2>5, <2>6
<1> QED
  BY <1>1, CoreTyped, PTL

----------------------------------------------------------------------------

\* The weights of the flags are powers of two times that of V.
LEMMA Weights ==
    /\ V \in Nat \ {0}
    /\ C = 2 * V /\ Z = 4 * V /\ N = 8 * V /\ WordMod = 16 * V
BY WordAssumption, CoreAssumption DEF V, C, Z, N

\* The sign of a word.
LEMMA Msb ==
    ASSUME NEW x \in Word PROVE msb(x) = IF x < N THEN 0 ELSE 1
<1>1. N \in Nat \ {0} /\ x \in 0 .. 2 * N - 1
  BY Weights DEF Word
<1>2. CASE x < N
  <2>1. x = x + N * 0 /\ x \in 0 .. N - 1
    BY <1>1, <1>2
  <2>2. x \div N = 0
    BY <1>1, <2>1, Division
  <2> QED
    BY <1>2, <2>2 DEF msb, Bit
<1>3. CASE x >= N
  <2>1. x = (x - N) + N * 1 /\ x - N \in 0 .. N - 1
    BY <1>1, <1>3
  <2>2. x \div N = 1
    BY <1>1, <2>1, Division
  <2> QED
    BY <1>1, <1>3, <2>2 DEF msb, Bit
<1> QED
  BY <1>1, <1>2, <1>3

\* The weight of a flag in the CPSR if the flag is set.
Part(bit, w) == IF bit = 1 THEN w ELSE 0

\* The flags of a CPSR put together from its low bits and four flags.
LEMMA FlagBits ==
    ASSUME NEW lo \in 0 .. V - 1,
           NEW n \in {0, 1}, NEW z \in {0, 1}, NEW c \in {0, 1}, NEW v \in {0, 1},
           NEW x, x = lo + Part(n, N) + Part(z, Z) + Part(c, C) + Part(v, V)
    PROVE  /\ x \in Word /\ x % V = lo
           /\ Bit(x, N) = n /\ Bit(x, Z) = z /\ Bit(x, C) = c /\ Bit(x, V) = v
<1>1. V \in Nat \ {0} /\ C = 2 * V /\ Z = 4 * V /\ N = 8 * V /\ WordMod = 16 * V
  BY Weights
<1>2. x \in Word
  BY <1>1 DEF Word, Part
<1>3. x \div V = 8 * n + 4 * z + 2 * c + v /\ x % V = lo
  <2> DEFINE m == lo
             q == 8 * n + 4 * z + 2 * c + v
  <2>1. m \in 0 .. V - 1 /\ q \in Int /\ V \in Nat \ {0}
    BY <1>1 DEF Part
  <2>2. x = m + V * q
    BY <1>1 DEF Part
  <2> HIDE DEF m, q
  <2>3. x \div V = q /\ x % V = m
    BY <2>1, <2>2, Division
  <2> QED
    BY <2>3 DEF m, q
<1>4. x \div C = 4 * n + 2 * z + c
  <2> DEFINE m == lo + Part(v, V)
             q == 4 * n + 2 * z + c
  <2>1. m \in 0 .. C - 1 /\ q \in Int /\ C \in Nat \ {0}
    BY <1>1 DEF Part
  <2>2. x = m + C * q
    BY <1>1 DEF Part
  <2> HIDE DEF m, q
  <2>3. x \div C = q /\ x % C = m
    BY <2>1, <2>2, Division
  <2> QED
    BY <2>3 DEF m, q
<1>5. x \div Z = 2 * n + z
  <2> DEFINE m == lo + Part(v, V) + Part(c, C)
             q == 2 * n + z
  <2>1. m \in 0 .. Z - 1 /\ q \in Int /\ Z \in Nat \ {0}
    BY <1>1 DEF Part
  <2>2. x = m + Z * q
    BY <1>1 DEF Part
  <2> HIDE DEF m, q
  <2>3. x \div Z = q /\ x % Z = m
    BY <2>1, <2>2, Division
  <2> QED
    BY <2>3 DEF m, q
<1>6. x \div N = n
  <2> DEFINE m == lo + Part(v, V) + Part(c, C) + Part(z, Z)
             q == n
  <2>1. m \in 0 .. N - 1 /\ q \in Int /\ N \in Nat \ {0}
    BY <1>1 DEF Part
  <2>2. x = m + N * q
    BY <1>1 DEF Part
  <2> HIDE DEF m, q
  <2>3. x \div N = q /\ x % N = m
    BY <2>1, <2>2, Division
  <2> QED
    BY <2>3 DEF m, q
<1> QED
  BY <1>2, <1>3, <1>4, <1>5, <1>6 DEF Bit

\* The low registers and the operand that is a register as it is.
LEMMA PlainOperand ==
    ASSUME NEW f \in RegisterFile, NEW rm \in 0 .. 7
    PROVE  /\ arm_read_register(f, rm) = f[rm] /\ f[rm] \in Word
           /\ second_operand(f, Register(rm)) = [value |-> f[rm], carry |-> flag(f, C)]
           /\ flag(f, C) \in {0, 1} /\ flag(f, V) \in {0, 1}
<1>1. arm_read_register(f, rm) = f[rm] /\ f[rm] \in Word
  BY DEF arm_read_register, read_register, register_slot, banked, PC, RegisterFile, Slot
<1>2. WordBits \in Nat \ {0} /\ 0 % WordBits = 0 /\ pow2[0] = 1
  BY SomeBits, Pow2
<1>3. ShiftLeft(f[rm], 0) = f[rm]
  <2>1. (f[rm] * 1) % WordMod = f[rm]
    BY <1>1, WordAssumption DEF Word
  <2> QED
    BY <1>2, <2>1 DEF ShiftLeft
<1>4. shift_amount(f, Register(rm)) = 0
  BY DEF shift_amount, Register
<1>5. shifter_operand(f, Register(rm)) = [value |-> f[rm], carry |-> flag(f, C)]
  BY <1>1, <1>3, <1>4 DEF shifter_operand, Register
<1>6. second_operand(f, Register(rm)) = shifter_operand(f, Register(rm))
  BY DEF second_operand, Register
<1>7. f[CPSR] \in Nat
  BY WordAssumption DEF RegisterFile, Slot, CPSR, Word
<1>8. flag(f, C) \in {0, 1} /\ flag(f, V) \in {0, 1}
  BY <1>7, Weights DEF flag, Bit, read_cpsr
<1> QED
  BY <1>1, <1>5, <1>6, <1>8

----------------------------------------------------------------------------

\* The sign of the second operand as new_cpsr takes it for CMP, SUB and ADD.
second_sign(opcode, a, b) == IF a # 0 /\ opcode # "ADD" THEN 1 - msb(b) ELSE msb(b)

\* The flags that CMP, SUB and ADD compute from their operands and their result.
LEMMA NewFlags ==
    ASSUME NEW f \in RegisterFile, NEW opcode, opcode = "CMP" \/ opcode = "SUB" \/ opcode = "ADD",
           NEW a \in Word, NEW b \in Word, NEW res \in Word,
           NEW carry, carry = flag(f, C)
    PROVE  LET sa == msb(a)  sb == second_sign(opcode, a, b)  sr == msb(res)
               x == new_cpsr(f, opcode, a, [value |-> b, carry |-> carry], res)
           IN  /\ x \in Word /\ x % V = f[CPSR] % V
               /\ Bit(x, N) = sr
               /\ Bit(x, Z) = IF res = 0 THEN 1 ELSE 0
               /\ Bit(x, C) = IF flag(f, C) = 1 \/ (sa = 1 /\ sb = 1) \/ (sr = 0 /\ sa # sb)
                              THEN 1 ELSE 0
               /\ Bit(x, V) = IF sa = sb /\ sb # sr THEN 1 ELSE 0
<1> DEFINE sa == msb(a)
           sb == second_sign(opcode, a, b)
           sr == msb(res)
           z == IF res = 0 THEN 1 ELSE 0
           c == IF flag(f, C) = 1 \/ (sa = 1 /\ sb = 1) \/ (sr = 0 /\ sa # sb) THEN 1 ELSE 0
           v == IF sa = sb /\ sb # sr THEN 1 ELSE 0
           lo == f[CPSR] % V
           x == new_cpsr(f, opcode, a, [value |-> b, carry |-> carry], res)
<1>1. lo \in 0 .. V - 1
  <2>1. f[CPSR] \in Nat
    BY WordAssumption DEF RegisterFile, Slot, CPSR, Word
  <2> QED
    BY <2>1, Weights
<1>2. sr \in {0, 1} /\ z \in {0, 1} /\ c \in {0, 1} /\ v \in {0, 1}
  BY Msb
<1>3. x = lo + Part(sr, N) + Part(z, Z) + Part(c, C) + Part(v, V)
  <2>1. opcode \in Arithmetic /\ opcode # "ADC" /\ opcode \notin {"SBC", "RSB"}
    BY DEF Arithmetic, Subtractions
  <2>2. opcode \in Subtractions <=> opcode # "ADD"
    BY DEF Subtractions
  <2> QED
    BY <2>1, <2>2 DEF new_cpsr, second_sign, Part, read_cpsr
<1> HIDE DEF sa, sb, sr, z, c, v, lo, x
<1>4. /\ x \in Word /\ x % V = lo
      /\ Bit(x, N) = sr /\ Bit(x, Z) = z /\ Bit(x, C) = c /\ Bit(x, V) = v
  BY <1>1, <1>2, <1>3, FlagBits
<1> QED
  BY <1>4 DEF sa, sb, sr, z, c, v, lo, x

\* A subtraction on words.
LEMMA Difference ==
    ASSUME NEW a \in Word, NEW b \in Word
    PROVE  Wrap(a - b) \in Word /\ Wrap(a - b) = IF a >= b THEN a - b ELSE a - b + WordMod
BY WordAssumption DEF Wrap, Word

\* What an instruction that sets the flags writes, unless it writes the pc.
LEMMA SettingFlags ==
    ASSUME NEW f, NEW opcode, NEW rd, NEW rn, NEW o, rd # PC
    PROVE  LET a == arm_read_register(f, rn)
               operand == second_operand(f, o)
               res == operation(opcode, a, operand.value, flag(f, C))
               f1 == IF opcode \notin Comparisons THEN write_register(f, rd, res) ELSE f
           IN  arm_data_processing(f, Instruction(opcode, 1, rd, rn, o))
                 = write_cpsr(f1, new_cpsr(f1, opcode, a, operand, res))
<1> DEFINE ins == Instruction(opcode, 1, rd, rn, o)
<1>1. ins.opcode = opcode /\ ins.S = 1 /\ ins.rd = rd /\ ins.rn = rn /\ ins.operand = o
  BY DEF Instruction
<1> HIDE DEF ins
<1>2. ins.S # 0 /\ ~ (ins.rd = PC)
  BY <1>1
<1>3. /\ arm_read_register(f, ins.rn) = arm_read_register(f, rn)
      /\ second_operand(f, ins.operand) = second_operand(f, o)
  BY <1>1
<1> QED
  BY <1>1, <1>2, <1>3, Zenon DEF arm_data_processing, ins

\* The flags after CMP r0, r1.
LEMMA Compared ==
    ASSUME r \in RegisterFile
    PROVE  LET a == r[0]  b == r[1]
               sa == msb(a)  sb == second_sign("CMP", a, b)  sr == msb(Wrap(a - b))
           IN  /\ flag(compared, N) = sr
               /\ flag(compared, Z) = IF a = b THEN 1 ELSE 0
               /\ flag(compared, C) = IF flag(r, C) = 1 \/ (sa = 1 /\ sb = 1) \/ (sr = 0 /\ sa # sb)
                                      THEN 1 ELSE 0
               /\ flag(compared, V) = IF sa = sb /\ sb # sr THEN 1 ELSE 0
<1> DEFINE a == r[0]
           b == r[1]
           operand == second_operand(r, Register(1))
           res == Wrap(a - b)
           x == new_cpsr(r, "CMP", a, operand, res)
<1>1. /\ a \in Word /\ b \in Word /\ arm_read_register(r, 0) = a
      /\ operand = [value |-> b, carry |-> flag(r, C)]
  BY PlainOperand
<1>2. res \in Word /\ (res = 0 <=> a = b)
  <2>1. a \in Word /\ b \in Word
    BY <1>1
  <2> HIDE DEF a, b
  <2>2. res \in Word /\ res = IF a >= b THEN a - b ELSE a - b + WordMod
    BY <2>1, Difference
  <2> QED
    BY <2>1, <2>2, WordAssumption DEF Word
<1>3. operation("CMP", a, operand.value, flag(r, C)) = res
  BY <1>1 DEF operation
<1>4. compared = write_cpsr(r, x)
  <2>1. 0 # PC /\ "CMP" \in Comparisons
    BY DEF PC, Comparisons
  <2> HIDE DEF a, operand, res
  <2> QED
    BY <1>1, <1>3, <2>1, SettingFlags DEF compared, operand
<1>5. compared[CPSR] = x
  BY <1>4 DEF write_cpsr, RegisterFile, Slot, CPSR
<1> HIDE DEF a, b, operand, res
<1> DEFINE sa == msb(a)
           sb == second_sign("CMP", a, b)
           sr == msb(res)
<1>6. /\ Bit(x, N) = sr
      /\ Bit(x, Z) = IF res = 0 THEN 1 ELSE 0
      /\ Bit(x, C) = IF flag(r, C) = 1 \/ (sa = 1 /\ sb = 1) \/ (sr = 0 /\ sa # sb) THEN 1 ELSE 0
      /\ Bit(x, V) = IF sa = sb /\ sb # sr THEN 1 ELSE 0
  BY <1>1, <1>2, NewFlags
<1> HIDE DEF x
<1>7. \A w : flag(compared, w) = Bit(x, w)
  BY <1>5 DEF flag, read_cpsr
<1> QED
  BY <1>2, <1>6, <1>7 DEF a, b, res

\* After the comparison of a word that is not zero the signed conditions order the
\* operands as signed numbers, for every pair of words and all flags before.
THEOREM SignedComparisonHolds == CoreSpec => []SignedComparison
<1>1. RegTypeOK => SignedComparison
  <2> SUFFICES ASSUME RegTypeOK, r[0] # 0 PROVE SignedMeaning(r[0], r[1])
    BY DEF SignedComparison
  <2> DEFINE a == r[0]
             b == r[1]
             n == flag(compared, N)
             z == flag(compared, Z)
             v == flag(compared, V)
  <2>1. r \in RegisterFile /\ a \in Word /\ b \in Word
    BY PlainOperand DEF RegTypeOK
  <2>2. /\ n = msb(Wrap(a - b)) /\ z = IF a = b THEN 1 ELSE 0
        /\ v = IF msb(a) = second_sign("CMP", a, b) /\ second_sign("CMP", a, b) # msb(Wrap(a - b))
               THEN 1 ELSE 0
    BY <2>1, Compared
  <2>3. SignedMeaning(a, b) <=>
          /\ z = 1 <=> a = b
          /\ z = 0 <=> a # b
          /\ n = v <=> Signed(a) >= Signed(b)
          /\ n # v <=> Signed(a) < Signed(b)
          /\ z = 0 /\ n = v <=> Signed(a) > Signed(b)
          /\ z = 1 \/ n # v <=> Signed(a) <= Signed(b)
    BY DEF SignedMeaning, condition
  <2> HIDE DEF a, b, n, z, v
  <2>4. /\ msb(a) = IF a < N THEN 0 ELSE 1
        /\ msb(b) = IF b < N THEN 0 ELSE 1
        /\ Wrap(a - b) \in Word
        /\ Wrap(a - b) = IF a >= b THEN a - b ELSE a - b + WordMod
    BY <2>1, Msb, Difference
  <2>5. msb(Wrap(a - b)) = IF Wrap(a - b) < N THEN 0 ELSE 1
    BY <2>4, Msb
  <2>6. a # 0
    BY DEF a
  <2>7. n = v <=> Signed(a) >= Signed(b)
    BY <2>1, <2>2, <2>4, <2>5, <2>6, Weights DEF second_sign, Signed, Word, N
  <2>8. Signed(a) \in Int /\ Signed(b) \in Int /\ (a = b <=> Signed(a) = Signed(b))
    BY <2>1, WordAssumption DEF Signed, Word
  <2>9. SignedMeaning(a, b)
    BY <2>2, <2>3, <2>7, <2>8
  <2> QED
    BY <2>9 DEF a, b
<1> QED
  BY <1>1, CoreTyped, PTL

\* The unsigned conditions likewise, if the carry was clear before.
THEOREM UnsignedComparisonHolds == CoreSpec => []UnsignedComparison
<1>1. RegTypeOK => UnsignedComparison
  <2> SUFFICES ASSUME RegTypeOK, r[0] # 0, flag(r, C) = 0 PROVE UnsignedMeaning(r[0], r[1])
    BY DEF UnsignedComparison
  <2> DEFINE a == r[0]
             b == r[1]
             c == flag(compared, C)
             z == flag(compared, Z)
             sa == msb(a)
             sb == second_sign("CMP", a, b)
             sr == msb(Wrap(a - b))
  <2>1. r \in RegisterFile /\ a \in Word /\ b \in Word
    BY PlainOperand DEF RegTypeOK
  <2>2. /\ z = IF a = b THEN 1 ELSE 0
        /\ c = IF (sa = 1 /\ sb = 1) \/ (sr = 0 /\ sa # sb) THEN 1 ELSE 0
    BY <2>1, Compared
  <2>3. UnsignedMeaning(a, b) <=>
          /\ c = 1 <=> a >= b
          /\ c = 0 <=> a < b
          /\ c = 1 /\ z = 0 <=> a > b
          /\ c = 0 \/ z = 1 <=> a <= b
    BY DEF UnsignedMeaning, condition
  <2> HIDE DEF a, b, c, z
  <2>4. /\ msb(a) = IF a < N THEN 0 ELSE 1
        /\ msb(b) = IF b < N THEN 0 ELSE 1
        /\ Wrap(a - b) \in Word
        /\ Wrap(a - b) = IF a >= b THEN a - b ELSE a - b + WordMod
    BY <2>1, Msb, Difference
  <2>5. msb(Wrap(a - b)) = IF Wrap(a - b) < N THEN 0 ELSE 1
    BY <2>4, Msb
  <2>6. a # 0
    BY DEF a
  <2>7. c = 1 <=> a >= b
    BY <2>1, <2>2, <2>4, <2>5, <2>6, Weights DEF second_sign, Word
  <2>8. UnsignedMeaning(a, b)
    BY <2>1, <2>2, <2>3, <2>7, WordAssumption DEF Word
  <2> QED
    BY <2>8 DEF a, b
<1> QED
  BY <1>1, CoreTyped, PTL

----------------------------------------------------------------------------

\* A write to one of the low registers.
LEMMA LowWrite ==
    ASSUME NEW f \in RegisterFile, NEW rd \in 0 .. 7, NEW v
    PROVE  write_register(f, rd, v) = [f EXCEPT ![rd] = v]
<1>1. register_slot(f, rd) = rd
  BY DEF register_slot, banked
<1> QED
  BY <1>1, Zenon DEF write_register

\* The first half of a two-word operation: ADDS or SUBS r2, r0, r1.
LEMMA LowWords ==
    ASSUME r \in RegisterFile, flag(r, C) = 0, NEW op, op = "ADD" \/ op = "SUB", NEW res \in Word,
           res = operation(op, r[0], r[1], 0)
    PROVE  LET f == arm_data_processing(r, Instruction(op, 1, 2, 0, Register(1)))
               sa == msb(r[0])  sb == second_sign(op, r[0], r[1])  sr == msb(res)
           IN  /\ f \in RegisterFile
               /\ f[0] = r[0] /\ f[1] = r[1] /\ f[2] = res
               /\ flag(f, C) = IF (sa = 1 /\ sb = 1) \/ (sr = 0 /\ sa # sb) THEN 1 ELSE 0
<1> DEFINE operand == second_operand(r, Register(1))
           f1 == [r EXCEPT ![2] = res]
           x == new_cpsr(f1, op, r[0], operand, res)
           f == arm_data_processing(r, Instruction(op, 1, 2, 0, Register(1)))
<1>1. /\ r[0] \in Word /\ r[1] \in Word /\ arm_read_register(r, 0) = r[0]
      /\ operand = [value |-> r[1], carry |-> flag(r, C)]
  BY PlainOperand
<1>2. f1 \in RegisterFile /\ f1[CPSR] = r[CPSR] /\ f1[0] = r[0] /\ f1[1] = r[1] /\ f1[2] = res
  BY DEF RegisterFile, Slot, CPSR
<1>3. flag(f1, C) = 0 /\ flag(r, C) = flag(f1, C)
  BY <1>1, <1>2 DEF flag, read_cpsr
<1>4. f = write_cpsr(f1, x)
  <2>1. write_register(r, 2, res) = f1
    BY LowWrite
  <2>2. op \notin Comparisons /\ 2 # PC
    BY DEF Comparisons, PC
  <2>3. operation(op, r[0], operand.value, flag(r, C)) = res
    BY <1>1
  <2> HIDE DEF f1
  <2> QED
    BY <1>1, <2>1, <2>2, <2>3, SettingFlags
<1> HIDE DEF operand, f1
<1>5. /\ x \in Word
      /\ Bit(x, C) = IF \/ flag(f1, C) = 1
                        \/ msb(r[0]) = 1 /\ second_sign(op, r[0], r[1]) = 1
                        \/ msb(res) = 0 /\ msb(r[0]) # second_sign(op, r[0], r[1])
                     THEN 1 ELSE 0
  <2> DEFINE a == r[0]
             b == r[1]
  <2>1. /\ a \in Word /\ b \in Word /\ res \in Word /\ f1 \in RegisterFile
        /\ operand = [value |-> b, carry |-> flag(f1, C)]
        /\ op = "CMP" \/ op = "SUB" \/ op = "ADD"
    BY <1>1, <1>2, <1>3
  <2> HIDE DEF a, b
  <2>3. /\ new_cpsr(f1, op, a, operand, res) \in Word
        /\ Bit(new_cpsr(f1, op, a, operand, res), C)
             = IF \/ flag(f1, C) = 1
                  \/ msb(a) = 1 /\ second_sign(op, a, b) = 1
                  \/ msb(res) = 0 /\ msb(a) # second_sign(op, a, b)
               THEN 1 ELSE 0
    <3> HIDE DEF x, f
    <3>1. /\ new_cpsr(f1, op, a, [value |-> b, carry |-> flag(f1, C)], res) \in Word
          /\ Bit(new_cpsr(f1, op, a, [value |-> b, carry |-> flag(f1, C)], res), C)
               = IF \/ flag(f1, C) = 1
                    \/ msb(a) = 1 /\ second_sign(op, a, b) = 1
                    \/ msb(res) = 0 /\ msb(a) # second_sign(op, a, b)
                 THEN 1 ELSE 0
      BY <2>1, NewFlags
    <3> QED
      BY <2>1, <3>1
  <2> QED
    BY <2>3 DEF a, b
<1> HIDE DEF x, f
<1>6. f \in RegisterFile /\ f[CPSR] = x /\ f[0] = r[0] /\ f[1] = r[1] /\ f[2] = res
  BY <1>2, <1>4, <1>5 DEF write_cpsr, RegisterFile, Slot, CPSR
<1> QED
  BY <1>3, <1>5, <1>6 DEF flag, read_cpsr, f

\* The second half: ADC or SBC r3, r1, r0.
LEMMA HighWords ==
    ASSUME NEW f \in RegisterFile, NEW op \in {"ADC", "SBC"}
    PROVE  LET g == arm_data_processing(f, Instruction(op, 0, 3, 1, Register(0)))
           IN  g[2] = f[2] /\ g[3] = operation(op, f[1], f[0], flag(f, C))
<1> DEFINE res == operation(op, f[1], f[0], flag(f, C))
<1>1. arm_read_register(f, 1) = f[1] /\ second_operand(f, Register(0)).value = f[0]
  BY PlainOperand
<1>2. op \notin Comparisons
  BY DEF Comparisons
<1>3. arm_data_processing(f, Instruction(op, 0, 3, 1, Register(0))) = write_register(f, 3, res)
  BY <1>1, <1>2 DEF arm_data_processing, Instruction
<1>4. write_register(f, 3, res) = [f EXCEPT ![3] = res]
  BY LowWrite
<1> HIDE DEF res
<1>5. /\ arm_data_processing(f, Instruction(op, 0, 3, 1, Register(0)))[2] = f[2]
      /\ arm_data_processing(f, Instruction(op, 0, 3, 1, Register(0)))[3] = res
  BY <1>3, <1>4 DEF RegisterFile, Slot
<1> QED
  BY <1>5 DEF res

\* A number of two words is determined by them, modulo the square.
LEMMA TwoWords ==
    ASSUME NEW lo \in Word, NEW hi \in Word, NEW j \in Int, NEW x,
           x = lo + WordMod * hi + (WordMod * WordMod) * j
    PROVE  lo + WordMod * hi = x % (WordMod * WordMod)
<1> DEFINE m == lo + WordMod * hi
           d == WordMod * WordMod
<1>1. d \in Nat \ {0}
  BY WordAssumption
<1>2. m \in 0 .. d - 1
  <2>1. WordMod * hi + WordMod <= d
    <3>1. hi + 1 <= WordMod /\ hi \in Nat
      BY WordAssumption DEF Word
    <3>2. WordMod * (hi + 1) <= WordMod * WordMod
      BY <3>1, WordAssumption
    <3> QED
      BY <3>1, <3>2, WordAssumption
  <2>2. WordMod * hi \in Nat
    BY WordAssumption DEF Word
  <2> HIDE DEF d
  <2> QED
    BY <1>1, <2>1, <2>2, WordAssumption DEF Word
<1>3. x = m + d * j
  OBVIOUS
<1> HIDE DEF m, d
<1>4. x % d = m
  BY <1>1, <1>2, <1>3, Division
<1> QED
  BY <1>4 DEF m, d

\* The sum and the carry of two words and a carry.
LEMMA SumOfWords ==
    ASSUME NEW a \in Word, NEW b \in Word, NEW c \in {0, 1}
    PROVE  /\ Wrap(a + b) \in Word
           /\ Wrap(a + b) = IF a + b < WordMod THEN a + b ELSE a + b - WordMod
           /\ Wrap(a + b + c) \in Word
           /\ Wrap(a + b + c) = IF a + b + c < WordMod THEN a + b + c ELSE a + b + c - WordMod
BY WordAssumption DEF Wrap, Word

\* The difference of two words and a borrow.
LEMMA DifferenceOfWords ==
    ASSUME NEW a \in Word, NEW b \in Word, NEW k \in {0, 1}
    PROVE  /\ Wrap(a - b - k) \in Word
           /\ Wrap(a - b - k) = IF a - b - k >= 0 THEN a - b - k ELSE a - b - k + WordMod
BY WordAssumption DEF Wrap, Word

\* ADDS with ADC, and SUBS with SBC, compute sums and differences of two words, if
\* the carry was clear before and, for SUBS, its first operand is not zero.
THEOREM DoubleWordHolds == CoreSpec => []DoubleWord
<1>1. RegTypeOK => DoubleWord
  <2> SUFFICES ASSUME RegTypeOK, flag(r, C) = 0 PROVE DoubleWord
    BY DEF DoubleWord
  <2> DEFINE a == r[0]
             b == r[1]
             x == a + WordMod * b
             y == b + WordMod * a
             square == WordMod * WordMod
  <2>1. r \in RegisterFile /\ a \in Word /\ b \in Word
    BY PlainOperand DEF RegTypeOK
  <2>2. /\ msb(a) = IF a < N THEN 0 ELSE 1
        /\ msb(b) = IF b < N THEN 0 ELSE 1
    BY <2>1, Msb
  <2> DEFINE add == arm_data_processing(r, Instruction("ADD", 1, 2, 0, Register(1)))
             adc == arm_data_processing(add, Instruction("ADC", 0, 3, 1, Register(0)))
             sub == arm_data_processing(r, Instruction("SUB", 1, 2, 0, Register(1)))
             sbc == arm_data_processing(sub, Instruction("SBC", 0, 3, 1, Register(0)))
  <2>3. adc[2] + WordMod * adc[3] = (x + y) % square
    <3> DEFINE lo == Wrap(a + b)
               k == IF a + b < WordMod THEN 0 ELSE 1
               hi == Wrap(a + b + k)
               j == IF a + b + k < WordMod THEN 0 ELSE 1
    <3>1. lo \in Word /\ lo = IF a + b < WordMod THEN a + b ELSE a + b - WordMod
      <4> HIDE DEF a, b
      <4> QED
        BY <2>1, SumOfWords
    <3>2. lo = operation("ADD", a, b, 0)
      BY DEF operation
    <3>3. /\ add \in RegisterFile /\ add[0] = a /\ add[1] = b /\ add[2] = lo
          /\ flag(add, C) = IF (msb(a) = 1 /\ msb(b) = 1) \/ (msb(lo) = 0 /\ msb(a) # msb(b))
                            THEN 1 ELSE 0
      <4> HIDE DEF lo
      <4> QED
        BY <2>1, <3>1, <3>2, LowWords DEF second_sign
    <3> HIDE DEF a, b
    <3>4. msb(lo) = IF lo < N THEN 0 ELSE 1
      BY <3>1, Msb
    <3>5. flag(add, C) = k
      <4> HIDE DEF add, lo
      <4> QED
        BY <2>1, <2>2, <3>1, <3>3, <3>4, Weights DEF Word
    <3>6. /\ k \in {0, 1} /\ j \in {0, 1}
          /\ hi \in Word /\ hi = a + b + k - WordMod * j
          /\ lo = a + b - WordMod * k
      <4>1. k \in {0, 1}
        OBVIOUS
      <4>2. hi \in Word /\ hi = IF a + b + k < WordMod THEN a + b + k ELSE a + b + k - WordMod
        BY <2>1, <4>1, SumOfWords
      <4>3. a + b \in Int /\ lo = a + b - WordMod * k
        BY <2>1, <3>1, WordAssumption DEF Word
      <4> QED
        BY <2>1, <4>1, <4>2, <4>3, WordAssumption DEF Word
    <3>7. adc[2] = lo /\ adc[3] = hi
      <4>1. adc[2] = add[2] /\ adc[3] = operation("ADC", add[1], add[0], flag(add, C))
        <5> HIDE DEF add
        <5> QED
          BY <3>3, HighWords
      <4>2. operation("ADC", b, a, k) = Wrap(b + a + k)
        BY DEF operation
      <4>3. b + a + k = a + b + k
        BY <2>1, <3>6, WordAssumption DEF Word
      <4> HIDE DEF add, adc, k
      <4> QED
        BY <3>3, <3>5, <4>1, <4>2, <4>3
    <3> HIDE DEF lo, hi, k, j
    <3>8. x + y = lo + WordMod * hi + (WordMod * WordMod) * j
      <4>1. a \in Int /\ b \in Int /\ WordMod \in Int /\ k \in Int /\ j \in Int
        BY <2>1, <3>6, WordAssumption DEF Word
      <4>2. lo + WordMod * hi + (WordMod * WordMod) * j
              = a + b - WordMod * k + WordMod * (a + b + k - WordMod * j) + (WordMod * WordMod) * j
        BY <3>6
      <4> QED
        BY <4>1, <4>2
    <3> HIDE DEF x, y
    <3>9. lo + WordMod * hi = (x + y) % (WordMod * WordMod)
      BY <3>1, <3>6, <3>8, TwoWords
    <3> QED
      BY <3>7, <3>9
  <2>4. a # 0 => sbc[2] + WordMod * sbc[3] = (x - y) % square
    <3> SUFFICES ASSUME a # 0 PROVE sbc[2] + WordMod * sbc[3] = (x - y) % square
      OBVIOUS
    <3> DEFINE lo == Wrap(a - b)
               k == IF a >= b THEN 0 ELSE 1
               hi == Wrap(b - a - k)
               j == IF b - a - k >= 0 THEN 0 ELSE 1
    <3>1. lo \in Word /\ lo = IF a >= b THEN a - b ELSE a - b + WordMod
      <4> HIDE DEF a, b
      <4> QED
        BY <2>1, Difference
    <3>2. lo = operation("SUB", a, b, 0)
      BY DEF operation
    <3>3. /\ sub \in RegisterFile /\ sub[0] = a /\ sub[1] = b /\ sub[2] = lo
          /\ flag(sub, C) = IF \/ msb(a) = 1 /\ 1 - msb(b) = 1
                               \/ msb(lo) = 0 /\ msb(a) # 1 - msb(b)
                            THEN 1 ELSE 0
      <4> HIDE DEF lo
      <4> QED
        BY <2>1, <3>1, <3>2, LowWords DEF second_sign
    <3>4. a # 0
      OBVIOUS
    <3> HIDE DEF a, b
    <3>5. msb(lo) = IF lo < N THEN 0 ELSE 1
      BY <3>1, Msb
    <3>6. flag(sub, C) = 1 - k
      <4> HIDE DEF sub, lo
      <4> QED
        BY <2>1, <2>2, <3>1, <3>3, <3>5, Weights DEF Word
    <3>7. /\ k \in {0, 1} /\ j \in {0, 1}
          /\ hi \in Word /\ hi = b - a - k + WordMod * j
          /\ lo = a - b + WordMod * k
      <4>1. k \in {0, 1}
        OBVIOUS
      <4>2. hi \in Word /\ hi = IF b - a - k >= 0 THEN b - a - k ELSE b - a - k + WordMod
        BY <2>1, <4>1, DifferenceOfWords
      <4>3. lo = a - b + WordMod * k
        BY <2>1, <3>1, WordAssumption DEF Word
      <4> QED
        BY <2>1, <4>1, <4>2, <4>3, WordAssumption DEF Word
    <3>8. sbc[2] = lo /\ sbc[3] = hi
      <4>1. sbc[2] = sub[2] /\ sbc[3] = operation("SBC", sub[1], sub[0], flag(sub, C))
        <5> HIDE DEF sub
        <5> QED
          BY <3>3, HighWords
      <4>2. operation("SBC", b, a, 1 - k) = Wrap(b - a - (1 - (1 - k)))
        BY DEF operation
      <4>3. b - a - (1 - (1 - k)) = b - a - k
        BY <2>1, <3>7, WordAssumption DEF Word
      <4> HIDE DEF sub, sbc, k
      <4> QED
        BY <3>3, <3>6, <4>1, <4>2, <4>3
    <3> HIDE DEF lo, hi, k, j
    <3>9. x - y = lo + WordMod * hi + (WordMod * WordMod) * (- j)
      <4>1. a \in Int /\ b \in Int /\ WordMod \in Int /\ k \in Int /\ j \in Int
        BY <2>1, <3>7, WordAssumption DEF Word
      <4>2. lo + WordMod * hi + (WordMod * WordMod) * (- j)
              = a - b + WordMod * k + WordMod * (b - a - k + WordMod * j) + (WordMod * WordMod) * (- j)
        BY <3>7
      <4> QED
        BY <4>1, <4>2
    <3> HIDE DEF x, y
    <3>10. lo + WordMod * hi = (x - y) % (WordMod * WordMod)
      <4>1. - j \in Int
        BY <3>7
      <4> QED
        BY <3>1, <3>7, <3>9, <4>1, TwoWords
    <3> QED
      BY <3>8, <3>10
  <2> QED
    BY <2>3, <2>4 DEF DoubleWord
<1> QED
  BY <1>1, CoreTyped, PTL

----------------------------------------------------------------------------

\* What the step from one mode to another depends on: the CPSR and the SPSRs are
\* words, whatever the general registers hold.
StatusTyped(f) ==
    /\ f = [s \in Slot |-> f[s]]
    /\ f[CPSR] \in Word /\ \A s \in 32 .. 36 : f[s] \in Word

\* A write to a general register changes one slot of the current mode, and neither
\* the status registers nor the slots that the other registers have.
LEMMA GeneralKeepsStatus ==
    ASSUME NEW f, StatusTyped(f), NEW reg \in 0 .. 15, NEW v, NEW h, h = write_register(f, reg, v)
    PROVE  /\ StatusTyped(h)
           /\ h[CPSR] = f[CPSR]
           /\ read_spsr(h) = read_spsr(f)
           /\ current_mode_has_spsr(h) <=> current_mode_has_spsr(f)
           /\ \A s \in Slot : h[s] # f[s] => s = register_slot(f, reg)
           /\ \A n \in 0 .. 15 : register_slot(h, n) = register_slot(f, n)
<1>1. register_slot(f, reg) \in (0 .. 31) \ {CPSR}
  BY DEF register_slot, banked, mode_offset, CPSR, FIQ, SVC, ABT, UND, IRQ
<1>2. h = [f EXCEPT ![register_slot(f, reg)] = v]
  BY DEF write_register
<1>3. \A s \in Slot : h[s] = IF s = register_slot(f, reg) THEN v ELSE f[s]
  BY <1>2 DEF StatusTyped
<1>4. h = [s \in Slot |-> h[s]]
  BY <1>2 DEF StatusTyped
<1>5. h[CPSR] = f[CPSR] /\ \A s \in 32 .. 36 : h[s] = f[s]
  BY <1>1, <1>3 DEF Slot, CPSR
<1>6. get_mode(h) = get_mode(f)
  BY <1>5 DEF get_mode, read_cpsr
<1>7. spsr_slot(get_mode(f)) = -1 \/ spsr_slot(get_mode(f)) \in 32 .. 36
  BY DEF spsr_slot
<1>8. read_spsr(h) = read_spsr(f)
  BY <1>5, <1>6, <1>7 DEF read_spsr
<1>9. StatusTyped(h)
  BY <1>4, <1>5 DEF StatusTyped
<1> QED
  BY <1>3, <1>5, <1>6, <1>8, <1>9 DEF current_mode_has_spsr, register_slot, banked

\* The CPSR that an S instruction computes differs from the old one in the flags.
LEMMA FlagsOnly ==
    ASSUME NEW f, f[CPSR] \in Word, NEW opcode, NEW a, NEW operand, NEW res, NEW x,
           x = new_cpsr(f, opcode, a, operand, res)
    PROVE  x \in Word /\ SameControl(x, f[CPSR])
<1> DEFINE lo == f[CPSR] % V
<1>1. lo \in 0 .. V - 1
  BY Weights DEF Word
<1>2. \E n, z, c, v \in {0, 1} : x = lo + Part(n, N) + Part(z, Z) + Part(c, C) + Part(v, V)
  <2> DEFINE is(p) == IF p THEN 1 ELSE 0
  <2>1. PICK nn, zz, cc, vv \in BOOLEAN :
            x = lo + (IF nn THEN N ELSE 0) + (IF zz THEN Z ELSE 0) + (IF cc THEN C ELSE 0)
                   + (IF vv THEN V ELSE 0)
    BY Zenon DEF new_cpsr, read_cpsr
  <2> HIDE DEF lo
  <2>2. is(nn) \in {0, 1} /\ is(zz) \in {0, 1} /\ is(cc) \in {0, 1} /\ is(vv) \in {0, 1}
    OBVIOUS
  <2>3. x = lo + Part(is(nn), N) + Part(is(zz), Z) + Part(is(cc), C) + Part(is(vv), V)
    BY <2>1 DEF Part
  <2> HIDE DEF is
  <2> QED
    BY <2>2, <2>3
<1> HIDE DEF lo
<1>3. x \in Word /\ x % V = lo
  BY <1>1, <1>2, FlagBits
<1> QED
  BY <1>3 DEF lo, SameControl, V

\* What the handler of an instruction leaves.
LEMMA HandlerKeepsMode ==
    ASSUME NEW f, StatusTyped(f), NEW ins, ins.rd \in 0 .. 15, NEW h, h = arm_data_processing(f, ins)
    PROVE  /\ StatusTyped(h)
           /\ \/ SameControl(h[CPSR], f[CPSR])
              \/ ins.rd = PC /\ current_mode_has_spsr(f) /\ h[CPSR] = read_spsr(f)
           /\ \A s \in Slot \ {CPSR} : h[s] # f[s] => s = register_slot(f, ins.rd)
<1> DEFINE a == arm_read_register(f, ins.rn)
           operand == second_operand(f, ins.operand)
           res == operation(ins.opcode, a, operand.value, flag(f, C))
           f1 == IF ins.opcode \notin Comparisons THEN write_register(f, ins.rd, res)
                 ELSE IF ins.S = 0 THEN arm_miscellaneous(f, ins.opcode, ins.rd) ELSE f
           x == new_cpsr(f1, ins.opcode, a, operand, res)
<1>1. h = IF ins.S = 0 THEN f1
          ELSE IF ins.rd = PC /\ current_mode_has_spsr(f1) THEN write_cpsr(f1, read_spsr(f1))
          ELSE write_cpsr(f1, x)
  BY DEF arm_data_processing
<1>2. f1 = f \/ \E v : f1 = write_register(f, ins.rd, v)
  <2> HIDE DEF res
  <2> QED
    BY DEF arm_miscellaneous
<1> HIDE DEF f1
<1>3. /\ StatusTyped(f1) /\ f1[CPSR] = f[CPSR] /\ read_spsr(f1) = read_spsr(f)
      /\ current_mode_has_spsr(f1) <=> current_mode_has_spsr(f)
      /\ \A s \in Slot : f1[s] # f[s] => s = register_slot(f, ins.rd)
  BY <1>2, GeneralKeepsStatus
<1>4. x \in Word /\ SameControl(x, f[CPSR])
  <2> HIDE DEF a, operand, res
  <2>1. f1[CPSR] \in Word
    BY <1>3 DEF StatusTyped
  <2> QED
    BY <1>3, <2>1, FlagsOnly
<1> HIDE DEF x
<1>5. read_spsr(f1) \in Word
  <2>1. spsr_slot(get_mode(f1)) = -1 \/ spsr_slot(get_mode(f1)) \in 32 .. 36
    BY DEF spsr_slot
  <2> QED
    BY <1>3, <2>1, WordAssumption DEF read_spsr, StatusTyped, Word
<1>6. ASSUME NEW c \in Word
      PROVE  /\ StatusTyped(write_cpsr(f1, c)) /\ write_cpsr(f1, c)[CPSR] = c
             /\ \A s \in Slot \ {CPSR} : write_cpsr(f1, c)[s] = f1[s]
  <2> DEFINE g == write_cpsr(f1, c)
  <2>1. g = [s \in Slot |-> IF s = CPSR THEN c ELSE f1[s]]
    BY <1>3 DEF StatusTyped, write_cpsr
  <2> HIDE DEF g
  <2>2. CPSR \in Slot /\ 32 .. 36 \subseteq Slot \ {CPSR}
    BY DEF CPSR, Slot
  <2>3. g[CPSR] = c /\ \A s \in Slot \ {CPSR} : g[s] = f1[s]
    BY <2>1, <2>2
  <2>4. g = [s \in Slot |-> g[s]]
    BY <2>1
  <2>5. StatusTyped(g)
    BY <1>3, <2>2, <2>3, <2>4 DEF StatusTyped
  <2> QED
    BY <2>3, <2>5 DEF g
<1>7. CASE h = f1
  BY <1>3, <1>7 DEF SameControl
<1>8. CASE h = write_cpsr(f1, read_spsr(f1)) /\ current_mode_has_spsr(f1) /\ ins.rd = PC
  BY <1>3, <1>5, <1>6, <1>8
<1>9. CASE h = write_cpsr(f1, x)
  BY <1>3, <1>4, <1>6, <1>9
<1> QED
  BY <1>1, <1>7, <1>8, <1>9

\* A data processing instruction changes the control bits of the CPSR only by
\* restoring the SPSR that the current mode has, and writes no register of another
\* mode: in every program of such instructions, whatever they compute.
THEOREM ModeAlwaysKept == DataSpec => ModeKept
<1> DEFINE Inv == StatusTyped(r)
           Kept == /\ \/ SameControl(read_cpsr(r'), read_cpsr(r))
                      \/ current_mode_has_spsr(r) /\ read_cpsr(r') = read_spsr(r)
                   /\ \A s \in Slot \ {CPSR} :
                        r'[s] # r[s] => \E reg \in 0 .. 15 : s = register_slot(r, reg)
<1>1. arm_create => StatusTyped(r)
  <2> SUFFICES ASSUME NEW f \in GarbageFiles, r = arm_exception(f, RESET) PROVE StatusTyped(r)
    BY DEF arm_create
  <2>1. r \in RegisterFile
    BY ExceptionType, InputAssumption DEF Exceptions, RESET
  <2> QED
    BY <2>1 DEF StatusTyped, RegisterFile, Slot, CPSR
<1>2. StatusTyped(r) /\ StepDataProcessing => StatusTyped(r') /\ Kept
  <2> SUFFICES ASSUME StatusTyped(r), NEW ins \in DataInstructions,
                      r' = IF condition(r, ins.cond) THEN arm_data_processing(arm_fetch(r), ins)
                                                     ELSE arm_fetch(r)
               PROVE  StatusTyped(r') /\ Kept
    BY DEF StepDataProcessing
  <2> DEFINE f == arm_fetch(r)
  <2>1. \E v : f = write_register(r, PC, v)
    BY DEF arm_fetch
  <2>2. PC \in 0 .. 15 /\ ins.rd \in 0 .. 15
    BY FieldsAssumption DEF PC
  <2> HIDE DEF f
  <2>3. /\ StatusTyped(f) /\ f[CPSR] = r[CPSR] /\ read_spsr(f) = read_spsr(r)
        /\ current_mode_has_spsr(f) <=> current_mode_has_spsr(r)
        /\ \A s \in Slot : f[s] # r[s] => s = register_slot(r, PC)
        /\ \A n \in 0 .. 15 : register_slot(f, n) = register_slot(r, n)
    <3>1. PICK v : f = write_register(r, PC, v)
      BY <2>1
    <3> QED
      BY <2>2, <3>1, GeneralKeepsStatus
  <2>4. CASE r' = f
    BY <2>2, <2>3, <2>4 DEF SameControl, read_cpsr
  <2>5. CASE r' = arm_data_processing(f, ins)
    <3>1. /\ StatusTyped(r')
          /\ \/ SameControl(r'[CPSR], f[CPSR])
             \/ current_mode_has_spsr(f) /\ r'[CPSR] = read_spsr(f)
          /\ \A s \in Slot \ {CPSR} : r'[s] # f[s] => s = register_slot(f, ins.rd)
      BY <2>2, <2>3, <2>5, HandlerKeepsMode
    <3> QED
      BY <2>2, <2>3, <3>1 DEF read_cpsr
  <2> QED
    BY <2>4, <2>5 DEF f
<1>3. Inv /\ [StepDataProcessing]_r => Inv' /\ [Kept]_r
  BY <1>2
<1>4. arm_create => Inv
  BY <1>1
<1> HIDE DEF Inv
<1> QED
  BY <1>3, <1>4, PTL DEF DataSpec, ModeKept
=============================================================================
