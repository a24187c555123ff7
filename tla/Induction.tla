----------------------------- MODULE Induction -----------------------------
(***************************************************************************)
(* Induction on the natural numbers for the proofs about the loops of the  *)
(* program, in a form that names sets and functions only: the induction    *)
(* theorems of the library are about an operator.  A loop is modelled by a *)
(* function of the number of its turns.                                    *)
(***************************************************************************)
EXTENDS Integers, WellFoundedInduction, TLAPS

\* Numbers are well-founded: no loop counts down forever.
LEMMA LeastNumber ==
    ASSUME NEW T, T \subseteq Nat, T # {}
    PROVE  \E n \in T : \A k \in T : n <= k
<1> DEFINE less == OpToRel(<, Nat)
<1>1. IsWellFoundedOn(less, Nat)
  BY NatLessThanWellFounded
<1>2. \E n \in T : \A k \in T : ~ (<<k, n>> \in less)
  <2> HIDE DEF less
  <2> QED
    BY <1>1, WFMin
<1>3. PICK n \in T : \A k \in T : ~ (<<k, n>> \in less)
  BY <1>2
<1>4. \A k \in T : ~ (k < n)
  BY <1>3 DEF OpToRel
<1> QED
  BY <1>4

\* What holds before a loop, and is kept by each of its turns, holds after any
\* number of turns.
LEMMA Induction ==
    ASSUME NEW P, 0 \in P, \A n \in Nat : n \in P => n + 1 \in P
    PROVE  Nat \subseteq P
<1> SUFFICES ASSUME Nat \ P # {} PROVE FALSE
  OBVIOUS
<1>1. PICK n \in Nat \ P : \A k \in Nat \ P : n <= k
  BY LeastNumber
<1>2. n # 0 /\ n - 1 \in Nat \ P
  BY <1>1
<1> QED
  BY <1>1, <1>2

\* The states of a loop after 0 .. N turns, when its turn n takes the state s in S
\* to F[n][s], from the state x on.
States(f, N, S, x, F) ==
    /\ f \in [0 .. N -> S] /\ f[0] = x
    /\ \A n \in 1 .. N : f[n] = F[n][f[n - 1]]

\* A loop whose turns are defined has states: this is what justifies the
\* definition of a recursive function.
LEMMA LoopHasStates ==
    ASSUME NEW N \in Nat, NEW S, NEW x \in S, NEW F \in [1 .. N -> [S -> S]]
    PROVE  \E f : States(f, N, S, x, F)
<1> DEFINE P == {n \in Nat : n <= N => \E f : States(f, n, S, x, F)}
<1>1. 0 \in P
  <2>1. States([k \in 0 .. 0 |-> x], 0, S, x, F)
    BY DEF States
  <2> QED
    BY <2>1
<1>2. \A n \in Nat : n \in P => n + 1 \in P
  <2> SUFFICES ASSUME NEW n \in Nat, n + 1 <= N, NEW f, States(f, n, S, x, F)
               PROVE  \E g : States(g, n + 1, S, x, F)
    OBVIOUS
  <2> DEFINE g == [k \in 0 .. n + 1 |-> IF k = n + 1 THEN F[n + 1][f[n]] ELSE f[k]]
  <2>1. g \in [0 .. n + 1 -> S] /\ g[0] = x
    BY DEF States
  <2>2. ASSUME NEW k \in 1 .. n + 1 PROVE g[k] = F[k][g[k - 1]]
    <3>1. CASE k = n + 1
      BY <3>1
    <3>2. CASE k # n + 1
      <4>1. k \in 1 .. n /\ k - 1 \in 0 .. n
        BY <3>2
      <4>2. g[k] = f[k] /\ g[k - 1] = f[k - 1]
        BY <4>1
      <4> QED
        BY <4>1, <4>2 DEF States
    <3> QED
      BY <3>1, <3>2
  <2> HIDE DEF g
  <2>3. States(g, n + 1, S, x, F)
    BY <2>1, <2>2 DEF States
  <2> QED
    BY <2>3
<1>3. Nat \subseteq P
  <2> HIDE DEF P
  <2> QED
    BY <1>1, <1>2, Induction
<1> QED
  BY <1>3

\* A function that follows the turns of the loop on the states in S never leaves
\* them.
LEMMA LoopStays ==
    ASSUME NEW N \in Nat, NEW S, NEW x \in S, NEW F \in [1 .. N -> [S -> S]], NEW f,
           DOMAIN f = 0 .. N, f = [n \in DOMAIN f |-> f[n]], f[0] = x,
           \A n \in 1 .. N : f[n - 1] \in S => f[n] = F[n][f[n - 1]]
    PROVE  States(f, N, S, x, F)
<1> DEFINE P == {n \in Nat : n <= N => f[n] \in S}
<1>1. 0 \in P
  OBVIOUS
<1>2. \A n \in Nat : n \in P => n + 1 \in P
  <2> SUFFICES ASSUME NEW n \in Nat, n + 1 <= N, f[n] \in S PROVE f[n + 1] \in S
    OBVIOUS
  <2>1. n + 1 \in 1 .. N /\ (n + 1) - 1 = n
    OBVIOUS
  <2>2. f[n + 1] = F[n + 1][f[n]]
    BY <2>1
  <2> QED
    BY <2>1, <2>2
<1>3. Nat \subseteq P
  <2> HIDE DEF P
  <2> QED
    BY <1>1, <1>2, Induction
<1>4. \A n \in 0 .. N : f[n] \in S
  BY <1>3
<1>5. f \in [0 .. N -> S]
  BY <1>4
<1> QED
  BY <1>4, <1>5 DEF States
============================================================================
