----------------------------- MODULE NatRecursion -----------------------------
(* Induction and recursion over the numbers, as facts about sets and       *)
(* functions, for the proofs about what loops compute.  They rest on the   *)
(* least-number principle: a set of numbers that is not empty has a least. *)
EXTENDS Integers, WellFoundedInduction, TLAPS

LEMMA LeastNumber ==
  ASSUME NEW S, S \subseteq Nat, S # {}
  PROVE  \E n \in S : \A m \in S : n <= m
<1> DEFINE R == {mn \in Nat \X Nat : mn[1] < mn[2]}
<1>1. IsWellFoundedOn(R, Nat)
  BY NatLessThanWellFounded DEF OpToRel
<1> HIDE DEF R
<1>2. PICK n \in S : \A m \in S : <<m, n>> \notin R
  BY <1>1, WFMin
<1>3. \A m \in S : ~(m < n)
  BY <1>2 DEF R
<1> QED BY <1>3

(* Induction: a set of numbers with 0 and, with each number below n, the   *)
(* next has all numbers up to n.                                           *)
LEMMA Induction ==
  ASSUME NEW n \in Nat, NEW T, 0 \in T, \A k \in 0 .. n - 1 : k \in T => k + 1 \in T
  PROVE  0 .. n \subseteq T
<1> DEFINE Missing == {k \in 0 .. n : k \notin T}
<1> SUFFICES ASSUME Missing # {} PROVE FALSE
  OBVIOUS
<1>1. PICK k \in Missing : \A m \in Missing : k <= m
  <2>1. Missing \subseteq Nat
    OBVIOUS
  <2> HIDE DEF Missing
  <2> QED BY <2>1, LeastNumber
<1>2. k # 0 /\ k - 1 \in 0 .. n - 1
  OBVIOUS
<1>3. k - 1 \in T
  BY <1>1, <1>2
<1>4. (k - 1) + 1 \in T
  BY <1>2, <1>3
<1>5. (k - 1) + 1 = k
  BY <1>1
<1> QED BY <1>1, <1>4, <1>5

(* Recursion: a step taken n times from a.                                 *)
Iterates(f, n, S, a, step) ==
  /\ f \in [0 .. n -> S] /\ f[0] = a
  /\ \A k \in 1 .. n : f[k] = step[<<k, f[k - 1]>>]

LEMMA Iteration ==
  ASSUME NEW n \in Nat, NEW S, NEW a \in S, NEW step \in [(1 .. n) \X S -> S]
  PROVE  \E f : Iterates(f, n, S, a, step)
<1> DEFINE Makes(f, m) == /\ f \in [0 .. m -> S] /\ f[0] = a
                          /\ \A k \in 1 .. m : f[k] = step[<<k, f[k - 1]>>]
           T == {m \in 0 .. n : \E f \in [0 .. m -> S] : Makes(f, m)}
<1>1. 0 \in T
  <2> DEFINE f == [k \in 0 .. 0 |-> a]
  <2>1. f \in [0 .. 0 -> S] /\ Makes(f, 0)
    OBVIOUS
  <2> HIDE DEF f
  <2> QED BY <2>1
<1>2. ASSUME NEW m \in 0 .. n - 1, m \in T PROVE m + 1 \in T
  <2>1. PICK f \in [0 .. m -> S] : Makes(f, m)
    BY <1>2
  <2> DEFINE g == [k \in 0 .. m + 1 |-> IF k = m + 1 THEN step[<<m + 1, f[m]>>] ELSE f[k]]
  <2>2. f[m] \in S /\ <<m + 1, f[m]>> \in (1 .. n) \X S /\ step[<<m + 1, f[m]>>] \in S
    OBVIOUS
  <2>3. g \in [0 .. m + 1 -> S] /\ g[0] = a
    BY <2>1, <2>2
  <2>4. ASSUME NEW k \in 1 .. m + 1 PROVE g[k] = step[<<k, g[k - 1]>>]
    <3>1. k - 1 \in 0 .. m + 1 /\ k - 1 # m + 1 /\ k \in 0 .. m + 1
      OBVIOUS
    <3>2. g[k - 1] = f[k - 1]
      BY <3>1
    <3>3. CASE k = m + 1
      <4>1. k - 1 = m
        BY <3>3
      <4>2. g[k] = step[<<k, f[k - 1]>>]
        BY <3>1, <3>3, <4>1
      <4> QED BY <3>2, <4>2
    <3>4. CASE k # m + 1
      <4>1. k \in 1 .. m
        BY <3>4
      <4>2. f[k] = step[<<k, f[k - 1]>>]
        BY <2>1, <4>1
      <4>3. g[k] = f[k]
        BY <3>1, <3>4
      <4> QED BY <3>2, <4>2, <4>3
    <3> QED BY <3>3, <3>4
  <2>5. m + 1 \in 0 .. n
    OBVIOUS
  <2>6. Makes(g, m + 1)
    BY <2>3, <2>4
  <2> HIDE DEF g
  <2> QED BY <2>3, <2>5, <2>6
<1>3. n \in T
  <2> HIDE DEF T
  <2>1. \A m \in 0 .. n - 1 : m \in T => m + 1 \in T
    BY <1>2
  <2> QED BY <1>1, <2>1, Induction
<1>4. PICK f \in [0 .. n -> S] : Makes(f, n)
  BY <1>3
<1>5. Iterates(f, n, S, a, step)
  BY <1>4 DEF Iterates
<1> QED BY <1>5

(* What never sinks from one number to the next does not from any to a     *)
(* later one.                                                              *)
LEMMA Growing ==
  ASSUME NEW n \in Nat, NEW f, \A k \in 0 .. n : f[k] \in Nat,
         \A k \in 1 .. n : f[k - 1] <= f[k],
         NEW a \in 0 .. n, NEW b \in 0 .. n, a <= b
  PROVE  f[a] <= f[b]
<1> DEFINE T == {k \in 0 .. n : a <= k => f[a] <= f[k]}
<1>1. 0 \in T
  OBVIOUS
<1>2. ASSUME NEW k \in 0 .. n - 1, k \in T PROVE k + 1 \in T
  <2>1. k \in 0 .. n /\ k + 1 \in 0 .. n /\ k + 1 \in 1 .. n /\ (k + 1) - 1 = k
    OBVIOUS
  <2>2. f[k] <= f[k + 1]
    <3>1. f[(k + 1) - 1] <= f[k + 1]
      BY <2>1
    <3> QED BY <2>1, <3>1
  <2>3. ASSUME a <= k + 1 PROVE f[a] <= f[k + 1]
    <3>1. CASE a = k + 1
      BY <2>1, <3>1
    <3>2. CASE a # k + 1
      <4>1. a <= k
        BY <2>3, <3>2
      <4>2. f[a] <= f[k]
        BY <1>2, <4>1
      <4>3. f[a] \in Nat /\ f[k] \in Nat /\ f[k + 1] \in Nat
        BY <2>1
      <4> HIDE DEF T
      <4> QED BY <2>2, <4>2, <4>3
    <3> QED BY <3>1, <3>2
  <2> QED BY <2>1, <2>3
<1>3. 0 .. n \subseteq T
  <2> HIDE DEF T
  <2>1. \A k \in 0 .. n - 1 : k \in T => k + 1 \in T
    BY <1>2
  <2> QED BY <1>1, <2>1, Induction
<1> QED BY <1>3
=============================================================================
