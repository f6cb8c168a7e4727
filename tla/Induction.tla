------------------------------- MODULE Induction -------------------------------
(***************************************************************************)
(* Induction over the natural numbers in a form that needs no operator     *)
(* parameter, the recursive functions that walk up a chain of parents      *)
(* (scopes in an arena, constructs in a program), and how often something  *)
(* occurs in a sequence.                                                   *)
(***************************************************************************)
EXTENDS Integers, FiniteSetTheorems, SequenceTheorems, WellFoundedInduction, TLAPS

\* A set of numbers that is not empty has a least one.
LEMMA Least ==
  ASSUME NEW T \in SUBSET Nat, T # {}
  PROVE  \E x \in T : \A y \in T : x <= y
<1> DEFINE R == OpToRel(<, Nat)
<1>1. IsWellFoundedOn(R, Nat)
  BY NatLessThanWellFounded
<1>2. \A x, y \in Nat : x < y => <<x, y>> \in R
  BY DEF OpToRel
<1> HIDE DEF R
<1>3. PICK x \in T : \A y \in T : ~ (<<y, x>> \in R)
  BY <1>1, WFMin
<1>4. x \in Nat /\ \A y \in T : y \in Nat
  OBVIOUS
<1>5. \A y \in T : ~ (y < x)
  BY <1>2, <1>3, <1>4
<1>6. \A y \in T : x <= y
  BY <1>4, <1>5, SMT
<1> QED
  BY <1>6

\* What holds of a number if it holds of all smaller ones holds of all.
LEMMA Below ==
  ASSUME NEW T \in SUBSET Nat,
         \A n \in Nat : (\A m \in 0 .. n - 1 : m \in T) => n \in T
  PROVE  T = Nat
<1> SUFFICES ASSUME Nat \ T # {} PROVE FALSE
  OBVIOUS
<1>1. PICK n \in Nat \ T : \A m \in Nat \ T : n <= m
  BY Least
<1>2. \A m \in 0 .. n - 1 : m \in T
  BY <1>1
<1> QED
  BY <1>1, <1>2

\* Numbers up to n lead to their parents, smaller numbers, and G computes a
\* value at each number from the value at its parent.
Descending(n, V, base, up, G) ==
  /\ n \in Nat /\ base \in V
  /\ up \in [1 .. n -> Nat] /\ \A s \in 1 .. n : up[s] < s
  /\ G \in [1 .. n -> [V -> V]]

Computed(f, n, V, base, up, G) ==
  f \in [0 .. n -> V] /\ f[0] = base /\ \A s \in 1 .. n : f[s] = G[s][f[up[s]]]

(***************************************************************************)
(* A function that is given at 0 and is computed elsewhere from its value  *)
(* at the parent exists.                                                   *)
(***************************************************************************)
LEMMA Descent ==
  ASSUME NEW n, NEW V, NEW base, NEW up, NEW G, Descending(n, V, base, up, G)
  PROVE  \E f : Computed(f, n, V, base, up, G)
<1>0. /\ n \in Nat /\ base \in V
      /\ up \in [1 .. n -> Nat] /\ \A s \in 1 .. n : up[s] < s
      /\ G \in [1 .. n -> [V -> V]]
  BY DEF Descending
<1> DEFINE Solves(f, m) == f[0] = base /\ \A s \in 1 .. m : f[s] = G[s][f[up[s]]]
           T == {m \in Nat : m <= n => \E f \in [0 .. m -> V] : Solves(f, m)}
<1>1. ASSUME NEW m \in Nat, \A k \in 0 .. m - 1 : k \in T
      PROVE  m \in T
  <2>1. SUFFICES ASSUME m <= n
                 PROVE  \E f \in [0 .. m -> V] : Solves(f, m)
    OBVIOUS
  <2>2. CASE m = 0
    <3> DEFINE f == [i \in 0 .. m |-> base]
    <3>1. f \in [0 .. m -> V] /\ Solves(f, m)
      BY <2>2, <1>0
    <3> QED
      BY <3>1
  <2>3. CASE m # 0
    <3>1. m - 1 \in 0 .. m - 1 /\ m - 1 <= n
      BY <1>0, <2>1, <2>3
    <3>2. PICK f \in [0 .. m - 1 -> V] : Solves(f, m - 1)
      <4> HIDE DEF Solves
      <4>1. m - 1 \in T
        <5> HIDE DEF T
        <5> QED
          BY <1>1, <3>1
      <4> QED
        BY <4>1, <3>1
    <3>3. up[m] \in 0 .. m - 1 /\ m \in 1 .. n
      BY <1>0, <2>1, <2>3
    <3> DEFINE v == G[m][f[up[m]]]
               g == [i \in 0 .. m |-> IF i = m THEN v ELSE f[i]]
    <3>4. v \in V
      BY <1>0, <3>2, <3>3
    <3> HIDE DEF v
    <3>5. g \in [0 .. m -> V]
      BY <3>2, <3>4
    <3>6. \A i \in 0 .. m - 1 : g[i] = f[i]
      OBVIOUS
    <3>7. g[m] = v
      OBVIOUS
    <3> HIDE DEF g
    <3>8. g[0] = base
      BY <3>2, <3>6, <2>3
    <3>9. ASSUME NEW s \in 1 .. m
          PROVE  g[s] = G[s][g[up[s]]]
      <4>1. up[s] \in 0 .. s - 1
        BY <1>0, <2>1
      <4>2. g[up[s]] = f[up[s]]
        BY <4>1, <3>6
      <4>3. CASE s = m
        BY <4>2, <4>3, <3>7 DEF v
      <4>4. CASE s # m
        <5>1. s \in 1 .. m - 1 /\ s \in 0 .. m - 1
          BY <4>4
        <5> QED
          BY <5>1, <4>2, <3>2, <3>6
      <4> QED
        BY <4>3, <4>4
    <3> QED
      BY <3>5, <3>8, <3>9
  <2> QED
    BY <2>2, <2>3
<1>2. T = Nat
  <2> HIDE DEF T
  <2>1. T \subseteq Nat
    BY DEF T
  <2> QED
    BY <1>1, <2>1, Below
<1>3. \E f \in [0 .. n -> V] : Solves(f, n)
  <2> HIDE DEF Solves
  <2>1. n \in T /\ n \in Nat
    BY <1>0, <1>2
  <2> QED
    BY <2>1
<1> QED
  BY <1>3 DEF Computed

\* A non-empty sequence of numbers has a largest one.
LEMMA Largest ==
  ASSUME NEW n \in Nat \ {0}, NEW g \in [1 .. n -> Nat]
  PROVE  \E j \in 1 .. n : \A i \in 1 .. n : g[i] <= g[j]
<1> DEFINE Has(m) == \E j \in 1 .. m : \A i \in 1 .. m : g[i] <= g[j]
           T == {m \in Nat : m + 1 <= n => Has(m + 1)}
<1>1. ASSUME NEW m \in Nat, \A k \in 0 .. m - 1 : k \in T
      PROVE  m \in T
  <2>1. SUFFICES ASSUME m + 1 <= n PROVE Has(m + 1)
    OBVIOUS
  <2>2. CASE m = 0
    BY <2>2
  <2>3. CASE m # 0
    <3>1. m - 1 \in 0 .. m - 1 /\ (m - 1) + 1 = m /\ m <= n
      BY <2>1, <2>3
    <3>2. PICK j \in 1 .. m : \A i \in 1 .. m : g[i] <= g[j]
      <4> HIDE DEF Has
      <4>1. m - 1 \in T
        <5> HIDE DEF T
        <5> QED
          BY <1>1, <3>1
      <4>2. Has(m)
        BY <4>1, <3>1
      <4> QED
        BY <4>2 DEF Has
    <3>3. g[j] \in Nat /\ g[m + 1] \in Nat /\ \A i \in 1 .. m : g[i] \in Nat
      BY <2>1, <3>2
    <3>4. CASE g[m + 1] <= g[j]
      <4>1. j \in 1 .. m + 1 /\ \A i \in 1 .. m + 1 : i \in 1 .. m \/ i = m + 1
        OBVIOUS
      <4>2. \A i \in 1 .. m + 1 : g[i] <= g[j]
        BY <3>2, <3>4, <4>1
      <4> QED
        BY <4>1, <4>2
    <3>5. CASE g[j] < g[m + 1]
      <4>1. \A i \in 1 .. m + 1 : g[i] <= g[m + 1]
        BY <3>2, <3>3, <3>5
      <4> QED
        BY <4>1
    <3> QED
      BY <3>3, <3>4, <3>5
  <2> QED
    BY <2>2, <2>3
<1>2. T = Nat
  <2> HIDE DEF T
  <2>1. T \subseteq Nat
    BY DEF T
  <2> QED
    BY <1>1, <2>1, Below
<1>3. Has(n)
  <2> HIDE DEF Has
  <2>1. n - 1 \in Nat /\ (n - 1) + 1 = n /\ n <= n
    OBVIOUS
  <2>2. n - 1 \in T
    BY <1>2, <2>1
  <2> QED
    BY <2>1, <2>2
<1> QED
  BY <1>3

-----------------------------------------------------------------------------
(* Functions that are computed step by step. *)

\* A function that is given at 0 and is computed at each further number from
\* its value before exists, up to n and on all numbers.
Steps(f, n, base, G) == f[0] = base /\ \A k \in 1 .. n : f[k] = G[k][f[k - 1]]

LEMMA StepsExist ==
  ASSUME NEW n \in Nat, NEW V, NEW base \in V, NEW G \in [1 .. n -> [V -> V]]
  PROVE  \E f \in [0 .. n -> V] : Steps(f, n, base, G)
<1> DEFINE up == [i \in 1 .. n |-> i - 1]
<1>1. up \in [1 .. n -> Nat] /\ \A i \in 1 .. n : up[i] < i /\ up[i] = i - 1
  OBVIOUS
<1> HIDE DEF up
<1>2. Descending(n, V, base, up, G)
  BY <1>1 DEF Descending
<1>3. PICK f : Computed(f, n, V, base, up, G)
  BY <1>2, Descent
<1> QED
  BY <1>1, <1>3 DEF Computed, Steps

LEMMA StepsUnique ==
  ASSUME NEW n \in Nat, NEW base, NEW G, NEW f, NEW g,
         Steps(f, n, base, G), Steps(g, n, base, G)
  PROVE  \A k \in 0 .. n : f[k] = g[k]
<1> DEFINE T == {k \in Nat : k <= n => f[k] = g[k]}
<1>1. ASSUME NEW k \in Nat, \A m \in 0 .. k - 1 : m \in T
      PROVE  k \in T
  <2>1. CASE k = 0
    BY <2>1 DEF Steps
  <2>2. CASE k # 0
    <3>1. k - 1 \in 0 .. k - 1 /\ (k <= n => k - 1 <= n /\ k \in 1 .. n)
      BY <2>2
    <3>2. k <= n => f[k - 1] = g[k - 1]
      BY <1>1, <3>1
    <3> QED
      BY <3>1, <3>2 DEF Steps
  <2> QED
    BY <2>1, <2>2
<1>2. T = Nat
  <2> HIDE DEF T
  <2>1. T \subseteq Nat
    BY DEF T
  <2> QED
    BY <1>1, <2>1, Below
<1> QED
  BY <1>2

Follows(f, base, G) == f[0] = base /\ \A k \in Nat \ {0} : f[k] = G[k][f[k - 1]]

LEMMA Recursion ==
  ASSUME NEW V, NEW base \in V, NEW G \in [Nat -> [V -> V]]
  PROVE  \E f \in [Nat -> V] : Follows(f, base, G)
<1> DEFINE Upto(n) == CHOOSE f \in [0 .. n -> V] : Steps(f, n, base, G)
           h == [n \in Nat |-> Upto(n)[n]]
<1>1. ASSUME NEW n \in Nat
      PROVE  Upto(n) \in [0 .. n -> V] /\ Steps(Upto(n), n, base, G)
  <2> DEFINE H == [i \in 1 .. n |-> G[i]]
  <2>1. H \in [1 .. n -> [V -> V]] /\ \A i \in 1 .. n : H[i] = G[i]
    OBVIOUS
  <2> HIDE DEF H
  <2>2. \E f \in [0 .. n -> V] : Steps(f, n, base, H)
    BY <2>1, StepsExist
  <2>3. \E f \in [0 .. n -> V] : Steps(f, n, base, G)
    BY <2>1, <2>2 DEF Steps
  <2> QED
    BY <2>3
<1> HIDE DEF Upto
<1>2. h \in [Nat -> V] /\ h[0] = base
  BY <1>1 DEF Steps
<1>3. ASSUME NEW k \in Nat \ {0}
      PROVE  h[k] = G[k][h[k - 1]]
  <2>1. k - 1 \in Nat /\ k \in Nat /\ k \in 1 .. k /\ k - 1 \in 0 .. k - 1
    OBVIOUS
  <2>2. Steps(Upto(k), k, base, G) /\ Steps(Upto(k - 1), k - 1, base, G)
    BY <1>1, <2>1
  <2>3. Steps(Upto(k), k - 1, base, G)
    BY <2>2 DEF Steps
  <2>4. Upto(k)[k - 1] = Upto(k - 1)[k - 1]
    BY <2>1, <2>2, <2>3, StepsUnique
  <2>5. Upto(k)[k] = G[k][Upto(k)[k - 1]]
    BY <2>1, <2>2 DEF Steps
  <2> QED
    BY <2>1, <2>4, <2>5
<1> QED
  BY <1>2, <1>3 DEF Follows

\* Powers.

\* What a step keeps is kept.
LEMMA StepsTyped ==
  ASSUME NEW n \in Nat, NEW V, NEW f, f[0] \in V,
         \A k \in 1 .. n : f[k - 1] \in V => f[k] \in V
  PROVE  \A k \in 0 .. n : f[k] \in V
<1> DEFINE T == {k \in Nat : k <= n => f[k] \in V}
<1>1. ASSUME NEW k \in Nat, \A m \in 0 .. k - 1 : m \in T
      PROVE  k \in T
  <2>1. CASE k = 0
    BY <2>1
  <2>2. CASE k # 0
    <3>1. k - 1 \in 0 .. k - 1 /\ (k <= n => k - 1 <= n /\ k \in 1 .. n)
      BY <2>2
    <3> QED
      BY <1>1, <3>1
  <2> QED
    BY <2>1, <2>2
<1>2. T = Nat
  <2> HIDE DEF T
  <2>1. T \subseteq Nat
    BY DEF T
  <2> QED
    BY <1>1, <2>1, Below
<1> QED
  BY <1>2

-----------------------------------------------------------------------------

\* Sets that are mapped one to one onto each other.
LEMMA OneToOne ==
  ASSUME NEW S, NEW T, NEW f \in [S -> T],
         \A a, b \in S : f[a] = f[b] => a = b,
         \A b \in T : \E a \in S : f[a] = b
  PROVE  ExistsBijection(S, T)
<1>1. f \in Injection(S, T)
  BY DEF Injection, IsInjective
<1>2. f \in Surjection(S, T)
  BY DEF Surjection
<1> QED
  BY <1>1, <1>2 DEF ExistsBijection, Bijection

\* Where t occurs in the sequence s.
Occurrences(s, t) == {i \in DOMAIN s : s[i] = t}

LEMMA OccurrencesFinite ==
  ASSUME NEW S, NEW s \in Seq(S), NEW t
  PROVE  IsFiniteSet(Occurrences(s, t)) /\ Cardinality(Occurrences(s, t)) \in Nat
<1>1. IsFiniteSet(1 .. Len(s)) /\ Occurrences(s, t) \in SUBSET (1 .. Len(s))
  BY FS_Interval DEF Occurrences
<1> QED
  BY <1>1, FS_Subset, FS_CardinalityType

\* Occurrences are counted part by part.
LEMMA OccurrencesConcat ==
  ASSUME NEW S, NEW s \in Seq(S), NEW u \in Seq(S), NEW t
  PROVE  Cardinality(Occurrences(s \o u, t))
           = Cardinality(Occurrences(s, t)) + Cardinality(Occurrences(u, t))
<1> DEFINE P == Occurrences(s, t)
           Q == Occurrences(u, t)
           R == {Len(s) + i : i \in Q}
           f == [i \in Q |-> Len(s) + i]
<1>1. /\ P \subseteq 1 .. Len(s) /\ Q \subseteq 1 .. Len(u)
      /\ Len(s) \in Nat /\ Len(u) \in Nat
  BY DEF Occurrences
<1>2. Occurrences(s \o u, t) = P \union R
  <2>1. /\ DOMAIN (s \o u) = 1 .. Len(s) + Len(u)
        /\ \A i \in 1 .. Len(s) : (s \o u)[i] = s[i]
        /\ \A i \in 1 .. Len(u) : (s \o u)[Len(s) + i] = u[i]
    OBVIOUS
  <2>2. ASSUME NEW i \in Occurrences(s \o u, t) PROVE i \in P \union R
    <3>1. i \in 1 .. Len(s) + Len(u) /\ (s \o u)[i] = t
      BY <2>1 DEF Occurrences
    <3>2. CASE i \in 1 .. Len(s)
      BY <3>1, <3>2, <2>1 DEF Occurrences
    <3>3. CASE i \notin 1 .. Len(s)
      <4>1. i - Len(s) \in 1 .. Len(u) /\ i = Len(s) + (i - Len(s))
        BY <3>1, <3>3, <1>1
      <4>2. i - Len(s) \in Q
        BY <3>1, <4>1, <2>1 DEF Occurrences
      <4> QED
        BY <4>1, <4>2
    <3> QED
      BY <3>2, <3>3
  <2>3. ASSUME NEW i \in P PROVE i \in Occurrences(s \o u, t)
    BY <1>1, <2>1 DEF Occurrences
  <2>4. ASSUME NEW i \in Q PROVE Len(s) + i \in Occurrences(s \o u, t)
    BY <1>1, <2>1 DEF Occurrences
  <2> QED
    BY <2>2, <2>3, <2>4
<1>3. P \intersect R = {}
  BY <1>1
<1>4. IsFiniteSet(P) /\ IsFiniteSet(Q)
  BY OccurrencesFinite
<1>5. IsFiniteSet(R) /\ Cardinality(R) = Cardinality(Q)
  <2>1. f \in [Q -> R]
    OBVIOUS
  <2>2. \A a, b \in Q : f[a] = f[b] => a = b
    BY <1>1
  <2>3. \A r \in R : \E a \in Q : f[a] = r
    OBVIOUS
  <2>4. ExistsBijection(Q, R)
    <3> HIDE DEF Q, R, f
    <3> QED
      BY <2>1, <2>2, <2>3, OneToOne
  <2> HIDE DEF Q, R
  <2> QED
    BY <2>4, <1>4, FS_Bijection
<1>6. Cardinality(P \union R) = Cardinality(P) + Cardinality(R)
  <2>1. Cardinality(P \union R) = Cardinality(P) + Cardinality(R) - Cardinality(P \intersect R)
    BY <1>4, <1>5, FS_Union
  <2>2. Cardinality(P \intersect R) = 0
    BY <1>3, FS_EmptySet
  <2>3. Cardinality(P) \in Nat /\ Cardinality(R) \in Nat
    BY <1>4, <1>5, FS_CardinalityType
  <2> QED
    BY <2>1, <2>2, <2>3
<1> QED
  BY <1>2, <1>5, <1>6

================================================================================
