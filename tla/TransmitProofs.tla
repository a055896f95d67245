-------------------------- MODULE TransmitProofs ---------------------------
(***************************************************************************)
(* What the credit scheduler and the transmit side promise, for any number *)
(* of paths, senders, weights and scores.                                  *)
(***************************************************************************)
EXTENDS Transmit, Facts, TLAPS

----------------------------------------------------------------------------
(* Induction over finite sets, and sums over them.                         *)

(* Induction over the subsets of a finite set, with the good ones as a set. *)
LEMMA FiniteInduction ==
  ASSUME NEW S, IsFiniteSet(S), NEW G,
         \A T \in SUBSET S : (\A U \in SUBSET T : U # T => U \in G) => T \in G
  PROVE  \A T \in SUBSET S : T \in G
<1> SUFFICES ASSUME NEW B \in SUBSET S, B \notin G PROVE FALSE
  OBVIOUS
<1> DEFINE bad == {T \in SUBSET S : T \notin G}
           sizes == {Cardinality(T) : T \in bad}
<1>1. ASSUME NEW T \in SUBSET S PROVE IsFiniteSet(T) /\ Cardinality(T) \in Nat
  BY FS_Subset, FS_CardinalityType
<1>2. sizes \in SUBSET Nat /\ sizes # {}
  BY <1>1
<1>3. PICK n \in sizes : \A m \in sizes : n <= m
  <2> HIDE DEF sizes
  <2> QED BY <1>2, LeastNatural
<1>4. PICK T \in bad : n = Cardinality(T)
  BY <1>3
<1>5. ASSUME NEW U \in SUBSET T, U # T PROVE U \in G
  <2>1. T \in SUBSET S /\ IsFiniteSet(T) /\ Cardinality(T) \in Nat
    BY <1>1
  <2>2. Cardinality(U) \in Nat /\ Cardinality(U) < Cardinality(T)
    BY <1>5, <2>1, FS_Subset, FS_CardinalityType
  <2>3. Cardinality(U) \notin sizes
    BY <1>3, <1>4, <2>1, <2>2
  <2> QED BY <2>1, <2>3
<1> QED BY <1>5

(* One element at a time. *)
LEMMA StepInduction ==
  ASSUME NEW S, IsFiniteSet(S), NEW G,
         {} \in G, \A T \in SUBSET S : \A x \in T : T \ {x} \in G => T \in G
  PROVE  \A T \in SUBSET S : T \in G
<1>1. ASSUME NEW T \in SUBSET S, \A U \in SUBSET T : U # T => U \in G PROVE T \in G
  <2>1. CASE T = {}
    BY <2>1
  <2>2. CASE T # {}
    <3>1. PICK x \in T : TRUE
      BY <2>2
    <3>2. T \ {x} \in SUBSET T /\ T \ {x} # T
      BY <3>1
    <3> QED BY <1>1, <3>1, <3>2, Zenon
  <2> QED BY <2>1, <2>2
<1> QED BY <1>1, FiniteInduction, Zenon

(* The sum of f over S, and the element it is taken from first. *)
SumOf(f, S) == SumFunctionOnSet(f, S)
AnyOf(S) == CHOOSE x \in S : TRUE

(* g adds up f over every subset of S, in the order of AnyOf. *)
AddsUp(g, f, S) == g = [s \in SUBSET S |-> IF s = {} THEN 0 ELSE f[AnyOf(s)] + g[s \ {AnyOf(s)}]]

(* The same for subsets of at most n elements. *)
Small(S, n) == {s \in SUBSET S : Cardinality(s) <= n}
AddsUpTo(g, f, S, n) ==
  g = [s \in Small(S, n) |-> IF s = {} THEN 0 ELSE f[AnyOf(s)] + g[s \ {AnyOf(s)}]]

(* A subset and what is left of it without the element picked. *)
LEMMA Smaller ==
  ASSUME NEW S, IsFiniteSet(S), NEW s \in SUBSET S
  PROVE  /\ IsFiniteSet(s) /\ Cardinality(s) \in Nat /\ Cardinality(S) \in Nat
         /\ Cardinality(s) <= Cardinality(S)
         /\ s # {} => /\ AnyOf(s) \in s /\ s \ {AnyOf(s)} \in SUBSET S
                      /\ Cardinality(s \ {AnyOf(s)}) = Cardinality(s) - 1
         /\ Cardinality(s) = 0 <=> s = {}
<1>1. /\ IsFiniteSet(s) /\ Cardinality(s) \in Nat /\ Cardinality(S) \in Nat
      /\ Cardinality(s) <= Cardinality(S)
  BY FS_Subset, FS_CardinalityType
<1>2. Cardinality(s) = 0 <=> s = {}
  BY <1>1, FS_EmptySet
<1>3. ASSUME s # {} PROVE AnyOf(s) \in s
  BY <1>3 DEF AnyOf
<1>4. ASSUME s # {} PROVE Cardinality(s \ {AnyOf(s)}) = Cardinality(s) - 1
  BY <1>1, <1>3, <1>4, FS_RemoveElement, Zenon
<1> QED BY <1>1, <1>2, <1>3, <1>4

(* There is such a function. *)
LEMMA AddsUpExists ==
  ASSUME NEW f, NEW S, IsFiniteSet(S)
  PROVE  \E g : AddsUp(g, f, S)
<1> DEFINE bad == {n \in Nat : ~\E g : AddsUpTo(g, f, S, n)}
<1>1. \E g : AddsUpTo(g, f, S, 0)
  <2> DEFINE g == [s \in Small(S, 0) |-> 0]
  <2>1. ASSUME NEW s \in Small(S, 0) PROVE s = {}
    <3>1. s \in SUBSET S /\ Cardinality(s) <= 0
      BY DEF Small
    <3>2. Cardinality(s) \in Nat /\ (Cardinality(s) = 0 <=> s = {})
      BY <3>1, Smaller, Zenon
    <3> QED BY <3>1, <3>2
  <2>2. AddsUpTo(g, f, S, 0)
    BY <2>1 DEF AddsUpTo
  <2> QED BY <2>2
<1>2. ASSUME NEW n \in Nat, NEW g, AddsUpTo(g, f, S, n)
      PROVE  \E h : AddsUpTo(h, f, S, n + 1)
  <2> DEFINE h == [s \in Small(S, n + 1) |-> IF s = {} THEN 0 ELSE f[AnyOf(s)] + g[s \ {AnyOf(s)}]]
  <2>1. ASSUME NEW s \in Small(S, n) PROVE s \in Small(S, n + 1)
    <3>1. s \in SUBSET S /\ Cardinality(s) <= n
      BY DEF Small
    <3>2. Cardinality(s) \in Nat
      BY <3>1, Smaller, Zenon
    <3> QED BY <3>1, <3>2 DEF Small
  <2>2. ASSUME NEW s \in Small(S, n) PROVE h[s] = g[s]
    <3>1. g[s] = IF s = {} THEN 0 ELSE f[AnyOf(s)] + g[s \ {AnyOf(s)}]
      BY <1>2, Zenon DEF AddsUpTo
    <3> QED BY <2>1, <3>1
  <2>3. ASSUME NEW s \in Small(S, n + 1), s # {} PROVE h[s \ {AnyOf(s)}] = g[s \ {AnyOf(s)}]
    <3>1. s \in SUBSET S /\ Cardinality(s) <= n + 1
      BY DEF Small
    <3>2. /\ Cardinality(s) \in Nat /\ s \ {AnyOf(s)} \in SUBSET S
          /\ Cardinality(s \ {AnyOf(s)}) = Cardinality(s) - 1
      BY <2>3, <3>1, Smaller
    <3>3. s \ {AnyOf(s)} \in Small(S, n)
      BY <3>1, <3>2 DEF Small
    <3> QED BY <2>2, <3>3, Zenon
  <2>4. AddsUpTo(h, f, S, n + 1)
    BY <2>3, Zenon DEF AddsUpTo
  <2> QED BY <2>4
<1>3. bad = {}
  <2> SUFFICES ASSUME bad # {} PROVE FALSE
    OBVIOUS
  <2>1. PICK n \in bad : \A m \in bad : n <= m
    <3>1. bad \in SUBSET Nat
      OBVIOUS
    <3> HIDE DEF bad
    <3> QED BY <3>1, LeastNatural
  <2>2. n \in Nat /\ n # 0 /\ n - 1 \in Nat /\ (n - 1) + 1 = n
    BY <1>1, <2>1
  <2>3. n - 1 \notin bad
    <3> HIDE DEF bad
    <3> QED BY <2>1, <2>2
  <2>4. PICK g : AddsUpTo(g, f, S, n - 1)
    BY <2>2, <2>3
  <2>5. \E h : AddsUpTo(h, f, S, n)
    BY <1>2, <2>2, <2>4
  <2> QED BY <2>1, <2>5
<1>4. Cardinality(S) \in Nat
  BY FS_CardinalityType
<1>5. Small(S, Cardinality(S)) = SUBSET S
  BY Smaller, Zenon DEF Small
<1>6. PICK g : AddsUpTo(g, f, S, Cardinality(S))
  BY <1>3, <1>4
<1>7. AddsUp(g, f, S)
  BY <1>5, <1>6, Zenon DEF AddsUp, AddsUpTo
<1> QED BY <1>7

(* Two of them agree where both are defined. *)
LEMMA AddsUpAgree ==
  ASSUME NEW f, NEW S, IsFiniteSet(S), NEW T \in SUBSET S,
         NEW g, AddsUp(g, f, S), NEW h, AddsUp(h, f, T)
  PROVE  \A s \in SUBSET T : g[s] = h[s]
<1> DEFINE G == {s \in SUBSET T : g[s] = h[s]}
<1>1. IsFiniteSet(T)
  BY FS_Subset
<1>2. ASSUME NEW s \in SUBSET T, \A u \in SUBSET s : u # s => u \in G PROVE s \in G
  <2>1. /\ g[s] = IF s = {} THEN 0 ELSE f[AnyOf(s)] + g[s \ {AnyOf(s)}]
        /\ h[s] = IF s = {} THEN 0 ELSE f[AnyOf(s)] + h[s \ {AnyOf(s)}]
    BY Zenon DEF AddsUp
  <2>2. CASE s = {}
    BY <2>1, <2>2
  <2>3. CASE s # {}
    <3>1. AnyOf(s) \in s
      BY <2>3 DEF AnyOf
    <3>2. s \ {AnyOf(s)} \in SUBSET s /\ s \ {AnyOf(s)} # s
      BY <3>1
    <3>3. g[s \ {AnyOf(s)}] = h[s \ {AnyOf(s)}]
      BY <1>2, <3>2
    <3> QED BY <2>1, <2>3, <3>3
  <2> QED BY <2>2, <2>3
<1>3. \A s \in SUBSET T : s \in G
  <2> HIDE DEF G
  <2> QED BY <1>1, <1>2, FiniteInduction
<1> QED BY <1>3

(* SumFunctionOnSet, unfolded once. *)
LEMMA SumPick ==
  ASSUME NEW f, NEW S, IsFiniteSet(S)
  PROVE  SumOf(f, S) = IF S = {} THEN 0 ELSE f[AnyOf(S)] + SumOf(f, S \ {AnyOf(S)})
<1>1. ASSUME NEW T, IsFiniteSet(T)
      PROVE  \E g : AddsUp(g, f, T) /\ SumOf(f, T) = g[T]
  <2>1. SumOf(f, T) = (CHOOSE g : AddsUp(g, f, T))[T]
    BY Zenon DEF SumOf, AddsUp, AnyOf, SumFunctionOnSet, FoldFunctionOnSet, MapThenFoldSet
  <2>2. AddsUp(CHOOSE g : AddsUp(g, f, T), f, T)
    BY <1>1, AddsUpExists, Zenon
  <2> QED BY <2>1, <2>2, Zenon
<1>2. PICK g : AddsUp(g, f, S) /\ SumOf(f, S) = g[S]
  BY <1>1
<1>3. g[S] = IF S = {} THEN 0 ELSE f[AnyOf(S)] + g[S \ {AnyOf(S)}]
  BY <1>2, Zenon DEF AddsUp
<1>4. CASE S = {}
  BY <1>2, <1>3, <1>4
<1>5. CASE S # {}
  <2> DEFINE T == S \ {AnyOf(S)}
  <2>1. T \in SUBSET S /\ IsFiniteSet(T)
    BY FS_Subset
  <2> HIDE DEF T
  <2>2. PICK h : AddsUp(h, f, T) /\ SumOf(f, T) = h[T]
    BY <1>1, <2>1
  <2>3. g[T] = h[T]
    BY <1>2, <2>1, <2>2, AddsUpAgree
  <2> QED BY <1>2, <1>3, <1>5, <2>2, <2>3 DEF T
<1> QED BY <1>4, <1>5

(* f has an integer for every element of S. *)
IntOn(f, S) == \A x \in S : f[x] \in Int

(* A sum of integers is one. *)
LEMMA SumInt ==
  ASSUME NEW f, NEW S, IsFiniteSet(S), IntOn(f, S)
  PROVE  SumOf(f, S) \in Int
<1> DEFINE G == {T \in SUBSET S : SumOf(f, T) \in Int}
<1>1. ASSUME NEW T \in SUBSET S, \A U \in SUBSET T : U # T => U \in G PROVE T \in G
  <2>1. SumOf(f, T) = IF T = {} THEN 0 ELSE f[AnyOf(T)] + SumOf(f, T \ {AnyOf(T)})
    BY FS_Subset, SumPick
  <2>2. CASE T # {}
    <3>1. AnyOf(T) \in T
      BY <2>2 DEF AnyOf
    <3>2. T \ {AnyOf(T)} \in SUBSET T /\ T \ {AnyOf(T)} # T /\ f[AnyOf(T)] \in Int
      BY <3>1 DEF IntOn
    <3>3. SumOf(f, T \ {AnyOf(T)}) \in Int
      BY <1>1, <3>2
    <3> QED BY <2>1, <2>2, <3>2, <3>3
  <2>3. CASE T = {}
    BY <2>1, <2>3
  <2> QED BY <2>2, <2>3
<1>2. \A T \in SUBSET S : T \in G
  <2> HIDE DEF G
  <2> QED BY <1>1, FiniteInduction
<1> QED BY <1>2

(* The order does not matter: any element can be taken out first. *)
LEMMA SumOut ==
  ASSUME NEW f, NEW S, IsFiniteSet(S), IntOn(f, S), NEW y \in S
  PROVE  SumOf(f, S) = f[y] + SumOf(f, S \ {y})
<1> DEFINE G == {T \in SUBSET S : \A x \in T : SumOf(f, T) = f[x] + SumOf(f, T \ {x})}
<1>1. ASSUME NEW T \in SUBSET S PROVE IsFiniteSet(T) /\ SumOf(f, T) \in Int
  BY FS_Subset, SumInt DEF IntOn
<1>2. ASSUME NEW T \in SUBSET S, \A U \in SUBSET T : U # T => U \in G PROVE T \in G
  <2> SUFFICES ASSUME NEW x \in T PROVE SumOf(f, T) = f[x] + SumOf(f, T \ {x})
    OBVIOUS
  <2> DEFINE c == AnyOf(T)
  <2>1. c \in T /\ f[c] \in Int /\ f[x] \in Int
    BY DEF AnyOf, IntOn
  <2>2. SumOf(f, T) = f[c] + SumOf(f, T \ {c})
    BY <1>1, SumPick
  <2> HIDE DEF c
  <2>3. CASE x = c
    BY <2>2, <2>3
  <2>4. CASE x # c
    <3>1. /\ T \ {c} \in SUBSET T /\ T \ {c} # T /\ x \in T \ {c}
          /\ T \ {x} \in SUBSET T /\ T \ {x} # T /\ c \in T \ {x}
      BY <2>1, <2>4
    <3>2. SumOf(f, T \ {c}) = f[x] + SumOf(f, (T \ {c}) \ {x})
      BY <1>2, <3>1
    <3>3. SumOf(f, T \ {x}) = f[c] + SumOf(f, (T \ {x}) \ {c})
      BY <1>2, <3>1
    <3>4. (T \ {c}) \ {x} = (T \ {x}) \ {c} /\ (T \ {x}) \ {c} \in SUBSET S
      OBVIOUS
    <3>5. SumOf(f, (T \ {x}) \ {c}) \in Int
      BY <1>1, <3>4
    <3> DEFINE r == SumOf(f, (T \ {x}) \ {c})
    <3>6. SumOf(f, T \ {c}) = f[x] + r /\ SumOf(f, T \ {x}) = f[c] + r /\ r \in Int
      BY <3>2, <3>3, <3>4, <3>5
    <3> HIDE DEF r
    <3>7. f[c] + (f[x] + r) = f[x] + (f[c] + r)
      BY <2>1, <3>6
    <3> QED BY <2>2, <3>6, <3>7, Zenon
  <2> QED BY <2>3, <2>4
<1>3. \A T \in SUBSET S : T \in G
  <2> HIDE DEF G
  <2> QED BY <1>2, FiniteInduction
<1> QED BY <1>3

(* The empty sum. *)
LEMMA SumEmpty == ASSUME NEW f PROVE SumOf(f, {}) = 0
BY SumPick, FS_EmptySet, Zenon

(* a * f <= b * h + k for every element gives the same of the sums. *)
Bounded(a, f, b, h, k, S) == \A x \in S : a * f[x] <= b * h[x] + k

(* A bound on every term bounds the sum. *)
LEMMA SumBound ==
  ASSUME NEW S, IsFiniteSet(S), NEW f, IntOn(f, S), NEW h, IntOn(h, S),
         NEW a \in Int, NEW b \in Int, NEW k \in Int, Bounded(a, f, b, h, k, S)
  PROVE  a * SumOf(f, S) <= b * SumOf(h, S) + k * Cardinality(S)
<1> DEFINE G == {T \in SUBSET S : a * SumOf(f, T) <= b * SumOf(h, T) + k * Cardinality(T)}
<1>1. {} \in G
  BY SumEmpty, FS_EmptySet
<1>2. ASSUME NEW T \in SUBSET S, NEW x \in T, T \ {x} \in G PROVE T \in G
  <2> DEFINE u == f[x]
             v == h[x]
             p == SumOf(f, T \ {x})
             q == SumOf(h, T \ {x})
             m == Cardinality(T \ {x})
  <2>1. IsFiniteSet(T) /\ IsFiniteSet(T \ {x}) /\ IntOn(f, T) /\ IntOn(h, T)
        /\ IntOn(f, T \ {x}) /\ IntOn(h, T \ {x})
    BY FS_Subset DEF IntOn
  <2>2. SumOf(f, T) = u + p /\ SumOf(h, T) = v + q
    BY <2>1, SumOut
  <2>3. Cardinality(T) = m + 1 /\ m \in Int
    BY <2>1, FS_RemoveElement, FS_CardinalityType
  <2>4. u \in Int /\ v \in Int /\ p \in Int /\ q \in Int
    BY <2>1, SumInt DEF IntOn
  <2>5. a * u <= b * v + k /\ a * p <= b * q + k * m
    BY <1>2 DEF Bounded
  <2> HIDE DEF u, v, p, q, m
  <2>6. /\ a * (u + p) = a * u + a * p /\ b * (v + q) = b * v + b * q
        /\ k * (m + 1) = k * m + k
    BY <2>3, <2>4
  <2>7. /\ a * u \in Int /\ a * p \in Int /\ b * v \in Int /\ b * q \in Int /\ k * m \in Int
    BY <2>3, <2>4
  <2>8. a * (u + p) <= b * (v + q) + k * (m + 1)
    BY <2>5, <2>6, <2>7
  <2> QED BY <2>2, <2>3, <2>8
<1>3. \A T \in SUBSET S : T \in G
  <2> HIDE DEF G
  <2> QED BY <1>1, <1>2, StepInduction, Zenon
<1> QED BY <1>3

(* The sum of a pointwise sum. *)
PointwiseSum(h, f, g, S) == \A x \in S : h[x] = f[x] + g[x]

(* The sum of a pointwise sum. *)
LEMMA SumPlus ==
  ASSUME NEW S, IsFiniteSet(S), NEW f, IntOn(f, S), NEW g, IntOn(g, S), NEW h, PointwiseSum(h, f, g, S)
  PROVE  SumOf(h, S) = SumOf(f, S) + SumOf(g, S)
<1> DEFINE G == {T \in SUBSET S : SumOf(h, T) = SumOf(f, T) + SumOf(g, T)}
<1>1. {} \in G
  BY SumEmpty
<1>2. ASSUME NEW T \in SUBSET S, NEW x \in T, T \ {x} \in G PROVE T \in G
  <2> DEFINE p == SumOf(f, T \ {x})
             q == SumOf(g, T \ {x})
             r == SumOf(h, T \ {x})
  <2>1. IsFiniteSet(T) /\ IsFiniteSet(T \ {x}) /\ IntOn(f, T) /\ IntOn(g, T) /\ IntOn(h, T)
        /\ IntOn(f, T \ {x}) /\ IntOn(g, T \ {x})
    BY FS_Subset DEF IntOn, PointwiseSum
  <2>2. SumOf(f, T) = f[x] + p /\ SumOf(g, T) = g[x] + q /\ SumOf(h, T) = h[x] + r
    BY <2>1, SumOut
  <2>3. p \in Int /\ q \in Int /\ f[x] \in Int /\ g[x] \in Int
    BY <2>1, SumInt DEF IntOn
  <2>4. r = p + q /\ h[x] = f[x] + g[x]
    BY <1>2 DEF PointwiseSum
  <2> HIDE DEF p, q, r
  <2>5. (f[x] + g[x]) + (p + q) = (f[x] + p) + (g[x] + q)
    BY <2>3
  <2>6. SumOf(h, T) = SumOf(f, T) + SumOf(g, T)
    BY <2>2, <2>4, <2>5, Zenon
  <2> QED BY <2>6
<1>3. \A T \in SUBSET S : T \in G
  <2> HIDE DEF G
  <2> QED BY <1>1, <1>2, StepInduction, Zenon
<1> QED BY <1>3

(* Functions that agree have the same sum. *)
LEMMA SumSame ==
  ASSUME NEW S, IsFiniteSet(S), NEW f, IntOn(f, S), NEW g, \A x \in S : f[x] = g[x]
  PROVE  SumOf(f, S) = SumOf(g, S)
<1>1. IntOn(g, S)
  BY DEF IntOn
<1>2. Bounded(1, f, 1, g, 0, S) /\ Bounded(1, g, 1, f, 0, S)
  BY DEF Bounded, IntOn
<1>3. Cardinality(S) \in Nat /\ SumOf(f, S) \in Int /\ SumOf(g, S) \in Int
  BY <1>1, FS_CardinalityType, SumInt
<1>4. /\ 1 * SumOf(f, S) <= 1 * SumOf(g, S) + 0 * Cardinality(S)
      /\ 1 * SumOf(g, S) <= 1 * SumOf(f, S) + 0 * Cardinality(S)
  BY <1>1, <1>2, SumBound
<1> QED BY <1>3, <1>4

(* Where f is zero it adds nothing. *)
LEMMA SumZero ==
  ASSUME NEW S, IsFiniteSet(S), NEW f, \A x \in S : f[x] = 0
  PROVE  SumOf(f, S) = 0
<1>1. IntOn(f, S) /\ Bounded(1, f, 0, f, 0, S) /\ Bounded(0, f, 1, f, 0, S)
  BY DEF IntOn, Bounded
<1>2. Cardinality(S) \in Nat /\ SumOf(f, S) \in Int
  BY <1>1, FS_CardinalityType, SumInt
<1>3. /\ 1 * SumOf(f, S) <= 0 * SumOf(f, S) + 0 * Cardinality(S)
      /\ 0 * SumOf(f, S) <= 1 * SumOf(f, S) + 0 * Cardinality(S)
  BY <1>1, SumBound
<1> QED BY <1>2, <1>3

(* f has a natural number for every element of S. *)
NatOn(f, S) == \A x \in S : f[x] \in Nat

(* A sum of naturals is a natural. *)
LEMMA SumNat ==
  ASSUME NEW S, IsFiniteSet(S), NEW f, NatOn(f, S)
  PROVE  SumOf(f, S) \in Nat
<1>1. IntOn(f, S) /\ Bounded(0, f, 1, f, 0, S)
  BY DEF IntOn, NatOn, Bounded
<1>2. Cardinality(S) \in Nat /\ SumOf(f, S) \in Int
  BY <1>1, FS_CardinalityType, SumInt
<1>3. 0 * SumOf(f, S) <= 1 * SumOf(f, S) + 0 * Cardinality(S)
  BY <1>1, SumBound
<1> QED BY <1>2, <1>3

(* The sum over a set and over a subset of it. *)
LEMMA SumSplit ==
  ASSUME NEW S, IsFiniteSet(S), NEW f, IntOn(f, S), NEW R \in SUBSET S
  PROVE  SumOf(f, S) = SumOf(f, R) + SumOf(f, S \ R)
<1> DEFINE G == {T \in SUBSET R : SumOf(f, S) = SumOf(f, T) + SumOf(f, S \ T)}
<1>0. ASSUME NEW T \in SUBSET S PROVE IsFiniteSet(T) /\ IntOn(f, T) /\ SumOf(f, T) \in Int
  <2>1. IsFiniteSet(T) /\ IntOn(f, T)
    BY FS_Subset DEF IntOn
  <2> QED BY <2>1, SumInt
<1>1. {} \in G
  <2>1. S \ {} = S /\ SumOf(f, S) \in Int
    BY <1>0
  <2> QED BY <2>1, SumEmpty
<1>2. ASSUME NEW T \in SUBSET R, NEW x \in T, T \ {x} \in G PROVE T \in G
  <2> DEFINE p == SumOf(f, T \ {x})
             q == SumOf(f, S \ T)
  <2>1. S \ (T \ {x}) \in SUBSET S /\ T \in SUBSET S /\ x \in S \ (T \ {x})
        /\ (S \ (T \ {x})) \ {x} = S \ T /\ S \ T \in SUBSET S /\ T \ {x} \in SUBSET S
    OBVIOUS
  <2>2. SumOf(f, T) = f[x] + p
    BY <1>0, <2>1, SumOut
  <2>3. SumOf(f, S \ (T \ {x})) = f[x] + q
    BY <1>0, <2>1, SumOut
  <2>4. p \in Int /\ q \in Int /\ f[x] \in Int
    BY <1>0, <2>1 DEF IntOn
  <2>5. SumOf(f, S) = p + (f[x] + q)
    BY <1>2, <2>3
  <2>6. SumOf(f, S) = SumOf(f, T) + q
    <3> HIDE DEF p, q
    <3>1. p + (f[x] + q) = (f[x] + p) + q
      BY <2>4
    <3> QED BY <2>2, <2>5, <3>1, Zenon
  <2> QED BY <2>6
<1>3. \A T \in SUBSET R : T \in G
  <2>1. IsFiniteSet(R)
    BY FS_Subset
  <2> HIDE DEF G
  <2> QED BY <1>1, <1>2, <2>1, StepInduction, Zenon
<1> QED BY <1>3

----------------------------------------------------------------------------
(* One pick of the scheduler.                                              *)

(* Twice the most a set of k paths may have, of n in all. *)
Room(k) == Unit * (k * (Cardinality(Paths) - k))

(* Balances b add up to zero and no set of paths has too much of them. *)
Balanced(b) ==
  /\ IntOn(b, Paths) /\ SumOf(b, Paths) = 0
  /\ \A S \in SUBSET Paths : 2 * SumOf(b, S) <= Room(Cardinality(S))

(* The candidates of s earn Unit in all. *)
Split(s) ==
  /\ DOMAIN s \in SUBSET Paths
  /\ NatOn(s, DOMAIN s)
  /\ SumOf(s, DOMAIN s) = Unit

Share(s, p) == IF p \in DOMAIN s THEN s[p] ELSE 0

(* The balances after w, with the most of the candidates of s, has paid. *)
Paid(b, s, w, c) ==
  /\ w \in DOMAIN s
  /\ \A q \in DOMAIN s : b[q] + s[q] <= b[w] + s[w]
  /\ \A p \in Paths : c[p] = b[p] + (Share(s, p) + (IF p = w THEN -Unit ELSE 0))

(* All of them earn just a credit. *)
LEMMA EarnsOne ==
  ASSUME NEW s, Split(s)
  PROVE  SumOf([p \in Paths |-> Share(s, p)], Paths) = Unit
<1> DEFINE e == [p \in Paths |-> Share(s, p)]
           D == DOMAIN s
<1>1. IsFiniteSet(Paths) /\ Unit \in Nat
  BY WeightedAssumption
<1>2. D \in SUBSET Paths /\ NatOn(s, D) /\ SumOf(s, D) = Unit
  BY DEF Split
<1>3. NatOn(e, Paths)
  BY <1>2 DEF NatOn, Share
<1>4. \A p \in D : s[p] = e[p]
  BY <1>2 DEF Share
<1>5. \A p \in Paths \ D : e[p] = 0
  BY DEF Share
<1> HIDE DEF e, D
<1>6. ASSUME NEW R \in SUBSET Paths
      PROVE  IsFiniteSet(R) /\ IntOn(e, R)
  BY <1>1, <1>3, FS_Subset DEF NatOn, IntOn
<1>7. SumOf(e, D) = Unit
  <2>1. IntOn(s, D) /\ IsFiniteSet(D)
    BY <1>2, <1>6 DEF NatOn, IntOn
  <2> QED BY <1>2, <1>4, <2>1, SumSame
<1>8. SumOf(e, Paths \ D) = 0
  BY <1>5, <1>6, SumZero
<1>9. SumOf(e, Paths) = SumOf(e, D) + SumOf(e, Paths \ D)
  BY <1>2, <1>6, SumSplit
<1>10. SumOf(e, Paths) = Unit
  BY <1>1, <1>7, <1>8, <1>9
<1> QED BY <1>10 DEF e

(* What a set of paths earns is at most a credit. *)
LEMMA EarnsAtMost ==
  ASSUME NEW s, Split(s), NEW S \in SUBSET Paths
  PROVE  SumOf([p \in Paths |-> Share(s, p)], S) \in 0..Unit
<1> DEFINE e == [p \in Paths |-> Share(s, p)]
<1>1. IsFiniteSet(Paths) /\ Unit \in Nat
  BY WeightedAssumption
<1>2. NatOn(e, Paths)
  BY DEF NatOn, Share, Split
<1>3. SumOf(e, Paths) = Unit
  BY EarnsOne
<1> HIDE DEF e
<1>4. ASSUME NEW R \in SUBSET Paths PROVE SumOf(e, R) \in Nat
  <2>1. IsFiniteSet(R) /\ NatOn(e, R)
    BY <1>1, <1>2, FS_Subset DEF NatOn
  <2> QED BY <2>1, SumNat
<1>5. SumOf(e, Paths) = SumOf(e, S) + SumOf(e, Paths \ S)
  <2>1. IntOn(e, Paths)
    BY <1>2 DEF IntOn, NatOn
  <2> QED BY <1>1, <2>1, SumSplit
<1>6. SumOf(e, S) \in Nat /\ SumOf(e, Paths \ S) \in Nat
  BY <1>4
<1>7. SumOf(e, S) \in 0..Unit
  BY <1>1, <1>3, <1>5, <1>6
<1> QED BY <1>7 DEF e

(* What a set of paths has after a pick. *)
LEMMA SumPaid ==
  ASSUME NEW b, IntOn(b, Paths), NEW s, Split(s), NEW w, NEW c, Paid(b, s, w, c)
  PROVE  /\ IntOn(c, Paths)
         /\ \A S \in SUBSET Paths :
              SumOf(c, S) = SumOf(b, S) + (SumOf([p \in Paths |-> Share(s, p)], S)
                                         + (IF w \in S THEN -Unit ELSE 0))
<1> DEFINE e == [p \in Paths |-> Share(s, p)]
           m == [p \in Paths |-> IF p = w THEN -Unit ELSE 0]
           d == [p \in Paths |-> e[p] + m[p]]
<1>1. IsFiniteSet(Paths) /\ Unit \in Nat /\ w \in Paths
  BY WeightedAssumption DEF Paid, Split
<1>2. IntOn(e, Paths) /\ IntOn(m, Paths)
  BY <1>1 DEF IntOn, NatOn, Share, Split
<1>3. IntOn(d, Paths) /\ PointwiseSum(d, e, m, Paths)
  <2>1. PointwiseSum(d, e, m, Paths)
    BY DEF PointwiseSum
  <2> HIDE DEF e, m, d
  <2> QED BY <1>2, <2>1 DEF IntOn, PointwiseSum
<1>4. PointwiseSum(c, b, d, Paths)
  BY DEF PointwiseSum, Paid
<1>5. \A p \in Paths : m[p] = IF p = w THEN -Unit ELSE 0
  OBVIOUS
<1> HIDE DEF e, m, d
<1>6. IntOn(c, Paths)
  BY <1>3, <1>4 DEF IntOn, PointwiseSum
<1>7. ASSUME NEW S \in SUBSET Paths
      PROVE  SumOf(c, S) = SumOf(b, S) + (SumOf(e, S) + (IF w \in S THEN -Unit ELSE 0))
  <2>1. /\ IsFiniteSet(S) /\ IntOn(b, S) /\ IntOn(e, S) /\ IntOn(m, S) /\ IntOn(d, S)
        /\ PointwiseSum(d, e, m, S) /\ PointwiseSum(c, b, d, S)
    BY <1>1, <1>2, <1>3, <1>4, FS_Subset DEF IntOn, PointwiseSum
  <2>2. SumOf(d, S) = SumOf(e, S) + SumOf(m, S)
    BY <2>1, SumPlus
  <2>3. SumOf(c, S) = SumOf(b, S) + SumOf(d, S)
    BY <2>1, SumPlus
  <2>4. SumOf(m, S) = IF w \in S THEN -Unit ELSE 0
    <3>1. CASE w \in S
      <4>1. SumOf(m, S) = m[w] + SumOf(m, S \ {w})
        BY <2>1, <3>1, SumOut
      <4>2. SumOf(m, S \ {w}) = 0
        BY <1>5, <2>1, FS_Subset, SumZero
      <4>3. m[w] = -Unit
        BY <1>1, <1>5
      <4> QED BY <1>1, <3>1, <4>1, <4>2, <4>3
    <3>2. CASE w \notin S
      <4>1. \A p \in S : m[p] = 0
        BY <1>5, <3>2
      <4>2. SumOf(m, S) = 0
        BY <2>1, <4>1, SumZero
      <4> QED BY <3>2, <4>2
    <3> QED BY <3>1, <3>2
  <2> QED BY <2>2, <2>3, <2>4, Zenon
<1> QED BY <1>6, <1>7 DEF e

(* The room of neighbouring sizes. *)
LEMMA RoomStep ==
  ASSUME NEW k \in Nat
  PROVE  Room(k + 1) + Room(k - 1) + 2 * Unit = 2 * Room(k) /\ Room(k) \in Int
         /\ Room(k + 1) \in Int /\ Room(k - 1) \in Int
<1> DEFINE n == Cardinality(Paths)
<1>1. Unit \in Int /\ n \in Int
  BY WeightedAssumption, FS_CardinalityType
<1> HIDE DEF n
<1>2. (k + 1) * (n - (k + 1)) + (k - 1) * (n - (k - 1)) + 2 = 2 * (k * (n - k))
  BY <1>1
<1> DEFINE x == (k + 1) * (n - (k + 1))
           y == (k - 1) * (n - (k - 1))
           z == k * (n - k)
<1>3. x \in Int /\ y \in Int /\ z \in Int /\ x + y + 2 = 2 * z
  BY <1>1, <1>2
<1>4. Room(k + 1) = Unit * x /\ Room(k - 1) = Unit * y /\ Room(k) = Unit * z
  BY DEF Room, n
<1> HIDE DEF x, y, z
<1>5. Unit * (x + y + 2) = Unit * x + Unit * y + 2 * Unit
  BY <1>1, <1>3
<1>6. Unit * (2 * z) = 2 * (Unit * z)
  BY <1>1, <1>3
<1>7. Unit * x \in Int /\ Unit * y \in Int /\ Unit * z \in Int
  BY <1>1, <1>3
<1> QED BY <1>3, <1>4, <1>5, <1>6, <1>7, Zenon

(* A pick leaves no set of paths with more than its room. *)
LEMMA PaidBalanced ==
  ASSUME NEW b, Balanced(b), NEW s, Split(s), NEW w, NEW c, Paid(b, s, w, c)
  PROVE  Balanced(c)
<1> DEFINE e == [p \in Paths |-> Share(s, p)]
           G == {S \in SUBSET Paths : 2 * SumOf(c, S) <= Room(Cardinality(S))}
<1>1. IsFiniteSet(Paths) /\ Unit \in Nat /\ w \in Paths /\ w \in DOMAIN s /\ DOMAIN s \in SUBSET Paths
  BY WeightedAssumption DEF Paid, Split
<1>2. /\ IntOn(b, Paths) /\ SumOf(b, Paths) = 0
      /\ \A S \in SUBSET Paths : 2 * SumOf(b, S) <= Room(Cardinality(S))
  BY DEF Balanced
<1>3. /\ IntOn(c, Paths)
      /\ \A S \in SUBSET Paths : SumOf(c, S) = SumOf(b, S) + (SumOf(e, S) + (IF w \in S THEN -Unit ELSE 0))
  BY <1>2, SumPaid
<1>4. \A S \in SUBSET Paths : SumOf(e, S) \in 0..Unit
  BY EarnsAtMost
<1>5. SumOf(e, Paths) = Unit
  BY EarnsOne
<1>6. \A p \in Paths \ DOMAIN s : e[p] = 0
  BY DEF Share
<1>7. \A q \in DOMAIN s : c[q] <= c[w] + Unit /\ c[q] \in Int
  <2> TAKE q \in DOMAIN s
  <2>1. /\ b[q] \in Int /\ b[w] \in Int /\ s[q] \in Int /\ s[w] \in Int
        /\ b[q] + s[q] <= b[w] + s[w]
    BY <1>1, <1>2 DEF Split, NatOn, IntOn, Paid
  <2>2. c[q] = b[q] + (s[q] + (IF q = w THEN -Unit ELSE 0)) /\ c[w] = b[w] + (s[w] + -Unit)
    BY <1>1 DEF Paid, Share
  <2> QED BY <1>1, <2>1, <2>2
<1> HIDE DEF e
<1>8. ASSUME NEW S \in SUBSET Paths
      PROVE  /\ IsFiniteSet(S) /\ Cardinality(S) \in Nat /\ IntOn(c, S)
             /\ SumOf(b, S) \in Int /\ SumOf(c, S) \in Int
             /\ Room(Cardinality(S)) \in Int
  <2>1. IsFiniteSet(S) /\ IntOn(b, S) /\ IntOn(c, S) /\ Cardinality(S) \in Nat
    BY <1>1, <1>2, <1>3, FS_Subset, FS_CardinalityType DEF IntOn
  <2> QED BY <2>1, SumInt, RoomStep
<1>9. ASSUME NEW S \in SUBSET Paths, w \in S PROVE S \in G
  <2>1. SumOf(c, S) = SumOf(b, S) + (SumOf(e, S) + -Unit)
    BY <1>3, <1>9
  <2>2. SumOf(b, S) \in Int /\ SumOf(e, S) \in 0..Unit /\ 2 * SumOf(b, S) <= Room(Cardinality(S))
    BY <1>2, <1>4, <1>8
  <2>3. Room(Cardinality(S)) \in Int
    BY <1>8
  <2>4. 2 * SumOf(c, S) <= Room(Cardinality(S))
    BY <1>1, <2>1, <2>2, <2>3
  <2> QED BY <2>4
<1>10. ASSUME NEW S \in SUBSET Paths, S \cap DOMAIN s = {} PROVE S \in G
  <2>1. SumOf(e, S) = 0
    BY <1>6, <1>8, <1>10, SumZero
  <2>2. w \notin S
    BY <1>1, <1>10
  <2>3. SumOf(c, S) = SumOf(b, S) + (SumOf(e, S) + 0)
    BY <1>3, <2>2
  <2>4. SumOf(c, S) = SumOf(b, S)
    BY <1>8, <2>1, <2>3
  <2> QED BY <1>2, <2>4
<1>11. ASSUME NEW S \in SUBSET Paths, \A T \in SUBSET S : T # S => T \in G,
              w \notin S, NEW i \in S, i \in DOMAIN s
       PROVE  S \in G
  <2> DEFINE k == Cardinality(S)
             up == S \union {w}
             less == S \ {i}
  <2>1. up \in SUBSET Paths /\ less \in SUBSET S /\ less # S /\ less \in SUBSET Paths /\ w \in up
    BY <1>1
  <2>2. k \in Nat /\ Cardinality(up) = k + 1 /\ Cardinality(less) = k - 1
    BY <1>8, <1>11, FS_AddElement, FS_RemoveElement
  <2>3. 2 * SumOf(c, up) <= Room(k + 1)
    BY <1>9, <2>1, <2>2
  <2>4. 2 * SumOf(c, less) <= Room(k - 1)
    BY <1>11, <2>1, <2>2
  <2>5. SumOf(c, S) = c[i] + SumOf(c, less)
    BY <1>8, SumOut
  <2>6. SumOf(c, up) = c[w] + SumOf(c, S)
    <3>1. up \ {w} = S
      BY <1>11
    <3> QED BY <1>8, <2>1, <3>1, SumOut
  <2>7. c[i] <= c[w] + Unit /\ c[i] \in Int /\ c[w] \in Int
    BY <1>1, <1>7, <1>11
  <2>8. /\ Room(k + 1) + Room(k - 1) + 2 * Unit = 2 * Room(k) /\ Room(k) \in Int
        /\ Room(k + 1) \in Int /\ Room(k - 1) \in Int
    BY <2>2, RoomStep
  <2>9. SumOf(c, S) \in Int /\ SumOf(c, less) \in Int /\ SumOf(c, up) \in Int
    BY <1>8, <2>1
  <2>10. 2 * SumOf(c, S) <= Room(k)
    <3> HIDE DEF k, up, less
    <3> QED BY <1>1, <2>3, <2>4, <2>5, <2>6, <2>7, <2>8, <2>9
  <2> QED BY <2>10
<1>12. \A S \in SUBSET Paths : S \in G
  <2>1. ASSUME NEW S \in SUBSET Paths, \A T \in SUBSET S : T # S => T \in G PROVE S \in G
    BY <1>9, <1>10, <1>11, <2>1
  <2> HIDE DEF G
  <2> QED BY <1>1, <2>1, FiniteInduction
<1>13. SumOf(c, Paths) = 0
  <2>1. SumOf(c, Paths) = 0 + (Unit + -Unit)
    BY <1>1, <1>2, <1>3, <1>5
  <2> QED BY <1>1, <2>1
<1> QED BY <1>3, <1>12, <1>13 DEF Balanced

----------------------------------------------------------------------------
(* What the candidates of a packet earn.                                   *)

(* Weights w of two candidates or more. *)
Weighed(w) ==
  /\ DOMAIN w \in SUBSET Paths /\ Cardinality(DOMAIN w) > 1
  /\ NatOn(w, DOMAIN w)

(* A sum of naturals is no less than one of them. *)
LEMMA SumAtLeast ==
  ASSUME NEW S, IsFiniteSet(S), NEW f, NatOn(f, S), NEW x \in S
  PROVE  f[x] <= SumOf(f, S)
<1>1. IntOn(f, S) /\ NatOn(f, S \ {x}) /\ IsFiniteSet(S \ {x}) /\ f[x] \in Nat
  BY FS_Subset DEF NatOn, IntOn
<1>2. SumOf(f, S) = f[x] + SumOf(f, S \ {x})
  BY <1>1, SumOut
<1>3. SumOf(f, S \ {x}) \in Nat
  BY <1>1, SumNat
<1> QED BY <1>1, <1>2, <1>3

(* Total is the sum over all paths. *)
LEMMA TotalIsSum == ASSUME NEW f PROVE Total(f) = SumOf(f, DOMAIN f)
BY DEF Total, SumOf, SumFunction

(* The filled weights, which are not all zero. *)
LEMMA FilledPositive ==
  ASSUME NEW w, Weighed(w)
  PROVE  /\ DOMAIN Filled(w) = DOMAIN w /\ IsFiniteSet(DOMAIN w) /\ DOMAIN w # {}
         /\ NatOn(Filled(w), DOMAIN w)
         /\ Total(Filled(w)) \in Nat \ {0}
<1> DEFINE D == DOMAIN w
           f == Filled(w)
           n == Cardinality(Known(w))
<1>1. IsFiniteSet(D) /\ NatOn(w, D) /\ D # {}
  BY WeightedAssumption, FS_Subset, FS_EmptySet DEF Weighed
<1>2. Known(w) \in SUBSET D /\ n \in Nat /\ (Known(w) # {} => n > 0)
  BY <1>1, FS_Subset, FS_CardinalityType, FS_EmptySet DEF Known
<1>3. Total(w) \in Nat
  BY <1>1, TotalIsSum, SumNat
<1>4. f = [p \in D |-> IF Known(w) = {} THEN 1
                       ELSE IF p \in Known(w) THEN w[p] * n ELSE Total(w)]
  BY DEF Filled
<1>5. DOMAIN f = D
  BY <1>4
<1> HIDE DEF D, f, n
<1>6. NatOn(f, D)
  <2> SUFFICES ASSUME NEW p \in D PROVE f[p] \in Nat
    BY DEF NatOn
  <2>1. w[p] \in Nat
    BY <1>1 DEF NatOn
  <2>2. w[p] * n \in Nat
    BY <1>2, <2>1
  <2> QED BY <1>3, <1>4, <2>2
<1>7. PICK p \in D : f[p] > 0
  <2>1. CASE Known(w) = {}
    BY <1>1, <1>4, <2>1
  <2>2. CASE Known(w) # {}
    <3>1. PICK q \in Known(w) : TRUE
      BY <2>2
    <3>2. w[q] \in Nat /\ w[q] > 0 /\ q \in D
      BY <1>1, <1>2 DEF Known, NatOn
    <3>3. w[q] * n > 0
      BY <1>2, <2>2, <3>2
    <3>4. f[q] = w[q] * n
      BY <1>4, <2>2, <3>1, <3>2
    <3> QED BY <3>2, <3>3, <3>4
  <2> QED BY <2>1, <2>2
<1>8. SumOf(f, D) \in Nat /\ f[p] <= SumOf(f, D) /\ f[p] \in Nat
  BY <1>1, <1>6, SumNat, SumAtLeast DEF NatOn
<1>9. Total(f) = SumOf(f, D)
  BY <1>5, TotalIsSum
<1>10. Total(f) \in Nat \ {0}
  BY <1>7, <1>8, <1>9
<1> QED BY <1>1, <1>5, <1>6, <1>10 DEF D, f

(* The floored shares, of which none is below the sum of the filled ones. *)
LEMMA FlooredPositive ==
  ASSUME NEW w, Weighed(w)
  PROVE  /\ DOMAIN Floored(w) = DOMAIN w
         /\ NatOn(Floored(w), DOMAIN w)
         /\ \A p \in DOMAIN w : Floored(w)[p] >= Total(Filled(w))
         /\ Total(Floored(w)) \in Nat \ {0}
<1> DEFINE D == DOMAIN w
           f == Filled(w)
           g == Floored(w)
           t == Total(f)
<1>1. /\ IsFiniteSet(D) /\ D # {} /\ NatOn(f, D) /\ t \in Nat \ {0}
  BY FilledPositive
<1>2. g = [p \in D |-> IF FloorInv * f[p] < t THEN t ELSE FloorInv * f[p]]
  BY DEF Floored
<1>3. DOMAIN g = D
  BY <1>2
<1> HIDE DEF D, f, g, t
<1>4. ASSUME NEW p \in D PROVE g[p] \in Nat /\ g[p] >= t
  <2>1. f[p] \in Nat /\ FloorInv \in Nat
    BY <1>1, WeightedAssumption DEF NatOn
  <2>2. FloorInv * f[p] \in Nat
    BY <2>1
  <2> QED BY <1>1, <1>2, <2>2
<1>5. NatOn(g, D)
  BY <1>4 DEF NatOn
<1>6. PICK p \in D : TRUE
  BY <1>1
<1>7. SumOf(g, D) \in Nat /\ g[p] <= SumOf(g, D)
  BY <1>1, <1>5, SumNat, SumAtLeast
<1>8. Total(g) = SumOf(g, D)
  BY <1>3, TotalIsSum
<1>9. Total(g) \in Nat \ {0}
  BY <1>1, <1>4, <1>7, <1>8
<1> QED BY <1>3, <1>4, <1>5, <1>9 DEF D, f, g, t

(* Division of natural numbers. *)
LEMMA Quotient ==
  ASSUME NEW a \in Nat, NEW d \in Nat \ {0}
  PROVE  /\ a \div d \in Nat /\ (a \div d) * d <= a
         /\ \A q \in Nat : q * d <= a => q <= a \div d
<1>1. a \div d \in Int /\ a = d * (a \div d) + (a % d) /\ a % d \in 0..(d - 1)
  BY ModSpec
<1> DEFINE r == a \div d
<1>2. r \in Int /\ d * r <= a /\ a < d * r + d
  BY <1>1
<1> HIDE DEF r
<1>3. r >= 0
  <2> SUFFICES ASSUME r <= -1 PROVE FALSE
    BY <1>2
  <2>1. d * r <= d * (-1)
    BY <1>2
  <2> QED BY <1>2, <2>1
<1>4. r * d = d * r /\ d * r \in Int
  BY <1>2
<1>5. ASSUME NEW q \in Nat, q * d <= a PROVE q <= r
  <2> SUFFICES ASSUME q >= r + 1 PROVE FALSE
    BY <1>2
  <2>1. q * d >= (r + 1) * d
    BY <1>2
  <2>2. (r + 1) * d = d * r + d /\ q * d \in Int
    BY <1>2
  <2> QED BY <1>2, <1>4, <1>5, <2>1, <2>2
<1> QED BY <1>2, <1>3, <1>4, <1>5 DEF r

(* The shares that Pick hands out. *)
LEMMA SharesSplit ==
  ASSUME NEW w, Weighed(w), NEW s \in Shares(w)
  PROVE  /\ DOMAIN s = DOMAIN w /\ Split(s)
         /\ \A p \in DOMAIN s : s[p] >= (Floored(w)[p] * Unit) \div Total(Floored(w))
<1> DEFINE D == DOMAIN w
           f == Floored(w)
           t == Total(f)
           down(p) == (f[p] * Unit) \div t
           up(p) == (f[p] * Unit + t - 1) \div t
<1>1. PICK U \in SUBSET D : s = [p \in D |-> IF p \in U THEN up(p) ELSE down(p)]
  BY DEF Shares
<1>2. Total(s) = Unit
  BY DEF Shares
<1>3. NatOn(f, D) /\ t \in Nat \ {0} /\ Unit \in Nat
  BY FlooredPositive, WeightedAssumption
<1>4. DOMAIN s = D
  BY <1>1
<1>5. ASSUME NEW p \in D PROVE s[p] \in Nat /\ s[p] >= down(p)
  <2> DEFINE a == f[p] * Unit
  <2>1. a \in Nat /\ a + t - 1 \in Nat
    BY <1>3 DEF NatOn
  <2>2. down(p) = a \div t /\ up(p) = (a + t - 1) \div t
    OBVIOUS
  <2>3. s[p] = up(p) \/ s[p] = down(p)
    BY <1>1
  <2> HIDE DEF a, t, up, down
  <2>4. down(p) \in Nat /\ down(p) * t <= a /\ up(p) \in Nat
    BY <1>3, <2>1, <2>2, Quotient
  <2>5. down(p) * t <= a + t - 1 /\ down(p) * t \in Int
    BY <1>3, <2>1, <2>4
  <2>6. down(p) <= up(p)
    BY <1>3, <2>1, <2>2, <2>4, <2>5, Quotient
  <2> QED BY <2>3, <2>4, <2>6
<1>6. Split(s)
  <2>1. D \in SUBSET Paths
    BY DEF Weighed
  <2>2. NatOn(s, D)
    BY <1>5 DEF NatOn
  <2>3. SumOf(s, D) = Unit
    BY <1>2, <1>4, TotalIsSum
  <2> QED BY <1>4, <2>1, <2>2, <2>3 DEF Split
<1> QED BY <1>4, <1>5, <1>6

(* The floors make the sum grow by at most a share for every path but one. *)
LEMMA FloorSum ==
  ASSUME NEW w, Weighed(w), Cardinality(Paths) <= FloorInv
  PROVE  Total(Floored(w)) <= (FloorInv + Cardinality(Paths) - 1) * Total(Filled(w))
<1> DEFINE D == DOMAIN w
           f == Filled(w)
           g == Floored(w)
           t == Total(f)
           m == Cardinality(D)
           n == Cardinality(Paths)
           F == FloorInv
<1>1. /\ IsFiniteSet(D) /\ D # {} /\ NatOn(f, D) /\ t \in Nat \ {0} /\ DOMAIN f = D
  BY FilledPositive
<1>2. g = [p \in D |-> IF F * f[p] < t THEN t ELSE F * f[p]]
  BY DEF Floored
<1>3. NatOn(g, D) /\ DOMAIN g = D
  BY FlooredPositive
<1>4. t = SumOf(f, D) /\ Total(g) = SumOf(g, D)
  BY <1>1, <1>3, TotalIsSum
<1>5. m \in Nat /\ n \in Nat /\ F \in Nat /\ m <= n /\ n <= F /\ m > 1
  BY WeightedAssumption, FS_Subset, FS_CardinalityType DEF Weighed
<1> HIDE DEF D, f, g, t, m, n, F
<1>6. IntOn(f, D) /\ IntOn(g, D)
  BY <1>1, <1>3 DEF NatOn, IntOn
<1>7. PICK p \in D : F * f[p] >= t
  <2> SUFFICES ASSUME \A p \in D : ~(F * f[p] >= t) PROVE FALSE
    OBVIOUS
  <2>1. Bounded(F, f, 0, f, t - 1, D)
    <3> SUFFICES ASSUME NEW p \in D PROVE F * f[p] <= 0 * f[p] + (t - 1)
      BY DEF Bounded
    <3>1. f[p] \in Nat
      BY <1>1 DEF NatOn
    <3>2. F * f[p] \in Int
      BY <1>5, <3>1
    <3> QED BY <1>1, <3>1, <3>2
  <2>2. F * SumOf(f, D) <= 0 * SumOf(f, D) + (t - 1) * m
    BY <1>1, <1>5, <1>6, <2>1, SumBound DEF m
  <2>3. F * t <= (t - 1) * m
    BY <1>1, <1>4, <1>5, <2>2
  <2>4. (t - 1) * m <= (t - 1) * F
    BY <1>1, <1>5
  <2>5. (t - 1) * F = F * t - F
    BY <1>1, <1>5
  <2>6. F * t \in Int /\ (t - 1) * m \in Int
    BY <1>1, <1>5
  <2> QED BY <1>5, <2>3, <2>4, <2>5, <2>6
<1> DEFINE R == D \ {p}
           x == SumOf(f, R)
           y == SumOf(g, R)
<1>8. /\ IsFiniteSet(R) /\ IntOn(f, R) /\ IntOn(g, R) /\ Cardinality(R) = m - 1
      /\ f[p] \in Nat /\ x \in Int /\ y \in Int
  <2>1. IsFiniteSet(R) /\ IntOn(f, R) /\ IntOn(g, R) /\ f[p] \in Nat
    BY <1>1, <1>6, FS_Subset DEF IntOn, NatOn
  <2>2. Cardinality(R) = m - 1
    BY <1>1, FS_RemoveElement DEF m
  <2> QED BY <2>1, <2>2, SumInt
<1>9. t = f[p] + x /\ Total(g) = F * f[p] + y
  <2>1. SumOf(f, D) = f[p] + x /\ SumOf(g, D) = g[p] + y
    BY <1>1, <1>6, SumOut
  <2>2. F * f[p] \in Int
    BY <1>5, <1>8
  <2>3. g[p] = F * f[p]
    BY <1>1, <1>2, <1>7, <2>2
  <2> QED BY <1>4, <2>1, <2>3
<1>10. y <= F * x + t * (m - 1)
  <2>1. Bounded(1, g, F, f, t, R)
    <3> SUFFICES ASSUME NEW q \in R PROVE 1 * g[q] <= F * f[q] + t
      BY DEF Bounded
    <3>1. f[q] \in Nat /\ q \in D
      BY <1>1 DEF NatOn
    <3>2. F * f[q] \in Nat
      BY <1>5, <3>1
    <3>3. g[q] = t \/ g[q] = F * f[q]
      BY <1>2, <3>1, Zenon
    <3> QED BY <1>1, <3>2, <3>3
  <2>2. 1 * y <= F * x + t * Cardinality(R)
    BY <1>1, <1>5, <1>8, <2>1, SumBound
  <2> QED BY <1>8, <2>2
<1> HIDE DEF R, x, y
<1>11. F * f[p] + F * x = F * t
  <2>1. F * (f[p] + x) = F * f[p] + F * x
    BY <1>5, <1>8
  <2> QED BY <1>9, <2>1
<1>12. t * (m - 1) <= t * (n - 1)
  BY <1>1, <1>5
<1>13. (F + n - 1) * t = F * t + t * (n - 1)
  BY <1>1, <1>5
<1>14. /\ F * f[p] \in Int /\ F * x \in Int /\ F * t \in Int
       /\ t * (m - 1) \in Int /\ t * (n - 1) \in Int
  BY <1>1, <1>5, <1>8
<1>15. F * f[p] + y <= F * t + t * (n - 1)
  BY <1>8, <1>10, <1>11, <1>12, <1>14
<1>16. Total(g) <= (F + n - 1) * t
  BY <1>9, <1>13, <1>15
<1> QED BY <1>16 DEF f, g, t, n, F

(* So that every candidate earns MinShare. *)
LEMMA LeastShare ==
  ASSUME NEW w, Weighed(w), NEW s \in Shares(w), Cardinality(Paths) <= FloorInv, NEW p \in DOMAIN s
  PROVE  MinShare <= s[p]
<1> DEFINE g == Floored(w)
           t == Total(Filled(w))
           T == Total(g)
           K == FloorInv + Cardinality(Paths) - 1
           q == Unit \div K
<1>1. p \in DOMAIN w /\ s[p] >= (g[p] * Unit) \div T /\ s[p] \in Nat
  BY SharesSplit DEF Split, NatOn
<1>2. g[p] \in Nat /\ g[p] >= t /\ T \in Nat \ {0}
  BY <1>1, FlooredPositive DEF NatOn
<1>3. t \in Nat
  BY FilledPositive
<1>4. T <= K * t
  BY FloorSum
<1>5. K \in Nat \ {0} /\ Unit \in Nat
  <2>1. Cardinality(DOMAIN w) <= Cardinality(Paths) /\ Cardinality(DOMAIN w) > 1
        /\ Cardinality(Paths) \in Nat /\ Cardinality(DOMAIN w) \in Nat
    BY WeightedAssumption, FS_Subset, FS_CardinalityType DEF Weighed
  <2> QED BY <2>1, WeightedAssumption
<1>6. MinShare = q
  BY DEF MinShare
<1> HIDE DEF g, t, T, K
<1>7. q \in Nat /\ q * K <= Unit
  BY <1>5, Quotient
<1> HIDE DEF q
<1>8. q * T <= q * (K * t)
  BY <1>2, <1>3, <1>4, <1>5, <1>7
<1>9. q * (K * t) = (q * K) * t
  BY <1>3, <1>5, <1>7
<1>10. (q * K) * t <= Unit * t
  BY <1>3, <1>5, <1>7
<1>11. Unit * t <= Unit * g[p] /\ Unit * g[p] = g[p] * Unit
  BY <1>2, <1>3, <1>5
<1>12. /\ q * T \in Int /\ (q * K) * t \in Int /\ Unit * t \in Int /\ g[p] * Unit \in Nat
  BY <1>2, <1>3, <1>5, <1>7
<1>13. q * T <= g[p] * Unit
  BY <1>8, <1>9, <1>10, <1>11, <1>12
<1>14. q <= (g[p] * Unit) \div T /\ (g[p] * Unit) \div T \in Nat
  BY <1>2, <1>7, <1>12, <1>13, Quotient
<1> QED BY <1>1, <1>6, <1>7, <1>14

(* Weights of two candidates or more give what Splits holds. *)
LEMMA SplitsAreShares ==
  ASSUME NEW s \in Splits
  PROVE  \E w : Weighed(w) /\ s \in Shares(w)
<1>1. PICK ids \in SUBSET Paths :
        Cardinality(ids) > 1 /\ \E w \in [ids -> Weights] : s \in Shares(w)
  BY DEF Splits
<1>2. PICK w \in [ids -> Weights] : s \in Shares(w)
  BY <1>1
<1>3. DOMAIN w = ids /\ \A p \in ids : w[p] \in Weights
  OBVIOUS
<1>4. NatOn(w, DOMAIN w)
  <2>1. \A v \in Weights : v \in Nat
    BY WeightedAssumption
  <2> QED BY <1>3, <2>1, Zenon DEF NatOn
<1>5. Weighed(w)
  BY <1>1, <1>3, <1>4, Zenon DEF Weighed
<1> QED BY <1>2, <1>5

----------------------------------------------------------------------------
(* The credits of the scheduler.                                           *)

(* The balance of every path, zero for one that the map does not know. *)
Balance(c) == [p \in Paths |-> Credit(c, p)]

CreditsOK(c) ==
  /\ DOMAIN c \in SUBSET Paths /\ IntOn(c, DOMAIN c)
  /\ Balanced(Balance(c))

(* An empty map is balanced. *)
LEMMA EmptyOK == CreditsOK([p \in {} |-> 0])
<1> DEFINE c == [p \in {} |-> 0]
           b == Balance(c)
           n == Cardinality(Paths)
<1>1. \A p \in Paths : b[p] = 0
  BY DEF Balance, Credit
<1>2. IsFiniteSet(Paths) /\ n \in Nat /\ Unit \in Nat
  BY WeightedAssumption, FS_CardinalityType
<1>3. DOMAIN c = {}
  OBVIOUS
<1> HIDE DEF c, b, n
<1>4. ASSUME NEW S \in SUBSET Paths PROVE SumOf(b, S) = 0 /\ 2 * SumOf(b, S) <= Room(Cardinality(S))
  <2>1. IsFiniteSet(S) /\ Cardinality(S) \in Nat /\ Cardinality(S) <= n
    BY <1>2, FS_Subset, FS_CardinalityType DEF n
  <2>2. SumOf(b, S) = 0
    BY <1>1, <2>1, SumZero
  <2>3. Cardinality(S) * (n - Cardinality(S)) \in Nat
    <3> DEFINE k == Cardinality(S)
    <3>1. k \in Nat /\ n - k \in Nat
      BY <1>2, <2>1
    <3> HIDE DEF k
    <3>2. k * (n - k) \in Nat
      BY <3>1
    <3> QED BY <3>2 DEF k
  <2>4. Room(Cardinality(S)) \in Nat
    BY <1>2, <2>3 DEF Room, n
  <2> QED BY <2>2, <2>4
<1>5. IntOn(b, Paths) /\ IntOn(c, DOMAIN c)
  BY <1>1, <1>3 DEF IntOn
<1>6. Balanced(b)
  BY <1>4, <1>5 DEF Balanced
<1>7. CreditsOK(c)
  BY <1>3, <1>5, <1>6 DEF CreditsOK, b
<1> QED BY <1>7 DEF c

(* The credits the loop starts from. *)
LEMMA KeptOK == ASSUME CreditsOK(credits), NEW ids PROVE CreditsOK(Kept(ids))
BY EmptyOK DEF Kept

(* w earned the most of the candidates of s, and has c left. *)
Wins(k, s, w, c) ==
  /\ w \in DOMAIN s
  /\ \A q \in DOMAIN s : Earned(k, s)[q] <= Earned(k, s)[w]
  /\ c = [Earned(k, s) EXCEPT ![w] = @ - Unit]

(* A winner pays. *)
LEMMA WinnerPays ==
  ASSUME NEW k, CreditsOK(k), NEW s, Split(s), NEW w, NEW c, Wins(k, s, w, c)
  PROVE  Paid(Balance(k), s, w, Balance(c)) /\ CreditsOK(c)
<1> DEFINE e == Earned(k, s)
<1>1. /\ DOMAIN k \in SUBSET Paths /\ \A p \in DOMAIN k : k[p] \in Int
      /\ DOMAIN s \in SUBSET Paths /\ \A p \in DOMAIN s : s[p] \in Nat
      /\ Unit \in Nat
  BY WeightedAssumption DEF CreditsOK, Split, NatOn, IntOn
<1>2. /\ DOMAIN e = DOMAIN k \union DOMAIN s
      /\ \A p \in DOMAIN e : e[p] = Credit(k, p) + Share(s, p)
  BY DEF Earned, Share
<1>3. /\ DOMAIN c = DOMAIN k \union DOMAIN s
      /\ \A p \in DOMAIN e : c[p] = IF p = w THEN e[w] - Unit ELSE e[p]
  BY <1>2 DEF Wins
<1> HIDE DEF e
<1>4. \A p \in Paths : Credit(k, p) \in Int /\ Share(s, p) \in Nat
  BY <1>1 DEF Credit, Share
<1>5. ASSUME NEW p \in Paths
      PROVE  /\ Credit(c, p) = Credit(k, p) + (Share(s, p) + (IF p = w THEN -Unit ELSE 0))
             /\ Credit(c, p) \in Int
  <2>1. CASE p \in DOMAIN e
    <3>1. c[p] = IF p = w THEN e[p] - Unit ELSE e[p]
      BY <1>3, <2>1
    <3>2. e[p] = Credit(k, p) + Share(s, p)
      BY <1>2, <2>1
    <3>3. Credit(c, p) = c[p]
      BY <1>2, <1>3, <2>1 DEF Credit
    <3> QED BY <1>1, <1>4, <3>1, <3>2, <3>3
  <2>2. CASE p \notin DOMAIN e
    <3>1. Credit(c, p) = 0 /\ Credit(k, p) = 0 /\ Share(s, p) = 0 /\ p # w
      BY <1>2, <1>3, <2>2 DEF Credit, Share, Wins
    <3> QED BY <3>1
  <2> QED BY <2>1, <2>2
<1>6. Paid(Balance(k), s, w, Balance(c))
  <2>1. \A p \in Paths : Balance(c)[p] = Balance(k)[p] + (Share(s, p) + (IF p = w THEN -Unit ELSE 0))
    BY <1>5, Zenon DEF Balance
  <2>2. \A q \in DOMAIN s : Balance(k)[q] + s[q] <= Balance(k)[w] + s[w]
    <3> TAKE q \in DOMAIN s
    <3>1. e[q] <= e[w] /\ q \in Paths /\ w \in Paths
      BY <1>1 DEF e, Wins
    <3>2. e[q] = Credit(k, q) + s[q] /\ e[w] = Credit(k, w) + s[w]
      BY <1>2 DEF Share, Wins
    <3> QED BY <3>1, <3>2 DEF Balance
  <2> QED BY <2>1, <2>2, Zenon DEF Paid, Wins
<1>7. Balanced(Balance(c))
  BY <1>6, PaidBalanced DEF CreditsOK
<1>8. DOMAIN c \in SUBSET Paths /\ IntOn(c, DOMAIN c)
  <2>1. DOMAIN c \in SUBSET Paths
    BY <1>1, <1>3
  <2>2. \A p \in DOMAIN c : c[p] = Credit(c, p)
    BY DEF Credit
  <2>3. \A p \in DOMAIN c : c[p] \in Int
    BY <1>5, <2>1, <2>2
  <2> QED BY <2>1, <2>3 DEF IntOn
<1> QED BY <1>6, <1>7, <1>8 DEF CreditsOK

(* What Pick does with two candidates or more. *)
LEMMA PicksPaid ==
  ASSUME CreditsOK(credits), NEW ids, ~(Cardinality(ids) < 2), NEW pick \in Picks(ids)
  PROVE  \E s \in Splits :
           /\ DOMAIN s = ids /\ pick.best \in ids
           /\ Paid(Balance(Kept(ids)), s, pick.best, Balance(pick.credits))
           /\ CreditsOK(pick.credits)
<1> DEFINE k == Kept(ids)
           paid(s, p) == [Earned(k, s) EXCEPT ![p] = @ - Unit]
<1>1. PICK s \in Splits :
        /\ DOMAIN s = ids
        /\ \E p \in Winners(s) : pick = [best |-> p, credits |-> paid(s, p)]
  BY DEF Picks
<1>2. PICK w \in Winners(s) : pick = [best |-> w, credits |-> paid(s, w)]
  BY <1>1
<1>3. /\ w \in DOMAIN s /\ \A q \in DOMAIN s : Earned(k, s)[q] <= Earned(k, s)[w]
  BY <1>1, <1>2 DEF Winners
<1>4. pick.best = w /\ pick.credits = [Earned(k, s) EXCEPT ![w] = @ - Unit]
  BY <1>2
<1>5. CreditsOK(k) /\ Split(s)
  BY KeptOK, SplitsAreShares, SharesSplit
<1> HIDE DEF k
<1>6. Paid(Balance(k), s, w, Balance(pick.credits)) /\ CreditsOK(pick.credits)
  <2>1. Wins(k, s, w, pick.credits)
    BY <1>3, <1>4 DEF Wins
  <2> QED BY <1>5, <2>1, WinnerPays
<1> QED BY <1>1, <1>3, <1>4, <1>6 DEF k

(* A candidate is picked. *)
LEMMA PicksBest == ASSUME NEW ids, NEW pick \in Picks(ids) PROVE pick.best \in ids
<1>1. CASE Cardinality(ids) < 2
  BY <1>1 DEF Picks
<1>2. CASE ~(Cardinality(ids) < 2)
  <2>1. PICK s \in Splits : DOMAIN s = ids /\ pick.best \in Winners(s)
    BY <1>2 DEF Picks
  <2> QED BY <2>1 DEF Winners
<1> QED BY <1>1, <1>2

(* No pick unbalances the credits. *)
LEMMA PicksOK ==
  ASSUME CreditsOK(credits), NEW ids, NEW pick \in Picks(ids)
  PROVE  CreditsOK(pick.credits)
<1>1. CASE Cardinality(ids) < 2
  <2>1. \E p \in ids : pick = [best |-> p, credits |-> credits]
    BY <1>1 DEF Picks
  <2> QED BY <2>1
<1>2. CASE ~(Cardinality(ids) < 2)
  BY <1>2, PicksPaid
<1> QED BY <1>1, <1>2

(* The bounds on one balance. *)
LEMMA BalanceBounds ==
  ASSUME NEW c, CreditsOK(c), NEW p \in Paths
  PROVE  /\ Balance(c)[p] \in Int /\ Cardinality(Paths) \in Nat
         /\ 2 * Balance(c)[p] <= Unit * (Cardinality(Paths) - 1)
         /\ -(2 * Balance(c)[p]) <= Unit * (Cardinality(Paths) - 1)
<1> DEFINE b == Balance(c)
           n == Cardinality(Paths)
           R == Paths \ {p}
<1>1. IsFiniteSet(Paths) /\ n \in Nat /\ Unit \in Nat
  BY WeightedAssumption, FS_CardinalityType
<1>2. /\ IntOn(b, Paths) /\ SumOf(b, Paths) = 0
      /\ \A S \in SUBSET Paths : 2 * SumOf(b, S) <= Room(Cardinality(S))
  BY DEF CreditsOK, Balanced
<1>3. Cardinality({p}) = 1 /\ IsFiniteSet({p}) /\ Cardinality(R) = n - 1
  <2>1. Cardinality({p}) = 1 /\ IsFiniteSet({p})
    BY FS_Singleton, Zenon
  <2>2. Cardinality(R) = n - 1
    BY <1>1, FS_RemoveElement
  <2> QED BY <2>1, <2>2
<1> HIDE DEF b
<1>4. b[p] \in Int /\ SumOf(b, Paths) = b[p] + SumOf(b, R)
  BY <1>1, <1>2, SumOut DEF IntOn
<1>5. SumOf(b, {p}) = b[p] + 0
  <2>1. {p} \ {p} = {} /\ IsFiniteSet({p}) /\ IntOn(b, {p}) /\ p \in {p}
    BY <1>3, <1>4 DEF IntOn
  <2> QED BY <2>1, SumOut, SumEmpty
<1>6. SumOf(b, R) \in Int
  <2>1. IsFiniteSet(R) /\ IntOn(b, R)
    BY <1>1, <1>2, FS_Subset DEF IntOn
  <2> QED BY <2>1, SumInt
<1>7. 2 * SumOf(b, {p}) <= Room(1) /\ 2 * SumOf(b, R) <= Room(n - 1)
  BY <1>2, <1>3
<1>8. Room(1) = Unit * (n - 1) /\ Room(n - 1) = Unit * (n - 1)
  <2>1. 1 * (n - 1) = n - 1 /\ (n - 1) * (n - (n - 1)) = n - 1
    <3> HIDE DEF n
    <3> QED BY <1>1
  <2> QED BY <2>1 DEF Room
<1>9. Unit * (n - 1) \in Int
  <2> HIDE DEF n
  <2> QED BY <1>1
<1> DEFINE M == Unit * (n - 1)
<1> HIDE DEF M, n, R
<1>10. 2 * b[p] <= M /\ -(2 * b[p]) <= M
  BY <1>2, <1>4, <1>5, <1>6, <1>7, <1>8, <1>9 DEF M
<1> QED BY <1>1, <1>4, <1>10 DEF M, n, b

(* So the property follows. *)
LEMMA OKIsBalanced == CreditsOK(credits) => CreditsBalanced
<1> SUFFICES ASSUME CreditsOK(credits) PROVE CreditsBalanced
  OBVIOUS
<1> DEFINE D == DOMAIN credits
           b == Balance(credits)
           M == Unit * (Cardinality(Paths) - 1)
<1>1. IsFiniteSet(Paths) /\ D \in SUBSET Paths /\ IntOn(credits, D) /\ Unit \in Nat
  BY WeightedAssumption DEF CreditsOK
<1>2. \A p \in D : credits[p] = b[p]
  BY <1>1 DEF Balance, Credit
<1>3. \A p \in Paths \ D : b[p] = 0
  BY DEF Balance, Credit
<1>4. IntOn(b, Paths) /\ SumOf(b, Paths) = 0
  BY DEF CreditsOK, Balanced
<1>5. Total(credits) = 0
  <2> HIDE DEF b
  <2>1. IsFiniteSet(D) /\ IsFiniteSet(Paths \ D)
    BY <1>1, FS_Subset
  <2>2. SumOf(credits, D) = SumOf(b, D)
    BY <1>1, <1>2, <2>1, SumSame
  <2>3. SumOf(b, Paths \ D) = 0
    BY <1>3, <2>1, SumZero
  <2>4. SumOf(b, Paths) = SumOf(b, D) + SumOf(b, Paths \ D)
    BY <1>1, <1>4, SumSplit
  <2>5. SumOf(b, D) \in Int
    BY <1>1, <1>4, <2>1, SumInt DEF IntOn
  <2> QED BY <1>4, <2>2, <2>3, <2>4, <2>5, TotalIsSum
<1>6. ASSUME NEW p \in D PROVE credits[p] \in -MaxCredit..MaxCredit
  <2>1. /\ b[p] \in Int /\ Cardinality(Paths) \in Nat
        /\ 2 * b[p] <= M /\ -(2 * b[p]) <= M /\ b[p] = credits[p]
    BY <1>1, <1>2, BalanceBounds
  <2>2. M \in Int
    BY <1>1, <2>1
  <2>3. MaxCredit = M \div 2
    BY DEF MaxCredit
  <2> HIDE DEF b, M
  <2> QED BY <2>1, <2>2, <2>3
<1> QED BY <1>5, <1>6 DEF CreditsBalanced

(* A sender looks at paths. *)
LEMMA LooksArePaths == SendablePaths \subseteq SUBSET Paths /\ UsablePaths \subseteq SUBSET Paths
BY DEF SendablePaths, UsablePaths

(* The steps that move credits pick a path. *)
LEMMA NextPicks ==
  Next => \/ UNCHANGED <<credits, waited>>
          \/ \E ids \in SUBSET Paths : \E pick \in Picks(ids) : Pick(ids, pick)
<1> SUFFICES ASSUME Next
             PROVE  \/ UNCHANGED <<credits, waited>>
                    \/ \E ids \in SUBSET Paths : \E pick \in Picks(ids) : Pick(ids, pick)
  OBVIOUS
<1>1. ASSUME NEW t \in Senders, Send(t)
      PROVE  \/ UNCHANGED <<credits, waited>>
             \/ \E ids \in SUBSET Paths : \E pick \in Picks(ids) : Pick(ids, pick)
  <2>1. PICK ids \in SUBSET Paths : BestPaths(t, ids) \/ Stripe(t, ids)
    BY <1>1, LooksArePaths DEF Send
  <2>2. CASE BestPaths(t, ids)
    BY <2>2 DEF BestPaths
  <2>3. CASE Stripe(t, ids)
    BY <2>3 DEF Stripe
  <2> QED BY <2>1, <2>2, <2>3
<1>2. ASSUME NEW t \in Senders, SendDataOn(t) \/ ServerSendData(t)
      PROVE  UNCHANGED <<credits, waited>>
  BY <1>2 DEF SendDataOn, ServerSendData, Written
<1>3. ASSUME ClientEmitParity \/ ServerEmitParity
      PROVE  \E ids \in SUBSET Paths : \E pick \in Picks(ids) : Pick(ids, pick)
  BY <1>3, LooksArePaths DEF ClientEmitParity, ServerEmitParity, Parity, AlivePaths
<1> QED BY <1>1, <1>2, <1>3 DEF Next

(* The inductive invariant of the scheduler. *)
CreditInv == CreditsOK(credits)

(* No step unbalances the credits. *)
LEMMA NextCreditInv == CreditInv /\ [Next]_vars => CreditInv'
<1> SUFFICES ASSUME CreditsOK(credits), [Next]_vars PROVE CreditsOK(credits')
  BY DEF CreditInv
<1>1. CASE UNCHANGED credits
  BY <1>1
<1>2. CASE \E ids \in SUBSET Paths : \E pick \in Picks(ids) : Pick(ids, pick)
  BY <1>2, PicksOK DEF Pick
<1> QED BY <1>1, <1>2, NextPicks DEF vars

(* Every reachable map of credits is balanced. *)
LEMMA CreditsStayOK == Spec => []CreditInv
<1>1. Init => CreditInv
  BY EmptyOK DEF Init, SchedInit, CreditInv
<1> QED BY <1>1, NextCreditInv, PTL DEF Spec

(* CreditsBalanced: whichever candidates and weights the packets meet,     *)
(* Pick keeps the sum of the credits at zero and every balance within half *)
(* a credit per other path.                                                *)
THEOREM CreditsAreBalanced == Spec => []CreditsBalanced
<1>1. CreditInv => CreditsBalanced
  BY OKIsBalanced DEF CreditInv
<1> QED BY <1>1, CreditsStayOK, PTL

----------------------------------------------------------------------------
(* How long a candidate waits.                                             *)

(* Few enough paths for the map never to be cleared while two of them are  *)
(* candidates and for the floor to be below their mean share, and units    *)
(* fine enough to express the least share.                                 *)
FewPaths ==
  /\ Cardinality(Paths) <= 4 /\ Cardinality(Paths) <= FloorInv
  /\ FloorInv + Cardinality(Paths) - 1 <= Unit

(* A candidate that waits earns MinShare with every packet, from the       *)
(* largest debt there is.                                                  *)
WaitInv ==
  \A p \in Paths :
    /\ waited[p] \in Nat
    /\ 2 * (MinShare * waited[p]) <= 2 * Balance(credits)[p] + Unit * (Cardinality(Paths) - 1)

(* The least share is a whole number of units, not zero. *)
LEMMA MinSharePositive ==
  ASSUME FewPaths, Paths # {}
  PROVE  MinShare \in Nat \ {0} /\ Cardinality(Paths) \in Nat \ {0}
<1> DEFINE K == FloorInv + Cardinality(Paths) - 1
<1>1. Cardinality(Paths) \in Nat \ {0} /\ Unit \in Nat /\ FloorInv \in Nat \ {0}
  BY WeightedAssumption, FS_CardinalityType, FS_EmptySet
<1>2. K \in Nat \ {0} /\ 1 * K <= Unit
  BY <1>1 DEF FewPaths
<1>3. MinShare = Unit \div K
  BY DEF MinShare
<1> HIDE DEF K
<1>4. Unit \div K \in Nat /\ 1 <= Unit \div K
  BY <1>1, <1>2, Quotient
<1> QED BY <1>1, <1>3, <1>4

(* With so few paths the map is kept while there are two candidates. *)
LEMMA NeverCleared ==
  ASSUME FewPaths, CreditInv, NEW ids \in SUBSET Paths, ~(Cardinality(ids) < 2)
  PROVE  Kept(ids) = credits
<1>1. /\ Cardinality(DOMAIN credits) \in Nat /\ Cardinality(ids) \in Nat /\ Cardinality(Paths) \in Nat
      /\ Cardinality(DOMAIN credits) <= Cardinality(Paths)
  BY WeightedAssumption, FS_Subset, FS_CardinalityType DEF CreditInv, CreditsOK
<1>2. ~(Cardinality(DOMAIN credits) > 2 * Cardinality(ids))
  BY <1>1 DEF FewPaths
<1> QED BY <1>2 DEF Kept

(* A pick, seen by the paths that wait. *)
LEMMA PickWaitInv ==
  ASSUME FewPaths, CreditInv, CreditInv', WaitInv,
         NEW ids \in SUBSET Paths, NEW pick \in Picks(ids), Pick(ids, pick)
  PROVE  WaitInv'
<1> DEFINE M == Unit * (Cardinality(Paths) - 1)
<1> SUFFICES ASSUME NEW p \in Paths
             PROVE  /\ waited'[p] \in Nat
                    /\ 2 * (MinShare * waited'[p]) <= 2 * Balance(credits')[p] + M
  BY DEF WaitInv
<1>1. /\ credits' = pick.credits
      /\ waited'[p] = IF p = pick.best \/ p \notin ids THEN 0 ELSE waited[p] + 1
  BY DEF Pick, Waits
<1>2. /\ Balance(credits')[p] \in Int /\ -(2 * Balance(credits')[p]) <= M
      /\ Balance(credits)[p] \in Int
  BY BalanceBounds DEF CreditInv
<1>3. MinShare \in Nat /\ Cardinality(Paths) \in Nat /\ Unit \in Nat
  BY MinSharePositive, WeightedAssumption
<1>4. M \in Int
  BY <1>3
<1> HIDE DEF M
<1>5. CASE p = pick.best \/ p \notin ids
  <2>1. waited'[p] = 0
    BY <1>1, <1>5
  <2>2. MinShare * waited'[p] = 0
    BY <1>3, <2>1
  <2> QED BY <1>2, <1>4, <2>1, <2>2
<1>6. CASE ~(p = pick.best \/ p \notin ids)
  <2>1. waited'[p] = waited[p] + 1
    BY <1>1, <1>6
  <2>2. waited[p] \in Nat /\ 2 * (MinShare * waited[p]) <= 2 * Balance(credits)[p] + M
    BY DEF WaitInv, M
  <2>3. ~(Cardinality(ids) < 2)
    <3> SUFFICES ASSUME Cardinality(ids) < 2 PROVE FALSE
      OBVIOUS
    <3>1. pick.best \in ids
      BY DEF Picks
    <3>2. IsFiniteSet(ids \ {p}) /\ Cardinality(ids \ {p}) = Cardinality(ids) - 1
          /\ Cardinality(ids) \in Nat
      BY <1>6, WeightedAssumption, FS_Subset, FS_RemoveElement, FS_CardinalityType
    <3>3. Cardinality(ids \ {p}) = 0
      BY <3>2, FS_CardinalityType
    <3>4. ids \ {p} = {}
      BY <3>2, <3>3, FS_EmptySet, ZenonT(30)
    <3> QED BY <1>6, <3>1, <3>4
  <2>4. PICK s \in Splits :
          DOMAIN s = ids /\ Paid(Balance(credits), s, pick.best, Balance(credits'))
    BY <1>1, <2>3, NeverCleared, PicksPaid DEF CreditInv
  <2>5. Balance(credits')[p] = Balance(credits)[p] + (s[p] + 0)
    BY <1>6, <2>4 DEF Paid, Share
  <2>6. MinShare <= s[p] /\ s[p] \in Nat
    <3>1. PICK w : Weighed(w) /\ s \in Shares(w)
      BY SplitsAreShares
    <3>2. p \in DOMAIN s
      BY <1>6, <2>4
    <3>3. MinShare <= s[p]
      BY <3>1, <3>2, LeastShare, Zenon DEF FewPaths
    <3>4. s[p] \in Nat
      BY <3>1, <3>2, SharesSplit DEF Split, NatOn
    <3> QED BY <3>3, <3>4
  <2>7. /\ MinShare * (waited[p] + 1) = MinShare * waited[p] + MinShare
        /\ MinShare * waited[p] \in Int
    BY <1>3, <2>2
  <2> QED BY <1>2, <1>3, <1>4, <2>1, <2>2, <2>5, <2>6, <2>7
<1> QED BY <1>5, <1>6

(* So nobody waits longer than it takes to get from one bound to the other. *)
LEMMA WaitIsBounded ==
  ASSUME FewPaths, CreditInv, WaitInv
  PROVE  NoStarvation
<1> DEFINE M == Unit * (Cardinality(Paths) - 1)
<1> SUFFICES ASSUME NEW p \in Paths PROVE waited[p] <= MaxWait
  BY DEF NoStarvation
<1>1. MinShare \in Nat \ {0} /\ Cardinality(Paths) \in Nat \ {0} /\ Unit \in Nat
  BY MinSharePositive, WeightedAssumption
<1>2. M \in Nat
  BY <1>1
<1>3. /\ waited[p] \in Nat /\ Balance(credits)[p] \in Int
      /\ 2 * (MinShare * waited[p]) <= 2 * Balance(credits)[p] + M
      /\ 2 * Balance(credits)[p] <= M
  BY BalanceBounds DEF CreditInv, WaitInv
<1>4. MaxWait = M \div MinShare
  BY DEF MaxWait
<1> HIDE DEF M
<1>5. waited[p] * MinShare = MinShare * waited[p] /\ MinShare * waited[p] \in Int
  BY <1>1, <1>3
<1>6. waited[p] * MinShare <= M
  BY <1>2, <1>3, <1>5
<1> QED BY <1>1, <1>2, <1>3, <1>4, <1>6, Quotient

(* NoStarvation: with four paths or fewer, Pick lets no path that stays a  *)
(* candidate wait for more than MaxWait packets, however the weights and   *)
(* the other candidates change.                                            *)
THEOREM NobodyStarves ==
  ASSUME FewPaths
  PROVE  Spec => []NoStarvation
<1>1. Init => WaitInv
  <2> SUFFICES ASSUME Init, NEW p \in Paths
               PROVE  /\ waited[p] \in Nat
                      /\ 2 * (MinShare * waited[p]) <= 2 * Balance(credits)[p] + Unit * (Cardinality(Paths) - 1)
    BY DEF WaitInv
  <2>1. waited[p] = 0 /\ Balance(credits)[p] = 0
    BY DEF Init, SchedInit, Balance, Credit
  <2>2. MinShare \in Nat /\ Cardinality(Paths) \in Nat \ {0} /\ Unit \in Nat
    BY MinSharePositive, WeightedAssumption
  <2>3. MinShare * waited[p] = 0 /\ Unit * (Cardinality(Paths) - 1) \in Nat
    BY <2>1, <2>2
  <2> QED BY <2>1, <2>3
<1>2. CreditInv /\ CreditInv' /\ WaitInv /\ [Next]_vars => WaitInv'
  <2> SUFFICES ASSUME CreditInv, CreditInv', WaitInv, [Next]_vars PROVE WaitInv'
    OBVIOUS
  <2>1. CASE UNCHANGED <<credits, waited>>
    BY <2>1 DEF WaitInv
  <2>2. CASE \E ids \in SUBSET Paths : \E pick \in Picks(ids) : Pick(ids, pick)
    BY <2>2, PickWaitInv
  <2> QED BY <2>1, <2>2, NextPicks DEF vars
<1>3. CreditInv /\ WaitInv => NoStarvation
  BY WaitIsBounded
<1> QED BY <1>1, <1>2, <1>3, CreditsStayOK, PTL DEF Spec

----------------------------------------------------------------------------
(* BestPair.                                                               *)

(* snaps is a sequence of snapshots, as a function. *)
Listed(snaps) ==
  \E n \in Nat : /\ DOMAIN snaps = 1..n
                 /\ \A i \in 1..n : snaps[i].up \in BOOLEAN /\ snaps[i].score \in Nat

(* The best of those in s, by score and then by place. *)
Lowest(snaps, s, i) ==
  /\ i \in s /\ snaps[i].up
  /\ \A j \in s : snaps[j].up => \/ snaps[i].score < snaps[j].score
                                 \/ snaps[i].score = snaps[j].score /\ i <= j

Best(snaps, s) ==
  IF \E i \in s : snaps[i].up THEN CHOOSE i \in s : Lowest(snaps, s, i) ELSE 0

(* There is one. *)
LEMMA BestIs ==
  ASSUME NEW snaps, Listed(snaps), NEW s \in SUBSET DOMAIN snaps
  PROVE  IF \E i \in s : snaps[i].up THEN Lowest(snaps, s, Best(snaps, s)) ELSE Best(snaps, s) = 0
<1> SUFFICES ASSUME \E i \in s : snaps[i].up PROVE \E i \in s : Lowest(snaps, s, i)
  BY DEF Best
<1> DEFINE ups == {i \in s : snaps[i].up}
           scores == {snaps[i].score : i \in ups}
<1>1. \A i \in s : i \in Nat /\ snaps[i].score \in Nat
  BY DEF Listed
<1>2. scores \in SUBSET Nat /\ scores # {}
  BY <1>1
<1>3. PICK m \in scores : \A x \in scores : m <= x
  <2> HIDE DEF scores
  <2> QED BY <1>2, LeastNatural
<1> DEFINE least == {i \in ups : snaps[i].score = m}
<1>4. least \in SUBSET Nat /\ least # {}
  BY <1>1, <1>3
<1>5. PICK i \in least : \A x \in least : i <= x
  <2> HIDE DEF least
  <2> QED BY <1>4, LeastNatural
<1>6. i \in s /\ snaps[i].up /\ snaps[i].score = m
  BY <1>5, Zenon
<1>7. ASSUME NEW j \in s, snaps[j].up
      PROVE  snaps[i].score < snaps[j].score \/ (snaps[i].score = snaps[j].score /\ i <= j)
  <2>1. snaps[j].score \in Nat /\ m <= snaps[j].score /\ m \in Nat
    BY <1>1, <1>2, <1>3, <1>7
  <2>2. CASE snaps[j].score = m
    BY <1>5, <1>6, <1>7, <2>2
  <2>3. CASE snaps[j].score # m
    BY <1>6, <2>1, <2>3
  <2> QED BY <2>2, <2>3, Zenon
<1> QED BY <1>6, <1>7 DEF Lowest

(* It is one of s, if there is one. *)
LEMMA BestIn ==
  ASSUME NEW snaps, Listed(snaps), NEW s \in SUBSET DOMAIN snaps
  PROVE  Best(snaps, s) = 0 \/ Best(snaps, s) \in s
BY BestIs DEF Lowest

(* And only one. *)
LEMMA LowestUnique ==
  ASSUME NEW snaps, Listed(snaps), NEW s \in SUBSET DOMAIN snaps, NEW i, Lowest(snaps, s, i)
  PROVE  Best(snaps, s) = i
<1> DEFINE b == Best(snaps, s)
<1>1. Lowest(snaps, s, b)
  BY BestIs DEF Lowest
<1> HIDE DEF b
<1>2. /\ i \in Nat /\ b \in Nat /\ snaps[i].score \in Nat /\ snaps[b].score \in Nat
      /\ i \in s /\ b \in s /\ snaps[i].up /\ snaps[b].up
  BY <1>1 DEF Listed, Lowest
<1>3. /\ snaps[i].score < snaps[b].score \/ (snaps[i].score = snaps[b].score /\ i <= b)
      /\ snaps[b].score < snaps[i].score \/ (snaps[b].score = snaps[i].score /\ b <= i)
  BY <1>1, <1>2 DEF Lowest
<1>4. b = i
  BY <1>2, <1>3
<1> QED BY <1>4 DEF b

(* One more snapshot, behind those of s. *)
LEMMA BestNext ==
  ASSUME NEW snaps, Listed(snaps), NEW s \in SUBSET DOMAIN snaps,
         NEW x \in DOMAIN snaps, \A j \in s : j < x
  PROVE  Best(snaps, s \union {x})
           = IF snaps[x].up /\ Better(snaps, x, Best(snaps, s)) THEN x ELSE Best(snaps, s)
<1> DEFINE b == Best(snaps, s)
           S == s \union {x}
<1>1. S \in SUBSET DOMAIN snaps
  OBVIOUS
<1>2. \A j \in S : j \in Nat /\ j # 0 /\ snaps[j].score \in Nat
  BY DEF Listed
<1>3. IF \E i \in s : snaps[i].up THEN Lowest(snaps, s, b) ELSE b = 0
  BY BestIs
<1> HIDE DEF b
<1>4. CASE ~snaps[x].up
  <2>1. CASE \E i \in s : snaps[i].up
    <3>1. Lowest(snaps, S, b)
      BY <1>3, <1>4, <2>1 DEF Lowest
    <3> QED BY <1>1, <1>4, <3>1, LowestUnique DEF b
  <2>2. CASE ~\E i \in s : snaps[i].up
    <3>1. Best(snaps, S) = 0 /\ b = 0
      BY <1>3, <1>4, <2>2 DEF Best
    <3> QED BY <1>4, <3>1 DEF b
  <2> QED BY <2>1, <2>2
<1>5. CASE snaps[x].up /\ Better(snaps, x, b)
  <2>1. CASE \E i \in s : snaps[i].up
    <3>1. Lowest(snaps, s, b) /\ b \in s /\ b # 0
      BY <1>2, <1>3, <2>1 DEF Lowest
    <3>2. snaps[x].score < snaps[b].score
      BY <1>5, <3>1 DEF Better
    <3>3. ASSUME NEW j \in S, snaps[j].up
          PROVE  snaps[x].score < snaps[j].score \/ (snaps[x].score = snaps[j].score /\ x <= j)
      <4>1. CASE j = x
        BY <1>2, <4>1
      <4>2. CASE j \in s
        <5>1. snaps[b].score <= snaps[j].score
          BY <1>2, <3>1, <3>3, <4>2 DEF Lowest
        <5> QED BY <1>2, <3>1, <3>2, <5>1
      <4> QED BY <4>1, <4>2
    <3>4. Lowest(snaps, S, x)
      BY <1>5, <3>3 DEF Lowest
    <3> QED BY <1>1, <1>5, <3>4, LowestUnique, Zenon DEF b
  <2>2. CASE ~\E i \in s : snaps[i].up
    <3>1. Lowest(snaps, S, x)
      BY <1>2, <1>5, <2>2 DEF Lowest
    <3> QED BY <1>1, <1>5, <3>1, LowestUnique DEF b
  <2> QED BY <2>1, <2>2
<1>6. CASE snaps[x].up /\ ~Better(snaps, x, b)
  <2>1. b # 0 /\ ~(snaps[x].score < snaps[b].score)
    BY <1>6 DEF Better
  <2>2. Lowest(snaps, s, b) /\ b \in s
    BY <1>3, <2>1 DEF Lowest
  <2>3. snaps[b].score <= snaps[x].score /\ b <= x
    BY <1>2, <2>1, <2>2
  <2>4. snaps[b].score < snaps[x].score \/ (snaps[b].score = snaps[x].score /\ b <= x)
    BY <1>2, <2>2, <2>3
  <2>5. Lowest(snaps, S, b)
    BY <2>2, <2>4, Zenon DEF Lowest
  <2> QED BY <1>1, <1>6, <2>5, LowestUnique, Zenon DEF b
<1> QED BY <1>4, <1>5, <1>6

(* The body of BestPair's loop. *)
RankStep(snaps, best, i) ==
  IF ~snaps[i].up THEN best
  ELSE IF Better(snaps, i, best[1]) THEN <<i, best[1]>>
  ELSE IF Better(snaps, i, best[2]) THEN <<best[1], i>>
  ELSE best

(* g is what the loop has after the snapshots of a set, in their order. *)
Follows(g, snaps) ==
  g = [s \in SUBSET DOMAIN snaps |->
         IF s = {} THEN <<0, 0>>
         ELSE RankStep(snaps, g[s \ {Max(s)}], Max(s))]

(* The two best of a set. *)
BestTwo(snaps, s) == <<Best(snaps, s), Best(snaps, s \ {Best(snaps, s)})>>

(* The last of a set of indices. *)
LEMMA MaxOfIndices ==
  ASSUME NEW snaps, Listed(snaps), NEW s \in SUBSET DOMAIN snaps, s # {}
  PROVE  Max(s) \in s /\ \A j \in s \ {Max(s)} : j < Max(s)
<1>1. PICK n \in Nat : DOMAIN snaps = 1..n
  BY DEF Listed
<1> DEFINE gaps == {n - j : j \in s}
<1>2. gaps \in SUBSET Nat /\ gaps # {} /\ \A j \in s : j \in Nat
  BY <1>1
<1>3. PICK d \in gaps : \A e \in gaps : d <= e
  <2> HIDE DEF gaps
  <2> QED BY <1>2, LeastNatural
<1>4. PICK x \in s : d = n - x
  BY <1>3
<1>5. \A y \in s : x >= y
  <2> TAKE y \in s
  <2>1. n - y \in gaps
    OBVIOUS
  <2>2. n - x <= n - y
    <3> HIDE DEF gaps
    <3> QED BY <1>3, <1>4, <2>1, Zenon
  <2> QED BY <1>2, <2>2
<1>6. Max(s) \in s /\ \A y \in s : Max(s) >= y
  BY <1>4, <1>5 DEF Max
<1> QED BY <1>2, <1>6

(* The loop keeps the two best. *)
LEMMA BestTwoNext ==
  ASSUME NEW snaps, Listed(snaps), NEW s \in SUBSET DOMAIN snaps, s # {}
  PROVE  BestTwo(snaps, s) = RankStep(snaps, BestTwo(snaps, s \ {Max(s)}), Max(s))
<1> DEFINE x == Max(s)
           r == s \ {x}
           a == Best(snaps, r)
           b == Best(snaps, r \ {a})
<1>1. x \in s /\ \A j \in r : j < x
  BY MaxOfIndices
<1>2. x \in DOMAIN snaps /\ r \in SUBSET DOMAIN snaps /\ r \union {x} = s
  BY <1>1
<1>3. r \ {a} \in SUBSET DOMAIN snaps /\ \A j \in r \ {a} : j < x
  BY <1>1
<1>4. /\ BestTwo(snaps, s) = <<Best(snaps, s), Best(snaps, s \ {Best(snaps, s)})>>
      /\ BestTwo(snaps, r) = <<a, b>>
  BY DEF BestTwo
<1> HIDE DEF x
<1>5. Best(snaps, s) = IF snaps[x].up /\ Better(snaps, x, a) THEN x ELSE a
  <2>1. Best(snaps, r \union {x}) = IF snaps[x].up /\ Better(snaps, x, Best(snaps, r)) THEN x ELSE Best(snaps, r)
    BY <1>1, <1>2, BestNext, Zenon
  <2> QED BY <1>2, <2>1
<1>6. Best(snaps, (r \ {a}) \union {x}) = IF snaps[x].up /\ Better(snaps, x, b) THEN x ELSE b
  BY <1>2, <1>3, BestNext
<1>7. a # x
  <2>1. a = 0 \/ a \in r
    BY <1>2, BestIs DEF Lowest
  <2>2. x # 0
    BY <1>2 DEF Listed
  <2> QED BY <2>1, <2>2
<1> HIDE DEF a, b, r
<1>8. RankStep(snaps, <<a, b>>, x)
        = IF ~snaps[x].up THEN <<a, b>>
          ELSE IF Better(snaps, x, a) THEN <<x, a>>
          ELSE IF Better(snaps, x, b) THEN <<a, x>> ELSE <<a, b>>
  BY DEF RankStep
<1>9. CASE snaps[x].up /\ Better(snaps, x, a)
  <2>1. Best(snaps, s) = x /\ s \ {x} = r
    BY <1>5, <1>9 DEF r
  <2>2. BestTwo(snaps, s) = <<x, a>>
    BY <1>4, <2>1 DEF a
  <2>3. RankStep(snaps, <<a, b>>, x) = <<x, a>>
    BY <1>8, <1>9
  <2> QED BY <1>4, <2>2, <2>3 DEF x, r
<1>10. CASE ~(snaps[x].up /\ Better(snaps, x, a))
  <2>1. Best(snaps, s) = a
    BY <1>5, <1>10
  <2>2. s \ {a} = (r \ {a}) \union {x}
    BY <1>1, <1>7 DEF r
  <2>3. BestTwo(snaps, s) = <<a, IF snaps[x].up /\ Better(snaps, x, b) THEN x ELSE b>>
    BY <1>4, <1>6, <2>1, <2>2
  <2>4. RankStep(snaps, <<a, b>>, x) = <<a, IF snaps[x].up /\ Better(snaps, x, b) THEN x ELSE b>>
    BY <1>8, <1>10
  <2> QED BY <1>4, <2>3, <2>4 DEF x, r
<1> QED BY <1>9, <1>10

(* So BestPair answers the two best of all. *)
LEMMA BestPairIs ==
  ASSUME NEW snaps, Listed(snaps)
  PROVE  BestPair(snaps) = BestTwo(snaps, DOMAIN snaps)
<1> DEFINE D == DOMAIN snaps
           h == [s \in SUBSET D |-> BestTwo(snaps, s)]
<1>1. BestPair(snaps) = (CHOOSE g : Follows(g, snaps))[D]
  BY Zenon DEF BestPair, MapThenFoldSet, Follows, RankStep
<1>2. ASSUME NEW s \in SUBSET D
      PROVE  h[s] = IF s = {} THEN <<0, 0>>
                    ELSE RankStep(snaps, h[s \ {Max(s)}], Max(s))
  <2>1. CASE s = {}
    <3>1. Best(snaps, {}) = 0 /\ {} \ {0} = {}
      BY DEF Best
    <3> QED BY <2>1, <3>1 DEF BestTwo
  <2>2. CASE s # {}
    <3>1. Max(s) \in D /\ s \ {Max(s)} \in SUBSET D
      BY <2>2, MaxOfIndices
    <3>2. BestTwo(snaps, s) = RankStep(snaps, BestTwo(snaps, s \ {Max(s)}), Max(s))
      BY <2>2, BestTwoNext
    <3> QED BY <2>2, <3>1, <3>2
  <2> QED BY <2>1, <2>2
<1>3. \A s \in SUBSET D : h[s] = BestTwo(snaps, s)
  OBVIOUS
<1>4. Follows(h, snaps)
  <2> DEFINE e == [s \in SUBSET D |-> IF s = {} THEN <<0, 0>>
                                      ELSE RankStep(snaps, h[s \ {Max(s)}], Max(s))]
  <2>1. h = [s \in SUBSET D |-> h[s]]
    OBVIOUS
  <2> HIDE DEF h, D
  <2>2. [s \in SUBSET D |-> h[s]] = e
    BY <1>2, Zenon
  <2>3. h = e
    BY <2>1, <2>2, Zenon
  <2> QED BY <2>3, Zenon DEF Follows, D
<1> DEFINE g == CHOOSE g : Follows(g, snaps)
<1>5. Follows(g, snaps)
  <2> HIDE DEF h
  <2> QED BY <1>4, Zenon
<1>6. BestPair(snaps) = g[D]
  BY <1>1, Zenon
<1> HIDE DEF h, g, D
<1>7. ASSUME NEW s \in SUBSET D
      PROVE  g[s] = IF s = {} THEN <<0, 0>>
                    ELSE RankStep(snaps, g[s \ {Max(s)}], Max(s))
  <2>1. g = [u \in SUBSET D |-> IF u = {} THEN <<0, 0>>
                                ELSE RankStep(snaps, g[u \ {Max(u)}], Max(u))]
    BY <1>5, Zenon DEF Follows, D
  <2> QED BY <2>1, Zenon
<1>8. \A s \in SUBSET D : g[s] = h[s]
  <2> DEFINE G == {s \in SUBSET D : g[s] = h[s]}
  <2>1. ASSUME NEW s \in SUBSET D, \A u \in SUBSET s : u # s => u \in G PROVE s \in G
    <3>1. ASSUME s # {} PROVE g[s \ {Max(s)}] = h[s \ {Max(s)}]
      <4>1. Max(s) \in s
        BY <3>1, MaxOfIndices DEF D
      <4>2. s \ {Max(s)} \in SUBSET s /\ s \ {Max(s)} # s
        BY <4>1
      <4> QED BY <2>1, <4>2
    <3>2. g[s] = h[s]
      BY <1>2, <1>7, <3>1, Zenon
    <3> QED BY <3>2
  <2>2. IsFiniteSet(D)
    BY FS_Interval DEF Listed, D
  <2>3. \A s \in SUBSET D : s \in G
    <3> HIDE DEF G
    <3> QED BY <2>1, <2>2, FiniteInduction
  <2> QED BY <2>3
<1>9. g[D] = BestTwo(snaps, D)
  BY <1>3, <1>8, Zenon
<1> QED BY <1>6, <1>9, Zenon DEF D

(* Those before i in the order of score. *)
Ahead(snaps, i) == {j \in Ups(snaps) : Before(snaps, j, i)}

(* Finite, with the ranks as their numbers. *)
LEMMA AheadFinite ==
  ASSUME NEW snaps, Listed(snaps), NEW i
  PROVE  /\ IsFiniteSet(Ahead(snaps, i)) /\ Rank(snaps, i) = Cardinality(Ahead(snaps, i))
         /\ Rank(snaps, i) \in Nat
         /\ IsFiniteSet(Ups(snaps)) /\ Cardinality(Ups(snaps)) \in Nat
<1>1. IsFiniteSet(DOMAIN snaps)
  BY FS_Interval DEF Listed
<1>2. Ups(snaps) \subseteq DOMAIN snaps /\ Ahead(snaps, i) \subseteq DOMAIN snaps
  BY DEF Ups, Ahead
<1>3. IsFiniteSet(Ahead(snaps, i)) /\ IsFiniteSet(Ups(snaps))
  BY <1>1, <1>2, FS_Subset
<1>4. Rank(snaps, i) = Cardinality(Ahead(snaps, i))
  BY DEF Rank, Ahead
<1> QED BY <1>3, <1>4, FS_CardinalityType

(* Nobody of s is ahead of i. *)
Foremost(snaps, s, i) == i \in s /\ i \in Ups(snaps) /\ Ahead(snaps, i) \cap s = {}

(* Such an i is the lowest of s. *)
LEMMA LowestIsFirst ==
  ASSUME NEW snaps, Listed(snaps), NEW s \in SUBSET DOMAIN snaps, NEW i
  PROVE  Lowest(snaps, s, i) <=> Foremost(snaps, s, i)
<1>1. \A j \in DOMAIN snaps : j \in Nat /\ snaps[j].score \in Nat
  BY DEF Listed
<1>2. ASSUME NEW j \in s, i \in s
      PROVE  (snaps[i].score < snaps[j].score \/ (snaps[i].score = snaps[j].score /\ i <= j))
               <=> ~Before(snaps, j, i)
  BY <1>1, <1>2 DEF Before
<1> QED BY <1>2 DEF Lowest, Foremost, Ahead, Ups

(* The first place is the best of all. *)
LEMMA FirstIs ==
  ASSUME NEW snaps, Listed(snaps), Ups(snaps) # {}
  PROVE  /\ Ranked(snaps, 0) = Best(snaps, DOMAIN snaps)
         /\ Lowest(snaps, DOMAIN snaps, Best(snaps, DOMAIN snaps))
<1> DEFINE D == DOMAIN snaps
           a == Best(snaps, D)
<1>1. Lowest(snaps, D, a)
  BY BestIs DEF Ups
<1> HIDE DEF a
<1>2. a \in Ups(snaps) /\ Rank(snaps, a) = 0
  <2>1. a \in Ups(snaps) /\ Ahead(snaps, a) \cap D = {}
    <3>1. Foremost(snaps, D, a)
      BY <1>1, LowestIsFirst
    <3> QED BY <3>1 DEF Foremost
  <2>2. Ahead(snaps, a) = {}
    BY <2>1 DEF Ahead, Ups
  <2> QED BY <2>1, <2>2, AheadFinite, FS_EmptySet
<1>3. ASSUME NEW i \in Ups(snaps), Rank(snaps, i) = 0 PROVE i = a
  <2>1. Ahead(snaps, i) = {}
    BY <1>3, AheadFinite, FS_EmptySet
  <2>2. Lowest(snaps, D, i)
    <3>1. Foremost(snaps, D, i)
      BY <2>1 DEF Foremost, Ups
    <3> QED BY <3>1, LowestIsFirst
  <2> QED BY <2>2, LowestUnique DEF a
<1>4. ~(Cardinality(Ups(snaps)) <= 0)
  <2>1. Cardinality(Ups(snaps)) # 0 /\ Cardinality(Ups(snaps)) \in Nat
    BY AheadFinite, FS_EmptySet
  <2> QED BY <2>1
<1>5. (CHOOSE i \in Ups(snaps) : Rank(snaps, i) = 0) = a
  BY <1>2, <1>3
<1>6. Ranked(snaps, 0) = a
  BY <1>4, <1>5 DEF Ranked
<1> QED BY <1>1, <1>6 DEF a

(* The second place is the best of the rest. *)
LEMMA SecondIs ==
  ASSUME NEW snaps, Listed(snaps), Ups(snaps) # {}
  PROVE  Ranked(snaps, 1) = Best(snaps, DOMAIN snaps \ {Best(snaps, DOMAIN snaps)})
<1> DEFINE D == DOMAIN snaps
           a == Best(snaps, D)
           R == D \ {a}
           b == Best(snaps, R)
<1>1. Lowest(snaps, D, a)
  BY FirstIs
<1> HIDE DEF a
<1>2. a \in Ups(snaps) /\ Ahead(snaps, a) = {}
  <2>1. a \in Ups(snaps) /\ Ahead(snaps, a) \cap D = {}
    <3>1. Foremost(snaps, D, a)
      BY <1>1, LowestIsFirst
    <3> QED BY <3>1 DEF Foremost
  <2> QED BY <2>1 DEF Ahead, Ups
<1>3. CASE \E i \in R : snaps[i].up
  <2>1. Lowest(snaps, R, b)
    BY <1>3, BestIs
  <2> HIDE DEF b
  <2>2. b \in R /\ b \in Ups(snaps) /\ Ahead(snaps, b) \cap R = {}
    <3>1. Foremost(snaps, R, b)
      BY <2>1, LowestIsFirst
    <3> QED BY <3>1 DEF Foremost
  <2>3. ASSUME NEW i \in Ups(snaps), i # a PROVE a \in Ahead(snaps, i)
    <3>1. /\ i \in D /\ a \in D /\ i \in Nat /\ a \in Nat /\ snaps[i].up
          /\ snaps[i].score \in Nat /\ snaps[a].score \in Nat
      BY <1>2 DEF Ups, Listed
    <3>2. snaps[a].score < snaps[i].score \/ (snaps[a].score = snaps[i].score /\ a <= i)
      BY <1>1, <3>1 DEF Lowest
    <3> QED BY <1>2, <2>3, <3>1, <3>2 DEF Ahead, Before
  <2>4. Ahead(snaps, b) = {a}
    <3>1. \A j \in Ahead(snaps, b) : j \in D
      BY DEF Ahead, Ups
    <3>2. a \in Ahead(snaps, b)
      BY <2>2, <2>3
    <3> QED BY <2>2, <3>1, <3>2
  <2>5. Rank(snaps, b) = 1
    <3>1. Rank(snaps, b) = Cardinality({a})
      BY <2>4, AheadFinite
    <3>2. Cardinality({a}) = 1
      BY FS_Singleton, Zenon
    <3> QED BY <3>1, <3>2
  <2>6. ASSUME NEW i \in Ups(snaps), Rank(snaps, i) = 1 PROVE i = b
    <3>1. i # a
      <4>1. Rank(snaps, a) = 0
        BY <1>2, AheadFinite, FS_EmptySet, Zenon
      <4> QED BY <2>6, <4>1
    <3>2. \E x : Ahead(snaps, i) = {x}
      <4>1. IsFiniteSet(Ahead(snaps, i)) /\ Cardinality(Ahead(snaps, i)) = 1
        BY <2>6, AheadFinite, Zenon
      <4> QED BY <4>1, FS_Singleton, Zenon
    <3>3. a \in Ahead(snaps, i)
      BY <2>3, <3>1
    <3>4. Ahead(snaps, i) \cap R = {} /\ i \in R
      BY <3>1, <3>2, <3>3 DEF Ups
    <3>5. Lowest(snaps, R, i)
      <4>1. Foremost(snaps, R, i)
        BY <3>4 DEF Foremost
      <4> QED BY <4>1, LowestIsFirst
    <3> QED BY <3>5, LowestUnique DEF b
  <2>7. ~(Cardinality(Ups(snaps)) <= 1)
    <3>1. IsFiniteSet({a, b}) /\ Cardinality({a, b}) = 2
      <4>1. IsFiniteSet({a}) /\ Cardinality({a}) = 1
        BY FS_Singleton, Zenon
      <4>2. {a, b} = {a} \union {b} /\ b \notin {a}
        BY <2>2
      <4>3. IsFiniteSet({a} \union {b}) /\ Cardinality({a} \union {b}) = Cardinality({a}) + 1
        BY <4>1, <4>2, FS_AddElement, Zenon
      <4> QED BY <4>1, <4>2, <4>3
    <3>2. {a, b} \subseteq Ups(snaps)
      BY <1>2, <2>2
    <3>3. Cardinality({a, b}) <= Cardinality(Ups(snaps)) /\ Cardinality(Ups(snaps)) \in Nat
      BY <3>2, AheadFinite, FS_Subset
    <3> QED BY <3>1, <3>3
  <2>8. (CHOOSE i \in Ups(snaps) : Rank(snaps, i) = 1) = b
    BY <2>2, <2>5, <2>6
  <2> QED BY <2>7, <2>8 DEF Ranked, a, b
<1>4. CASE ~\E i \in R : snaps[i].up
  <2>1. b = 0
    BY <1>4 DEF Best
  <2>2. Ups(snaps) = {a}
    BY <1>2, <1>4 DEF Ups
  <2>3. Cardinality(Ups(snaps)) = 1
    BY <2>2, FS_Singleton, Zenon
  <2> QED BY <2>1, <2>3 DEF Ranked, a
<1> QED BY <1>3, <1>4

(* The sequences of snapshots that the code makes are listed. *)
LEMMA ListedSnapshots ==
  ASSUME NEW n \in Nat, NEW snaps \in [1..n -> Snapshots]
  PROVE  Listed(snaps) /\ DOMAIN snaps = 1..n
<1>1. \A i \in 1..n : snaps[i] \in Snapshots
  OBVIOUS
<1>2. \A x \in Scores : x \in Nat
  BY TransmitAssumption
<1>3. \A i \in 1..n : snaps[i].up \in BOOLEAN /\ snaps[i].score \in Scores
  BY <1>1 DEF Snapshots
<1>4. DOMAIN snaps = 1..n
  OBVIOUS
<1> QED BY <1>2, <1>3, <1>4 DEF Listed

(* BestPair answers the first two places for every sequence. *)
LEMMA NoneMisranked == Misranked = {}
<1> SUFFICES ASSUME NEW n \in 1..Cardinality(Paths), NEW snaps \in [1..n -> Snapshots]
             PROVE  BestPair(snaps) = <<Ranked(snaps, 0), Ranked(snaps, 1)>>
  BY DEF Misranked
<1>1. Listed(snaps)
  <2>1. n \in Nat
    BY WeightedAssumption, FS_CardinalityType
  <2> QED BY <2>1, ListedSnapshots
<1>2. BestPair(snaps) = BestTwo(snaps, DOMAIN snaps)
  BY <1>1, BestPairIs, Zenon
<1>3. CASE Ups(snaps) # {}
  BY <1>1, <1>2, <1>3, FirstIs, SecondIs DEF BestTwo
<1>4. CASE Ups(snaps) = {}
  <2>1. ASSUME NEW s \in SUBSET DOMAIN snaps PROVE Best(snaps, s) = 0
    BY <1>4 DEF Best, Ups
  <2>2. BestTwo(snaps, DOMAIN snaps) = <<0, 0>>
    BY <2>1 DEF BestTwo
  <2>3. Cardinality(Ups(snaps)) = 0
    BY <1>4, FS_EmptySet
  <2>4. Ranked(snaps, 0) = 0 /\ Ranked(snaps, 1) = 0
    BY <2>3 DEF Ranked
  <2> QED BY <1>2, <2>2, <2>4
<1> QED BY <1>3, <1>4

(* What is told of an answer of BestPair: two different paths, if any. *)
Answer(ans) ==
  /\ ans.first \in Paths \union {None} /\ ans.second \in Paths \union {None}
  /\ ans.second # None => ans.second # ans.first

(* Every answer is such. *)
LEMMA AnswersAre == ASSUME NEW ans \in Answers PROVE Answer(ans)
<1> DEFINE path(order, i) == IF i = 0 THEN None ELSE order[i]
<1>1. PICK ids \in SUBSET Paths :
        \E order \in Bijection(1..Cardinality(ids), ids) : \E snaps \in [DOMAIN order -> Snapshots] :
          ans = [of |-> Range(order), first |-> path(order, BestPair(snaps)[1]),
                 second |-> path(order, BestPair(snaps)[2])]
  BY SMTT(30) DEF Answers
<1>2. PICK order \in Bijection(1..Cardinality(ids), ids) :
        \E snaps \in [DOMAIN order -> Snapshots] :
          ans = [of |-> Range(order), first |-> path(order, BestPair(snaps)[1]),
                 second |-> path(order, BestPair(snaps)[2])]
  BY <1>1
<1>3. PICK snaps \in [DOMAIN order -> Snapshots] :
        ans = [of |-> Range(order), first |-> path(order, BestPair(snaps)[1]),
               second |-> path(order, BestPair(snaps)[2])]
  BY <1>2
<1> DEFINE n == Cardinality(ids)
<1>4. /\ order \in [1..n -> ids]
      /\ \A i, j \in 1..n : i # j => order[i] # order[j]
  BY DEF Bijection, Injection, IsInjective
<1>5. n \in Nat
  BY WeightedAssumption, FS_Subset, FS_CardinalityType
<1> HIDE DEF n
<1>6. Listed(snaps) /\ DOMAIN snaps = 1..n
  BY <1>4, <1>5, ListedSnapshots
<1> DEFINE a == Best(snaps, DOMAIN snaps)
           b == Best(snaps, DOMAIN snaps \ {a})
<1>7. BestPair(snaps) = <<a, b>>
  BY <1>6, BestPairIs, Zenon DEF BestTwo
<1>8. a = 0 \/ a \in 1..n
  BY <1>6, BestIn, Zenon
<1>9. b = 0 \/ b \in (1..n) \ {a}
  <2>1. b = 0 \/ b \in DOMAIN snaps \ {a}
    BY <1>6, BestIn, Zenon
  <2> QED BY <1>6, <2>1
<1> HIDE DEF a, b
<1>10. ans.first = path(order, a) /\ ans.second = path(order, b)
  BY <1>3, <1>7
<1>11. path(order, a) \in Paths \union {None} /\ path(order, b) \in Paths \union {None}
  BY <1>4, <1>8, <1>9
<1>12. path(order, b) # None => path(order, b) # path(order, a)
  <2>1. CASE b = 0
    BY <2>1
  <2>2. CASE b # 0 /\ a = 0
    BY <2>2
  <2>3. CASE b # 0 /\ a # 0
    BY <1>4, <1>8, <1>9, <2>3
  <2> QED BY <2>1, <2>2, <2>3
<1> QED BY <1>10, <1>11, <1>12 DEF Answer

----------------------------------------------------------------------------
(* The senders.                                                            *)

(* What a sender is about to write. *)
Frames == [bulk : BOOLEAN, path : Paths \union {None}, copy : Paths \union {None}]

Numbered == {t \in Senders : tx[t].bulk}

TxInv ==
  /\ tx \in [Senders -> Frames]
  /\ owed = Cardinality(Numbered)
  /\ \A t \in Senders : tx[t].copy # None => tx[t].copy # tx[t].path

(* t is about to write f. *)
Takes(t, f) == tx' = [tx EXCEPT ![t] = f]

(* A frame takes the place of one of its kind. *)
LEMMA NumberedSame ==
  ASSUME TxInv, NEW t \in Senders, NEW f \in Frames, Takes(t, f), ~f.bulk, ~tx[t].bulk
  PROVE  Numbered' = Numbered
<1>1. \A u \in Senders : tx'[u] = IF u = t THEN f ELSE tx[u]
  BY DEF TxInv, Takes
<1> QED BY <1>1 DEF Numbered

(* A bulk frame comes. *)
LEMMA NumberedMore ==
  ASSUME TxInv, NEW t \in Senders, NEW f \in Frames, Takes(t, f), f.bulk, ~tx[t].bulk
  PROVE  Cardinality(Numbered') = Cardinality(Numbered) + 1
<1>1. \A u \in Senders : tx'[u] = IF u = t THEN f ELSE tx[u]
  BY DEF TxInv, Takes
<1>2. t \notin Numbered /\ Numbered' = Numbered \union {t}
  BY <1>1 DEF Numbered
<1>3. IsFiniteSet(Numbered)
  BY TransmitAssumption, FS_Subset DEF Numbered
<1>4. Cardinality(Numbered \union {t}) = Cardinality(Numbered) + 1
  BY <1>2, <1>3, FS_AddElement, Zenon
<1> QED BY <1>2, <1>4

(* A bulk frame has gone. *)
LEMMA NumberedLess ==
  ASSUME TxInv, NEW t \in Senders, NEW f \in Frames, Takes(t, f), ~f.bulk, tx[t].bulk
  PROVE  Cardinality(Numbered') = Cardinality(Numbered) - 1
<1>1. \A u \in Senders : tx'[u] = IF u = t THEN f ELSE tx[u]
  BY DEF TxInv, Takes
<1>2. t \in Numbered /\ Numbered' = Numbered \ {t}
  BY <1>1 DEF Numbered
<1>3. IsFiniteSet(Numbered)
  BY TransmitAssumption, FS_Subset DEF Numbered
<1>4. Cardinality(Numbered \ {t}) = Cardinality(Numbered) - 1
  BY <1>2, <1>3, FS_RemoveElement, Zenon
<1> QED BY <1>2, <1>4, Zenon

(* The rest of the invariant. *)
LEMMA TakesFrame ==
  ASSUME TxInv, NEW t \in Senders, NEW f \in Frames, Takes(t, f),
         f.copy # None => f.copy # f.path, owed' = Cardinality(Numbered')
  PROVE  TxInv'
<1>1. \A u \in Senders : tx'[u] = IF u = t THEN f ELSE tx[u]
  BY DEF TxInv, Takes
<1>2. tx' \in [Senders -> Frames]
  BY DEF TxInv, Takes
<1>3. \A u \in Senders : tx'[u].copy # None => tx'[u].copy # tx'[u].path
  BY <1>1, Zenon DEF TxInv
<1> QED BY <1>2, <1>3, Zenon DEF TxInv

(* BestPaths: the two paths of a latency-sensitive packet. *)
LEMMA BestPathsTxInv ==
  ASSUME TxInv, NEW t \in Senders, tx[t] = Idle, NEW ids, BestPaths(t, ids)
  PROVE  TxInv'
<1>1. PICK class \in Classes \ {Bulk}, best \in Answers :
        /\ tx' = [tx EXCEPT ![t] =
                    [bulk |-> FALSE, path |-> best.first,
                     copy |-> IF class = Realtime THEN best.second ELSE None]]
        /\ UNCHANGED <<credits, waited, owed>>
  BY Zenon DEF BestPaths
<1> DEFINE f == [bulk |-> FALSE, path |-> best.first,
                 copy |-> IF class = Realtime THEN best.second ELSE None]
<1>2. f \in Frames /\ ~f.bulk /\ (f.copy # None => f.copy # f.path)
  BY <1>1, AnswersAre, Zenon DEF Answer, Frames
<1>3. ~tx[t].bulk /\ Takes(t, f)
  BY <1>1 DEF Idle, Takes
<1> HIDE DEF f
<1>4. Numbered' = Numbered
  BY <1>2, <1>3, NumberedSame, Zenon
<1>5. owed' = Cardinality(Numbered')
  BY <1>1, <1>4, Zenon DEF TxInv
<1> QED BY <1>2, <1>3, <1>5, TakesFrame

(* Stripe: a number is drawn for the frame. *)
LEMMA StripeTxInv ==
  ASSUME TxInv, NEW t \in Senders, tx[t] = Idle, NEW ids \in SUBSET Paths, Stripe(t, ids)
  PROVE  TxInv'
<1>1. PICK pick \in Picks(ids) :
        \/ UNCHANGED <<tx, owed>>
        \/ /\ owed' = owed + 1
           /\ Takes(t, [bulk |-> TRUE, path |-> pick.best, copy |-> None])
  BY Zenon DEF Stripe, Takes
<1>2. CASE UNCHANGED <<tx, owed>>
  BY <1>2, Zenon DEF TxInv, Numbered
<1>3. CASE /\ owed' = owed + 1
           /\ Takes(t, [bulk |-> TRUE, path |-> pick.best, copy |-> None])
  <2> DEFINE f == [bulk |-> TRUE, path |-> pick.best, copy |-> None]
  <2>1. pick.best \in ids
    BY PicksBest
  <2>2. f \in Frames /\ f.bulk /\ f.copy = None
    BY <2>1, Zenon DEF Frames
  <2>3. ~tx[t].bulk /\ Takes(t, f)
    BY <1>3 DEF Idle
  <2> HIDE DEF f
  <2>4. Cardinality(Numbered') = Cardinality(Numbered) + 1
    BY <2>2, <2>3, NumberedMore
  <2>5. owed' = Cardinality(Numbered')
    BY <1>3, <2>4 DEF TxInv
  <2> QED BY <2>2, <2>3, <2>5, TakesFrame
<1> QED BY <1>1, <1>2, <1>3, Zenon

(* Written: the socket has seen the number. *)
LEMMA WrittenTxInv ==
  ASSUME TxInv, NEW t \in Senders, Written(t)
  PROVE  TxInv'
<1> DEFINE f == IF tx[t].copy = None THEN Idle
                ELSE [bulk |-> FALSE, path |-> tx[t].copy, copy |-> None]
<1>1. tx[t] \in Frames
  BY Zenon DEF TxInv
<1>2. f \in Frames /\ ~f.bulk /\ f.copy = None
  <2>1. CASE tx[t].copy = None
    BY <2>1, Zenon DEF Frames, Idle
  <2>2. CASE tx[t].copy # None
    BY <1>1, <2>2, Zenon DEF Frames
  <2> QED BY <2>1, <2>2, Zenon
<1>3. Takes(t, f)
  BY Zenon DEF Written, Takes, TxInv
<1>4. owed' = IF tx[t].bulk THEN owed - 1 ELSE owed
  BY DEF Written
<1> HIDE DEF f
<1>5. CASE tx[t].bulk
  <2>1. Cardinality(Numbered') = Cardinality(Numbered) - 1
    BY <1>2, <1>3, <1>5, NumberedLess
  <2>2. owed' = Cardinality(Numbered')
    BY <1>4, <1>5, <2>1 DEF TxInv
  <2> QED BY <1>2, <1>3, <2>2, TakesFrame
<1>6. CASE ~tx[t].bulk
  <2>1. Numbered' = Numbered
    BY <1>2, <1>3, <1>6, NumberedSame
  <2>2. owed' = Cardinality(Numbered')
    BY <1>4, <1>6, <2>1 DEF TxInv
  <2> QED BY <1>2, <1>3, <2>2, TakesFrame
<1> QED BY <1>5, <1>6

(* The invariant of the senders. *)
LEMMA SendersInvariant == Spec => []TxInv
<1>1. Init => TxInv
  <2> SUFFICES ASSUME Init PROVE TxInv
    OBVIOUS
  <2>1. tx = [t \in Senders |-> Idle] /\ owed = 0
    BY DEF Init
  <2>2. Idle \in Frames /\ ~Idle.bulk /\ Idle.copy = None
    BY DEF Idle, Frames
  <2>3. tx \in [Senders -> Frames] /\ \A t \in Senders : tx[t] = Idle
    BY <2>1, <2>2
  <2>4. Numbered = {}
    BY <2>2, <2>3 DEF Numbered
  <2>5. owed = Cardinality(Numbered)
    BY <2>1, <2>4, FS_EmptySet
  <2> QED BY <2>2, <2>3, <2>5 DEF TxInv
<1>2. TxInv /\ [Next]_vars => TxInv'
  <2> SUFFICES ASSUME TxInv, [Next]_vars PROVE TxInv'
    OBVIOUS
  <2>1. ASSUME NEW t \in Senders, Send(t) PROVE TxInv'
    <3>1. PICK ids \in SUBSET Paths : BestPaths(t, ids) \/ Stripe(t, ids)
      BY <2>1, LooksArePaths DEF Send
    <3>2. tx[t] = Idle
      BY <2>1 DEF Send
    <3> QED BY <3>1, <3>2, BestPathsTxInv, StripeTxInv
  <2>2. ASSUME NEW t \in Senders, SendDataOn(t) \/ ServerSendData(t) PROVE TxInv'
    BY <2>2, WrittenTxInv, Zenon DEF SendDataOn, ServerSendData
  <2>3. CASE UNCHANGED <<tx, owed>>
    BY <2>3 DEF TxInv, Numbered
  <2>4. CASE ClientEmitParity \/ ServerEmitParity
    BY <2>3, <2>4 DEF ClientEmitParity, ServerEmitParity, Parity
  <2> QED BY <2>1, <2>2, <2>3, <2>4 DEF Next, vars
<1> QED BY <1>1, <1>2, PTL DEF Spec

(* NoPhantomNumber: between the draw of a bulk number and the write of its *)
(* frame there is always a sender that holds it, so an early drop leaves   *)
(* no gap that the peer would wait for.                                    *)
THEOREM NumbersAreWritten == Spec => []NoPhantomNumber
<1>1. TxInv => NoPhantomNumber
  BY Zenon DEF TxInv, NoPhantomNumber, Numbered
<1> QED BY <1>1, SendersInvariant, PTL

(* PairIsBest: BestPair answers the two best of the snapshots that are up, *)
(* and the copy of a REALTIME packet never takes the path of the original. *)
THEOREM PairsAreBest == Spec => []PairIsBest
<1>1. TxInv => PairIsBest
  BY NoneMisranked DEF TxInv, PairIsBest
<1> QED BY <1>1, SendersInvariant, PTL

(* TypeOK: the credits are whole numbers of paths, the frames have their   *)
(* fields and the count of numbers is one.                                 *)
THEOREM TypeCorrect == Spec => []TypeOK
<1> DEFINE Waiting == waited \in [Paths -> Nat]
<1>1. Init => Waiting
  BY DEF Init, SchedInit
<1>2. Waiting /\ [Next]_vars => Waiting'
  <2> SUFFICES ASSUME Waiting, [Next]_vars PROVE Waiting'
    OBVIOUS
  <2>1. CASE UNCHANGED <<credits, waited>>
    BY <2>1
  <2>2. CASE \E ids \in SUBSET Paths : \E pick \in Picks(ids) : Pick(ids, pick)
    BY <2>2 DEF Pick, Waits
  <2> QED BY <2>1, <2>2, NextPicks DEF vars
<1>3. CreditInv /\ TxInv /\ Waiting => TypeOK
  <2> SUFFICES ASSUME CreditInv, TxInv, Waiting PROVE TypeOK
    OBVIOUS
  <2>1. Cardinality(Numbered) \in Int
    BY TransmitAssumption, FS_Subset, FS_CardinalityType DEF Numbered
  <2> QED BY <2>1 DEF TypeOK, CreditInv, CreditsOK, IntOn, TxInv, Frames
<1> QED BY <1>1, <1>2, <1>3, CreditsStayOK, SendersInvariant, PTL DEF Spec

============================================================================
