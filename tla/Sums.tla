-------------------------------- MODULE Sums --------------------------------
(***************************************************************************)
(* Laws of SumFunctionOnSet, the sum f[i] over the i of a finite set of    *)
(* indices: the models add up transfers, fills and legs with it.           *)
(*                                                                         *)
(* Induction is over sets of sets: a property of every subset of S is the  *)
(* set G of the subsets that have it, and the least set that is not in G   *)
(* refutes the assumption.                                                 *)
(***************************************************************************)
EXTENDS Integers, FiniteSets, Functions, FiniteSetTheorems, WellFoundedInduction, TLAPS

-----------------------------------------------------------------------------
(* Induction *)

LEMMA SubsetInduction ==
  ASSUME NEW S, IsFiniteSet(S), NEW G,
         \A T \in SUBSET S : (\A U \in SUBSET T : U # T => U \in G) => T \in G
  PROVE  \A T \in SUBSET S : T \in G
<1> DEFINE Rest == (SUBSET S) \ G
<1>1. SUFFICES ASSUME Rest # {} PROVE FALSE
  OBVIOUS
<1>2. IsWellFoundedOn(StrictSubsetOrdering(S), SUBSET S)
  BY FS_StrictSubsetOrderingWellFounded, FS_FiniteSubsetsOfFinite
<1>3. Rest \subseteq SUBSET S
  OBVIOUS
<1>4. \E T \in Rest : \A U \in Rest : ~ (<<U, T>> \in StrictSubsetOrdering(S))
  <2> HIDE DEF Rest
  <2> QED BY <1>1, <1>2, <1>3, WFMin
<1>5. PICK T \in Rest : \A U \in Rest : ~ (<<U, T>> \in StrictSubsetOrdering(S))
  BY <1>4
<1>6. ASSUME NEW U \in SUBSET T, U # T PROVE U \in G
  BY <1>5, <1>6 DEF StrictSubsetOrdering
<1> QED BY <1>5, <1>6

LEMMA LeastNatural ==
  ASSUME NEW T, T \subseteq Nat, T # {}
  PROVE  \E n \in T : \A m \in T : n <= m
<1>1. \E n \in T : \A m \in T : ~ (<<m, n>> \in OpToRel(<, Nat))
  BY NatLessThanWellFounded, WFMin
<1>2. PICK n \in T : \A m \in T : ~ (<<m, n>> \in OpToRel(<, Nat))
  BY <1>1
<1>3. \A m \in T : ~ (m < n)
  BY <1>2 DEF OpToRel
<1> QED BY <1>3

-----------------------------------------------------------------------------
(* The fold's own equation *)

Pick(s) == CHOOSE x \in s : TRUE

Iter(f, S) ==
  CHOOSE g : g = [s \in SUBSET S |-> IF s = {} THEN 0 ELSE f[Pick(s)] + g[s \ {Pick(s)}]]

IsIter(g, f, S) ==
  g = [s \in SUBSET S |-> IF s = {} THEN 0 ELSE f[Pick(s)] + g[s \ {Pick(s)}]]

LEMMA Picked == \A s : s # {} => Pick(s) \in s
  BY DEF Pick

LEMMA Unfold ==
  ASSUME NEW f, NEW S
  PROVE  SumFunctionOnSet(f, S) = Iter(f, S)[S]
  BY DEF SumFunctionOnSet, FoldFunctionOnSet, MapThenFoldSet, Iter, Pick

Obeys(g, f, S) ==
  \A s \in SUBSET S : /\ s = {} => g[s] = 0
                      /\ s # {} => g[s] = f[Pick(s)] + g[s \ {Pick(s)}]

LEMMA IterObeys ==
  ASSUME NEW f, NEW S, NEW g, IsIter(g, f, S)
  PROVE  Obeys(g, f, S)
  BY DEF IsIter, Obeys

\* Two solutions of the equation for one f, on a set and on a part of it, are
\* one on the part.
LEMMA Agree ==
  \A f, S, U, g, h :
    IsFiniteSet(S) /\ U \subseteq S /\ Obeys(g, f, S) /\ Obeys(h, f, U)
      => \A T \in SUBSET U : g[T] = h[T]
<1> SUFFICES ASSUME NEW f, NEW S, NEW U, NEW g, NEW h,
                    IsFiniteSet(S), U \subseteq S, Obeys(g, f, S), Obeys(h, f, U)
             PROVE  \A T \in SUBSET U : g[T] = h[T]
  OBVIOUS
<1> DEFINE G == {T \in SUBSET U : g[T] = h[T]}
<1>1. IsFiniteSet(U)
  BY FS_Subset
<1>2. ASSUME NEW T \in SUBSET U, \A V \in SUBSET T : V # T => V \in G
      PROVE  T \in G
  <2>1. /\ T = {} => g[T] = 0 /\ h[T] = 0
        /\ T # {} => g[T] = f[Pick(T)] + g[T \ {Pick(T)}]
        /\ T # {} => h[T] = f[Pick(T)] + h[T \ {Pick(T)}]
    BY DEF Obeys
  <2>2. T # {} => g[T \ {Pick(T)}] = h[T \ {Pick(T)}]
    BY <1>2, Picked
  <2> QED BY <2>1, <2>2
<1>3. \A T \in SUBSET U : T \in G
  <2> HIDE DEF G
  <2> QED BY <1>1, <1>2, SubsetInduction
<1> QED BY <1>3

LEMMA IterAgree ==
  ASSUME NEW f, NEW S, IsFiniteSet(S), NEW U, U \subseteq S
  PROVE  Obeys(Iter(f, S), f, S) /\ Obeys(Iter(f, U), f, U)
           => \A T \in SUBSET U : Iter(f, S)[T] = Iter(f, U)[T]
<1>1. \A g, h : Obeys(g, f, S) /\ Obeys(h, f, U) => \A T \in SUBSET U : g[T] = h[T]
  BY Agree
<1> QED BY <1>1

LEMMA IterExists ==
  ASSUME NEW f, NEW S, IsFiniteSet(S)
  PROVE  Obeys(Iter(f, S), f, S)
<1> DEFINE G == {T \in SUBSET S : Obeys(Iter(f, T), f, T)}
<1>1. ASSUME NEW T \in SUBSET S, \A U \in SUBSET T : U # T => U \in G
      PROVE  T \in G
  <2> DEFINE less(s) == s \ {Pick(s)}
             g == [s \in SUBSET T |->
                     IF s = {} THEN 0 ELSE f[Pick(s)] + Iter(f, less(s))[less(s)]]
  <2>1. ASSUME NEW s \in SUBSET T, s # {}
        PROVE  g[less(s)] = Iter(f, less(s))[less(s)]
    <3> DEFINE t == less(s)
               u == less(t)
    <3>1. Pick(s) \in s /\ t \in SUBSET T /\ t # T
      BY <2>1, Picked
    <3>2. Obeys(Iter(f, t), f, t)
      BY <3>1, <1>1
    <3>3. /\ t = {} => Iter(f, t)[t] = 0
          /\ t # {} => Iter(f, t)[t] = f[Pick(t)] + Iter(f, t)[u]
      <4> DEFINE h == Iter(f, t)
      <4>1. Obeys(h, f, t)
        BY <3>2
      <4> HIDE DEF h, t
      <4>2. /\ t = {} => h[t] = 0
            /\ t # {} => h[t] = f[Pick(t)] + h[u]
        BY <4>1 DEF Obeys
      <4> QED BY <4>2 DEF h
    <3>4. CASE t = {}
      <4>1. g[t] = 0
        BY <3>1, <3>4
      <4> QED BY <3>3, <3>4, <4>1
    <3>5. CASE t # {}
      <4> HIDE DEF t
      <4>1. u \in SUBSET t /\ u # t
        BY <3>5, Picked
      <4>2. u \in SUBSET T /\ u # T /\ IsFiniteSet(t)
        BY <3>1, <4>1, FS_Subset
      <4> HIDE DEF u
      <4>3. Obeys(Iter(f, u), f, u)
        BY <4>2, <1>1
      <4>4. Iter(f, t)[u] = Iter(f, u)[u]
        <5>1. \A V \in SUBSET u : Iter(f, t)[V] = Iter(f, u)[V]
          BY <4>1, <4>2, <4>3, <3>2, IterAgree
        <5> QED BY <5>1
      <4>5. g[t] = f[Pick(t)] + Iter(f, u)[u]
        BY <3>1, <3>5 DEF u
      <4> QED BY <3>3, <3>5, <4>4, <4>5 DEF t
    <3> QED BY <3>4, <3>5
  <2>2. g = [s \in SUBSET T |-> IF s = {} THEN 0 ELSE f[Pick(s)] + g[less(s)]]
    BY <2>1
  <2>3. IsIter(g, f, T)
    BY <2>2 DEF IsIter
  <2>4. IsIter(Iter(f, T), f, T)
    BY <2>3 DEF IsIter, Iter
  <2> QED BY <2>4, IterObeys
<1>2. \A T \in SUBSET S : T \in G
  <2> HIDE DEF G
  <2> QED BY <1>1, SubsetInduction
<1> QED BY <1>2

LEMMA SumEquation ==
  ASSUME NEW f, NEW S, IsFiniteSet(S)
  PROVE  /\ S = {} => SumFunctionOnSet(f, S) = 0
         /\ S # {} => SumFunctionOnSet(f, S)
                        = f[Pick(S)] + SumFunctionOnSet(f, S \ {Pick(S)})
<1> DEFINE U == S \ {Pick(S)}
           g == Iter(f, S)
<1>1. IsFiniteSet(U) /\ U \in SUBSET S
  BY FS_Subset
<1>2. Obeys(g, f, S) /\ Obeys(Iter(f, U), f, U)
  <2> HIDE DEF U
  <2> QED BY <1>1, IterExists
<1>3. Iter(f, S)[U] = Iter(f, U)[U]
  <2> HIDE DEF U
  <2>1. \A T \in SUBSET U : Iter(f, S)[T] = Iter(f, U)[T]
    BY <1>1, <1>2, IterAgree
  <2> QED BY <2>1
<1>4. (S = {} => g[S] = 0) /\ (S # {} => g[S] = f[Pick(S)] + g[U])
  <2> HIDE DEF g
  <2> QED BY <1>2 DEF Obeys
<1> QED BY <1>3, <1>4, Unfold

-----------------------------------------------------------------------------
(* The laws of the sum *)

LEMMA SumEmpty == \A f : SumFunctionOnSet(f, {}) = 0
  BY SumEquation, FS_EmptySet

LEMMA SumType ==
  ASSUME NEW f, NEW S, IsFiniteSet(S), \A i \in S : f[i] \in Int
  PROVE  SumFunctionOnSet(f, S) \in Int
<1> DEFINE G == {T \in SUBSET S : SumFunctionOnSet(f, T) \in Int}
<1>1. ASSUME NEW T \in SUBSET S, \A U \in SUBSET T : U # T => U \in G
      PROVE  T \in G
  <2>1. IsFiniteSet(T)
    BY FS_Subset
  <2>2. CASE T = {}
    BY <2>2, SumEmpty
  <2>3. CASE T # {}
    <3>1. Pick(T) \in T /\ T \ {Pick(T)} \in G
      BY <1>1, <2>3, Picked
    <3>2. SumFunctionOnSet(f, T) = f[Pick(T)] + SumFunctionOnSet(f, T \ {Pick(T)})
      BY <2>1, <2>3, SumEquation
    <3> QED BY <3>1, <3>2
  <2> QED BY <2>2, <2>3
<1>2. \A T \in SUBSET S : T \in G
  <2> HIDE DEF G
  <2> QED BY <1>1, SubsetInduction
<1> QED BY <1>2

\* Any index may be taken out first.
LEMMA SumRemove ==
  ASSUME NEW f, NEW S, IsFiniteSet(S), \A i \in S : f[i] \in Int, NEW x \in S
  PROVE  SumFunctionOnSet(f, S) = f[x] + SumFunctionOnSet(f, S \ {x})
<1> DEFINE Sum(T) == SumFunctionOnSet(f, T)
           G == {T \in SUBSET S : \A y \in T : Sum(T) = f[y] + Sum(T \ {y})}
<1>1. ASSUME NEW T \in SUBSET S, \A U \in SUBSET T : U # T => U \in G, NEW y \in T
      PROVE  Sum(T) = f[y] + Sum(T \ {y})
  <2> DEFINE p == Pick(T)
  <2>1. p \in T
    BY Picked
  <2>2. Sum(T) = f[p] + Sum(T \ {p})
    <3>1. IsFiniteSet(T) /\ T # {}
      BY FS_Subset
    <3> QED BY <3>1, SumEquation
  <2>3. CASE y # p
    <3> DEFINE V == (T \ {p}) \ {y}
    <3> HIDE DEF p
    <3>1. T \ {p} \in G /\ T \ {y} \in G
      BY <1>1, <2>1
    <3>2. Sum(T \ {p}) = f[y] + Sum(V)
      BY <3>1, <2>3
    <3>3. Sum(T \ {y}) = f[p] + Sum(V)
      <4>1. (T \ {y}) \ {p} = V
        OBVIOUS
      <4> QED BY <3>1, <4>1, <2>3, <2>1
    <3>4. Sum(V) \in Int /\ f[p] \in Int /\ f[y] \in Int
      <4>1. IsFiniteSet(V)
        BY FS_Subset
      <4> QED BY <4>1, <2>1, SumType
    <3> HIDE DEF Sum, V
    <3> QED BY <2>2, <3>2, <3>3, <3>4
  <2> QED BY <2>2, <2>3
<1>2. \A T \in SUBSET S : T \in G
  <2>1. ASSUME NEW T \in SUBSET S, \A U \in SUBSET T : U # T => U \in G
        PROVE  T \in G
    BY <1>1, <2>1
  <2> HIDE DEF G
  <2> QED BY <2>1, SubsetInduction
<1> QED BY <1>2

LEMMA SumInsert ==
  ASSUME NEW f, NEW S, IsFiniteSet(S), NEW x, x \notin S, \A i \in S \cup {x} : f[i] \in Int
  PROVE  SumFunctionOnSet(f, S \cup {x}) = f[x] + SumFunctionOnSet(f, S)
<1>1. IsFiniteSet(S \cup {x}) /\ (S \cup {x}) \ {x} = S
  BY FS_AddElement
<1> QED BY <1>1, SumRemove

\* The sum looks at the summands and at nothing else of f.
LEMMA SumSame ==
  ASSUME NEW f, NEW g, NEW S, IsFiniteSet(S), \A i \in S : f[i] = g[i]
  PROVE  SumFunctionOnSet(f, S) = SumFunctionOnSet(g, S)
<1> DEFINE G == {T \in SUBSET S : SumFunctionOnSet(f, T) = SumFunctionOnSet(g, T)}
<1>1. ASSUME NEW T \in SUBSET S, \A U \in SUBSET T : U # T => U \in G
      PROVE  T \in G
  <2>1. IsFiniteSet(T)
    BY FS_Subset
  <2>2. CASE T = {}
    BY <2>2, SumEmpty
  <2>3. CASE T # {}
    <3>1. Pick(T) \in T /\ T \ {Pick(T)} \in G
      BY <1>1, <2>3, Picked
    <3>2. /\ SumFunctionOnSet(f, T) = f[Pick(T)] + SumFunctionOnSet(f, T \ {Pick(T)})
          /\ SumFunctionOnSet(g, T) = g[Pick(T)] + SumFunctionOnSet(g, T \ {Pick(T)})
      BY <2>1, <2>3, SumEquation
    <3> QED BY <3>1, <3>2
  <2> QED BY <2>2, <2>3
<1>2. \A T \in SUBSET S : T \in G
  <2> HIDE DEF G
  <2> QED BY <1>1, SubsetInduction
<1> QED BY <1>2

\* Of natural numbers, fewer add up to no more.
LEMMA SumMonotonic ==
  ASSUME NEW f, NEW S, IsFiniteSet(S), \A i \in S : f[i] \in Nat, NEW T, T \subseteq S
  PROVE  SumFunctionOnSet(f, T) <= SumFunctionOnSet(f, S)
<1> DEFINE Sum(V) == SumFunctionOnSet(f, V)
           G == {V \in SUBSET S : \A U \in SUBSET V : Sum(U) <= Sum(V)}
<1>1. ASSUME NEW V \in SUBSET S, \A U \in SUBSET V : U # V => U \in G, NEW W \in SUBSET V
      PROVE  Sum(W) <= Sum(V)
  <2>1. IsFiniteSet(V) /\ IsFiniteSet(W)
    BY FS_Subset
  <2>2. Sum(V) \in Int
    BY <2>1, SumType
  <2>3. CASE W # V
    <3>1. PICK x \in V : x \notin W
      BY <2>3
    <3>2. Sum(V) = f[x] + Sum(V \ {x})
      BY <2>1, SumRemove
    <3>3. V \ {x} \in G /\ W \in SUBSET (V \ {x})
      BY <1>1, <3>1
    <3>4. Sum(W) <= Sum(V \ {x})
      BY <3>3
    <3>5. Sum(W) \in Int /\ Sum(V \ {x}) \in Int /\ f[x] \in Nat
      <4>1. IsFiniteSet(V \ {x})
        BY <2>1, FS_Subset
      <4> QED BY <4>1, <2>1, SumType
    <3> HIDE DEF Sum
    <3> QED BY <3>2, <3>4, <3>5
  <2> HIDE DEF Sum
  <2> QED BY <2>2, <2>3
<1>2. \A V \in SUBSET S : V \in G
  <2>1. ASSUME NEW V \in SUBSET S, \A U \in SUBSET V : U # V => U \in G
        PROVE  V \in G
    BY <1>1, <2>1
  <2> HIDE DEF G
  <2> QED BY <2>1, SubsetInduction
<1> QED BY <1>2
=============================================================================
