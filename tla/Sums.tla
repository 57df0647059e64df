-------------------------------- MODULE Sums --------------------------------
(***************************************************************************)
(* What SumFunctionOnSet of the community modules computes.  It is a       *)
(* recursive function on the subsets of a finite set; the induction on     *)
(* them is the one of the well-founded strict subset ordering, with the    *)
(* predicate given as the set of its instances, as in the induction on     *)
(* naturals that other proofs use.                                         *)
(***************************************************************************)
EXTENDS Integers, Functions, FiniteSetTheorems, TLAPS

\* Naturals are well ordered.
LEMMA NatLeast ==
  ASSUME NEW B \in SUBSET Nat, B # {}
  PROVE  \E x \in B : \A y \in B : x <= y
<1>1. PICK x \in B : \A y \in B : ~(<<y, x>> \in OpToRel(<, Nat))
  BY WFMin, NatLessThanWellFounded, Zenon
<1>2. \A y \in B : ~(y < x)
  BY <1>1 DEF OpToRel
<1> QED
  BY <1>2

\* A set that holds every natural whose smaller ones it holds, holds them all.
LEMMA LessInduction ==
  ASSUME NEW Good, \A n \in Nat : (\A m \in Nat : m < n => m \in Good) => n \in Good
  PROVE  \A n \in Nat : n \in Good
<1> SUFFICES ASSUME Nat \ Good # {} PROVE FALSE
  OBVIOUS
<1>1. PICK n \in Nat \ Good : \A m \in Nat \ Good : n <= m
  BY NatLeast
<1>2. \A m \in Nat : m < n => m \in Good
  BY <1>1
<1> QED
  BY <1>1, <1>2

\* A set that holds every subset of S whose strict subsets it holds, holds S.
LEMMA SubsetInduction ==
  ASSUME NEW S, IsFiniteSet(S), NEW Good,
         \A T \in SUBSET S : (\A U \in SUBSET T : U # T => U \in Good) => T \in Good
  PROVE  S \in Good
<1> DEFINE R == StrictSubsetOrdering(S)
           Bad == (SUBSET S) \ Good
<1>1. IsWellFoundedOn(R, SUBSET S)
  BY FS_StrictSubsetOrderingWellFounded, FS_FiniteSubsetsOfFinite
<1>2. SUFFICES ASSUME Bad # {} PROVE FALSE
  OBVIOUS
<1>3. \E T \in Bad : \A U \in Bad : ~ (<<U, T>> \in R)
  <2> HIDE DEF R, Bad
  <2>1. Bad \subseteq SUBSET S
    BY DEF Bad
  <2> QED
    BY <1>1, <1>2, <2>1, WFMin
<1>4. PICK T \in Bad : \A U \in Bad : ~ (<<U, T>> \in R)
  BY <1>3
<1>5. ASSUME NEW U \in SUBSET T, U # T PROVE U \in Good
  <2>1. <<U, T>> \in R
    BY <1>4, <1>5 DEF StrictSubsetOrdering
  <2> QED
    BY <1>4, <1>5, <2>1
<1> QED
  BY <1>4, <1>5

\* One element of a set, the one that the fold takes first.
Taken(T) == CHOOSE x \in T : TRUE

\* The function that SumFunctionOnSet defines.
Adds(f, S, g) ==
    g = [T \in SUBSET S |-> IF T = {} THEN 0 ELSE f[Taken(T)] + g[T \ {Taken(T)}]]
Adder(f, S) == CHOOSE g : Adds(f, S, g)

\* SumFunctionOnSet is that function of the whole set.
LEMMA SumIsAdder ==
  ASSUME NEW f, NEW S
  PROVE  SumFunctionOnSet(f, S) = Adder(f, S)[S]
BY DEF SumFunctionOnSet, FoldFunctionOnSet, MapThenFoldSet, Adder, Adds, Taken

\* It is taken from the set.
LEMMA TakenIn ==
  ASSUME NEW T, T # {}
  PROVE  Taken(T) \in T
BY DEF Taken

\* At most one function fits, and it does not depend on the rest of the set.
LEMMA AddsAgree ==
  ASSUME NEW f, NEW S, IsFiniteSet(S), NEW T \in SUBSET S, NEW g, NEW h,
         Adds(f, S, g), Adds(f, T, h)
  PROVE  g[T] = h[T]
<1> DEFINE Good == {U \in SUBSET T : g[U] = h[U]}
<1>1. IsFiniteSet(T)
  BY FS_Subset
<1>2. ASSUME NEW U \in SUBSET T, \A V \in SUBSET U : V # U => V \in Good
      PROVE  U \in Good
  <2>1. CASE U = {}
    BY <2>1 DEF Adds
  <2>2. CASE U # {}
    <3> DEFINE x == Taken(U)
    <3>1. x \in U
      BY <2>2, TakenIn
    <3> HIDE DEF x
    <3>2. U \ {x} \in Good
      BY <1>2, <3>1
    <3>3. g[U] = f[x] + g[U \ {x}]
      BY <2>2 DEF Adds, x
    <3>4. h[U] = f[x] + h[U \ {x}]
      BY <2>2 DEF Adds, x
    <3> QED
      BY <3>2, <3>3, <3>4
  <2> QED
    BY <2>1, <2>2
<1>3. T \in Good
  <2> HIDE DEF Good
  <2> QED
    BY <1>1, <1>2, SubsetInduction
<1> QED
  BY <1>3

\* There is such a function.
LEMMA AdderAdds ==
  ASSUME NEW f, NEW S, IsFiniteSet(S)
  PROVE  Adds(f, S, Adder(f, S))
<1> DEFINE Good == {T \in SUBSET S : Adds(f, T, Adder(f, T))}
<1>1. ASSUME NEW T \in SUBSET S, \A U \in SUBSET T : U # T => U \in Good
      PROVE  T \in Good
  <2> DEFINE Sum(U) == Adder(f, U)[U]
             g == [U \in SUBSET T |-> IF U = {} THEN 0
                                      ELSE f[Taken(U)] + Sum(U \ {Taken(U)})]
  <2>1. ASSUME NEW U \in SUBSET T, U # {}
        PROVE  g[U \ {Taken(U)}] = Sum(U \ {Taken(U)})
    <3> DEFINE V == U \ {Taken(U)}
    <3>1. V \in SUBSET T /\ V # T
      BY <2>1, TakenIn
    <3>2. Adds(f, V, Adder(f, V))
      BY <1>1, <3>1
    <3> HIDE DEF V
    <3>3. CASE V = {}
      <4>1. Sum(V) = 0
        BY <3>2, <3>3 DEF Adds
      <4> QED
        BY <3>1, <3>3, <4>1 DEF V
    <3>4. CASE V # {}
      <4> DEFINE y == Taken(V)
      <4>1. y \in V
        BY <3>4, TakenIn
      <4>2. Sum(V) = f[y] + Adder(f, V)[V \ {y}]
        BY <3>2, <3>4 DEF Adds
      <4> HIDE DEF y
      <4>3. V \ {y} \in SUBSET T /\ V \ {y} # T /\ V \ {y} \in SUBSET V
        BY <3>1, <4>1
      <4>4. Adds(f, V \ {y}, Adder(f, V \ {y}))
        BY <1>1, <4>3
      <4>5. IsFiniteSet(V)
        BY <3>1, FS_Subset
      <4>6. Adder(f, V)[V \ {y}] = Sum(V \ {y})
        BY <3>2, <4>3, <4>4, <4>5, AddsAgree
      <4>7. g[V] = f[y] + Sum(V \ {y})
        BY <3>1, <3>4 DEF y
      <4> QED
        BY <4>2, <4>6, <4>7 DEF V
    <3> QED
      BY <3>3, <3>4
  <2>2. Adds(f, T, g)
    <3> HIDE DEF Sum
    <3>1. g = [U \in SUBSET T |-> IF U = {} THEN 0 ELSE f[Taken(U)] + g[U \ {Taken(U)}]]
      BY <2>1
    <3> QED
      BY <3>1 DEF Adds
  <2>3. Adds(f, T, Adder(f, T))
    <3> HIDE DEF g
    <3> QED
      BY <2>2 DEF Adder
  <2> QED
    BY <2>3
<1>2. S \in Good
  <2> HIDE DEF Good
  <2> QED
    BY <1>1, SubsetInduction
<1> QED
  BY <1>2

\* The sum of nothing, and the sum with one element taken out.
LEMMA SumSteps ==
  ASSUME NEW f, NEW S, IsFiniteSet(S)
  PROVE  /\ S = {} => SumFunctionOnSet(f, S) = 0
         /\ S # {} => SumFunctionOnSet(f, S)
                        = f[Taken(S)] + SumFunctionOnSet(f, S \ {Taken(S)})
<1>1. Adds(f, S, Adder(f, S))
  BY AdderAdds
<1>2. SumFunctionOnSet(f, S) = Adder(f, S)[S]
  BY SumIsAdder
<1>3. CASE S = {}
  BY <1>1, <1>2, <1>3 DEF Adds
<1>4. CASE S # {}
  <2> DEFINE x == Taken(S)
  <2>1. Adder(f, S)[S] = f[x] + Adder(f, S)[S \ {x}]
    BY <1>1, <1>4 DEF Adds
  <2> HIDE DEF x
  <2>2. IsFiniteSet(S \ {x})
    BY FS_RemoveElement
  <2>3. Adds(f, S \ {x}, Adder(f, S \ {x}))
    BY <2>2, AdderAdds
  <2>4. Adder(f, S)[S \ {x}] = Adder(f, S \ {x})[S \ {x}]
    BY <1>1, <2>3, AddsAgree
  <2>5. SumFunctionOnSet(f, S \ {x}) = Adder(f, S \ {x})[S \ {x}]
    BY SumIsAdder
  <2> QED
    BY <1>2, <1>4, <2>1, <2>4, <2>5 DEF x
<1> QED
  BY <1>3, <1>4

\* A sum of naturals is a natural, and does not depend on the order.
LEMMA SumRemove ==
  ASSUME NEW f, NEW S, IsFiniteSet(S), \A y \in S : f[y] \in Nat
  PROVE  /\ SumFunctionOnSet(f, S) \in Nat
         /\ \A y \in S : SumFunctionOnSet(f, S) = f[y] + SumFunctionOnSet(f, S \ {y})
<1> DEFINE Sum(T) == SumFunctionOnSet(f, T)
           Good == {T \in SUBSET S : /\ Sum(T) \in Nat
                                     /\ \A y \in T : Sum(T) = f[y] + Sum(T \ {y})}
<1>1. ASSUME NEW T \in SUBSET S, \A U \in SUBSET T : U # T => U \in Good
      PROVE  T \in Good
  <2>1. IsFiniteSet(T)
    BY FS_Subset
  <2>2. CASE T = {}
    <3>1. Sum(T) = 0
      BY <2>1, <2>2, SumSteps
    <3> HIDE DEF Sum
    <3> QED
      BY <2>2, <3>1
  <2>3. CASE T # {}
    <3> DEFINE x == Taken(T)
    <3>1. x \in T
      BY <2>3, TakenIn
    <3>2. Sum(T) = f[x] + Sum(T \ {x})
      BY <2>1, <2>3, SumSteps
    <3> HIDE DEF x
    <3>3. T \ {x} \in Good
      BY <1>1, <3>1
    <3>4. f[x] \in Nat /\ Sum(T \ {x}) \in Nat
      BY <3>1, <3>3
    <3> HIDE DEF Sum
    <3>5. Sum(T) \in Nat
      BY <3>2, <3>4
    <3>6. ASSUME NEW y \in T PROVE Sum(T) = f[y] + Sum(T \ {y})
      <4>1. CASE y = x
        BY <3>2, <4>1
      <4>2. CASE y # x
        <5>1. T \ {y} \in Good
          BY <1>1, <3>6
        <5>2. Sum(T \ {x}) = f[y] + Sum((T \ {x}) \ {y})
          BY <3>3, <3>6, <4>2
        <5>3. Sum(T \ {y}) = f[x] + Sum((T \ {y}) \ {x})
          BY <3>1, <4>2, <5>1
        <5>4. (T \ {y}) \ {x} = (T \ {x}) \ {y}
          OBVIOUS
        <5>5. (T \ {x}) \ {y} \in Good
          BY <1>1, <3>1
        <5>6. f[y] \in Nat /\ Sum((T \ {x}) \ {y}) \in Nat
          BY <3>6, <5>5
        <5>7. \A a, b, c \in Nat : a + (b + c) = b + (a + c)
          OBVIOUS
        <5>8. f[x] + (f[y] + Sum((T \ {x}) \ {y})) = f[y] + (f[x] + Sum((T \ {x}) \ {y}))
          BY <3>4, <5>6, <5>7
        <5> QED
          BY <3>2, <5>2, <5>3, <5>4, <5>8, Zenon
      <4> QED
        BY <4>1, <4>2
    <3> QED
      BY <3>5, <3>6
  <2> QED
    BY <2>2, <2>3
<1>2. S \in Good
  <2> HIDE DEF Good
  <2> QED
    BY <1>1, SubsetInduction
<1> QED
  BY <1>2

\* One element more.
LEMMA SumAdd ==
  ASSUME NEW f, NEW S, IsFiniteSet(S), NEW x, x \notin S,
         \A y \in S \cup {x} : f[y] \in Nat
  PROVE  SumFunctionOnSet(f, S \cup {x}) = f[x] + SumFunctionOnSet(f, S)
<1> DEFINE T == S \cup {x}
<1>1. IsFiniteSet(T) /\ x \in T /\ T \ {x} = S
  BY FS_AddElement
<1> HIDE DEF T
<1>2. \A y \in T : f[y] \in Nat
  BY DEF T
<1>3. SumFunctionOnSet(f, T) = f[x] + SumFunctionOnSet(f, T \ {x})
  BY <1>1, <1>2, SumRemove
<1> QED
  BY <1>1, <1>3 DEF T

\* Only the values on the set matter.
LEMMA SumSame ==
  ASSUME NEW f, NEW g, NEW S, IsFiniteSet(S), \A y \in S : f[y] = g[y]
  PROVE  SumFunctionOnSet(f, S) = SumFunctionOnSet(g, S)
<1> DEFINE Good == {T \in SUBSET S : SumFunctionOnSet(f, T) = SumFunctionOnSet(g, T)}
<1>1. ASSUME NEW T \in SUBSET S, \A U \in SUBSET T : U # T => U \in Good
      PROVE  T \in Good
  <2>1. IsFiniteSet(T)
    BY FS_Subset
  <2>2. CASE T = {}
    BY <2>1, <2>2, SumSteps
  <2>3. CASE T # {}
    <3> DEFINE x == Taken(T)
    <3>1. x \in T
      BY <2>3, TakenIn
    <3>2. /\ SumFunctionOnSet(f, T) = f[x] + SumFunctionOnSet(f, T \ {x})
          /\ SumFunctionOnSet(g, T) = g[x] + SumFunctionOnSet(g, T \ {x})
      BY <2>1, <2>3, SumSteps
    <3> HIDE DEF x
    <3>3. T \ {x} \in Good
      BY <1>1, <3>1
    <3> QED
      BY <3>1, <3>2, <3>3
  <2> QED
    BY <2>2, <2>3
<1>2. S \in Good
  <2> HIDE DEF Good
  <2> QED
    BY <1>1, SubsetInduction
<1> QED
  BY <1>2
=============================================================================
