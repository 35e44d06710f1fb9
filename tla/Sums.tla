-------------------------------- MODULE Sums --------------------------------
(***************************************************************************)
(* Induction, in a form without operators, and what it gives for the sums  *)
(* of the community modules: SumFunctionOnSet(f, S) adds f[x] over x in S. *)
(* And that functions exist that are defined from the value before.        *)
(***************************************************************************)
EXTENDS Integers, FiniteSets, Functions, FiniteSetTheorems, WellFoundedInduction, TLAPS

LEMMA Induction ==
  ASSUME NEW S, 0 \in S, \A n \in Nat : n \in S => n + 1 \in S
  PROVE  Nat \subseteq S
  <1> DEFINE R == OpToRel(<, Nat)
             T == Nat \ S
  <1>1. SUFFICES ASSUME T # {} PROVE FALSE
    BY DEF T
  <1>2. IsWellFoundedOn(R, Nat)
    BY NatLessThanWellFounded
  <1>3. PICK x \in T : \A y \in T : <<y, x>> \notin R
    <2>1. T \subseteq Nat
      BY DEF T
    <2> HIDE DEF R, T
    <2> QED BY <1>1, <1>2, <2>1, WFMin
  <1>4. x \in Nat /\ x \notin S /\ \A y \in T : ~(y < x)
    BY <1>3 DEF OpToRel, T
  <1>5. x # 0
    BY <1>4
  <1>6. x - 1 \in Nat /\ x - 1 < x /\ (x - 1) + 1 = x
    BY <1>4, <1>5
  <1>7. x - 1 \in S
    BY <1>6, <1>4 DEF T
  <1> QED
    BY <1>6, <1>7, <1>4

(* Finite sets are built element by element                                *)
LEMMA FiniteInduction ==
  ASSUME NEW S, IsFiniteSet(S), NEW Q, {} \in Q,
         \A T \in SUBSET S : \A x \in S \ T : T \in Q => T \cup {x} \in Q
  PROVE  S \in Q
  <1> DEFINE N == {n \in Nat : \A T \in SUBSET S : Cardinality(T) = n => T \in Q}
  <1>1. 0 \in N
    <2> SUFFICES ASSUME NEW T \in SUBSET S, Cardinality(T) = 0 PROVE T \in Q
      BY DEF N
    <2> QED
      BY FS_Subset, FS_EmptySet
  <1>2. ASSUME NEW n \in Nat, n \in N PROVE n + 1 \in N
    <2> SUFFICES ASSUME NEW T \in SUBSET S, Cardinality(T) = n + 1 PROVE T \in Q
      BY DEF N
    <2>1. IsFiniteSet(T) /\ T # {}
      BY FS_Subset, FS_EmptySet
    <2>2. PICK x \in T : TRUE
      BY <2>1
    <2>3. IsFiniteSet(T \ {x}) /\ Cardinality(T \ {x}) = Cardinality(T) - 1
      BY <2>1, <2>2, FS_RemoveElement
    <2>4. Cardinality(T \ {x}) = n
      BY <2>3
    <2>5. T \ {x} \in Q
      BY <1>2, <2>4 DEF N
    <2>6. (T \ {x}) \cup {x} = T /\ x \in S \ (T \ {x}) /\ T \ {x} \in SUBSET S
      BY <2>2
    <2> QED
      BY <2>5, <2>6
  <1>3. Nat \subseteq N
    <2> HIDE DEF N
    <2> QED BY <1>1, <1>2, Induction
  <1>4. Cardinality(S) \in Nat
    BY FS_CardinalityType
  <1> QED
    BY <1>3, <1>4 DEF N

-----------------------------------------------------------------------------
(* The recursive function under a sum.                                     *)
First(s) == CHOOSE x \in s : TRUE

Summing(f, D, iter) ==
  iter = [s \in SUBSET D |-> IF s = {} THEN 0 ELSE f[First(s)] + iter[s \ {First(s)}]]

Iter(f, D) == CHOOSE iter : Summing(f, D, iter)

LEMMA SumIter == ASSUME NEW f, NEW D PROVE SumFunctionOnSet(f, D) = Iter(f, D)[D]
  BY DEF SumFunctionOnSet, FoldFunctionOnSet, MapThenFoldSet, Iter, Summing, First

LEMMA FirstIn == ASSUME NEW s, s # {} PROVE First(s) \in s
  BY DEF First

LEMMA IterSums ==
  ASSUME NEW D, IsFiniteSet(D), NEW f
  PROVE  Summing(f, D, Iter(f, D))
  <1> DEFINE Small(n) == {s \in SUBSET D : Cardinality(s) <= n}
             Partial(g, n) ==
               g = [s \in Small(n) |-> IF s = {} THEN 0 ELSE f[First(s)] + g[s \ {First(s)}]]
             N == {n \in Nat : \E g : Partial(g, n)}
  <1>1. 0 \in N
    <2>1. Small(0) = {{}}
      BY FS_Subset, FS_EmptySet, FS_CardinalityType
    <2>2. Partial([s \in Small(0) |-> 0], 0)
      BY <2>1
    <2> QED
      BY <2>2
  <1>2. ASSUME NEW n \in Nat, n \in N PROVE n + 1 \in N
    <2>1. PICK g : Partial(g, n)
      BY <1>2
    <2> DEFINE h == [s \in Small(n + 1) |->
                      IF s = {} THEN 0 ELSE f[First(s)] + g[s \ {First(s)}]]
    <2>2. ASSUME NEW s \in Small(n + 1), s # {} PROVE h[s \ {First(s)}] = g[s \ {First(s)}]
      <3> DEFINE t == s \ {First(s)}
      <3>1. IsFiniteSet(s) /\ First(s) \in s
        BY <2>2, FS_Subset, FirstIn
      <3>2. t \in SUBSET D /\ Cardinality(t) = Cardinality(s) - 1 /\ Cardinality(s) \in Nat
        BY <3>1, FS_RemoveElement, FS_CardinalityType
      <3>3. t \in Small(n) /\ t \in Small(n + 1)
        BY <3>2
      <3> HIDE DEF t, Small
      <3>4. h[t] = IF t = {} THEN 0 ELSE f[First(t)] + g[t \ {First(t)}]
        BY <3>3
      <3>5. g[t] = IF t = {} THEN 0 ELSE f[First(t)] + g[t \ {First(t)}]
        BY <2>1, <3>3
      <3> QED
        BY <3>4, <3>5 DEF t
    <2>3. Partial(h, n + 1)
      <3> HIDE DEF Small
      <3> QED BY <2>2
    <2>4. \E i : Partial(i, n + 1)
      <3> HIDE DEF h, Partial
      <3> QED BY <2>3
    <2> HIDE DEF Partial
    <2> QED
      BY <2>4
  <1>3. Nat \subseteq N
    <2> HIDE DEF N
    <2> QED BY <1>1, <1>2, Induction
  <1>4. Cardinality(D) \in Nat
    BY FS_CardinalityType
  <1>5. PICK g : Partial(g, Cardinality(D))
    BY <1>3, <1>4
  <1>6. Small(Cardinality(D)) = SUBSET D
    BY FS_Subset
  <1>7. Summing(f, D, g)
    <2> HIDE DEF Small
    <2> QED BY <1>5, <1>6 DEF Summing
  <1> QED
    BY <1>7 DEF Iter

LEMMA IterNone == ASSUME NEW D, IsFiniteSet(D), NEW f PROVE Iter(f, D)[{}] = 0
  <1>1. PICK iter : iter = Iter(f, D)
    OBVIOUS
  <1>2. iter = [t \in SUBSET D |-> IF t = {} THEN 0 ELSE f[First(t)] + iter[t \ {First(t)}]]
    <2>1. Summing(f, D, Iter(f, D))
      BY IterSums
    <2> QED BY <1>1, <2>1 DEF Summing
  <1> QED
    BY <1>1, <1>2

LEMMA IterStep ==
  ASSUME NEW D, IsFiniteSet(D), NEW f, NEW s, s \subseteq D, s # {}
  PROVE  Iter(f, D)[s] = f[First(s)] + Iter(f, D)[s \ {First(s)}]
  <1>1. PICK iter : iter = Iter(f, D)
    OBVIOUS
  <1>2. iter = [t \in SUBSET D |-> IF t = {} THEN 0 ELSE f[First(t)] + iter[t \ {First(t)}]]
    <2>1. Summing(f, D, Iter(f, D))
      BY IterSums
    <2> QED BY <1>1, <2>1 DEF Summing
  <1> QED
    BY <1>1, <1>2

LEMMA IterBoth ==
  ASSUME NEW D, IsFiniteSet(D), NEW E, IsFiniteSet(E), NEW f, NEW g, NEW s, s # {},
         s \subseteq D, s \subseteq E, f[First(s)] = g[First(s)],
         Iter(f, D)[s \ {First(s)}] = Iter(g, E)[s \ {First(s)}]
  PROVE  Iter(f, D)[s] = Iter(g, E)[s]
  <1>1. Iter(f, D)[s] = f[First(s)] + Iter(f, D)[s \ {First(s)}]
    BY IterStep
  <1>2. Iter(g, E)[s] = g[First(s)] + Iter(g, E)[s \ {First(s)}]
    BY IterStep
  <1> QED
    BY <1>1, <1>2

(* It does not depend on what is not added up                              *)
LEMMA IterSame ==
  ASSUME NEW D, IsFiniteSet(D), NEW E, IsFiniteSet(E), NEW f, NEW g, NEW S \in SUBSET (D \cap E),
         \A x \in S : f[x] = g[x]
  PROVE  Iter(f, D)[S] = Iter(g, E)[S]
  <1> DEFINE N == {n \in Nat : \A s \in SUBSET S : Cardinality(s) = n => Iter(f, D)[s] = Iter(g, E)[s]}
  <1>1. IsFiniteSet(S)
    BY FS_Subset
  <1>2. 0 \in N
    <2> SUFFICES ASSUME NEW s \in SUBSET S, Cardinality(s) = 0 PROVE Iter(f, D)[s] = Iter(g, E)[s]
      BY DEF N
    <2>1. s = {}
      BY <1>1, FS_Subset, FS_EmptySet
    <2> QED
      BY <2>1, IterNone
  <1>3. ASSUME NEW n \in Nat, n \in N PROVE n + 1 \in N
    <2> SUFFICES ASSUME NEW s \in SUBSET S, Cardinality(s) = n + 1
                 PROVE  Iter(f, D)[s] = Iter(g, E)[s]
      BY DEF N
    <2>1. IsFiniteSet(s) /\ s # {}
      BY <1>1, FS_Subset, FS_EmptySet
    <2>2. First(s) \in s
      BY <2>1, FirstIn
    <2>3. Cardinality(s \ {First(s)}) = n
      <3>1. Cardinality(s \ {First(s)}) = Cardinality(s) - 1
        BY <2>1, <2>2, FS_RemoveElement
      <3> QED BY <3>1
    <2>4. Iter(f, D)[s \ {First(s)}] = Iter(g, E)[s \ {First(s)}]
      BY <1>3, <2>3 DEF N
    <2>5. f[First(s)] = g[First(s)] /\ s \subseteq D /\ s \subseteq E
      BY <2>2
    <2> QED
      BY <2>1, <2>4, <2>5, IterBoth
  <1>4. Nat \subseteq N
    <2> HIDE DEF N
    <2> QED BY <1>2, <1>3, Induction
  <1>5. Cardinality(S) \in Nat
    BY <1>1, FS_CardinalityType
  <1> QED
    BY <1>4, <1>5 DEF N

-----------------------------------------------------------------------------
(* Sums.                                                                   *)
LEMMA SumOfNone == ASSUME NEW f PROVE SumFunctionOnSet(f, {}) = 0
  BY SumIter, IterNone, FS_EmptySet

LEMMA SumSame ==
  ASSUME NEW S, IsFiniteSet(S), NEW f, NEW g, \A x \in S : f[x] = g[x]
  PROVE  SumFunctionOnSet(f, S) = SumFunctionOnSet(g, S)
  BY SumIter, IterSame

LEMMA SumFirst ==
  ASSUME NEW S, IsFiniteSet(S), NEW f, S # {}
  PROVE  SumFunctionOnSet(f, S) = f[First(S)] + SumFunctionOnSet(f, S \ {First(S)})
  <1> DEFINE T == S \ {First(S)}
  <1>1. IsFiniteSet(T)
    BY FS_Subset
  <1>2. Iter(f, S)[S] = f[First(S)] + Iter(f, S)[T]
    BY IterStep
  <1>3. Iter(f, S)[T] = Iter(f, T)[T]
    BY <1>1, IterSame
  <1> QED
    BY <1>2, <1>3, SumIter

(* Integers can be taken in any order.                                     *)
LEMMA SumType ==
  ASSUME NEW S, IsFiniteSet(S), NEW f, \A x \in S : f[x] \in Int
  PROVE  \A T \in SUBSET S : SumFunctionOnSet(f, T) \in Int
  <1> DEFINE N == {n \in Nat : \A T \in SUBSET S : Cardinality(T) = n => SumFunctionOnSet(f, T) \in Int}
  <1>1. 0 \in N
    <2> SUFFICES ASSUME NEW T \in SUBSET S, Cardinality(T) = 0 PROVE SumFunctionOnSet(f, T) \in Int
      BY DEF N
    <2>1. T = {}
      BY FS_Subset, FS_EmptySet
    <2> QED
      BY <2>1, SumOfNone
  <1>2. ASSUME NEW n \in Nat, n \in N PROVE n + 1 \in N
    <2> SUFFICES ASSUME NEW T \in SUBSET S, Cardinality(T) = n + 1
                 PROVE  SumFunctionOnSet(f, T) \in Int
      BY DEF N
    <2>1. IsFiniteSet(T) /\ T # {}
      BY FS_Subset, FS_EmptySet
    <2>2. First(T) \in T
      BY <2>1, FirstIn
    <2>3. Cardinality(T \ {First(T)}) = n
      <3>1. Cardinality(T \ {First(T)}) = Cardinality(T) - 1
        BY <2>1, <2>2, FS_RemoveElement
      <3> QED
        BY <3>1
    <2>4. SumFunctionOnSet(f, T \ {First(T)}) \in Int
      BY <1>2, <2>3 DEF N
    <2>5. SumFunctionOnSet(f, T) = f[First(T)] + SumFunctionOnSet(f, T \ {First(T)})
      BY <2>1, SumFirst
    <2>6. f[First(T)] \in Int
      BY <2>2
    <2> QED
      BY <2>4, <2>5, <2>6
  <1>3. Nat \subseteq N
    <2> HIDE DEF N
    <2> QED BY <1>1, <1>2, Induction
  <1> SUFFICES ASSUME NEW T \in SUBSET S PROVE SumFunctionOnSet(f, T) \in Int
    OBVIOUS
  <1>4. Cardinality(T) \in Nat
    BY FS_Subset, FS_CardinalityType
  <1> QED
    BY <1>3, <1>4 DEF N

LEMMA SumInt ==
  ASSUME NEW S, IsFiniteSet(S), NEW f, \A x \in S : f[x] \in Int
  PROVE  SumFunctionOnSet(f, S) \in Int
  BY SumType

LEMMA SumSplit ==
  ASSUME NEW S, IsFiniteSet(S), NEW f, \A x \in S : f[x] \in Int
  PROVE  \A T \in SUBSET S : \A x \in T :
           SumFunctionOnSet(f, T) = f[x] + SumFunctionOnSet(f, T \ {x})
  <1> DEFINE Splits(T) == \A x \in T : SumFunctionOnSet(f, T) = f[x] + SumFunctionOnSet(f, T \ {x})
             N == {n \in Nat : \A T \in SUBSET S : Cardinality(T) = n => Splits(T)}
  <1>1. 0 \in N
    <2> SUFFICES ASSUME NEW T \in SUBSET S, Cardinality(T) = 0 PROVE Splits(T)
      BY DEF N
    <2>1. T = {}
      BY FS_Subset, FS_EmptySet
    <2> QED
      BY <2>1
  <1>2. ASSUME NEW n \in Nat, n \in N PROVE n + 1 \in N
    <2> SUFFICES ASSUME NEW T \in SUBSET S, Cardinality(T) = n + 1, NEW x \in T
                 PROVE  SumFunctionOnSet(f, T) = f[x] + SumFunctionOnSet(f, T \ {x})
      BY DEF N
    <2> DEFINE y == First(T)
    <2>1. IsFiniteSet(T) /\ y \in T /\ IsFiniteSet(T \ {x})
      BY FS_Subset, FirstIn
    <2>2. SumFunctionOnSet(f, T) = f[y] + SumFunctionOnSet(f, T \ {y})
      BY <2>1, SumFirst
    <2>3. CASE x = y
      BY <2>2, <2>3
    <2>4. CASE x # y
      <3>1. Cardinality(T \ {y}) = n /\ Cardinality(T \ {x}) = n
        <4>1. /\ Cardinality(T \ {y}) = Cardinality(T) - 1
              /\ Cardinality(T \ {x}) = Cardinality(T) - 1
          BY <2>1, FS_RemoveElement
        <4> QED
          BY <4>1
      <3>2. Splits(T \ {y}) /\ Splits(T \ {x})
        <4> HIDE DEF Splits, y
        <4> QED BY <1>2, <3>1 DEF N
      <3>3. SumFunctionOnSet(f, T \ {y}) = f[x] + SumFunctionOnSet(f, (T \ {y}) \ {x})
        BY <2>4, <3>2
      <3>4. SumFunctionOnSet(f, T \ {x}) = f[y] + SumFunctionOnSet(f, (T \ {x}) \ {y})
        BY <2>1, <2>4, <3>2
      <3>5. (T \ {y}) \ {x} = (T \ {x}) \ {y}
        OBVIOUS
      <3>6. f[x] \in Int /\ f[y] \in Int /\ SumFunctionOnSet(f, (T \ {x}) \ {y}) \in Int
        BY <2>1, SumType
      <3>7. PICK a : a = SumFunctionOnSet(f, (T \ {x}) \ {y})
        OBVIOUS
      <3>8. SumFunctionOnSet(f, T) = f[y] + (f[x] + a)
        BY <2>2, <3>3, <3>5, <3>7
      <3>9. SumFunctionOnSet(f, T \ {x}) = f[y] + a
        BY <3>4, <3>7
      <3>10. a \in Int
        BY <3>6, <3>7
      <3> HIDE DEF y, Splits
      <3> QED
        BY <3>6, <3>8, <3>9, <3>10
    <2> QED
      BY <2>3, <2>4
  <1>3. Nat \subseteq N
    <2> HIDE DEF N
    <2> QED BY <1>1, <1>2, Induction
  <1> SUFFICES ASSUME NEW T \in SUBSET S PROVE Splits(T)
    OBVIOUS
  <1>4. Cardinality(T) \in Nat
    BY FS_Subset, FS_CardinalityType
  <1> HIDE DEF Splits
  <1> QED
    BY <1>3, <1>4 DEF N

LEMMA SumWithout ==
  ASSUME NEW S, IsFiniteSet(S), NEW f, \A y \in S : f[y] \in Int, NEW x \in S
  PROVE  SumFunctionOnSet(f, S) = f[x] + SumFunctionOnSet(f, S \ {x})
  BY SumSplit

LEMMA SumWith ==
  ASSUME NEW S, IsFiniteSet(S), NEW x, x \notin S, NEW f, \A y \in S \cup {x} : f[y] \in Int
  PROVE  SumFunctionOnSet(f, S \cup {x}) = SumFunctionOnSet(f, S) + f[x]
  <1>1. IsFiniteSet(S \cup {x})
    BY FS_AddElement
  <1>2. SumFunctionOnSet(f, S \cup {x}) = f[x] + SumFunctionOnSet(f, (S \cup {x}) \ {x})
    BY <1>1, SumWithout
  <1>3. (S \cup {x}) \ {x} = S
    OBVIOUS
  <1>4. PICK a : a = SumFunctionOnSet(f, S)
    OBVIOUS
  <1>5. a \in Int /\ f[x] \in Int
    BY <1>4, SumInt
  <1>6. SumFunctionOnSet(f, S \cup {x}) = f[x] + a
    BY <1>2, <1>3, <1>4
  <1> QED
    BY <1>4, <1>5, <1>6

(* One term changes                                                        *)
LEMMA SumUpdate ==
  ASSUME NEW S, IsFiniteSet(S), NEW f, \A y \in S : f[y] \in Int, NEW x \in S,
         NEW g, g[x] \in Int, \A y \in S \ {x} : g[y] = f[y]
  PROVE  SumFunctionOnSet(g, S) = SumFunctionOnSet(f, S) + (g[x] - f[x])
  <1>1. IsFiniteSet(S \ {x}) /\ \A y \in S : g[y] \in Int
    BY FS_Subset
  <1>2. SumFunctionOnSet(f, S) = f[x] + SumFunctionOnSet(f, S \ {x})
    BY SumWithout
  <1>3. SumFunctionOnSet(g, S) = g[x] + SumFunctionOnSet(g, S \ {x})
    BY <1>1, SumWithout
  <1>4. SumFunctionOnSet(g, S \ {x}) = SumFunctionOnSet(f, S \ {x})
    BY <1>1, SumSame
  <1>5. f[x] \in Int /\ SumFunctionOnSet(f, S \ {x}) \in Int
    BY <1>1, SumInt
  <1> QED
    BY <1>2, <1>3, <1>4, <1>5

LEMMA SumUp ==
  ASSUME NEW S, IsFiniteSet(S), NEW f, \A y \in S : f[y] \in Int, NEW x \in S, NEW d \in Int,
         NEW g, g[x] = f[x] + d, \A y \in S \ {x} : g[y] = f[y]
  PROVE  SumFunctionOnSet(g, S) = SumFunctionOnSet(f, S) + d
  <1>1. f[x] \in Int /\ g[x] \in Int /\ g[x] - f[x] = d
    OBVIOUS
  <1>2. SumFunctionOnSet(g, S) = SumFunctionOnSet(f, S) + (g[x] - f[x])
    BY <1>1, SumUpdate
  <1>3. QED
    BY <1>1, <1>2

LEMMA SumUnion ==
  ASSUME NEW S, IsFiniteSet(S), NEW T, IsFiniteSet(T), S \cap T = {},
         NEW f, \A x \in S \cup T : f[x] \in Int
  PROVE  SumFunctionOnSet(f, S \cup T) = SumFunctionOnSet(f, S) + SumFunctionOnSet(f, T)
  <1> DEFINE Q == {U \in SUBSET T :
                     SumFunctionOnSet(f, S \cup U) = SumFunctionOnSet(f, S) + SumFunctionOnSet(f, U)}
  <1>1. {} \in Q
    <2>1. S \cup {} = S
      OBVIOUS
    <2> QED BY <2>1, SumOfNone, SumInt
  <1>2. ASSUME NEW U \in SUBSET T, NEW x \in T \ U, U \in Q PROVE U \cup {x} \in Q
    <2>1. IsFiniteSet(U) /\ IsFiniteSet(S \cup U)
      BY FS_Subset, FS_Union
    <2>2. x \notin S \cup U /\ S \cup (U \cup {x}) = (S \cup U) \cup {x}
      OBVIOUS
    <2>3. SumFunctionOnSet(f, (S \cup U) \cup {x}) = SumFunctionOnSet(f, S \cup U) + f[x]
      BY <2>1, <2>2, SumWith
    <2>4. SumFunctionOnSet(f, U \cup {x}) = SumFunctionOnSet(f, U) + f[x]
      BY <2>1, SumWith
    <2>5. PICK a : a = SumFunctionOnSet(f, S)
      OBVIOUS
    <2>6. PICK b : b = SumFunctionOnSet(f, U)
      OBVIOUS
    <2>7. a \in Int /\ b \in Int /\ f[x] \in Int
      BY <2>1, <2>5, <2>6, SumInt
    <2>8. SumFunctionOnSet(f, S \cup U) = a + b
      BY <1>2, <2>5, <2>6
    <2>9. SumFunctionOnSet(f, S \cup (U \cup {x})) = (a + b) + f[x]
      BY <2>2, <2>3, <2>8
    <2>10. SumFunctionOnSet(f, S) + SumFunctionOnSet(f, U \cup {x}) = a + (b + f[x])
      BY <2>4, <2>5, <2>6
    <2>11. SumFunctionOnSet(f, S \cup (U \cup {x})) = SumFunctionOnSet(f, S) + SumFunctionOnSet(f, U \cup {x})
      BY <2>7, <2>9, <2>10
    <2> QED
      BY <2>11
  <1>3. T \in Q
    <2> HIDE DEF Q
    <2> QED BY <1>1, <1>2, FiniteInduction
  <1> QED
    BY <1>3

(* A sum is at least what each part adds                                   *)
LEMMA SumMore ==
  ASSUME NEW S, IsFiniteSet(S), NEW f, NEW g,
         \A x \in S : f[x] \in Int /\ g[x] \in Int /\ f[x] <= g[x]
  PROVE  SumFunctionOnSet(f, S) <= SumFunctionOnSet(g, S)
  <1> DEFINE Q == {T \in SUBSET S : SumFunctionOnSet(f, T) <= SumFunctionOnSet(g, T)}
  <1>1. {} \in Q
    BY SumOfNone
  <1>2. ASSUME NEW T \in SUBSET S, NEW x \in S \ T, T \in Q PROVE T \cup {x} \in Q
    <2>1. IsFiniteSet(T)
      BY FS_Subset
    <2>2. /\ SumFunctionOnSet(f, T \cup {x}) = SumFunctionOnSet(f, T) + f[x]
          /\ SumFunctionOnSet(g, T \cup {x}) = SumFunctionOnSet(g, T) + g[x]
      BY <2>1, SumWith
    <2>3. PICK a : a = SumFunctionOnSet(f, T)
      OBVIOUS
    <2>4. PICK b : b = SumFunctionOnSet(g, T)
      OBVIOUS
    <2>5. a \in Int /\ b \in Int
      BY <2>1, <2>3, <2>4, SumInt
    <2>6. a <= b
      BY <1>2, <2>3, <2>4
    <2>7. SumFunctionOnSet(f, T \cup {x}) = a + f[x] /\ SumFunctionOnSet(g, T \cup {x}) = b + g[x]
      BY <2>2, <2>3, <2>4
    <2>8. SumFunctionOnSet(f, T \cup {x}) <= SumFunctionOnSet(g, T \cup {x})
      BY <2>5, <2>6, <2>7
    <2> QED
      BY <2>8
  <1>3. S \in Q
    <2> HIDE DEF Q
    <2> QED BY <1>1, <1>2, FiniteInduction
  <1> QED
    BY <1>3

(* A sum of sums                                                           *)
LEMMA SumBoth ==
  ASSUME NEW S, IsFiniteSet(S), NEW f, NEW g, NEW h,
         \A x \in S : g[x] \in Int /\ h[x] \in Int /\ f[x] = g[x] + h[x]
  PROVE  SumFunctionOnSet(f, S) = SumFunctionOnSet(g, S) + SumFunctionOnSet(h, S)
  <1> DEFINE Q == {T \in SUBSET S :
                     SumFunctionOnSet(f, T) = SumFunctionOnSet(g, T) + SumFunctionOnSet(h, T)}
  <1>1. {} \in Q
    BY SumOfNone
  <1>2. ASSUME NEW T \in SUBSET S, NEW x \in S \ T, T \in Q PROVE T \cup {x} \in Q
    <2>1. IsFiniteSet(T) /\ \A y \in T \cup {x} : f[y] \in Int /\ g[y] \in Int /\ h[y] \in Int
      BY FS_Subset
    <2>2. /\ SumFunctionOnSet(f, T \cup {x}) = SumFunctionOnSet(f, T) + f[x]
          /\ SumFunctionOnSet(g, T \cup {x}) = SumFunctionOnSet(g, T) + g[x]
          /\ SumFunctionOnSet(h, T \cup {x}) = SumFunctionOnSet(h, T) + h[x]
      BY <2>1, SumWith
    <2>3. PICK b \in Int : b = SumFunctionOnSet(g, T)
      BY <2>1, SumInt
    <2>4. PICK c \in Int : c = SumFunctionOnSet(h, T)
      BY <2>1, SumInt
    <2>5. SumFunctionOnSet(f, T) = b + c
      BY <1>2, <2>3, <2>4
    <2>6. PICK d \in Int : d = g[x]
      OBVIOUS
    <2>7. PICK e \in Int : e = h[x]
      OBVIOUS
    <2>8. f[x] = d + e
      BY <2>6, <2>7
    <2>9. SumFunctionOnSet(f, T \cup {x}) = (b + c) + (d + e)
      BY <2>2, <2>5, <2>8
    <2>10. SumFunctionOnSet(g, T \cup {x}) + SumFunctionOnSet(h, T \cup {x}) = (b + d) + (c + e)
      BY <2>2, <2>3, <2>4, <2>6, <2>7
    <2>11. SumFunctionOnSet(f, T \cup {x}) = SumFunctionOnSet(g, T \cup {x}) + SumFunctionOnSet(h, T \cup {x})
      BY <2>9, <2>10
    <2>12. QED
      BY <2>11
  <1>3. S \in Q
    <2> HIDE DEF Q
    <2>1. QED
      BY <1>1, <1>2, FiniteInduction
  <1>4. QED
    BY <1>3

LEMMA SumScaled ==
  ASSUME NEW S, IsFiniteSet(S), NEW c \in Int, NEW f, NEW g, \A x \in S : f[x] \in Int /\ g[x] = c * f[x]
  PROVE  SumFunctionOnSet(g, S) = c * SumFunctionOnSet(f, S)
  <1> DEFINE Q == {T \in SUBSET S : SumFunctionOnSet(g, T) = c * SumFunctionOnSet(f, T)}
  <1>1. {} \in Q
    <2>1. c * 0 = 0
      OBVIOUS
    <2>2. QED
      BY <2>1, SumOfNone
  <1>2. ASSUME NEW T \in SUBSET S, NEW x \in S \ T, T \in Q PROVE T \cup {x} \in Q
    <2>1. IsFiniteSet(T) /\ \A y \in T \cup {x} : f[y] \in Int /\ g[y] \in Int
      <3>1. \A y \in S : c * f[y] \in Int
        OBVIOUS
      <3>2. QED
        BY <3>1, FS_Subset
    <2>2. /\ SumFunctionOnSet(f, T \cup {x}) = SumFunctionOnSet(f, T) + f[x]
          /\ SumFunctionOnSet(g, T \cup {x}) = SumFunctionOnSet(g, T) + g[x]
      BY <2>1, SumWith
    <2>3. PICK a \in Int : a = SumFunctionOnSet(f, T)
      BY <2>1, SumInt
    <2>4. PICK b \in Int : b = f[x]
      OBVIOUS
    <2>5. SumFunctionOnSet(f, T \cup {x}) = a + b
      BY <2>2, <2>3, <2>4
    <2>6. SumFunctionOnSet(g, T \cup {x}) = c * a + c * b
      BY <1>2, <2>2, <2>3, <2>4
    <2>7. \A i, j, k \in Int : i * (j + k) = i * j + i * k
      OBVIOUS
    <2>8. c * (a + b) = c * a + c * b
      BY <2>7
    <2>9. SumFunctionOnSet(g, T \cup {x}) = c * SumFunctionOnSet(f, T \cup {x})
      BY <2>5, <2>6, <2>8
    <2>10. QED
      BY <2>9
  <1>3. S \in Q
    <2> HIDE DEF Q
    <2>1. QED
      BY <1>1, <1>2, FiniteInduction
  <1>4. QED
    BY <1>3

LEMMA SumNat ==
  ASSUME NEW S, IsFiniteSet(S), NEW f, \A x \in S : f[x] \in Nat
  PROVE  SumFunctionOnSet(f, S) \in Nat
  <1> DEFINE Q == {T \in SUBSET S : SumFunctionOnSet(f, T) \in Nat}
  <1>1. {} \in Q
    BY SumOfNone
  <1>2. ASSUME NEW T \in SUBSET S, NEW x \in S \ T, T \in Q PROVE T \cup {x} \in Q
    <2>1. IsFiniteSet(T) /\ \A y \in T \cup {x} : f[y] \in Int
      BY FS_Subset
    <2>2. SumFunctionOnSet(f, T \cup {x}) = SumFunctionOnSet(f, T) + f[x]
      BY <2>1, SumWith
    <2>3. PICK a \in Nat : a = SumFunctionOnSet(f, T)
      BY <1>2
    <2>4. SumFunctionOnSet(f, T \cup {x}) = a + f[x]
      BY <2>2, <2>3
    <2>5. a + f[x] \in Nat
      OBVIOUS
    <2>6. SumFunctionOnSet(f, T \cup {x}) \in Nat
      BY <2>4, <2>5
    <2> QED
      BY <2>6
  <1>3. S \in Q
    <2> HIDE DEF Q
    <2> QED BY <1>1, <1>2, FiniteInduction
  <1> QED
    BY <1>3

(* What is not negative and adds up to nothing is nothing.                 *)
LEMMA SumZero ==
  ASSUME NEW S, IsFiniteSet(S), NEW f, \A x \in S : f[x] \in Nat, SumFunctionOnSet(f, S) = 0
  PROVE  \A x \in S : f[x] = 0
  <1>1. SUFFICES ASSUME NEW x \in S PROVE f[x] = 0
    OBVIOUS
  <1>2. IsFiniteSet(S \ {x})
    BY FS_Subset
  <1>3. PICK a \in Nat : a = SumFunctionOnSet(f, S \ {x})
    BY <1>2, SumNat
  <1>4. SumFunctionOnSet(f, S) = f[x] + a
    <2>1. \A y \in S : f[y] \in Int
      OBVIOUS
    <2>2. QED
      BY <1>3, <2>1, SumWithout
  <1>5. QED
    BY <1>3, <1>4

-----------------------------------------------------------------------------
(* Sums of whole functions, of which one value is new or has changed.      *)
LEMMA TotalExtended ==
  ASSUME NEW f, IsFiniteSet(DOMAIN f), \A y \in DOMAIN f : f[y] \in Int, NEW x, x \notin DOMAIN f,
         NEW g, DOMAIN g = DOMAIN f \cup {x}, g[x] \in Int, \A y \in DOMAIN f : g[y] = f[y]
  PROVE  SumFunction(g) = SumFunction(f) + g[x]
  <1>1. SumFunctionOnSet(g, DOMAIN f \cup {x}) = SumFunctionOnSet(g, DOMAIN f) + g[x]
    BY SumWith
  <1>2. SumFunctionOnSet(g, DOMAIN f) = SumFunctionOnSet(f, DOMAIN f)
    BY SumSame
  <1> QED
    BY <1>1, <1>2 DEF SumFunction

LEMMA TotalChanged ==
  ASSUME NEW f, IsFiniteSet(DOMAIN f), \A y \in DOMAIN f : f[y] \in Int, NEW x \in DOMAIN f,
         NEW g, DOMAIN g = DOMAIN f, g[x] \in Int, \A y \in DOMAIN f \ {x} : g[y] = f[y]
  PROVE  SumFunction(g) = SumFunction(f) + (g[x] - f[x])
  BY SumUpdate DEF SumFunction

LEMMA TotalInt ==
  ASSUME NEW f, IsFiniteSet(DOMAIN f), \A y \in DOMAIN f : f[y] \in Int
  PROVE  SumFunction(f) \in Int
  BY SumInt DEF SumFunction

LEMMA TotalOfNone == ASSUME NEW f, DOMAIN f = {} PROVE SumFunction(f) = 0
  BY SumOfNone DEF SumFunction

LEMMA TotalOfZeros ==
  ASSUME NEW f, IsFiniteSet(DOMAIN f), \A y \in DOMAIN f : f[y] = 0
  PROVE  SumFunction(f) = 0
  <1> DEFINE Q == {T \in SUBSET (DOMAIN f) : SumFunctionOnSet(f, T) = 0}
  <1>1. {} \in Q
    BY SumOfNone
  <1>2. ASSUME NEW T \in SUBSET (DOMAIN f), NEW x \in (DOMAIN f) \ T, T \in Q PROVE T \cup {x} \in Q
    <2>1. IsFiniteSet(T) /\ \A y \in T \cup {x} : f[y] \in Int
      BY FS_Subset
    <2>2. SumFunctionOnSet(f, T \cup {x}) = SumFunctionOnSet(f, T) + f[x]
      BY <2>1, SumWith
    <2>3. SumFunctionOnSet(f, T) = 0 /\ f[x] = 0
      BY <1>2
    <2>4. SumFunctionOnSet(f, T \cup {x}) = 0
      BY <2>2, <2>3
    <2> QED
      BY <2>4
  <1>3. DOMAIN f \in Q
    <2> HIDE DEF Q
    <2> QED BY <1>1, <1>2, FiniteInduction
  <1> QED
    BY <1>3 DEF SumFunction

(* A part of what is not negative adds up to no more.                      *)
LEMMA SumPart ==
  ASSUME NEW S, IsFiniteSet(S), NEW T \in SUBSET S, NEW f, \A x \in S : f[x] \in Nat
  PROVE  SumFunctionOnSet(f, T) <= SumFunctionOnSet(f, S)
  <1>1. IsFiniteSet(T) /\ IsFiniteSet(S \ T) /\ T \cap (S \ T) = {} /\ T \cup (S \ T) = S
    BY FS_Subset
  <1>2. PICK a \in Nat : a = SumFunctionOnSet(f, T)
    BY <1>1, SumNat
  <1>3. PICK b \in Nat : b = SumFunctionOnSet(f, S \ T)
    BY <1>1, SumNat
  <1>4. \A x \in T \cup (S \ T) : f[x] \in Int
    BY <1>1
  <1>5. SumFunctionOnSet(f, T \cup (S \ T)) = a + b
    BY <1>1, <1>2, <1>3, <1>4, SumUnion
  <1>6. SumFunctionOnSet(f, S) = a + b
    BY <1>1, <1>5
  <1>7. QED
    BY <1>2, <1>6

(* The order, and the names, of what is added up do not matter.            *)
LEMMA SumRenamed ==
  ASSUME NEW K, IsFiniteSet(K), NEW b, \A k, l \in K : b[k] = b[l] => k = l,
         NEW f, NEW g, \A k \in K : g[k] = f[b[k]] /\ g[k] \in Int
  PROVE  SumFunctionOnSet(g, K) = SumFunctionOnSet(f, {b[k] : k \in K})
  <1> DEFINE Q == {T \in SUBSET K :
                     /\ IsFiniteSet({b[k] : k \in T})
                     /\ SumFunctionOnSet(g, T) = SumFunctionOnSet(f, {b[k] : k \in T})}
  <1>1. {} \in Q
    <2>1. {b[k] : k \in {}} = {}
      OBVIOUS
    <2>2. QED
      BY <2>1, SumOfNone, FS_EmptySet
  <1>2. ASSUME NEW T \in SUBSET K, NEW x \in K \ T, T \in Q PROVE T \cup {x} \in Q
    <2>1. PICK B : B = {b[k] : k \in T}
      OBVIOUS
    <2>2. IsFiniteSet(T) /\ IsFiniteSet(B)
      BY <1>2, <2>1, FS_Subset
    <2>3. PICK z : z = b[x]
      OBVIOUS
    <2>4. z \notin B /\ {b[k] : k \in T \cup {x}} = B \cup {z} /\ f[z] = g[x]
      BY <2>1, <2>3
    <2>5. \A y \in B \cup {z} : f[y] \in Int
      <3>1. SUFFICES ASSUME NEW y \in B \cup {z} PROVE f[y] \in Int
        OBVIOUS
      <3>2. PICK k \in K : y = b[k]
        BY <2>1, <2>3
      <3>3. QED
        BY <3>2
    <2>6. SumFunctionOnSet(f, B \cup {z}) = SumFunctionOnSet(f, B) + f[z]
      <3>1. IsFiniteSet(B)
        BY <2>2
      <3>2. z \notin B
        BY <2>4
      <3>3. QED
        BY ONLY <3>1, <3>2, <2>5, SumWith
    <2>7. SumFunctionOnSet(g, T \cup {x}) = SumFunctionOnSet(g, T) + g[x]
      <3>1. x \notin T /\ \A y \in T \cup {x} : g[y] \in Int
        OBVIOUS
      <3>2. QED
        BY <2>2, <3>1, SumWith
    <2>8. SumFunctionOnSet(g, T) = SumFunctionOnSet(f, B)
      BY <1>2, <2>1
    <2>9. SumFunctionOnSet(g, T \cup {x}) = SumFunctionOnSet(f, {b[k] : k \in T \cup {x}})
      BY <2>4, <2>6, <2>7, <2>8
    <2>10. IsFiniteSet({b[k] : k \in T \cup {x}})
      BY <2>2, <2>4, FS_AddElement
    <2>11. QED
      BY <2>9, <2>10
  <1>3. K \in Q
    <2> HIDE DEF Q
    <2>1. QED
      BY <1>1, <1>2, FiniteInduction
  <1>4. QED
    BY <1>3

(* A finite set has a least member.                                        *)
LEMMA LeastOf ==
  ASSUME NEW S, IsFiniteSet(S), NEW f, \A x \in S : f[x] \in Int, S # {}
  PROVE  \E m \in S : \A x \in S : f[m] <= f[x]
  <1> DEFINE Q == {T \in SUBSET S : T # {} => \E m \in T : \A x \in T : f[m] <= f[x]}
  <1>1. {} \in Q
    OBVIOUS
  <1>2. ASSUME NEW T \in SUBSET S, NEW x \in S \ T, T \in Q PROVE T \cup {x} \in Q
    <2>1. CASE T = {}
      BY <2>1
    <2>2. CASE T # {}
      <3>1. PICK m \in T : \A y \in T : f[m] <= f[y]
        BY <1>2, <2>2
      <3>2. f[m] \in Int /\ f[x] \in Int /\ \A y \in T : f[y] \in Int
        OBVIOUS
      <3>3. CASE f[m] <= f[x]
        BY <3>1, <3>3
      <3>4. CASE ~(f[m] <= f[x])
        <4>1. \A y \in T \cup {x} : f[x] <= f[y]
          BY <3>1, <3>2, <3>4
        <4>2. QED
          BY <4>1
      <3>5. QED
        BY <3>3, <3>4
    <2>3. QED
      BY <2>1, <2>2
  <1>3. S \in Q
    <2> HIDE DEF Q
    <2>1. QED
      BY <1>1, <1>2, FiniteInduction
  <1>4. QED
    BY <1>3

(* Counting is adding ones.                                                *)
LEMMA SumOfOnes ==
  ASSUME NEW S, IsFiniteSet(S), NEW T \in SUBSET S, NEW f, \A x \in S : f[x] = IF x \in T THEN 1 ELSE 0
  PROVE  SumFunctionOnSet(f, S) = Cardinality(T)
  <1> DEFINE Q == {U \in SUBSET S : SumFunctionOnSet(f, U) = Cardinality(U \cap T)}
  <1>1. {} \in Q
    <2>1. {} \cap T = {}
      OBVIOUS
    <2>2. QED
      BY <2>1, SumOfNone, FS_EmptySet
  <1>2. ASSUME NEW U \in SUBSET S, NEW x \in S \ U, U \in Q PROVE U \cup {x} \in Q
    <2>1. IsFiniteSet(U) /\ \A y \in U \cup {x} : f[y] \in Int
      BY FS_Subset
    <2>2. SumFunctionOnSet(f, U \cup {x}) = SumFunctionOnSet(f, U) + f[x]
      BY <2>1, SumWith
    <2>3. PICK c \in Nat : c = Cardinality(U \cap T)
      BY <2>1, FS_Subset, FS_CardinalityType
    <2>4. SumFunctionOnSet(f, U) = c
      BY <1>2, <2>3
    <2>5. CASE x \in T
      <3>1. (U \cup {x}) \cap T = (U \cap T) \cup {x} /\ x \notin U \cap T /\ IsFiniteSet(U \cap T)
        BY <2>1, <2>5, FS_Subset
      <3>2. Cardinality((U \cup {x}) \cap T) = c + 1
        BY <2>3, <3>1, FS_AddElement
      <3>3. QED
        BY <2>2, <2>4, <2>5, <3>2
    <2>6. CASE x \notin T
      <3>1. (U \cup {x}) \cap T = U \cap T
        BY <2>6
      <3>2. f[x] = 0
        BY <2>6
      <3>3. SumFunctionOnSet(f, U \cup {x}) = c
        BY <2>2, <2>4, <3>2
      <3>4. QED
        BY <2>3, <3>1, <3>3
    <2>7. QED
      BY <2>5, <2>6
  <1>3. S \in Q
    <2> HIDE DEF Q
    <2>1. QED
      BY <1>1, <1>2, FiniteInduction
  <1>4. S \cap T = T
    OBVIOUS
  <1>5. QED
    BY <1>3, <1>4

LEMMA SumOfSame ==
  ASSUME NEW S, IsFiniteSet(S), NEW c \in Int, NEW f, \A x \in S : f[x] = c
  PROVE  SumFunctionOnSet(f, S) = c * Cardinality(S)
  <1>1. PICK one : one = [x \in S |-> 1]
    OBVIOUS
  <1>2. SumFunctionOnSet(one, S) = Cardinality(S)
    BY <1>1, SumOfOnes
  <1>3. \A x \in S : one[x] \in Int /\ f[x] = c * one[x]
    BY <1>1
  <1>4. SumFunctionOnSet(f, S) = c * SumFunctionOnSet(one, S)
    BY <1>3, SumScaled
  <1>5. QED
    BY <1>2, <1>4

-----------------------------------------------------------------------------
(***************************************************************************)
(* Recursive functions.                                                    *)
(***************************************************************************)
(* Induction up to n                                                       *)
LEMMA UpToInduction ==
  ASSUME NEW n \in Nat, NEW S, 0 \in S, \A k \in 1..n : k - 1 \in S => k \in S
  PROVE  \A k \in 0..n : k \in S
  <1> DEFINE N == {k \in Nat : k <= n => k \in S}
  <1>1. 0 \in N
    OBVIOUS
  <1>2. ASSUME NEW k \in Nat, k \in N PROVE k + 1 \in N
    <2>1. CASE k + 1 <= n
      <3>1. k + 1 \in 1..n /\ (k + 1) - 1 = k /\ k <= n
        BY <2>1
      <3>2. QED
        BY <1>2, <3>1
    <2>2. QED
      BY <2>1
  <1>3. Nat \subseteq N
    <2> HIDE DEF N
    <2>1. QED
      BY <1>1, <1>2, Induction
  <1>4. QED
    BY <1>3

(* A state that is changed step by step exists after every step            *)
StaysIn(F, n, S) == \A k \in 1..n : \A s \in S : F[k][s] \in S

Goes(f, n, start, F) == \A k \in 0..n : f[k] = IF k = 0 THEN start ELSE F[k][f[k - 1]]

LEMMA StatesExist ==
  ASSUME NEW n \in Nat, NEW S, NEW start \in S, NEW F, StaysIn(F, n, S)
  PROVE  \E f \in [0..n -> S] : Goes(f, n, start, F)
  <1> DEFINE N == {m \in 0..n : \E f \in [0..n -> S] : Goes(f, m, start, F)}
  <1> USE DEF StaysIn
  <1>1. 0 \in N
    <2>1. PICK f : f = [k \in 0..n |-> start]
      OBVIOUS
    <2>2. f \in [0..n -> S] /\ \A k \in 0..0 : k = 0 /\ f[k] = start
      BY <2>1
    <2>3. Goes(f, 0, start, F)
      BY <2>2 DEF Goes
    <2>4. QED
      BY <2>2, <2>3
  <1>2. ASSUME NEW m \in 1..n, m - 1 \in N PROVE m \in N
    <2>1. PICK w \in [0..n -> S] : Goes(w, m - 1, start, F)
      BY <1>2
    <2>2. PICK f : f = [k \in 0..n |-> IF k = m THEN F[m][w[m - 1]] ELSE w[k]]
      OBVIOUS
    <2>3. m - 1 \in 0..n /\ m - 1 # m /\ m # 0
      OBVIOUS
    <2>4. f \in [0..n -> S]
      BY <2>1, <2>2, <2>3
    <2>5. ASSUME NEW k \in 0..m PROVE f[k] = IF k = 0 THEN start ELSE F[k][f[k - 1]]
      <3>1. CASE k = m
        <4>1. f[m] = F[m][w[m - 1]] /\ f[m - 1] = w[m - 1]
          BY <2>2, <2>3
        <4>2. QED
          BY <3>1, <4>1, <2>3
      <3>2. CASE k # m /\ k # 0
        <4>1. k \in 0..(m - 1) /\ k - 1 \in 0..n /\ k \in 0..n /\ k - 1 # m
          BY <3>2
        <4>2. f[k] = w[k] /\ f[k - 1] = w[k - 1]
          BY <2>2, <3>2, <4>1
        <4>3. QED
          BY <2>1, <3>2, <4>1, <4>2 DEF Goes
      <3>3. CASE k = 0
        <4>1. 0 \in 0..(m - 1) /\ 0 \in 0..n /\ 0 # m
          OBVIOUS
        <4>2. f[0] = w[0] /\ w[0] = start
          BY <2>1, <2>2, <4>1 DEF Goes
        <4>3. QED
          BY <3>3, <4>2
      <3>4. QED
        BY <3>1, <3>2, <3>3
    <2>6. QED
      BY <2>4, <2>5 DEF Goes
  <1>3. n \in N
    <2>1. n \in 0..n
      OBVIOUS
    <2> HIDE DEF N
    <2>2. QED
      BY <1>1, <1>2, <2>1, UpToInduction
  <1>4. QED
    BY <1>3
=============================================================================
