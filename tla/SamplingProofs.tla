---------------------------- MODULE SamplingProofs ----------------------------
(***************************************************************************)
(* Proofs about what is drawn.  Which tokens a draw may give, for any      *)
(* logits and any settings; and what speculative decoding produces, for    *)
(* any two models, any settings and any number of drafts.                  *)
(***************************************************************************)
EXTENDS Speculation, Sums, SequenceTheorems, TLAPS

-----------------------------------------------------------------------------
(* The powers of two exist and are not negative.                           *)
Doubling(n, w) == w = [k \in 0..n |-> IF k = 0 THEN 1 ELSE 2 * w[k - 1]]

LEMMA DoublingExists ==
  ASSUME NEW n \in Nat
  PROVE  \E w \in [0..n -> Nat] : Doubling(n, w)
  <1> DEFINE N == {m \in Nat : \E w \in [0..m -> Nat] : Doubling(m, w)}
  <1>1. 0 \in N
    <2>1. [k \in 0..0 |-> 1] \in [0..0 -> Nat] /\ Doubling(0, [k \in 0..0 |-> 1])
      BY DEF Doubling
    <2>2. QED
      BY <2>1
  <1>2. ASSUME NEW m \in Nat, m \in N PROVE m + 1 \in N
    <2>1. PICK w \in [0..m -> Nat] : Doubling(m, w)
      BY <1>2
    <2>2. PICK v : v = [k \in 0..(m + 1) |-> IF k = m + 1 THEN 2 * w[m] ELSE w[k]]
      OBVIOUS
    <2>3. \A k \in 0..m : k # m + 1 /\ w[k] = IF k = 0 THEN 1 ELSE 2 * w[k - 1]
      BY <2>1 DEF Doubling
    <2>4. v \in [0..(m + 1) -> Nat]
      BY <2>2
    <2>5. \A k \in 0..(m + 1) : v[k] = IF k = 0 THEN 1 ELSE 2 * v[k - 1]
      <3>1. ASSUME NEW k \in 0..(m + 1) PROVE v[k] = IF k = 0 THEN 1 ELSE 2 * v[k - 1]
        <4>1. CASE k = m + 1
          <5>1. k - 1 = m /\ m \in 0..(m + 1) /\ m # m + 1 /\ k # 0
            BY <4>1
          <5>2. v[k] = 2 * w[m] /\ v[m] = w[m]
            BY <2>2, <4>1, <5>1
          <5>3. QED
            BY <5>1, <5>2
        <4>2. CASE k # m + 1 /\ k # 0
          <5>1. k \in 0..m /\ k - 1 \in 0..m /\ k - 1 # m + 1 /\ k - 1 \in 0..(m + 1)
            BY <4>2
          <5>2. v[k] = w[k] /\ v[k - 1] = w[k - 1]
            BY <2>2, <4>2, <5>1
          <5>3. QED
            BY <2>3, <4>2, <5>1, <5>2
        <4>3. CASE k = 0
          <5>1. 0 \in 0..m /\ 0 # m + 1
            OBVIOUS
          <5>2. v[k] = w[0] /\ w[0] = 1
            BY <2>2, <2>3, <4>3, <5>1
          <5>3. QED
            BY <4>3, <5>2
        <4>4. QED
          BY <4>1, <4>2, <4>3
      <3>2. QED
        BY <3>1
    <2>6. Doubling(m + 1, v)
      BY <2>2, <2>5 DEF Doubling
    <2>7. QED
      BY <2>4, <2>6
  <1>3. n \in N
    <2> HIDE DEF N
    <2>1. QED
      BY <1>1, <1>2, Induction
  <1>4. QED
    BY <1>3

LEMMA DoublingAgrees ==
  ASSUME NEW m \in Nat, NEW n \in Nat, NEW w \in [0..m -> Nat], Doubling(m, w),
         NEW v \in [0..n -> Nat], Doubling(n, v)
  PROVE  \A k \in Nat : k <= m /\ k <= n => w[k] = v[k]
  <1> DEFINE N == {k \in Nat : k <= m /\ k <= n => w[k] = v[k]}
  <1>1. /\ \A k \in 0..m : w[k] = IF k = 0 THEN 1 ELSE 2 * w[k - 1]
        /\ \A k \in 0..n : v[k] = IF k = 0 THEN 1 ELSE 2 * v[k - 1]
    BY DEF Doubling
  <1>2. 0 \in N
    <2>1. 0 \in 0..m /\ 0 \in 0..n
      OBVIOUS
    <2>2. w[0] = 1 /\ v[0] = 1
      BY <1>1, <2>1
    <2>3. QED
      BY <2>2
  <1>3. ASSUME NEW k \in Nat, k \in N PROVE k + 1 \in N
    <2>1. SUFFICES ASSUME k + 1 <= m, k + 1 <= n PROVE w[k + 1] = v[k + 1]
      OBVIOUS
    <2>2. k + 1 \in 0..m /\ k + 1 \in 0..n /\ k + 1 # 0 /\ (k + 1) - 1 = k
      BY <2>1
    <2>3. w[k + 1] = 2 * w[k] /\ v[k + 1] = 2 * v[k]
      BY <1>1, <2>2
    <2>4. w[k] = v[k]
      BY <1>3, <2>1
    <2>5. QED
      BY <2>3, <2>4
  <1>4. Nat \subseteq N
    <2> HIDE DEF N
    <2>1. QED
      BY <1>2, <1>3, Induction
  <1>5. QED
    BY <1>4

LEMMA PowersOfTwo ==
  /\ PowerOfTwo \in [Nat -> Nat] /\ PowerOfTwo[0] = 1
  /\ \A n \in Nat : PowerOfTwo[n + 1] = 2 * PowerOfTwo[n]
  <1> DEFINE W(n) == CHOOSE w \in [0..n -> Nat] : Doubling(n, w)
  <1>1. \A n \in Nat : W(n) \in [0..n -> Nat] /\ Doubling(n, W(n))
    BY DoublingExists
  <1> HIDE DEF W
  <1>2. PICK g : g = [n \in Nat |-> W(n)[n]]
    OBVIOUS
  <1>3. g \in [Nat -> Nat]
    <2>1. ASSUME NEW n \in Nat PROVE g[n] \in Nat
      <3>1. n \in 0..n
        OBVIOUS
      <3>2. QED
        BY <1>1, <1>2, <3>1
    <2>2. QED
      BY <1>2, <2>1
  <1>4. \A n \in Nat : g[n] = IF n = 0 THEN 1 ELSE 2 * g[n - 1]
    <2>1. ASSUME NEW n \in Nat PROVE g[n] = IF n = 0 THEN 1 ELSE 2 * g[n - 1]
      <3>1. PICK w \in [0..n -> Nat] : w = W(n) /\ Doubling(n, w)
        BY <1>1
      <3>2. n \in 0..n /\ g[n] = w[n]
        BY <1>2, <3>1
      <3>3. w[n] = IF n = 0 THEN 1 ELSE 2 * w[n - 1]
        BY <3>1, <3>2 DEF Doubling
      <3>4. ASSUME n # 0 PROVE g[n - 1] = w[n - 1]
        <4>1. PICK k \in Nat : k = n - 1
          BY <3>4
        <4>2. PICK v \in [0..k -> Nat] : v = W(k) /\ Doubling(k, v)
          BY <1>1
        <4>3. g[k] = v[k]
          BY <1>2, <4>2
        <4>4. \A i \in Nat : i <= k /\ i <= n => v[i] = w[i]
          BY <3>1, <4>2, DoublingAgrees
        <4>5. k <= k /\ k <= n
          BY <4>1
        <4>6. v[k] = w[k]
          BY <4>4, <4>5
        <4>7. QED
          BY <4>1, <4>3, <4>6
      <3>5. QED
        BY <3>2, <3>3, <3>4
    <2>2. QED
      BY <2>1
  <1>5. g = [n \in Nat |-> IF n = 0 THEN 1 ELSE 2 * g[n - 1]]
    BY <1>2, <1>4
  <1>6. PowerOfTwo = [n \in Nat |-> IF n = 0 THEN 1 ELSE 2 * PowerOfTwo[n - 1]]
    BY <1>5 DEF PowerOfTwo
  <1> DEFINE N == {n \in Nat : PowerOfTwo[n] \in Nat}
  <1>7. 0 \in N
    BY <1>6
  <1>8. ASSUME NEW n \in Nat, n \in N PROVE n + 1 \in N
    <2>1. n + 1 \in Nat /\ n + 1 # 0 /\ (n + 1) - 1 = n
      OBVIOUS
    <2>2. PowerOfTwo[n + 1] = 2 * PowerOfTwo[n]
      BY <1>6, <2>1
    <2>3. PICK m \in Nat : m = PowerOfTwo[n]
      BY <1>8
    <2>4. QED
      BY <2>1, <2>2, <2>3
  <1>9. Nat \subseteq N
    <2> HIDE DEF N
    <2>1. QED
      BY <1>7, <1>8, Induction
  <1>10. \A n \in Nat : PowerOfTwo[n + 1] = 2 * PowerOfTwo[n] /\ PowerOfTwo[n] \in Nat
    <2>1. \A n \in Nat : n + 1 \in Nat /\ n + 1 # 0 /\ (n + 1) - 1 = n
      OBVIOUS
    <2>2. QED
      BY <1>6, <1>9, <2>1
  <1>11. PowerOfTwo \in [Nat -> Nat]
    BY <1>6, <1>10
  <1>12. QED
    BY <1>6, <1>10, <1>11

LEMMA PowersMultiply ==
  \A m, n \in Nat : PowerOfTwo[m + n] = PowerOfTwo[m] * PowerOfTwo[n] /\ PowerOfTwo[n] \in Nat \ {0}
  <1>1. /\ PowerOfTwo \in [Nat -> Nat] /\ PowerOfTwo[0] = 1
        /\ \A n \in Nat : PowerOfTwo[n + 1] = 2 * PowerOfTwo[n]
    BY PowersOfTwo
  <1>2. SUFFICES ASSUME NEW m \in Nat
                 PROVE  \A n \in Nat : PowerOfTwo[m + n] = PowerOfTwo[m] * PowerOfTwo[n] /\ PowerOfTwo[n] # 0
    BY <1>1
  <1> DEFINE N == {n \in Nat : PowerOfTwo[m + n] = PowerOfTwo[m] * PowerOfTwo[n] /\ PowerOfTwo[n] # 0}
  <1>3. 0 \in N
    <2>1. PICK a \in Nat : a = PowerOfTwo[m]
      BY <1>1
    <2>2. m + 0 = m /\ a * 1 = a
      OBVIOUS
    <2>3. QED
      BY <1>1, <2>1, <2>2
  <1>4. ASSUME NEW n \in Nat, n \in N PROVE n + 1 \in N
    <2>1. PICK a \in Nat : a = PowerOfTwo[m]
      BY <1>1
    <2>2. PICK b \in Nat : b = PowerOfTwo[n]
      BY <1>1
    <2>3. m + (n + 1) = (m + n) + 1 /\ m + n \in Nat /\ n + 1 \in Nat
      OBVIOUS
    <2>4. PowerOfTwo[m + (n + 1)] = 2 * PowerOfTwo[m + n] /\ PowerOfTwo[n + 1] = 2 * b
      BY <1>1, <2>2, <2>3
    <2>5. PowerOfTwo[m + n] = a * b /\ b # 0
      BY <1>4, <2>1, <2>2
    <2>6. 2 * (a * b) = a * (2 * b) /\ (b # 0 => 2 * b # 0)
      OBVIOUS
    <2>7. QED
      BY <2>1, <2>3, <2>4, <2>5, <2>6
  <1>5. Nat \subseteq N
    <2> HIDE DEF N
    <2>1. QED
      BY <1>3, <1>4, Induction
  <1>6. QED
    BY <1>5

-----------------------------------------------------------------------------
(* A vector of logits without those that are -inf                          *)
Vector(logits) ==
  /\ logits \in [DOMAIN logits -> Int]
  /\ DOMAIN logits \subseteq Tokens /\ DOMAIN logits # {}

(* One token is preferred to another, never both, and so on                *)
LEMMA PreferredIs ==
  ASSUME NEW logits, Vector(logits)
  PROVE  /\ IsFiniteSet(DOMAIN logits)
         /\ \A t : Preferred(logits, t) \subseteq DOMAIN logits
         /\ \A t \in DOMAIN logits : t \notin Preferred(logits, t)
         /\ \A t, u \in DOMAIN logits : t = u \/ t \in Preferred(logits, u) \/ u \in Preferred(logits, t)
         /\ \A t, u, v \in DOMAIN logits :
              t \in Preferred(logits, u) /\ u \in Preferred(logits, v) => t \in Preferred(logits, v)
  <1>1. IsFiniteSet(Tokens) /\ Tokens \subseteq Int
    BY SamplingAssumption
  <1>2. \A t \in DOMAIN logits : t \in Int /\ logits[t] \in Int
    BY <1>1 DEF Vector
  <1>3. IsFiniteSet(DOMAIN logits)
    BY <1>1, FS_Subset DEF Vector
  <1>4. \A t \in DOMAIN logits : t \notin Preferred(logits, t)
    BY <1>2 DEF Preferred
  <1>5. \A t, u \in DOMAIN logits : t = u \/ t \in Preferred(logits, u) \/ u \in Preferred(logits, t)
    BY <1>2 DEF Preferred
  <1>6. ASSUME NEW t \in DOMAIN logits, NEW u \in DOMAIN logits, NEW v \in DOMAIN logits,
               t \in Preferred(logits, u), u \in Preferred(logits, v)
        PROVE  t \in Preferred(logits, v)
    <2>1. /\ logits[t] > logits[u] \/ (logits[t] = logits[u] /\ t < u)
          /\ logits[u] > logits[v] \/ (logits[u] = logits[v] /\ u < v)
      BY <1>6 DEF Preferred
    <2>2. logits[t] > logits[v] \/ (logits[t] = logits[v] /\ t < v)
      BY <1>2, <2>1
    <2>3. QED
      BY <2>2 DEF Preferred
  <1>7. QED
    BY <1>3, <1>4, <1>5, <1>6 DEF Preferred

(* Of some tokens one is the least preferred                               *)
LEMMA LastOfSome ==
  ASSUME NEW logits, Vector(logits), NEW S \in SUBSET (DOMAIN logits), S # {}
  PROVE  \E t \in S : \A u \in S \ {t} : u \in Preferred(logits, t)
  <1> DEFINE Q == {T \in SUBSET S : T # {} => \E t \in T : \A u \in T \ {t} : u \in Preferred(logits, t)}
  <1>1. IsFiniteSet(S) /\ S \subseteq DOMAIN logits
    BY PreferredIs, FS_Subset
  <1>2. {} \in Q
    OBVIOUS
  <1>3. ASSUME NEW T \in SUBSET S, NEW x \in S \ T, T \in Q PROVE T \cup {x} \in Q
    <2>1. CASE T = {}
      BY <2>1
    <2>2. CASE T # {}
      <3>1. PICK t \in T : \A u \in T \ {t} : u \in Preferred(logits, t)
        BY <1>3, <2>2
      <3>2. t \in DOMAIN logits /\ x \in DOMAIN logits /\ t # x
        BY <1>1, <1>3
      <3>3. CASE x \in Preferred(logits, t)
        <4>1. \A u \in (T \cup {x}) \ {t} : u \in Preferred(logits, t)
          BY <3>1, <3>3
        <4>2. QED
          BY <4>1
      <3>4. CASE t \in Preferred(logits, x)
        <4>1. ASSUME NEW u \in (T \cup {x}) \ {x} PROVE u \in Preferred(logits, x)
          <5>1. u = t \/ u \in Preferred(logits, t)
            BY <3>1
          <5>2. u \in DOMAIN logits
            BY <1>1
          <5>3. QED
            BY <3>2, <3>4, <5>1, <5>2, PreferredIs
        <4>2. QED
          BY <4>1
      <3>5. QED
        BY <3>2, <3>3, <3>4, PreferredIs
    <2>3. QED
      BY <2>1, <2>2
  <1>4. S \in Q
    <2> HIDE DEF Q
    <2>1. QED
      BY <1>1, <1>2, <1>3, FiniteInduction
  <1>5. QED
    BY <1>4

(* The order of some tokens, or of the first of them                       *)
Ranks(logits, S, n, order) ==
  order \in [1..n -> S] /\ \A j \in 1..n : \A i \in 1..(j - 1) : order[i] \in Preferred(logits, order[j])

LEMMA OrderExists ==
  ASSUME NEW logits, Vector(logits)
  PROVE  \A S \in SUBSET (DOMAIN logits) : \E order : Ranks(logits, S, Cardinality(S), order)
  <1> DEFINE N == {n \in Nat : \A S \in SUBSET (DOMAIN logits) :
                                 Cardinality(S) = n => \E order : Ranks(logits, S, n, order)}
  <1>1. IsFiniteSet(DOMAIN logits) /\ \A S \in SUBSET (DOMAIN logits) : IsFiniteSet(S) /\ Cardinality(S) \in Nat
    BY PreferredIs, FS_Subset, FS_CardinalityType
  <1>2. 0 \in N
    <2>1. SUFFICES ASSUME NEW S \in SUBSET (DOMAIN logits) PROVE \E order : Ranks(logits, S, 0, order)
      OBVIOUS
    <2>2. 1..0 = {}
      OBVIOUS
    <2>3. PICK order : order = [i \in 1..0 |-> i]
      OBVIOUS
    <2>4. Ranks(logits, S, 0, order)
      BY <2>2, <2>3 DEF Ranks
    <2>5. QED
      BY <2>4
  <1>3. ASSUME NEW n \in Nat, n \in N PROVE n + 1 \in N
    <2>1. SUFFICES ASSUME NEW S \in SUBSET (DOMAIN logits), Cardinality(S) = n + 1
                   PROVE  \E order : Ranks(logits, S, n + 1, order)
      OBVIOUS
    <2>2. S # {}
      BY <2>1, FS_EmptySet
    <2>3. PICK last \in S : \A u \in S \ {last} : u \in Preferred(logits, last)
      BY <2>2, LastOfSome
    <2>4. Cardinality(S \ {last}) = n
      BY <1>1, <2>1, FS_RemoveElement
    <2>5. PICK first : Ranks(logits, S \ {last}, n, first)
      BY <1>3, <2>4
    <2>6. PICK order : order = [i \in 1..(n + 1) |-> IF i = n + 1 THEN last ELSE first[i]]
      OBVIOUS
    <2>7. \A i \in 1..n : order[i] = first[i] /\ first[i] \in S \ {last}
      BY <2>5, <2>6 DEF Ranks
    <2>8. order[n + 1] = last
      BY <2>6
    <2>9. order \in [1..(n + 1) -> S]
      BY <2>6, <2>7
    <2>10. ASSUME NEW j \in 1..(n + 1), NEW i \in 1..(j - 1) PROVE order[i] \in Preferred(logits, order[j])
      <3>1. i \in 1..n
        OBVIOUS
      <3>2. CASE j = n + 1
        BY <2>3, <2>7, <2>8, <3>1, <3>2
      <3>3. CASE j # n + 1
        <4>1. j \in 1..n
          BY <3>3
        <4>2. QED
          BY <2>5, <2>7, <3>1, <4>1 DEF Ranks
      <3>4. QED
        BY <3>2, <3>3
    <2>11. QED
      BY <2>9, <2>10 DEF Ranks
  <1>4. Nat \subseteq N
    <2> HIDE DEF N
    <2>1. QED
      BY <1>2, <1>3, Induction
  <1>5. QED
    BY <1>1, <1>4

(* The first i tokens of an order                                          *)
Foremost(order, i) == {order[j] : j \in 1..i}

(* The sorted tokens are all of them, each once, and before each are those *)
(* that are preferred to it.                                               *)
SortedWell(logits, n, order) ==
  /\ order \in [1..n -> DOMAIN logits]
  /\ \A j \in 1..n : Foremost(order, j - 1) = Preferred(logits, order[j])
  /\ \A i \in 0..n : Cardinality(Foremost(order, i)) = i
  /\ Foremost(order, n) = DOMAIN logits

LEMMA SortedIs ==
  ASSUME NEW logits, Vector(logits), NEW n, n = Cardinality(DOMAIN logits)
  PROVE  n \in Nat /\ SortedWell(logits, n, Sorted(logits))
  <1>1. IsFiniteSet(DOMAIN logits) /\ n \in Nat
    BY PreferredIs, FS_CardinalityType
  <1>2. PICK order : order = Sorted(logits)
    OBVIOUS
  <1>3. /\ order \in [1..n -> DOMAIN logits]
        /\ \A j \in 1..n : \A i \in 1..(j - 1) : order[i] \in Preferred(logits, order[j])
    <2>1. \E o : Ranks(logits, DOMAIN logits, n, o)
      BY OrderExists
    <2>2. \E o \in [1..n -> DOMAIN logits] :
            \A j \in DOMAIN o : \A i \in 1..(j - 1) : o[i] \in Preferred(logits, o[j])
      BY <2>1 DEF Ranks
    <2>3. /\ order \in [1..n -> DOMAIN logits]
          /\ \A j \in DOMAIN order : \A i \in 1..(j - 1) : order[i] \in Preferred(logits, order[j])
      BY <1>2, <2>2 DEF Sorted
    <2>4. QED
      BY <2>3
  <1>4. ASSUME NEW i \in 1..n, NEW j \in 1..n, i # j PROVE order[i] # order[j]
    <2>1. i \in 1..(j - 1) \/ j \in 1..(i - 1)
      BY <1>4
    <2>2. order[i] \in Preferred(logits, order[j]) \/ order[j] \in Preferred(logits, order[i])
      BY <1>3, <2>1
    <2>3. order[i] \in DOMAIN logits /\ order[j] \in DOMAIN logits
      BY <1>3
    <2>4. QED
      BY <2>2, <2>3, PreferredIs
  <1>5. ASSUME NEW i \in 0..n PROVE Cardinality(Foremost(order, i)) = i /\ IsFiniteSet(Foremost(order, i))
    <2> DEFINE N == {k \in Nat : k <= n => /\ IsFiniteSet(Foremost(order, k))
                                           /\ Cardinality(Foremost(order, k)) = k}
    <2>1. 0 \in N
      <3>1. Foremost(order, 0) = {}
        BY DEF Foremost
      <3>2. QED
        BY <3>1, FS_EmptySet
    <2>2. ASSUME NEW k \in Nat, k \in N PROVE k + 1 \in N
      <3>1. SUFFICES ASSUME k + 1 <= n
                     PROVE  /\ IsFiniteSet(Foremost(order, k + 1))
                            /\ Cardinality(Foremost(order, k + 1)) = k + 1
        OBVIOUS
      <3>2. Foremost(order, k + 1) = Foremost(order, k) \cup {order[k + 1]}
        <4>1. 1..(k + 1) = (1..k) \cup {k + 1}
          OBVIOUS
        <4>2. QED
          BY <4>1 DEF Foremost
      <3>3. order[k + 1] \notin Foremost(order, k)
        <4>1. \A j \in 1..k : j \in 1..n /\ k + 1 \in 1..n /\ j # k + 1
          BY <1>1, <3>1
        <4>2. QED
          BY <1>4, <4>1 DEF Foremost
      <3>4. IsFiniteSet(Foremost(order, k)) /\ Cardinality(Foremost(order, k)) = k
        <4>1. k <= n
          BY <1>1, <3>1
        <4>2. QED
          BY <2>2, <4>1
      <3>5. /\ IsFiniteSet(Foremost(order, k) \cup {order[k + 1]})
            /\ Cardinality(Foremost(order, k) \cup {order[k + 1]}) = Cardinality(Foremost(order, k)) + 1
        BY ONLY <3>3, <3>4, FS_AddElement
      <3>6. QED
        BY ONLY <3>2, <3>4, <3>5
    <2>3. Nat \subseteq N
      <3> HIDE DEF N
      <3>1. QED
        BY <2>1, <2>2, Induction
    <2>4. i \in Nat /\ i <= n
      BY <1>1
    <2>5. QED
      BY <2>3, <2>4
  <1>6. Foremost(order, n) = DOMAIN logits
    <2>1. n \in 0..n
      BY <1>1
    <2>2. Foremost(order, n) \subseteq DOMAIN logits
      BY <1>3 DEF Foremost
    <2>3. QED
      BY <1>1, <1>5, <2>1, <2>2, FS_Subset
  <1>7. ASSUME NEW j \in 1..n PROVE Foremost(order, j - 1) = Preferred(logits, order[j])
    <2>1. \A u \in Foremost(order, j - 1) : u \in Preferred(logits, order[j])
      BY <1>3 DEF Foremost
    <2>2. ASSUME NEW u \in Preferred(logits, order[j]) PROVE u \in Foremost(order, j - 1)
      <3>1. u \in DOMAIN logits
        BY <2>2 DEF Preferred
      <3>2. PICK i \in 1..n : u = order[i]
        BY <1>6, <3>1 DEF Foremost
      <3>3. order[j] \in DOMAIN logits
        BY <1>3
      <3>4. i # j
        BY <2>2, <3>2, <3>3, PreferredIs
      <3>5. ~(j \in 1..(i - 1))
        <4>1. SUFFICES ASSUME j \in 1..(i - 1) PROVE FALSE
          OBVIOUS
        <4>2. order[j] \in Preferred(logits, u)
          BY <1>3, <3>2, <4>1
        <4>3. QED
          BY <2>2, <3>1, <3>3, <4>2, PreferredIs
      <3>6. i \in 1..(j - 1)
        BY <1>1, <3>4, <3>5
      <3>7. QED
        BY <3>2, <3>6 DEF Foremost
    <2>3. QED
      BY <2>1, <2>2
  <1>8. QED
    BY <1>1, <1>2, <1>3, <1>5, <1>6, <1>7 DEF SortedWell

(* The best token is the one none is preferred to                          *)
LEMMA BestIs ==
  ASSUME NEW logits, Vector(logits)
  PROVE  /\ Argmax(logits) \in DOMAIN logits
         /\ \A t \in DOMAIN logits : Preferred(logits, t) = {} <=> t = Argmax(logits)
  <1>1. \A t \in DOMAIN logits : t \in Int /\ logits[t] \in Int
    BY SamplingAssumption DEF Vector
  <1> DEFINE Best1(t) == \A u \in DOMAIN logits : logits[u] < logits[t] \/ (logits[u] = logits[t] /\ t <= u)
  <1>2. ASSUME NEW t \in DOMAIN logits PROVE Preferred(logits, t) = {} <=> Best1(t)
    <2>1. ASSUME NEW u \in DOMAIN logits
          PROVE  ~(logits[u] > logits[t] \/ (logits[u] = logits[t] /\ u < t))
                   <=> logits[u] < logits[t] \/ (logits[u] = logits[t] /\ t <= u)
      BY <1>1
    <2>2. QED
      BY <2>1 DEF Preferred
  <1>3. PICK b \in DOMAIN logits : Preferred(logits, b) = {}
    <2>1. PICK n \in Nat : n = Cardinality(DOMAIN logits)
      BY SortedIs
    <2>2. PICK order : SortedWell(logits, n, order)
      BY <2>1, SortedIs
    <2>3. n # 0
      <3>1. 1..0 = {}
        OBVIOUS
      <3>2. QED
        BY <2>2, <3>1 DEF SortedWell, Foremost, Vector
    <2>4. 1 \in 1..n /\ 1..(1 - 1) = {}
      BY <2>3
    <2>5. order[1] \in DOMAIN logits /\ Preferred(logits, order[1]) = {}
      BY <2>2, <2>4 DEF SortedWell, Foremost
    <2>6. QED
      BY <2>5
  <1>4. PICK a : a = Argmax(logits)
    OBVIOUS
  <1>5. a \in DOMAIN logits /\ Best1(a)
    <2>1. \E t \in DOMAIN logits : Best1(t)
      BY <1>2, <1>3
    <2>2. QED
      BY <1>4, <2>1 DEF Argmax
  <1>6. \A t \in DOMAIN logits : Preferred(logits, t) = {} => t = a
    <2>1. Preferred(logits, a) = {}
      BY <1>2, <1>5
    <2>2. QED
      BY <1>5, <2>1, PreferredIs
  <1>7. Preferred(logits, a) = {}
    BY <1>2, <1>5
  <1>8. QED
    BY <1>4, <1>5, <1>6, <1>7

(* The tokens that fewer than k surpass                                    *)
Top(logits, k) == {t \in DOMAIN logits : Cardinality({u \in DOMAIN logits : logits[u] > logits[t]}) < k}

LEMMA TopKIs ==
  ASSUME NEW logits, Vector(logits), NEW k \in Int, NEW K \in Int, IF k <= 0 THEN K >= Cardinality(DOMAIN logits) ELSE K = k
  PROVE  TopKFilter(logits, k) = Keep(logits, Top(logits, K)) /\ Argmax(logits) \in Top(logits, K)
  <1>1. IsFiniteSet(DOMAIN logits) /\ \A t \in DOMAIN logits : logits[t] \in Int
    BY PreferredIs DEF Vector
  <1>2. PICK n \in Nat : n = Cardinality(DOMAIN logits)
    BY <1>1, FS_CardinalityType
  <1> DEFINE Over(l) == {u \in DOMAIN logits : logits[u] > l}
  <1>3. ASSUME NEW t \in DOMAIN logits PROVE Cardinality(Over(logits[t])) \in Nat /\ Cardinality(Over(logits[t])) < n
    <2>1. Over(logits[t]) \subseteq (DOMAIN logits) \ {t}
      BY <1>1
    <2>2. IsFiniteSet((DOMAIN logits) \ {t}) /\ Cardinality((DOMAIN logits) \ {t}) = n - 1
      BY <1>1, <1>2, FS_RemoveElement
    <2>3. PICK c \in Nat : c = Cardinality(Over(logits[t]))
      BY <2>1, <2>2, FS_Subset, FS_CardinalityType
    <2>4. c <= n - 1
      BY <2>1, <2>2, <2>3, FS_Subset
    <2>5. QED
      BY <2>3, <2>4
  <1>4. Argmax(logits) \in Top(logits, K)
    <2>1. PICK a \in DOMAIN logits : a = Argmax(logits) /\ Preferred(logits, a) = {}
      BY BestIs
    <2>2. Over(logits[a]) = {}
      BY <2>1 DEF Preferred
    <2>3. Cardinality(Over(logits[a])) = 0
      BY <2>2, FS_EmptySet
    <2>4. K > 0
      <3>1. n # 0
        BY <1>2, <1>1, FS_EmptySet DEF Vector
      <3>2. QED
        BY <1>2, <3>1
    <2>5. QED
      BY <2>1, <2>3, <2>4 DEF Top
  <1>5. CASE k <= 0 \/ k >= n
    <2>1. K >= n
      BY <1>2, <1>5
    <2>2. ASSUME NEW t \in DOMAIN logits PROVE Cardinality(Over(logits[t])) < K
      BY <1>3, <2>1
    <2>3. Top(logits, K) = DOMAIN logits
      BY <2>2 DEF Top
    <2>4. Keep(logits, DOMAIN logits) = logits
      BY DEF Keep, Vector
    <2>5. TopKFilter(logits, k) = logits
      BY <1>2, <1>5 DEF TopKFilter
    <2>6. QED
      BY <1>4, <2>3, <2>4, <2>5
  <1>6. CASE ~(k <= 0 \/ k >= n)
    <2>1. k \in 1..n /\ k \in 0..n /\ k - 1 \in 0..n /\ K = k
      BY <1>6
    <2>2. PICK order : order = Sorted(logits) /\ SortedWell(logits, n, order)
      BY <1>2, SortedIs
    <2>3. PICK x \in DOMAIN logits : x = order[k]
      BY <2>1, <2>2 DEF SortedWell
    <2>4. Preferred(logits, x) = Foremost(order, k - 1) /\ Cardinality(Foremost(order, k - 1)) = k - 1
      BY <2>1, <2>2, <2>3 DEF SortedWell
    <2>5. Cardinality(Foremost(order, k)) = k
      BY <2>1, <2>2 DEF SortedWell
    <2>6. ASSUME NEW t \in DOMAIN logits, logits[t] >= logits[x] PROVE Cardinality(Over(logits[t])) < k
      <3>1. Over(logits[t]) \subseteq Preferred(logits, x)
        BY <1>1, <2>6 DEF Preferred
      <3>2. IsFiniteSet(Preferred(logits, x))
        BY <1>1, FS_Subset DEF Preferred
      <3>3. Cardinality(Over(logits[t])) <= k - 1
        BY <2>4, <3>1, <3>2, FS_Subset
      <3>4. QED
        BY <1>3, <3>3
    <2>7. ASSUME NEW t \in DOMAIN logits, ~(logits[t] >= logits[x]) PROVE ~(Cardinality(Over(logits[t])) < k)
      <3>1. \A u \in Foremost(order, k) : u = x \/ u \in Preferred(logits, x)
        <4>1. \A i \in 1..k : i = k \/ i \in 1..(k - 1)
          OBVIOUS
        <4>2. QED
          BY <2>3, <2>4, <4>1 DEF Foremost
      <3>2. ASSUME NEW u \in Foremost(order, k) PROVE u \in Over(logits[t])
        <4>1. u \in DOMAIN logits /\ logits[u] >= logits[x]
          BY <1>1, <2>3, <3>1 DEF Preferred
        <4>2. QED
          BY <1>1, <2>7, <4>1
      <3>3. IsFiniteSet(Over(logits[t]))
        BY <1>1, FS_Subset
      <3>4. Cardinality(Foremost(order, k)) <= Cardinality(Over(logits[t]))
        BY <3>2, <3>3, FS_Subset
      <3>5. QED
        BY <1>3, <2>5, <3>4
    <2>8. Top(logits, K) = {t \in DOMAIN logits : logits[t] >= logits[x]}
      BY <2>1, <2>6, <2>7 DEF Top
    <2>9. TopKFilter(logits, k) = Keep(logits, {t \in DOMAIN logits : logits[t] >= logits[x]})
      BY <1>2, <1>6, <2>2, <2>3 DEF TopKFilter
    <2>10. QED
      BY <1>4, <2>8, <2>9
  <1>7. QED
    BY <1>5, <1>6

-----------------------------------------------------------------------------
(* The weights, and those of some tokens                                   *)
Weighed(logits, weights, least) ==
  /\ least \in Range(logits) /\ least \in Int /\ \A t \in DOMAIN logits : logits[t] - least \in Nat
  /\ weights = [t \in Tokens |-> IF t \in DOMAIN logits THEN PowerOfTwo[logits[t] - least] ELSE 0]

LEMMA WeightsAre ==
  ASSUME NEW logits, Vector(logits)
  PROVE  \E least : Weighed(logits, Softmax(logits), least)
  <1>1. IsFiniteSet(DOMAIN logits) /\ \A t \in DOMAIN logits : logits[t] \in Int
    BY PreferredIs DEF Vector
  <1>2. PICK m \in DOMAIN logits : \A u \in DOMAIN logits : logits[m] <= logits[u]
    BY <1>1, LeastOf DEF Vector
  <1>3. PICK least : least = CHOOSE l \in Range(logits) : \A k \in Range(logits) : l <= k
    OBVIOUS
  <1>4. logits[m] \in Range(logits) /\ \A k \in Range(logits) : logits[m] <= k
    BY <1>2 DEF Range
  <1>5. least \in Range(logits) /\ \A k \in Range(logits) : least <= k
    BY <1>3, <1>4
  <1>6. least \in Int /\ \A t \in DOMAIN logits : least <= logits[t]
    BY <1>1, <1>5 DEF Range
  <1>7. ASSUME NEW t \in DOMAIN logits PROVE logits[t] - least \in Nat
    <2>1. logits[t] \in Int /\ least \in Int /\ least <= logits[t]
      BY <1>1, <1>6
    <2>2. QED
      BY <2>1
  <1>8. Softmax(logits) = [t \in Tokens |-> IF t \in DOMAIN logits THEN PowerOfTwo[logits[t] - least] ELSE 0]
    BY <1>3 DEF Softmax
  <1>9. QED
    BY <1>5, <1>6, <1>7, <1>8 DEF Weighed

LEMMA WeightsPositive ==
  ASSUME NEW logits, Vector(logits)
  PROVE  Softmax(logits) \in [Tokens -> Nat] /\ \A t \in Tokens : Softmax(logits)[t] > 0 <=> t \in DOMAIN logits
  <1>1. PICK least : Weighed(logits, Softmax(logits), least)
    BY WeightsAre
  <1>2. ASSUME NEW t \in DOMAIN logits PROVE PowerOfTwo[logits[t] - least] \in Nat \ {0}
    <2>1. PICK m \in Nat : m = logits[t] - least
      BY <1>1 DEF Weighed
    <2>2. QED
      BY <2>1, PowersMultiply
  <1>3. QED
    BY <1>1, <1>2 DEF Weighed

(* With fewer tokens each one's weight is less, by the same factor         *)
LEMMA WeightsOfSome ==
  ASSUME NEW logits, Vector(logits), NEW S \in SUBSET (DOMAIN logits), S # {}
  PROVE  /\ Vector(Keep(logits, S)) /\ DOMAIN Keep(logits, S) = S
         /\ \E c \in Nat \ {0} : \A t \in S : Softmax(logits)[t] = c * Softmax(Keep(logits, S))[t]
  <1>1. PICK some : some = Keep(logits, S)
    OBVIOUS
  <1>2. Vector(some) /\ DOMAIN some = S /\ \A t \in S : some[t] = logits[t]
    BY <1>1 DEF Vector, Keep
  <1>3. PICK least : Weighed(logits, Softmax(logits), least)
    BY WeightsAre
  <1>4. PICK lesser : Weighed(some, Softmax(some), lesser)
    BY <1>2, WeightsAre
  <1>5. PICK d \in Nat : d = lesser - least
    <2>1. PICK m \in S : lesser = logits[m]
      BY <1>2, <1>4 DEF Weighed, Range
    <2>2. logits[m] - least \in Nat
      BY <1>3 DEF Weighed
    <2>3. QED
      BY <2>1, <2>2
  <1>6. PICK c \in Nat \ {0} : c = PowerOfTwo[d]
    BY PowersMultiply
  <1>7. ASSUME NEW t \in S PROVE Softmax(logits)[t] = c * Softmax(some)[t]
    <2>1. t \in Tokens /\ t \in DOMAIN logits /\ logits[t] \in Int
      BY DEF Vector
    <2>2. PICK i \in Nat : i = logits[t] - lesser
      BY <1>2, <1>4 DEF Weighed
    <2>3. logits[t] - least = d + i
      BY <1>3, <1>4, <1>5, <2>1, <2>2 DEF Weighed
    <2>4. Softmax(logits)[t] = PowerOfTwo[d + i]
      BY <1>3, <2>1, <2>3 DEF Weighed
    <2>5. Softmax(some)[t] = PowerOfTwo[i]
      BY <1>2, <1>4, <2>1, <2>2 DEF Weighed
    <2>6. QED
      BY <1>6, <2>4, <2>5, PowersMultiply
  <1>8. QED
    BY <1>1, <1>2, <1>7

-----------------------------------------------------------------------------
(* The tokens with less than p ahead of them                               *)
Nucleus(logits, p) ==
  {t \in DOMAIN logits :
     p < 100 => 100 * Mass(Softmax(logits), Preferred(logits, t)) < p * Mass(Softmax(logits), Tokens)}

Accumulators(logits) == [mass : Nat, kept : SUBSET (DOMAIN logits)]

Including(weights, p, acc, t) ==
  IF acc.kept # {} /\ 100 * acc.mass >= p * Mass(weights, Tokens) THEN acc
  ELSE [mass |-> acc.mass + weights[t], kept |-> acc.kept \cup {t}]

(* The masses of sets of tokens                                            *)
LEMMA MassIs ==
  ASSUME NEW logits, Vector(logits), NEW w, w = Softmax(logits)
  PROVE  /\ \A S \in SUBSET (DOMAIN logits) : Mass(w, S) \in Nat
         /\ \A S \in SUBSET (DOMAIN logits) : \A T \in SUBSET S : Mass(w, T) <= Mass(w, S)
         /\ \A S \in SUBSET (DOMAIN logits) : \A t \in (DOMAIN logits) \ S : Mass(w, S \cup {t}) = Mass(w, S) + w[t]
         /\ Mass(w, {}) = 0 /\ Mass(w, Tokens) \in Nat \ {0} /\ Mass(w, Tokens) = Mass(w, DOMAIN logits)
  <1>1. IsFiniteSet(Tokens) /\ IsFiniteSet(DOMAIN logits) /\ DOMAIN logits \subseteq Tokens
    BY SamplingAssumption, FS_Subset DEF Vector
  <1>2. w \in [Tokens -> Nat] /\ \A t \in Tokens : w[t] > 0 <=> t \in DOMAIN logits
    BY WeightsPositive
  <1>3. \A S \in SUBSET (DOMAIN logits) : IsFiniteSet(S)
    BY <1>1, FS_Subset
  <1>4. \A t \in Tokens : w[t] \in Nat /\ w[t] \in Int
    BY <1>2
  <1>5. ASSUME NEW S \in SUBSET (DOMAIN logits) PROVE Mass(w, S) \in Nat
    BY <1>1, <1>3, <1>4, SumNat DEF Mass
  <1>6. ASSUME NEW S \in SUBSET (DOMAIN logits), NEW T \in SUBSET S PROVE Mass(w, T) <= Mass(w, S)
    BY <1>1, <1>3, <1>4, SumPart DEF Mass
  <1>7. ASSUME NEW S \in SUBSET (DOMAIN logits), NEW t \in (DOMAIN logits) \ S
        PROVE  Mass(w, S \cup {t}) = Mass(w, S) + w[t]
    BY <1>1, <1>3, <1>4, SumWith DEF Mass
  <1>8. Mass(w, {}) = 0
    BY SumOfNone DEF Mass
  <1>9. Mass(w, Tokens) = Mass(w, DOMAIN logits)
    <2>1. PICK rest : rest = Tokens \ DOMAIN logits
      OBVIOUS
    <2>2. IsFiniteSet(rest) /\ \A t \in rest : w[t] = 0
      <3>1. ASSUME NEW t \in rest PROVE w[t] = 0
        <4>1. w[t] \in Nat /\ ~(w[t] > 0)
          BY <1>2, <2>1
        <4>2. QED
          BY <4>1
      <3>2. QED
        BY <1>1, <2>1, <3>1, FS_Subset
    <2>3. SumFunctionOnSet(w, rest) = 0
      BY <2>2, SumOfSame, FS_CardinalityType
    <2>4. SumFunctionOnSet(w, (DOMAIN logits) \cup rest) = SumFunctionOnSet(w, DOMAIN logits) + SumFunctionOnSet(w, rest)
      <3>1. (DOMAIN logits) \cap rest = {} /\ \A t \in (DOMAIN logits) \cup rest : w[t] \in Int
        BY <1>1, <1>4, <2>1
      <3>2. QED
        BY <1>1, <2>2, <3>1, SumUnion
    <2>5. (DOMAIN logits) \cup rest = Tokens
      BY <1>1, <2>1
    <2>6. SumFunctionOnSet(w, DOMAIN logits) \in Nat
      BY <1>5 DEF Mass
    <2>7. QED
      BY <2>3, <2>4, <2>5, <2>6 DEF Mass
  <1>10. Mass(w, DOMAIN logits) # 0
    <2>1. PICK t \in DOMAIN logits : TRUE
      BY DEF Vector
    <2>2. w[t] \in Nat /\ w[t] > 0
      BY <1>1, <1>2
    <2>3. QED
      BY <1>1, <1>4, <2>2, SumZero DEF Mass
  <1>11. QED
    BY <1>5, <1>6, <1>7, <1>8, <1>9, <1>10

(* What has been kept of the first tokens: those of the nucleus, and if    *)
(* some are not of it, enough.                                             *)
Collected(logits, p, order, acc, i) ==
  /\ acc \in Accumulators(logits)
  /\ acc.kept = Nucleus(logits, p) \cap Foremost(order, i)
  /\ acc.mass = Mass(Softmax(logits), acc.kept)
  /\ ~(Foremost(order, i) \subseteq Nucleus(logits, p)) =>
       100 * acc.mass >= p * Mass(Softmax(logits), Tokens)

LEMMA NucleusCollected ==
  ASSUME NEW logits, Vector(logits), NEW p \in 1..99, NEW n \in Nat, NEW order, SortedWell(logits, n, order),
         NEW i \in 1..n, NEW acc, Collected(logits, p, order, acc, i - 1)
  PROVE  Collected(logits, p, order, Including(Softmax(logits), p, acc, order[i]), i)
  <1>1. PICK w : w = Softmax(logits)
    OBVIOUS
  <1>2. PICK x \in DOMAIN logits : x = order[i]
    BY DEF SortedWell
  <1>3. PICK front : front = Foremost(order, i - 1)
    OBVIOUS
  <1>4. Preferred(logits, x) = front /\ front \subseteq DOMAIN logits /\ x \notin front
    BY <1>2, <1>3, PreferredIs DEF SortedWell
  <1>5. Foremost(order, i) = front \cup {x}
    <2>1. 1..i = (1..(i - 1)) \cup {i}
      OBVIOUS
    <2>2. QED
      BY <1>2, <1>3, <2>1 DEF Foremost
  <1>6. PICK whole \in Nat \ {0} : whole = p * Mass(w, Tokens)
    <2>1. PICK m \in Nat \ {0} : m = Mass(w, Tokens)
      BY <1>1, MassIs
    <2>2. \A a, b \in Nat \ {0} : a * b \in Nat \ {0}
      OBVIOUS
    <2>3. QED
      BY <2>1, <2>2
  <1>7. PICK N : N = Nucleus(logits, p)
    OBVIOUS
  <1>8. \A t \in DOMAIN logits : t \in N <=> 100 * Mass(w, Preferred(logits, t)) < whole
    BY <1>1, <1>6, <1>7 DEF Nucleus
  <1>9. /\ acc \in [mass : Nat, kept : SUBSET (DOMAIN logits)] /\ acc.kept = N \cap front /\ acc.mass = Mass(w, acc.kept)
        /\ ~(front \subseteq N) => 100 * acc.mass >= whole
    BY <1>1, <1>3, <1>6, <1>7 DEF Collected, Accumulators
  <1>10. PICK next : next = Including(w, p, acc, x)
    OBVIOUS
  <1>11. next = IF acc.kept # {} /\ 100 * acc.mass >= whole THEN acc
                ELSE [mass |-> acc.mass + w[x], kept |-> acc.kept \cup {x}]
    BY <1>6, <1>10 DEF Including
  <1>12. CASE x \in N
    <2>1. ASSUME NEW t \in front PROVE t \in N
      <3>1. t \in DOMAIN logits /\ t \in Preferred(logits, x)
        BY <1>4
      <3>2. Preferred(logits, t) \subseteq Preferred(logits, x) /\ Preferred(logits, x) \subseteq DOMAIN logits
        BY <3>1, PreferredIs
      <3>3. PICK a \in Nat : a = Mass(w, Preferred(logits, t))
        BY <1>1, <3>2, MassIs
      <3>4. PICK b \in Nat : b = Mass(w, Preferred(logits, x))
        BY <1>1, <3>2, MassIs
      <3>5. a <= b
        BY <1>1, <3>2, <3>3, <3>4, MassIs
      <3>6. 100 * b < whole
        BY <1>8, <1>12, <3>4
      <3>7. 100 * a < whole
        BY <3>5, <3>6
      <3>8. QED
        BY <1>8, <3>1, <3>3, <3>7
    <2>2. acc.kept = front
      BY <1>9, <2>1
    <2>3. 100 * acc.mass < whole /\ acc.mass \in Nat
      BY <1>4, <1>8, <1>9, <1>12, <2>2
    <2>4. next = [mass |-> acc.mass + w[x], kept |-> acc.kept \cup {x}]
      BY <1>11, <2>3
    <2>5. Mass(w, front \cup {x}) = Mass(w, front) + w[x]
      BY <1>1, <1>4, MassIs
    <2>6. next.kept = N \cap (front \cup {x}) /\ next.mass = Mass(w, next.kept) /\ front \cup {x} \subseteq N
      BY <1>9, <1>12, <2>1, <2>2, <2>4, <2>5
    <2>7. next \in Accumulators(logits)
      <3>1. front \cup {x} \in SUBSET (DOMAIN logits)
        BY <1>4
      <3>2. Mass(w, front \cup {x}) \in Nat
        BY <1>1, <3>1, MassIs
      <3>3. next = [mass |-> Mass(w, front \cup {x}), kept |-> front \cup {x}]
        BY <1>9, <2>2, <2>4, <2>5
      <3>4. QED
        BY <3>1, <3>2, <3>3 DEF Accumulators
    <2>8. QED
      BY <1>1, <1>2, <1>5, <1>7, <1>10, <2>6, <2>7 DEF Collected
  <1>13. CASE x \notin N
    <2>1. 100 * acc.mass >= whole
      <3>1. CASE front \subseteq N
        <4>1. acc.kept = front
          BY <1>9, <3>1
        <4>2. acc.mass = Mass(w, Preferred(logits, x)) /\ acc.mass \in Nat
          BY <1>4, <1>9, <4>1
        <4>3. ~(100 * acc.mass < whole)
          BY <1>8, <1>13, <4>2
        <4>4. QED
          BY <4>2, <4>3
      <3>2. QED
        BY <1>9, <3>1
    <2>2. acc.kept # {}
      <3>1. SUFFICES ASSUME acc.kept = {} PROVE FALSE
        OBVIOUS
      <3>2. acc.mass = 0
        BY <1>1, <1>9, <3>1, MassIs
      <3>3. QED
        BY <2>1, <3>2
    <2>3. next = acc
      BY <1>11, <2>1, <2>2
    <2>4. next.kept = N \cap (front \cup {x})
      BY <1>9, <1>13, <2>3
    <2>5. next \in Accumulators(logits) /\ next.mass = Mass(w, next.kept) /\ 100 * next.mass >= whole
      BY <1>9, <2>1, <2>3 DEF Accumulators
    <2>6. QED
      BY <1>1, <1>2, <1>5, <1>6, <1>7, <1>10, <2>4, <2>5 DEF Collected
  <1>14. QED
    BY <1>12, <1>13

LEMMA TopPIs ==
  ASSUME NEW logits, Vector(logits), NEW p \in 1..100
  PROVE  TopPFilter(logits, p) = Keep(logits, Nucleus(logits, p)) /\ Argmax(logits) \in Nucleus(logits, p)
  <1>1. PICK w : w = Softmax(logits)
    OBVIOUS
  <1>2. Argmax(logits) \in Nucleus(logits, p)
    <2>1. PICK a \in DOMAIN logits : a = Argmax(logits) /\ Preferred(logits, a) = {}
      BY BestIs
    <2>2. Mass(w, {}) = 0 /\ Mass(w, Tokens) \in Nat \ {0}
      BY <1>1, MassIs
    <2>3. \A m \in Nat \ {0} : 100 * 0 < p * m
      OBVIOUS
    <2>4. QED
      BY <1>1, <2>1, <2>2, <2>3 DEF Nucleus
  <1>3. CASE p >= 100
    <2>1. Nucleus(logits, p) = DOMAIN logits
      BY <1>3 DEF Nucleus
    <2>2. Keep(logits, DOMAIN logits) = logits
      BY DEF Keep, Vector
    <2>3. QED
      BY <1>2, <1>3, <2>1, <2>2 DEF TopPFilter
  <1>4. CASE ~(p >= 100)
    <2>1. p \in 1..99
      BY <1>4
    <2>2. PICK n \in Nat : n = Cardinality(DOMAIN logits)
      BY SortedIs
    <2>3. PICK order : order = Sorted(logits) /\ SortedWell(logits, n, order)
      BY <2>2, SortedIs
    <2>4. PICK S : S = Accumulators(logits)
      OBVIOUS
    <2>5. PICK start : start = [mass |-> 0, kept |-> {}]
      OBVIOUS
    <2>6. start \in S
      BY <2>4, <2>5 DEF Accumulators
    <2>7. ASSUME NEW i \in 1..n, NEW acc \in S PROVE Including(w, p, acc, order[i]) \in S
      <3>1. order[i] \in DOMAIN logits /\ order[i] \in Tokens
        BY <2>3 DEF SortedWell, Vector
      <3>2. w[order[i]] \in Nat
        BY <1>1, <3>1, WeightsPositive
      <3>3. acc.mass \in Nat /\ acc.kept \in SUBSET (DOMAIN logits)
        BY <2>4 DEF Accumulators
      <3>4. acc.mass + w[order[i]] \in Nat
        BY <3>2, <3>3
      <3>5. QED
        BY <2>4, <3>1, <3>3, <3>4 DEF Including, Accumulators
    <2> DEFINE Runs(v) == v = [i \in 0..n |-> IF i = 0 THEN start ELSE Including(w, p, v[i - 1], order[i])]
    <2>8. \E v : Runs(v)
      <3>1. PICK F : F = [i \in 1..n |-> [acc \in S |-> Including(w, p, acc, order[i])]]
        OBVIOUS
      <3>2. \A i \in 1..n : \A acc \in S : F[i][acc] = Including(w, p, acc, order[i]) /\ F[i][acc] \in S
        BY <2>7, <3>1
      <3>3. PICK v \in [0..n -> S] : Goes(v, n, start, F)
        BY <2>6, <3>2, StatesExist DEF StaysIn
      <3>4. ASSUME NEW i \in 0..n PROVE v[i] = IF i = 0 THEN start ELSE Including(w, p, v[i - 1], order[i])
        <4>1. v[i] = IF i = 0 THEN start ELSE F[i][v[i - 1]]
          BY <3>3 DEF Goes
        <4>2. ASSUME i # 0 PROVE F[i][v[i - 1]] = Including(w, p, v[i - 1], order[i])
          <5>1. i \in 1..n /\ i - 1 \in 0..n
            BY <4>2
          <5>2. QED
            BY <3>2, <3>3, <5>1
        <4>3. QED
          BY <4>1, <4>2
      <3>5. v = [i \in 0..n |-> IF i = 0 THEN start ELSE Including(w, p, v[i - 1], order[i])]
        BY <3>3, <3>4
      <3>6. QED
        BY <3>5
    <2>9. PICK v : v = CHOOSE u : Runs(u)
      OBVIOUS
    <2>10. Runs(v)
      BY <2>8, <2>9
    <2>11. TopPFilter(logits, p) = Keep(logits, v[n].kept)
      BY <1>1, <1>4, <2>2, <2>3, <2>5, <2>9 DEF TopPFilter, Including
    <2> DEFINE N == {i \in 0..n : Collected(logits, p, order, v[i], i)}
    <2>12. 0 \in N
      <3>1. v[0] = start
        BY <2>10
      <3>2. Foremost(order, 0) = {}
        BY DEF Foremost
      <3>3. QED
        BY <2>4, <2>5, <2>6, <3>1, <3>2, MassIs DEF Collected
    <2>13. ASSUME NEW i \in 1..n, i - 1 \in N PROVE i \in N
      <3>1. i \in 0..n /\ i # 0
        OBVIOUS
      <3>2. v[i] = Including(w, p, v[i - 1], order[i])
        BY <2>10, <3>1
      <3>3. QED
        BY <1>1, <2>1, <2>3, <2>13, <3>1, <3>2, NucleusCollected
    <2>14. n \in N
      <3>1. n \in 0..n /\ n \in Nat
        OBVIOUS
      <3> HIDE DEF N
      <3>2. QED
        BY <2>12, <2>13, <3>1, UpToInduction
    <2>15. v[n].kept = Nucleus(logits, p)
      <3>1. Foremost(order, n) = DOMAIN logits
        BY <2>3 DEF SortedWell
      <3>2. QED
        BY <2>14, <3>1 DEF Collected, Nucleus
    <2>16. QED
      BY <1>2, <2>11, <2>15
  <1>5. QED
    BY <1>3, <1>4

-----------------------------------------------------------------------------
(* With fewer tokens, the best among them: what is preferred, and weighs   *)
KeepsOrder(logits, S, some) ==
  /\ Vector(some) /\ DOMAIN some = S /\ Argmax(some) = Argmax(logits)
  /\ \A t \in S : Preferred(some, t) = S \cap Preferred(logits, t)

LEMMA KeptAre ==
  ASSUME NEW logits, Vector(logits), NEW S \in SUBSET (DOMAIN logits), Argmax(logits) \in S,
         NEW some, some = Keep(logits, S)
  PROVE  /\ KeepsOrder(logits, S, some)
         /\ \E c \in Nat \ {0} : \A t \in S : Softmax(logits)[t] = c * Softmax(some)[t]
  <1>1. S # {}
    OBVIOUS
  <1>2. /\ Vector(some) /\ DOMAIN some = S
        /\ \E c \in Nat \ {0} : \A t \in S : Softmax(logits)[t] = c * Softmax(some)[t]
    <2>1. /\ Vector(Keep(logits, S)) /\ DOMAIN Keep(logits, S) = S
          /\ \E c \in Nat \ {0} : \A t \in S : Softmax(logits)[t] = c * Softmax(Keep(logits, S))[t]
      BY <1>1, WeightsOfSome
    <2>2. QED
      BY <2>1
  <1>3. \A t \in S : Preferred(some, t) = S \cap Preferred(logits, t)
    BY DEF Preferred, Keep
  <1>4. Argmax(some) = Argmax(logits)
    <2>1. Preferred(logits, Argmax(logits)) = {}
      BY BestIs
    <2>2. Preferred(some, Argmax(logits)) = {}
      BY <1>3, <2>1
    <2>3. QED
      BY <1>2, <2>2, BestIs
  <1>5. QED
    BY <1>2, <1>3, <1>4 DEF KeepsOrder

LEMMA Times == \A a, b, m, n \in Int : \A c \in Nat \ {0} : m * a < n * b <=> m * (c * a) < n * (c * b)
  <1>1. SUFFICES ASSUME NEW a \in Int, NEW b \in Int, NEW m \in Int, NEW n \in Int, NEW c \in Nat \ {0}
                 PROVE  m * a < n * b <=> m * (c * a) < n * (c * b)
    OBVIOUS
  <1>2. PICK x \in Int : x = m * a
    OBVIOUS
  <1>3. PICK y \in Int : y = n * b
    OBVIOUS
  <1>4. m * (c * a) = c * x /\ n * (c * b) = c * y
    BY <1>2, <1>3
  <1>5. x < y <=> c * x < c * y
    OBVIOUS
  <1>6. QED
    BY <1>2, <1>3, <1>4, <1>5

(* The tokens that are left after the filters                              *)
Left(logits, k, p, min) ==
  {t \in Top(logits, k) :
     /\ p < 100 => 100 * Mass(Softmax(logits), Top(logits, k) \cap Preferred(logits, t))
                     < p * Mass(Softmax(logits), Top(logits, k))
     /\ 100 * Softmax(logits)[t] >= min * Softmax(logits)[Argmax(logits)]}

(* No limit is as good as one of all tokens                                *)
LimitOf(logits, k, K) == K \in Int /\ IF k <= 0 THEN K >= Cardinality(DOMAIN logits) ELSE K = k

Filtered(logits, k, p, min) == MinPFilter(TopPFilter(TopKFilter(logits, k), p), min)

LEMMA FiltersLeave ==
  ASSUME NEW logits, Vector(logits), NEW k \in Int, NEW p \in 1..100, NEW min \in 0..99,
         NEW K, LimitOf(logits, k, K)
  PROVE  /\ {t \in Tokens : Softmax(Filtered(logits, k, p, min))[t] > 0} = Left(logits, K, p, min)
         /\ Argmax(logits) \in Left(logits, K, p, min)
  <1>1. PICK filtered : filtered = Filtered(logits, k, p, min)
    OBVIOUS
  <1>2. PICK top : top = Top(logits, K)
    OBVIOUS
  <1>3. PICK best : best = Argmax(logits)
    OBVIOUS
  <1>4. PICK w : w = Softmax(logits)
    OBVIOUS
  <1>5. TopKFilter(logits, k) = Keep(logits, top) /\ best \in top /\ top \in SUBSET (DOMAIN logits)
    BY <1>2, <1>3, TopKIs DEF Top, LimitOf
  <1>6. PICK high : high = Keep(logits, top)
    OBVIOUS
  <1>7. /\ Vector(high) /\ DOMAIN high = top /\ Argmax(high) = best
        /\ \A t \in top : Preferred(high, t) = top \cap Preferred(logits, t)
    BY <1>3, <1>5, <1>6, KeptAre DEF KeepsOrder
  <1>8. PICK v : v = Softmax(high)
    OBVIOUS
  <1>9. PICK c \in Nat \ {0} : \A t \in top : w[t] = c * v[t]
    BY <1>3, <1>4, <1>5, <1>6, <1>8, KeptAre
  <1>10. PICK kept : kept = Nucleus(high, p)
    OBVIOUS
  <1>11. TopPFilter(high, p) = Keep(high, kept) /\ best \in kept /\ kept \in SUBSET top
    BY <1>7, <1>10, TopPIs DEF Nucleus
  <1>12. ASSUME NEW S \in SUBSET top PROVE Mass(w, S) = c * Mass(v, S) /\ Mass(v, S) \in Int
    <2>1. IsFiniteSet(S)
      BY <1>7, PreferredIs, FS_Subset
    <2>2. \A t \in S : v[t] \in Int
      <3>1. \A t \in S : t \in Tokens
        BY <1>7 DEF Vector
      <3>2. QED
        BY <1>7, <1>8, <3>1, WeightsPositive
    <2>3. QED
      BY <1>9, <2>1, <2>2, SumScaled, SumInt DEF Mass
  <1>13. Mass(v, Tokens) = Mass(v, top)
    BY <1>7, <1>8, MassIs
  <1>14. ASSUME NEW t \in top
         PROVE  100 * Mass(v, Preferred(high, t)) < p * Mass(v, Tokens)
                  <=> 100 * Mass(w, top \cap Preferred(logits, t)) < p * Mass(w, top)
    <2>1. PICK a \in Int : a = Mass(v, Preferred(high, t)) /\ Mass(w, top \cap Preferred(logits, t)) = c * a
      <3>1. top \cap Preferred(logits, t) \in SUBSET top
        OBVIOUS
      <3>2. QED
        BY <1>7, <1>12, <3>1
    <2>2. PICK b \in Int : b = Mass(v, Tokens) /\ Mass(w, top) = c * b
      <3>1. top \in SUBSET top
        OBVIOUS
      <3>2. QED
        BY <1>12, <1>13, <3>1
    <2>3. 100 \in Int /\ p \in Int
      OBVIOUS
    <2>4. 100 * a < p * b <=> 100 * (c * a) < p * (c * b)
      BY <2>3, Times
    <2>5. QED
      BY <2>1, <2>2, <2>4
  <1>15. kept = {t \in top : p < 100 => 100 * Mass(w, top \cap Preferred(logits, t)) < p * Mass(w, top)}
    BY <1>7, <1>8, <1>10, <1>14 DEF Nucleus
  <1>16. PICK few : few = Keep(high, kept)
    OBVIOUS
  <1>17. few = Keep(logits, kept)
    BY <1>6, <1>11, <1>16 DEF Keep
  <1>18. kept \in SUBSET (DOMAIN logits)
    BY <1>5, <1>11
  <1>19. Vector(few) /\ DOMAIN few = kept /\ Argmax(few) = best
    BY <1>3, <1>11, <1>17, <1>18, KeptAre DEF KeepsOrder
  <1>20. PICK u : u = Softmax(few)
    OBVIOUS
  <1>21. PICK d \in Nat \ {0} : \A t \in kept : w[t] = d * u[t]
    BY <1>3, <1>4, <1>11, <1>17, <1>18, <1>20, KeptAre
  <1>22. \A t \in kept : u[t] \in Nat
    <2>1. \A t \in kept : t \in Tokens
      BY <1>18 DEF Vector
    <2>2. QED
      BY <1>19, <1>20, <2>1, WeightsPositive
  <1>23. ASSUME NEW t \in kept PROVE 100 * u[t] >= min * u[best] <=> 100 * w[t] >= min * w[best]
    <2>1. PICK a \in Int : a = u[t]
      BY <1>22
    <2>2. PICK b \in Int : b = u[best]
      BY <1>11, <1>22
    <2>3. w[t] = d * a /\ w[best] = d * b
      BY <1>11, <1>21, <2>1, <2>2
    <2>4. 100 \in Int /\ min \in Int
      OBVIOUS
    <2>5. QED
      <3>1. 100 * a < min * b <=> 100 * (d * a) < min * (d * b)
        BY <2>4, Times
      <3>2. \A x, y \in Int : x >= y <=> ~(x < y)
        OBVIOUS
      <3>3. /\ 100 * a \in Int /\ min * b \in Int /\ 100 * (d * a) \in Int /\ min * (d * b) \in Int
        OBVIOUS
      <3>4. QED
        BY <2>1, <2>2, <2>3, <3>1, <3>2, <3>3
  <1>24. PICK rest : rest = {t \in kept : 100 * w[t] >= min * w[best]}
    OBVIOUS
  <1>25. best \in rest
    <2>1. PICK a \in Nat : a = u[best]
      BY <1>11, <1>22
    <2>2. 100 * a >= min * a
      <3>1. PICK x \in Nat : x = 100 - min
        OBVIOUS
      <3>2. x * a \in Nat /\ 100 * a = min * a + x * a
        BY <3>1
      <3>3. min * a \in Int
        OBVIOUS
      <3>4. QED
        BY <3>2, <3>3
    <2>3. QED
      BY <1>11, <1>23, <1>24, <2>1, <2>2
  <1>26. filtered = Keep(few, rest)
    <2>1. filtered = MinPFilter(few, min)
      BY <1>1, <1>5, <1>6, <1>11, <1>16 DEF Filtered
    <2>2. rest = {t \in DOMAIN few : 100 * Softmax(few)[t] >= min * Softmax(few)[Argmax(few)]}
      BY <1>19, <1>20, <1>23, <1>24
    <2>3. CASE min <= 0
      <3>1. \A t \in kept : 100 * u[t] >= min * u[best]
        <4>1. min = 0
          BY <2>3
        <4>2. \A x, y \in Nat : 100 * x >= 0 * y
          OBVIOUS
        <4>3. QED
          BY <1>11, <1>22, <4>1, <4>2
      <3>2. rest = kept
        BY <1>23, <1>24, <3>1
      <3>3. Keep(few, kept) = few
        BY <1>19 DEF Keep, Vector
      <3>4. QED
        BY <2>1, <2>3, <3>2, <3>3 DEF MinPFilter
    <2>4. CASE ~(min <= 0)
      BY <2>1, <2>2, <2>4 DEF MinPFilter
    <2>5. QED
      BY <2>3, <2>4
  <1>27. Vector(filtered) /\ DOMAIN filtered = rest
    <2>1. rest \in SUBSET (DOMAIN few) /\ Argmax(few) \in rest
      BY <1>19, <1>24, <1>25
    <2>2. QED
      BY <1>19, <1>26, <2>1, KeptAre DEF KeepsOrder
  <1>28. {t \in Tokens : Softmax(filtered)[t] > 0} = rest
    <2>1. rest \subseteq Tokens
      BY <1>27 DEF Vector
    <2>2. QED
      BY <1>27, <2>1, WeightsPositive
  <1>29. rest = Left(logits, K, p, min)
    BY <1>2, <1>3, <1>4, <1>15, <1>24 DEF Left
  <1>30. QED
    BY <1>1, <1>3, <1>25, <1>28, <1>29

-----------------------------------------------------------------------------
LEMMA WindowCounted ==
  ASSUME NEW past \in Seq(Tokens), NEW cfg \in GenConfigs, NEW t
  PROVE  Cardinality({i \in DOMAIN Window(past, cfg) : Window(past, cfg)[i] = t}) \in Nat
  <1>1. cfg.window \in Nat
    BY SamplingAssumption
  <1>2. PICK w : w = Window(past, cfg)
    OBVIOUS
  <1>3. w \in Seq(Tokens)
    <2>1. CASE cfg.window = 0 \/ Len(past) <= cfg.window
      BY <1>2, <2>1 DEF Window
    <2>2. CASE ~(cfg.window = 0 \/ Len(past) <= cfg.window)
      <3>1. PICK m \in Int : m = Len(past) - cfg.window + 1
        BY <1>1
      <3>2. PICK n \in Nat : n = Len(past)
        OBVIOUS
      <3>3. \A i \in m..n : past[i] \in Tokens
        BY <1>1, <2>2, <3>1, <3>2
      <3>4. SubSeq(past, m, n) \in Seq(Tokens)
        BY <3>3, SubSeqProperties
      <3>5. QED
        BY <1>2, <2>2, <3>1, <3>2, <3>4 DEF Window
    <2>3. QED
      BY <2>1, <2>2
  <1>4. DOMAIN w = 1..Len(w) /\ Len(w) \in Nat
    BY <1>3
  <1>5. IsFiniteSet(DOMAIN w)
    BY <1>4, FS_Interval
  <1>6. IsFiniteSet({i \in DOMAIN w : w[i] = t})
    BY <1>5, FS_Subset
  <1>7. QED
    BY <1>2, <1>6, FS_CardinalityType

(* A quotient rounded down is at most l when the dividend is at most k l.  *)
LEMMA QuotientAtMost ==
  ASSUME NEW m \in Int, NEW l \in Int, NEW k \in Nat \ {0}, m <= k * l
  PROVE  m \div k <= l
  <1>1. PICK q \in Int : q = m \div k /\ k * q <= m
    <2>1. m \div k \in Int /\ k * (m \div k) <= m
      OBVIOUS
    <2>2. QED
      BY <2>1
  <1>2. SUFFICES ASSUME q > l PROVE FALSE
    BY <1>1
  <1>3. PICK e \in Nat \ {0} : q = l + e
    <2>1. q - l \in Nat \ {0} /\ q = l + (q - l)
      BY <1>1, <1>2
    <2>2. QED
      BY <2>1
  <1>4. k * e \in Nat \ {0}
    OBVIOUS
  <1>5. k * q = k * l + k * e
    BY <1>3
  <1>6. QED
    BY <1>1, <1>4, <1>5

(* Whatever the settings, what is sampled from is a vector of the tokens   *)
(* that are not suppressed; penalties lower a logit, of tokens in the      *)
(* window only.                                                            *)
AdjustedWell(logits, past, cfg) ==
  LET biased == Suppress(ApplyLogitBias(logits, cfg.bias), cfg.suppress)
      work == Adjusted(logits, past, cfg)
  IN /\ Vector(work) /\ DOMAIN work = Tokens \ cfg.suppress
     /\ \A t \in DOMAIN work :
          /\ Penalizes(cfg) => work[t] <= biased[t]
          /\ t \notin Range(Window(past, cfg)) => work[t] = biased[t]

LEMMA AdjustedIs ==
  ASSUME NEW logits \in [Tokens -> Int], NEW past \in Seq(Tokens), NEW cfg \in GenConfigs
  PROVE  AdjustedWell(logits, past, cfg)
  <1>1. PICK biased : biased = Suppress(ApplyLogitBias(logits, cfg.bias), cfg.suppress)
    OBVIOUS
  <1>2. PICK work : work = Adjusted(logits, past, cfg)
    OBVIOUS
  <1>3. /\ cfg.repetition \in Nat \ {0} /\ cfg.frequency \in Int /\ cfg.presence \in Int
        /\ \A u \in DOMAIN cfg.bias : cfg.bias[u] \in Int
        /\ Tokens \ cfg.suppress # {}
    BY SamplingAssumption
  <1>4. DOMAIN biased = Tokens \ cfg.suppress /\ \A t \in DOMAIN biased : biased[t] \in Int
    <2>1. PICK added : added = ApplyLogitBias(logits, cfg.bias)
      OBVIOUS
    <2>2. DOMAIN added = Tokens /\ \A t \in Tokens : added[t] \in Int
      BY <1>3, <2>1 DEF ApplyLogitBias
    <2>3. biased = [t \in Tokens \ cfg.suppress |-> added[t]]
      BY <1>1, <2>1, <2>2 DEF Suppress
    <2>4. QED
      BY <2>2, <2>3
  <1> DEFINE Count(t) == Cardinality({i \in DOMAIN Window(past, cfg) : Window(past, cfg)[i] = t})
             Lowered(t) == Repetition(biased[t], cfg.repetition) - cfg.frequency * Count(t) - cfg.presence
  <1>5. work = [t \in DOMAIN biased |-> IF Count(t) = 0 THEN biased[t] ELSE Lowered(t)]
    BY <1>1, <1>2 DEF Adjusted, ApplyPenalties
  <1>6. ASSUME NEW t \in DOMAIN biased
        PROVE  Lowered(t) \in Int /\ (Penalizes(cfg) => Lowered(t) <= biased[t])
    <2>1. PICK n \in Nat : n = Count(t)
      BY WindowCounted
    <2>2. PICK l \in Int : l = biased[t]
      BY <1>4
    <2>3. PICK k \in Nat \ {0} : k = cfg.repetition
      BY <1>3
    <2>4. PICK f \in Int : f = cfg.frequency
      BY <1>3
    <2>5. PICK q \in Int : q = cfg.presence
      BY <1>3
    <2>6. PICK r \in Int : r = Repetition(l, k) /\ (k >= 100 => r <= l)
      <3>1. CASE l > 0
        <4>1. PICK m \in Int : m = 100 * l
          OBVIOUS
        <4>2. m \div k \in Int /\ k * (m \div k) <= m
          BY <4>1
        <4>3. ASSUME k >= 100 PROVE m \div k <= l
          <5>1. PICK d \in Nat : k = 100 + d
            <6>1. k - 100 \in Nat /\ k = 100 + (k - 100)
              BY <4>3
            <6>2. QED
              BY <6>1
          <5>2. d * l \in Nat
            BY <3>1
          <5>3. k * l = m + d * l
            BY <4>1, <5>1
          <5>4. m <= k * l
            BY <4>1, <5>2, <5>3
          <5>5. QED
            BY <4>1, <5>4, QuotientAtMost
        <4>4. QED
          BY <3>1, <4>1, <4>2, <4>3 DEF Repetition
      <3>2. CASE ~(l > 0)
        <4>1. PICK m \in Int : m = l * k
          OBVIOUS
        <4>2. m \div 100 \in Int /\ 100 * (m \div 100) <= m
          BY <4>1
        <4>3. ASSUME k >= 100 PROVE m \div 100 <= l
          <5>1. PICK e \in Nat, d \in Nat : e = -l /\ d = k - 100 /\ k = 100 + d
            <6>1. -l \in Nat /\ k - 100 \in Nat /\ k = 100 + (k - 100)
              BY <3>2, <4>3
            <6>2. QED
              BY <6>1
          <5>2. e * d \in Nat
            OBVIOUS
          <5>3. l = -e /\ m = l * (100 + d)
            BY <4>1, <5>1
          <5>4. m = 100 * l - e * d
            BY <5>3
          <5>5. m <= 100 * l
            BY <5>2, <5>4
          <5>6. QED
            BY <4>2, <5>5
        <4>4. QED
          BY <3>2, <4>1, <4>2, <4>3 DEF Repetition
      <3>3. QED
        BY <3>1, <3>2
    <2>7. PICK x \in Int : x = f * n
      OBVIOUS
    <2>8. Lowered(t) = r - x - q
      BY <2>1, <2>2, <2>3, <2>4, <2>5, <2>6, <2>7
    <2>9. ASSUME k >= 100, f \in Nat, q \in Nat PROVE r - x - q <= l
      <3>1. x \in Nat
        BY <2>7, <2>9
      <3>2. QED
        BY <2>6, <2>9, <3>1
    <2>10. Penalizes(cfg) => k >= 100 /\ f \in Nat /\ q \in Nat
      BY <2>3, <2>4, <2>5 DEF Penalizes
    <2>11. r - x - q \in Int
      BY <2>6, <2>7
    <2>12. QED
      BY <2>2, <2>8, <2>9, <2>10, <2>11
  <1>7. DOMAIN work = Tokens \ cfg.suppress
    BY <1>4, <1>5
  <1>8. ASSUME NEW t \in DOMAIN work
        PROVE  /\ work[t] \in Int
               /\ Penalizes(cfg) => work[t] <= biased[t]
               /\ t \notin Range(Window(past, cfg)) => work[t] = biased[t]
    <2>1. t \in DOMAIN biased /\ biased[t] \in Int
      BY <1>4, <1>7
    <2>2. work[t] = IF Count(t) = 0 THEN biased[t] ELSE Lowered(t)
      BY <1>5, <2>1
    <2>3. t \notin Range(Window(past, cfg)) => Count(t) = 0
      <3>1. SUFFICES ASSUME t \notin Range(Window(past, cfg)) PROVE Count(t) = 0
        OBVIOUS
      <3>2. {i \in DOMAIN Window(past, cfg) : Window(past, cfg)[i] = t} = {}
        BY <3>1 DEF Range
      <3>3. QED
        BY <3>2, FS_EmptySet
    <2> HIDE DEF Count, Lowered
    <2>4. biased[t] <= biased[t]
      BY <2>1
    <2>5. QED
      BY <1>6, <2>1, <2>2, <2>3, <2>4
  <1>9. Vector(work)
    BY <1>3, <1>5, <1>7, <1>8 DEF Vector
  <1>10. QED
    BY <1>1, <1>2, <1>7, <1>8, <1>9 DEF AdjustedWell

LEMMA TemperedIs ==
  ASSUME NEW work, Vector(work), NEW temperature \in Nat, NEW logits, logits = ApplyTemperature(work, temperature)
  PROVE  Vector(logits) /\ DOMAIN logits = DOMAIN work /\ (temperature = 0 => logits = work)
  <1>1. \A t \in DOMAIN work : work[t] \in Int
    BY DEF Vector
  <1>2. CASE temperature = 0
    <2>1. logits = work
      BY <1>2 DEF ApplyTemperature, Vector
    <2>2. QED
      BY <2>1
  <1>3. CASE temperature # 0
    <2>1. \A l \in Int : l \div temperature \in Int
      BY <1>3
    <2>2. logits = [t \in DOMAIN work |-> work[t] \div temperature]
      BY <1>3 DEF ApplyTemperature
    <2>3. QED
      BY <1>1, <1>3, <2>1, <2>2 DEF Vector
  <1>4. QED
    BY <1>2, <1>3

-----------------------------------------------------------------------------
(* What can be drawn, of any logits after any tokens                       *)
Tempered(given, past, cfg) == ApplyTemperature(Adjusted(given, past, cfg), cfg.temperature)

Limit(cfg) == IF cfg.topK <= 0 THEN Cardinality(Tokens) ELSE cfg.topK

DrawsWell(given, past, cfg, logits) ==
  /\ Vector(logits) /\ DOMAIN logits = Tokens \ cfg.suppress
  /\ Argmax(logits) \in Drawable(given, past, cfg)
  /\ Drawable(given, past, cfg) = IF cfg.temperature = 0 THEN {Argmax(logits)}
                                  ELSE Left(logits, Limit(cfg), cfg.topP, cfg.minP)

LEMMA DrawableIs ==
  ASSUME NEW given \in [Tokens -> Int], NEW past \in Seq(Tokens), NEW cfg \in GenConfigs
  PROVE  DrawsWell(given, past, cfg, Tempered(given, past, cfg))
  <1>1. PICK logits : logits = Tempered(given, past, cfg)
    OBVIOUS
  <1>2. PICK K : K = Limit(cfg)
    OBVIOUS
  <1>3. /\ cfg.temperature \in Nat /\ cfg.topK \in Int /\ cfg.topP \in 1..100 /\ cfg.minP \in 0..99
        /\ IsFiniteSet(Tokens)
    BY SamplingAssumption
  <1>4. PICK work : work = Adjusted(given, past, cfg)
    OBVIOUS
  <1>5. Vector(work) /\ DOMAIN work = Tokens \ cfg.suppress
    BY <1>4, AdjustedIs DEF AdjustedWell
  <1>6. /\ Vector(logits) /\ DOMAIN logits = Tokens \ cfg.suppress
        /\ cfg.temperature = 0 => logits = work
    BY <1>3, <1>4, <1>5, <1>1, TemperedIs DEF Tempered
  <1>7. CASE cfg.temperature = 0
    <2>1. Drawable(given, past, cfg) = {Argmax(work)}
      BY <1>4, <1>7 DEF Drawable
    <2>2. Argmax(logits) \in Drawable(given, past, cfg)
      BY <1>6, <1>7, <2>1
    <2>3. QED
      BY <1>6, <1>7, <1>1, <2>1, <2>2 DEF DrawsWell
  <1>8. CASE cfg.temperature # 0
    <2>1. PICK filtered : filtered = Filtered(logits, cfg.topK, cfg.topP, cfg.minP)
      OBVIOUS
    <2>2. Drawable(given, past, cfg) = {t \in Tokens : Softmax(filtered)[t] > 0}
      BY <1>4, <1>8, <1>1, <2>1 DEF Drawable, Tempered, Filtered
    <2>3. LimitOf(logits, cfg.topK, K)
      <3>1. Cardinality(Tokens) \in Nat /\ Cardinality(DOMAIN logits) <= Cardinality(Tokens)
        BY <1>3, <1>6, FS_Subset, FS_CardinalityType
      <3>2. Cardinality(DOMAIN logits) \in Nat
        BY <1>3, <1>6, FS_Subset, FS_CardinalityType
      <3>3. QED
        BY <1>3, <1>2, <3>1, <3>2 DEF LimitOf, Limit
    <2>4. PICK k \in Int, p \in 1..100, min \in 0..99 : k = cfg.topK /\ p = cfg.topP /\ min = cfg.minP
      BY <1>3
    <2>5. LimitOf(logits, k, K)
      BY <2>3, <2>4
    <2>6. /\ {t \in Tokens : Softmax(Filtered(logits, k, p, min))[t] > 0} = Left(logits, K, p, min)
          /\ Argmax(logits) \in Left(logits, K, p, min)
      BY <1>6, <2>5, FiltersLeave
    <2>7. filtered = Filtered(logits, k, p, min)
      BY <2>1, <2>4
    <2>8. Drawable(given, past, cfg) = Left(logits, K, p, min)
      BY <2>2, <2>6, <2>7
    <2>9. QED
      BY <1>6, <1>8, <1>1, <1>2, <2>4, <2>6, <2>8 DEF DrawsWell
  <1>9. QED
    BY <1>7, <1>8

LEMMA DrawableInTokens ==
  ASSUME NEW given \in [Tokens -> Int], NEW past \in Seq(Tokens), NEW cfg \in GenConfigs
  PROVE  Drawable(given, past, cfg) \subseteq Tokens
  <1>1. PICK logits : logits = Tempered(given, past, cfg)
    OBVIOUS
  <1>2. /\ Vector(logits)
        /\ Drawable(given, past, cfg) = IF cfg.temperature = 0 THEN {Argmax(logits)}
                                        ELSE Left(logits, Limit(cfg), cfg.topP, cfg.minP)
    BY <1>1, DrawableIs DEF DrawsWell
  <1>3. Argmax(logits) \in Tokens /\ Top(logits, Limit(cfg)) \subseteq Tokens
    BY <1>2, BestIs DEF Vector, Top
  <1>4. QED
    BY <1>2, <1>3 DEF Left

SamplingTypes == genConfig \in GenConfigs /\ history \in Seq(Tokens) /\ answered \in [Tokens -> Int]

LEMMA TypesSample == SamplingTypes => SamplesAsAsked
  <1> DEFINE cfg == genConfig
             biased == Suppress(ApplyLogitBias(answered, cfg.bias), cfg.suppress)
             work == Adjusted(answered, history, cfg)
             logits == ApplyTemperature(work, cfg.temperature)
             weights == Softmax(logits)
             best == CHOOSE t \in DOMAIN logits : Preferred(logits, t) = {}
             k == IF cfg.topK <= 0 THEN Cardinality(Tokens) ELSE cfg.topK
             top == {t \in DOMAIN logits : Cardinality({u \in DOMAIN logits : logits[u] > logits[t]}) < k}
             drawable == Drawable(answered, history, cfg)
  <1>1. SUFFICES ASSUME SamplingTypes PROVE SamplesAsAsked
    OBVIOUS
  <1>2. DrawsWell(answered, history, cfg, Tempered(answered, history, cfg)) /\ AdjustedWell(answered, history, cfg)
    BY <1>1, DrawableIs, AdjustedIs DEF SamplingTypes
  <1>3. \A t \in DOMAIN work :
          /\ Penalizes(cfg) => work[t] <= biased[t]
          /\ t \notin Range(Window(history, cfg)) => work[t] = biased[t]
    BY <1>2 DEF AdjustedWell
  <1>4. Tempered(answered, history, cfg) = logits /\ Limit(cfg) = k
    BY DEF Tempered, Limit
  <1> HIDE DEF cfg, biased, work, logits, k, drawable
  <1>5. /\ Vector(logits) /\ DOMAIN logits = Tokens \ cfg.suppress
        /\ Argmax(logits) \in Drawable(answered, history, cfg)
        /\ Drawable(answered, history, cfg) =
             IF cfg.temperature = 0 THEN {Argmax(logits)} ELSE Left(logits, k, cfg.topP, cfg.minP)
    BY <1>2, <1>4 DEF DrawsWell
  <1>6. best = Argmax(logits)
    BY <1>5, BestIs
  <1>7. drawable = IF cfg.temperature = 0 THEN {best} ELSE Left(logits, k, cfg.topP, cfg.minP)
    BY <1>5, <1>6 DEF drawable
  <1>8. Top(logits, k) = top
    BY DEF Top
  <1> HIDE DEF top, weights
  <1>9. weights = Softmax(logits)
    BY DEF weights
  <1>10. Left(logits, k, cfg.topP, cfg.minP) =
           {t \in top :
              /\ cfg.topP < 100 => 100 * Mass(weights, top \cap Preferred(logits, t)) < cfg.topP * Mass(weights, top)
              /\ 100 * weights[t] >= cfg.minP * weights[best]}
    BY <1>6, <1>8, <1>9 DEF Left
  <1> HIDE DEF best
  <1>11. best \in drawable
    BY <1>5, <1>6 DEF drawable
  <1>12. drawable \cap cfg.suppress = {}
    <2>1. best \in DOMAIN logits
      BY <1>5, <1>6, BestIs
    <2>2. Left(logits, k, cfg.topP, cfg.minP) \subseteq DOMAIN logits
      BY DEF Left, Top
    <2>3. QED
      BY <1>5, <1>7, <2>1, <2>2
  <1>13. drawable = IF cfg.temperature = 0 THEN {best}
                    ELSE {t \in top :
                            /\ cfg.topP < 100 =>
                                 100 * Mass(weights, top \cap Preferred(logits, t)) < cfg.topP * Mass(weights, top)
                            /\ 100 * weights[t] >= cfg.minP * weights[best]}
    BY <1>7, <1>10
  <1> USE DEF cfg, biased, work, logits, k, drawable, top, weights, best
  <1>14. QED
    BY <1>3, <1>11, <1>12, <1>13 DEF SamplesAsAsked

(* For all settings SamplingAssumption allows, whatever the model answers  *)
(* and whatever was drawn, the tokens that can be drawn are those asked    *)
(* for.  That a penalty makes no token more likely is claimed only where   *)
(* the repetition's is 100 percent or more and the others not negative,    *)
(* which GenerationConfig does not see to.                                 *)
THEOREM AskedSamples == SamplingSpec => []SamplesAsAsked
  <1>1. SamplingInit => SamplingTypes
    BY SamplingAssumption DEF SamplingInit, SamplingTypes
  <1>2. SamplingTypes /\ [SamplingNext]_samplingVars => SamplingTypes'
    <2>1. SUFFICES ASSUME SamplingTypes, [SamplingNext]_samplingVars PROVE SamplingTypes'
      OBVIOUS
    <2>2. CASE UNCHANGED samplingVars
      BY <2>1, <2>2 DEF samplingVars, SamplingTypes
    <2>3. CASE SamplingNext
      <3>1. PICK logits \in LogitVectors : Sample(logits)
        BY <2>3 DEF SamplingNext
      <3>2. PICK t \in Drawable(answered, history, genConfig) : history' = Append(history, t)
        BY <3>1 DEF Sample
      <3>3. genConfig' = genConfig /\ answered' = logits /\ logits \in [Tokens -> Int]
        BY <3>1, SamplingAssumption DEF Sample
      <3>4. t \in Tokens
        BY <2>1, <3>2, DrawableInTokens DEF SamplingTypes
      <3>5. history' \in Seq(Tokens)
        BY <2>1, <3>2, <3>4 DEF SamplingTypes
      <3>6. QED
        BY <2>1, <3>3, <3>5 DEF SamplingTypes
    <2>4. QED
      BY <2>1, <2>2, <2>3
  <1>3. QED
    BY <1>1, <1>2, TypesSample, PTL DEF SamplingSpec

-----------------------------------------------------------------------------
(***************************************************************************)
(* Speculative decoding.                                                   *)
(***************************************************************************)
SpeculationTypes ==
  /\ acceptance \in {"greedy", "typical"} /\ gen \in GenConfigs
  /\ context \in Seq(Tokens) /\ context # <<>>
  /\ stats \in [rounds : Nat, proposed : Nat, accepted : Nat, rejected : Nat]

Greedy == acceptance = "greedy" /\ gen.temperature = 0 /\ Unpenalized

(* The i-th token is what the target takes after the one before it         *)
Takes(s, i) == s[i] = Argmax(Suppress(TargetLogits[s[i - 1]], gen.suppress))

Counted ==
  /\ stats.accepted + stats.rejected = Len(context) - 1
  /\ stats.rejected <= stats.rounds /\ stats.accepted <= stats.proposed + stats.rounds - stats.rejected

SpeculationInv == SpeculationTypes /\ SpeculationExact

LEMMA SpeculationInvSplit ==
  SpeculationExact <=> Counted /\ (Greedy => \A i \in 2..Len(context) : Takes(context, i))
  BY DEF SpeculationExact, Counted, Greedy, Takes

(* The context before a drafted token, and its parts                       *)
Extended(past, drafted, n) ==
  /\ past \in Seq(Tokens) /\ Len(past) = Len(context) + n - 1 /\ Len(context) \in Nat \ {0}
  /\ \A i \in 1..Len(context) : past[i] = context[i]
  /\ \A i \in 1..(n - 1) : past[Len(context) + i] = drafted[i]
  /\ Last(past) = past[Len(past)] /\ Last(past) \in Tokens

LEMMA ContextExtended ==
  ASSUME SpeculationTypes, NEW drafted \in [1..NumTokens -> Tokens], NEW n \in Nat, 1 <= n, n <= NumTokens + 1,
         NEW past, past = ContextBefore(drafted, n)
  PROVE  Extended(past, drafted, n)
  <1>1. context \in Seq(Tokens) /\ context # <<>> /\ Len(context) \in Nat \ {0} /\ NumTokens \in Nat
    BY SpeculationAssumption DEF SpeculationTypes
  <1>2. PICK m \in Int : m = n - 1
    OBVIOUS
  <1>3. \A i \in 1..m : drafted[i] \in Tokens
    BY <1>1, <1>2
  <1>4. PICK front : front = SubSeq(drafted, 1, m)
    OBVIOUS
  <1>5. front \in Seq(Tokens) /\ Len(front) = m /\ \A i \in 1..m : front[i] = drafted[i]
    <2>1. /\ SubSeq(drafted, 1, m) \in Seq(Tokens)
          /\ Len(SubSeq(drafted, 1, m)) = IF 1 <= m THEN m - 1 + 1 ELSE 0
          /\ \A i \in 1..(m - 1 + 1) : SubSeq(drafted, 1, m)[i] = drafted[1 + i - 1]
      BY <1>3, SubSeqProperties
    <2>2. m - 1 + 1 = m /\ (IF 1 <= m THEN m ELSE 0) = m /\ \A i \in 1..m : 1 + i - 1 = i
      BY <1>2
    <2>3. QED
      BY <1>4, <2>1, <2>2
  <1>6. past = context \o front
    BY <1>2, <1>4 DEF ContextBefore
  <1>7. /\ past \in Seq(Tokens) /\ Len(past) = Len(context) + m
        /\ \A i \in 1..(Len(context) + m) : past[i] = IF i <= Len(context) THEN context[i] ELSE front[i - Len(context)]
    <2>1. PICK c \in Seq(Tokens) : c = context
      BY <1>1
    <2>2. /\ c \o front \in Seq(Tokens) /\ Len(c \o front) = Len(c) + Len(front)
          /\ \A i \in 1..(Len(c) + Len(front)) :
               (c \o front)[i] = IF i <= Len(c) THEN c[i] ELSE front[i - Len(c)]
      BY <1>5, ConcatProperties
    <2>3. QED
      BY <1>5, <1>6, <2>1, <2>2
  <1>8. \A i \in 1..Len(context) : past[i] = context[i]
    BY <1>1, <1>2, <1>7
  <1>9. \A i \in 1..(n - 1) : past[Len(context) + i] = drafted[i]
    <2>1. SUFFICES ASSUME NEW i \in 1..(n - 1) PROVE past[Len(context) + i] = drafted[i]
      OBVIOUS
    <2>2. PICK k \in Nat : k = Len(context) + i
      BY <1>1
    <2>3. k \in 1..(Len(context) + m) /\ ~(k <= Len(context)) /\ k - Len(context) = i /\ i \in 1..m
      BY <1>1, <1>2, <2>2
    <2>4. past[k] = front[i]
      BY <1>7, <2>3
    <2>5. QED
      BY <1>5, <2>2, <2>3, <2>4
  <1>10. Last(past) = past[Len(past)] /\ Last(past) \in Tokens
    <2>1. Len(past) \in 1..Len(past)
      BY <1>1, <1>2, <1>7
    <2>2. QED
      BY <1>7, <2>1, ElementOfSeq DEF Last
  <1>11. Len(past) = Len(context) + n - 1
    BY <1>1, <1>2, <1>7
  <1>12. QED
    BY <1>1, <1>7, <1>8, <1>9, <1>10, <1>11 DEF Extended

(* The context before an earlier drafted token ends where the later one    *)
(* has the token before it.                                                *)
Precedes(drafted, i, past) ==
  /\ Last(ContextBefore(drafted, i)) = past[Len(context) + i - 1]
  /\ past[Len(context) + i - 1] \in Tokens
  /\ ContextBefore(drafted, i) \in Seq(Tokens)

LEMMA LastBefore ==
  ASSUME SpeculationTypes, NEW drafted \in [1..NumTokens -> Tokens], NEW n \in Nat, n <= NumTokens + 1,
         NEW past, past = ContextBefore(drafted, n), NEW i \in 1..(n - 1)
  PROVE  Precedes(drafted, i, past)
  <1>1. PICK early : early = ContextBefore(drafted, i)
    OBVIOUS
  <1>2. NumTokens \in Nat /\ i \in Nat /\ 1 <= i /\ i <= NumTokens + 1 /\ 1 <= n
    BY SpeculationAssumption
  <1>3. /\ early \in Seq(Tokens) /\ Len(early) = Len(context) + i - 1 /\ Len(context) \in Nat \ {0}
        /\ \A j \in 1..Len(context) : early[j] = context[j]
        /\ \A j \in 1..(i - 1) : early[Len(context) + j] = drafted[j]
        /\ Last(early) = early[Len(early)] /\ Last(early) \in Tokens
    <2>1. Extended(early, drafted, i)
      BY <1>1, <1>2, ContextExtended
    <2>2. QED
      BY <2>1 DEF Extended
  <1>4. /\ \A j \in 1..Len(context) : past[j] = context[j]
        /\ \A j \in 1..(n - 1) : past[Len(context) + j] = drafted[j]
    <2>1. Extended(past, drafted, n)
      BY <1>2, ContextExtended
    <2>2. QED
      BY <2>1 DEF Extended
  <1>5. early[Len(early)] = past[Len(early)]
    <2>1. CASE i = 1
      <3>1. Len(early) \in 1..Len(context)
        BY <1>3, <2>1
      <3>2. QED
        BY <1>3, <1>4, <3>1
    <2>2. CASE i # 1
      <3>1. PICK j \in Nat : j = i - 1
        BY <1>2
      <3>2. j \in 1..(i - 1) /\ j \in 1..(n - 1) /\ Len(early) = Len(context) + j
        BY <1>2, <1>3, <2>2, <3>1
      <3>3. QED
        BY <1>3, <1>4, <3>2
    <2>3. QED
      BY <2>1, <2>2
  <1>6. QED
    BY <1>1, <1>3, <1>5 DEF Precedes

(* A token that is best and not suppressed is best of what is not          *)
LEMMA BestOfTheRest ==
  ASSUME NEW logits \in [Tokens -> Int], NEW ids, Tokens \ ids # {}
  PROVE  /\ Argmax(Suppress(logits, ids)) \in Tokens \ ids
         /\ Argmax(logits) \notin ids => Argmax(logits) = Argmax(Suppress(logits, ids))
  <1>1. PICK S \in SUBSET Tokens : S = Tokens \ ids
    OBVIOUS
  <1>2. Vector(logits) /\ DOMAIN logits = Tokens
    BY DEF Vector
  <1>3. Suppress(logits, ids) = Keep(logits, S)
    BY <1>1 DEF Suppress, Keep
  <1>4. Vector(Keep(logits, S)) /\ DOMAIN Keep(logits, S) = S
    BY <1>1, <1>2, WeightsOfSome
  <1>5. Argmax(Keep(logits, S)) \in S
    BY <1>4, BestIs
  <1>6. ASSUME Argmax(logits) \notin ids PROVE Argmax(logits) = Argmax(Keep(logits, S))
    <2>1. Argmax(logits) \in S
      BY <1>1, <1>2, <1>6, BestIs
    <2>2. QED
      BY <1>2, <2>1, KeptAre DEF KeepsOrder
  <1>7. QED
    BY <1>1, <1>3, <1>5, <1>6

(* Without penalties and bias nothing but what is suppressed is changed    *)
LEMMA UnpenalizedLogits ==
  ASSUME gen \in GenConfigs, Unpenalized, NEW logits \in [Tokens -> Int], NEW past \in Seq(Tokens)
  PROVE  Adjusted(logits, past, gen) = Suppress(logits, gen.suppress)
  <1>1. gen.repetition = 100 /\ gen.frequency = 0 /\ gen.presence = 0 /\ gen.bias = <<>>
    BY DEF Unpenalized
  <1>2. PICK rest : rest = Suppress(logits, gen.suppress)
    OBVIOUS
  <1>3. rest = Suppress(ApplyLogitBias(logits, gen.bias), gen.suppress)
    <2>1. DOMAIN gen.bias = {}
      BY <1>1
    <2>2. QED
      BY <1>2, <2>1 DEF Suppress, ApplyLogitBias
  <1>4. rest \in [DOMAIN rest -> Int]
    BY <1>2 DEF Suppress
  <1>5. ASSUME NEW t \in DOMAIN rest PROVE ApplyPenalties(rest, past, gen)[t] = rest[t]
    <2>1. PICK n \in Nat : n = Cardinality({i \in DOMAIN Window(past, gen) : Window(past, gen)[i] = t})
      BY WindowCounted
    <2>2. PICK l \in Int : l = rest[t]
      BY <1>4
    <2>3. Repetition(l, 100) = l
      <3>1. (100 * l) \div 100 = l /\ (l * 100) \div 100 = l
        OBVIOUS
      <3>2. QED
        BY <3>1 DEF Repetition
    <2>4. 0 * n = 0 /\ l - 0 = l
      OBVIOUS
    <2>5. ApplyPenalties(rest, past, gen)[t] = IF n = 0 THEN rest[t] ELSE Repetition(rest[t], 100) - 0 * n - 0
      BY <1>1, <2>1 DEF ApplyPenalties
    <2>6. QED
      BY <2>2, <2>3, <2>4, <2>5
  <1>6. ApplyPenalties(rest, past, gen) = rest
    BY <1>4, <1>5 DEF ApplyPenalties
  <1>7. QED
    BY <1>2, <1>3, <1>6 DEF Adjusted

LEMMA SampledTokens ==
  ASSUME SpeculationTypes, NEW logits \in [Tokens -> Int], NEW past \in Seq(Tokens)
  PROVE  /\ Samples(logits, past) \subseteq Tokens
         /\ gen.temperature = 0 /\ Unpenalized =>
              Samples(logits, past) = {Argmax(Suppress(logits, gen.suppress))}
  <1>1. gen \in GenConfigs
    BY DEF SpeculationTypes
  <1>2. PICK work : work = Adjusted(logits, past, gen)
    OBVIOUS
  <1>3. Samples(logits, past) \subseteq Tokens
    BY <1>1, DrawableInTokens DEF Samples
  <1>4. gen.temperature = 0 => Samples(logits, past) = {Argmax(work)}
    BY <1>2 DEF Samples, Drawable
  <1>5. Unpenalized => work = Suppress(logits, gen.suppress)
    BY <1>1, <1>2, UnpenalizedLogits
  <1>6. QED
    BY <1>3, <1>4, <1>5

(* What a round adds under the greedy rule: drafted tokens that were       *)
(* accepted, up to one that was not drafted.                               *)
LEMMA RoundExact ==
  ASSUME SpeculationTypes, Greedy, \A i \in 2..Len(context) : Takes(context, i),
         NEW drafted \in Drafts, NEW n \in Nat, 1 <= n, n <= NumTokens + 1,
         \A i \in 1..(n - 1) : MayAccept(drafted, i),
         NEW past, past = ContextBefore(drafted, n),
         NEW t \in Samples(TargetLogits[Last(past)], past), NEW next, next = Append(past, t)
  PROVE  \A i \in 2..Len(next) : Takes(next, i)
  <1>1. /\ drafted \in [1..NumTokens -> Tokens] /\ NumTokens \in Nat
        /\ TargetLogits \in [Tokens -> [Tokens -> Int]]
        /\ DraftLogits \in [Tokens -> [Tokens -> Int]]
    BY SpeculationAssumption DEF Drafts
  <1>2. /\ past \in Seq(Tokens) /\ Len(past) = Len(context) + n - 1 /\ Len(context) \in Nat \ {0}
        /\ \A i \in 1..Len(context) : past[i] = context[i]
        /\ \A i \in 1..(n - 1) : past[Len(context) + i] = drafted[i]
        /\ Last(past) = past[Len(past)] /\ Last(past) \in Tokens
    <2>1. Extended(past, drafted, n)
      BY <1>1, ContextExtended
    <2>2. QED
      BY <2>1 DEF Extended
  <1>3. /\ gen.temperature = 0 /\ Unpenalized /\ acceptance = "greedy" /\ gen \in GenConfigs
        /\ Tokens \ gen.suppress # {}
    BY SamplingAssumption DEF Greedy, SpeculationTypes
  <1>4. TargetLogits[Last(past)] \in [Tokens -> Int]
    BY <1>1, <1>2
  <1>5. t = Argmax(Suppress(TargetLogits[Last(past)], gen.suppress)) /\ t \in Tokens
    <2>1. PICK logits \in [Tokens -> Int] : logits = TargetLogits[Last(past)]
      BY <1>4
    <2>2. t \in Samples(logits, past)
      BY <2>1
    <2>3. /\ Samples(logits, past) \subseteq Tokens
          /\ Samples(logits, past) = {Argmax(Suppress(logits, gen.suppress))}
      BY <1>2, <1>3, SampledTokens
    <2>4. QED
      BY <2>1, <2>2, <2>3
  <1>6. /\ Len(next) = Len(past) + 1 /\ next[Len(past) + 1] = t
        /\ \A i \in 1..Len(past) : next[i] = past[i]
    BY <1>2, <1>5
  <1>7. ASSUME NEW i \in 1..(n - 1) PROVE Takes(past, Len(context) + i)
    <2>1. i \in 1..NumTokens
      BY <1>1
    <2>2. PICK last : last = past[Len(context) + i - 1]
      OBVIOUS
    <2>3. PICK early : early = ContextBefore(drafted, i)
      OBVIOUS
    <2>4. last \in Tokens /\ Last(early) = last /\ early \in Seq(Tokens)
      <3>1. Precedes(drafted, i, past)
        BY <1>1, LastBefore
      <3>2. QED
        BY <2>2, <2>3, <3>1 DEF Precedes
    <2>5. drafted[i] = Argmax(TargetLogits[last])
      BY <1>3, <2>3, <2>4 DEF MayAccept
    <2>6. drafted[i] \in Samples(DraftLogits[last], early)
      BY <2>1, <2>3, <2>4 DEF Drafts
    <2>7. PICK guess \in [Tokens -> Int] : guess = DraftLogits[last]
      BY <1>1, <2>4
    <2>8. Samples(guess, early) = {Argmax(Suppress(guess, gen.suppress))}
      BY <1>3, <2>4, SampledTokens
    <2>9. Argmax(Suppress(guess, gen.suppress)) \in Tokens \ gen.suppress
      BY <1>3, BestOfTheRest
    <2>10. drafted[i] \notin gen.suppress
      BY <2>6, <2>7, <2>8, <2>9
    <2>11. PICK logits \in [Tokens -> Int] : logits = TargetLogits[last]
      BY <1>1, <2>4
    <2>12. Argmax(logits) \notin gen.suppress => Argmax(logits) = Argmax(Suppress(logits, gen.suppress))
      BY <1>3, BestOfTheRest
    <2>13. drafted[i] = Argmax(Suppress(TargetLogits[last], gen.suppress))
      BY <2>5, <2>10, <2>11, <2>12
    <2>14. past[Len(context) + i] = drafted[i]
      BY <1>2
    <2>15. QED
      BY <2>2, <2>13, <2>14 DEF Takes
  <1>8. ASSUME NEW i \in 2..Len(past) PROVE Takes(past, i)
    <2>1. CASE i <= Len(context)
      <3>1. i \in 2..Len(context) /\ i \in 1..Len(context) /\ i - 1 \in 1..Len(context)
        BY <1>2, <2>1
      <3>2. past[i] = context[i] /\ past[i - 1] = context[i - 1] /\ Takes(context, i)
        BY <1>2, <3>1
      <3>3. QED
        BY <3>2 DEF Takes
    <2>2. CASE ~(i <= Len(context))
      <3>1. PICK j \in Nat : j = i - Len(context)
        <4>1. i \in Nat /\ Len(context) \in Nat /\ i > Len(context)
          BY <1>2, <2>2
        <4>2. i - Len(context) \in Nat
          BY <4>1
        <4>3. QED
          BY <4>2
      <3>2. j \in 1..(n - 1) /\ Len(context) + j = i
        BY <1>2, <2>2, <3>1
      <3>3. QED
        BY <1>7, <3>2
    <2>3. QED
      BY <2>1, <2>2
  <1>9. SUFFICES ASSUME NEW i \in 2..Len(next) PROVE Takes(next, i)
    OBVIOUS
  <1>10. CASE i <= Len(past)
    <2>1. i \in 2..Len(past) /\ i \in 1..Len(past) /\ i - 1 \in 1..Len(past)
      BY <1>2, <1>10
    <2>2. next[i] = past[i] /\ next[i - 1] = past[i - 1] /\ Takes(past, i)
      BY <1>6, <1>8, <2>1
    <2>3. QED
      BY <2>2 DEF Takes
  <1>11. CASE ~(i <= Len(past))
    <2>1. i = Len(past) + 1 /\ i - 1 = Len(past) /\ Len(past) \in 1..Len(past)
      BY <1>2, <1>6, <1>11
    <2>2. next[i] = t /\ next[i - 1] = Last(past)
      BY <1>2, <1>6, <2>1
    <2>3. QED
      BY <1>5, <2>2 DEF Takes
  <1>12. QED
    BY <1>10, <1>11

LEMMA RoundKeeps ==
  ASSUME SpeculationInv, NEW drafted \in Drafts, NEW n \in 1..(NumTokens + 1),
         NEW past, past = ContextBefore(drafted, n), NEW t \in Tokens, NEW r \in {0, 1}, r <= n,
         \A i \in 1..(n - 1) : MayAccept(drafted, i),
         Greedy => t \in Samples(TargetLogits[Last(past)], past),
         context' = Append(past, t), acceptance' = acceptance, gen' = gen,
         stats' = [rounds |-> stats.rounds + 1, proposed |-> stats.proposed + NumTokens,
                   accepted |-> stats.accepted + n - r, rejected |-> stats.rejected + r]
  PROVE  SpeculationInv'
  <1>1. SpeculationTypes /\ Counted /\ (Greedy => \A i \in 2..Len(context) : Takes(context, i))
    BY SpeculationInvSplit DEF SpeculationInv
  <1>2. NumTokens \in Nat /\ n \in Nat /\ 1 <= n /\ n <= NumTokens + 1 /\ r \in Nat
    BY SpeculationAssumption
  <1>3. Extended(past, drafted, n)
    BY <1>1, <1>2, ContextExtended DEF Drafts
  <1>4. PICK next : next = Append(past, t)
    OBVIOUS
  <1>5. next \in Seq(Tokens) /\ Len(next) = Len(context) + n /\ next # <<>> /\ Len(context) \in Nat
    BY <1>2, <1>3, <1>4 DEF Extended
  <1>6. PICK was \in [rounds : Nat, proposed : Nat, accepted : Nat, rejected : Nat] : was = stats
    BY <1>1 DEF SpeculationTypes
  <1>7. /\ stats'.rounds = was.rounds + 1 /\ stats'.proposed = was.proposed + NumTokens
        /\ stats'.accepted = was.accepted + n - r /\ stats'.rejected = was.rejected + r
    BY <1>6
  <1>8. /\ was.rounds \in Nat /\ was.proposed \in Nat /\ was.accepted \in Nat /\ was.rejected \in Nat
        /\ was.accepted + was.rejected = Len(context) - 1 /\ was.rejected <= was.rounds
        /\ was.accepted <= was.proposed + was.rounds - was.rejected
    BY <1>1, <1>6 DEF Counted
  <1>9. SpeculationTypes'
    <2>1. was.accepted + n - r \in Nat
      <3>1. \A a, x, y \in Nat : y <= x => a + x - y \in Nat
        OBVIOUS
      <3>2. QED
        BY <1>2, <1>8, <3>1
    <2>2. stats' \in [rounds : Nat, proposed : Nat, accepted : Nat, rejected : Nat]
      <3>1. was.rounds + 1 \in Nat /\ was.proposed + NumTokens \in Nat /\ was.rejected + r \in Nat
        BY <1>2, <1>8
      <3>2. stats' = [rounds |-> was.rounds + 1, proposed |-> was.proposed + NumTokens,
                      accepted |-> was.accepted + n - r, rejected |-> was.rejected + r]
        BY <1>6
      <3>3. QED
        BY <2>1, <3>1, <3>2
    <2>3. QED
      BY <1>1, <1>4, <1>5, <2>2 DEF SpeculationTypes
  <1>10. Counted'
    <2>1. PICK l \in Nat : l = Len(context)
      BY <1>5
    <2>2. Len(context') = l + n
      BY <1>4, <1>5, <2>1
    <2>3. (was.accepted + n - r) + (was.rejected + r) = l + n - 1
      <3>1. PICK a \in Nat : a = was.accepted
        BY <1>8
      <3>2. PICK b \in Nat : b = was.rejected
        BY <1>8
      <3>3. PICK x \in Nat : x = n
        BY <1>2
      <3>4. PICK y \in Nat : y = r
        BY <1>2
      <3>5. a + b = l - 1
        BY <1>8, <2>1, <3>1, <3>2
      <3>6. (a + x - y) + (b + y) = l + x - 1
        BY <3>5
      <3>7. QED
        BY <3>1, <3>2, <3>3, <3>4, <3>6
    <2>4. was.rejected + r <= was.rounds + 1
      <3>1. \A a, b, y \in Nat : a <= b /\ y <= 1 => a + y <= b + 1
        OBVIOUS
      <3>2. r <= 1
        OBVIOUS
      <3>3. QED
        BY <1>2, <1>8, <3>1, <3>2
    <2>5. was.accepted + n - r <= (was.proposed + NumTokens) + (was.rounds + 1) - (was.rejected + r)
      <3>1. \A a, b, c, e, x, y, z \in Nat :
              a <= b + c - e /\ x <= z + 1 => a + x - y <= (b + z) + (c + 1) - (e + y)
        OBVIOUS
      <3>2. QED
        BY <1>2, <1>8, <3>1
    <2>6. QED
      BY <1>7, <2>2, <2>3, <2>4, <2>5 DEF Counted
  <1>11. Greedy' => \A i \in 2..Len(context') : Takes(context, i)'
    <2>1. SUFFICES ASSUME Greedy' PROVE \A i \in 2..Len(context') : Takes(context, i)'
      OBVIOUS
    <2>2. Greedy
      BY <2>1 DEF Greedy, Unpenalized
    <2>3. \A i \in 2..Len(context) : Takes(context, i)
      BY <1>1, <2>2
    <2>4. t \in Samples(TargetLogits[Last(past)], past)
      BY <2>2
    <2>5. \A i \in 2..Len(next) : Takes(next, i)
      BY <1>1, <1>2, <1>4, <2>2, <2>3, <2>4, RoundExact
    <2>6. QED
      BY <1>4, <2>5 DEF Takes
  <1>12. QED
    BY <1>9, <1>10, <1>11 DEF SpeculationInv, SpeculationExact, Counted, Greedy, Takes

LEMMA RejectKeeps ==
  ASSUME SpeculationInv, NEW drafted \in Drafts, NEW n \in 1..NumTokens, RejectAt(drafted, n)
  PROVE  SpeculationInv'
  <1>1. SpeculationTypes /\ NumTokens \in Nat
    BY SpeculationAssumption DEF SpeculationInv
  <1>2. n \in 1..(NumTokens + 1) /\ n \in Nat /\ 1 <= n /\ n <= NumTokens + 1
    BY <1>1
  <1>3. PICK past : past = ContextBefore(drafted, n)
    OBVIOUS
  <1>4. Extended(past, drafted, n)
    BY <1>1, <1>2, <1>3, ContextExtended DEF Drafts
  <1>5. PICK t \in Corrections(drafted, n) : context' = Append(past, t)
    BY <1>3 DEF RejectAt
  <1>6. TargetLogits[Last(past)] \in [Tokens -> Int] /\ past \in Seq(Tokens)
    BY <1>4, SpeculationAssumption DEF Extended
  <1>7. Samples(TargetLogits[Last(past)], past) \subseteq Tokens
    BY <1>1, <1>6, SampledTokens
  <1>8. t \in Tokens /\ (Greedy => t \in Samples(TargetLogits[Last(past)], past))
    BY <1>3, <1>5, <1>7 DEF Corrections, Greedy
  <1>9. PICK r \in {0, 1} : r = 1
    OBVIOUS
  <1>10. r <= n
    BY <1>2, <1>9
  <1>11. stats' = [rounds |-> stats.rounds + 1, proposed |-> stats.proposed + NumTokens,
                   accepted |-> stats.accepted + n - r, rejected |-> stats.rejected + r]
    BY <1>9 DEF RejectAt
  <1>12. acceptance' = acceptance /\ gen' = gen /\ \A i \in 1..(n - 1) : MayAccept(drafted, i)
    BY DEF RejectAt
  <1>13. QED
    BY <1>2, <1>3, <1>5, <1>8, <1>10, <1>11, <1>12, RoundKeeps

LEMMA AcceptKeeps ==
  ASSUME SpeculationInv, NEW drafted \in Drafts, AcceptAll(drafted)
  PROVE  SpeculationInv'
  <1>1. SpeculationTypes /\ NumTokens \in Nat /\ drafted \in [1..NumTokens -> Tokens]
    BY SpeculationAssumption DEF SpeculationInv, Drafts
  <1>2. PICK n \in 1..(NumTokens + 1) : n = NumTokens + 1
    BY <1>1
  <1>3. n \in Nat /\ 1 <= n /\ n <= NumTokens + 1 /\ n - 1 = NumTokens
    BY <1>1, <1>2
  <1>4. PICK past : past = ContextBefore(drafted, n)
    OBVIOUS
  <1>5. Extended(past, drafted, n)
    BY <1>1, <1>3, <1>4, ContextExtended
  <1>6. drafted \in Seq(Tokens) /\ Len(drafted) = NumTokens /\ DOMAIN drafted = 1..(n - 1)
    BY <1>1, <1>3
  <1>7. SubSeq(drafted, 1, NumTokens) = drafted
    BY <1>6, SubSeqFull
  <1>8. past = context \o drafted
    BY <1>3, <1>4, <1>7 DEF ContextBefore
  <1>9. PICK t \in Samples(TargetLogits[Last(past)], past) : context' = Append(past, t)
    BY <1>8 DEF AcceptAll
  <1>10. TargetLogits[Last(past)] \in [Tokens -> Int] /\ past \in Seq(Tokens)
    BY <1>5, SpeculationAssumption DEF Extended
  <1>11. t \in Tokens
    BY <1>1, <1>9, <1>10, SampledTokens
  <1>12. PICK r \in {0, 1} : r = 0
    OBVIOUS
  <1>13. r <= n
    BY <1>3, <1>12
  <1>14. stats' = [rounds |-> stats.rounds + 1, proposed |-> stats.proposed + NumTokens,
                   accepted |-> stats.accepted + n - r, rejected |-> stats.rejected + r]
    <2>1. PICK was \in [rounds : Nat, proposed : Nat, accepted : Nat, rejected : Nat] : was = stats
      BY <1>1 DEF SpeculationTypes
    <2>2. was.accepted + n - r = was.accepted + NumTokens + 1 /\ was.rejected + r = was.rejected
      BY <1>1, <1>2, <1>12
    <2>3. stats' = [was EXCEPT !.rounds = @ + 1, !.proposed = @ + NumTokens, !.accepted = @ + NumTokens + 1]
      BY <2>1 DEF AcceptAll
    <2>4. QED
      BY <2>1, <2>2, <2>3
  <1>15. acceptance' = acceptance /\ gen' = gen /\ \A i \in 1..(n - 1) : MayAccept(drafted, i)
    BY <1>6 DEF AcceptAll
  <1>16. QED
    BY <1>4, <1>9, <1>11, <1>13, <1>14, <1>15, RoundKeeps

(* What has been produced is exact, and its types, after any rounds.       *)
THEOREM SpeculationInvariance == SpeculationSpec => []SpeculationInv
  <1>1. SpeculationInit => SpeculationInv
    <2>1. SUFFICES ASSUME SpeculationInit PROVE SpeculationInv
      OBVIOUS
    <2>2. PICK t \in Tokens : context = <<t>>
      BY <2>1 DEF SpeculationInit
    <2>3. context \in Seq(Tokens) /\ Len(context) = 1 /\ context # <<>>
      BY <2>2
    <2>4. SpeculationTypes
      BY <2>1, <2>3 DEF SpeculationInit, SpeculationTypes
    <2>5. Counted
      BY <2>1, <2>3 DEF SpeculationInit, Counted
    <2>6. \A i \in 2..Len(context) : Takes(context, i)
      BY <2>3
    <2>7. QED
      BY <2>4, <2>5, <2>6, SpeculationInvSplit DEF SpeculationInv
  <1>2. SpeculationInv /\ [SpeculativeStep]_speculationVars => SpeculationInv'
    <2>1. SUFFICES ASSUME SpeculationInv, [SpeculativeStep]_speculationVars PROVE SpeculationInv'
      OBVIOUS
    <2>2. CASE UNCHANGED speculationVars
      BY <2>1, <2>2 DEF speculationVars, SpeculationInv, SpeculationTypes, SpeculationExact, Unpenalized
    <2>3. CASE Rejecting
      <3>1. PICK drafted \in Drafts, n \in 1..NumTokens : RejectAt(drafted, n)
        BY <2>3 DEF Rejecting
      <3>2. QED
        BY <2>1, <3>1, RejectKeeps
    <2>4. CASE Accepting
      <3>1. PICK drafted \in Drafts : AcceptAll(drafted)
        BY <2>4 DEF Accepting
      <3>2. QED
        BY <2>1, <3>1, AcceptKeeps
    <2>5. QED
      BY <2>1, <2>2, <2>3, <2>4 DEF SpeculativeStep
  <1>3. QED
    BY <1>1, <1>2, PTL DEF SpeculationSpec

(* Whatever is drafted, greedy speculative decoding gives what the target  *)
(* alone would have given, and its counters tell every token.              *)
THEOREM ExactSpeculation == SpeculationSpec => []SpeculationExact
  <1>1. SpeculationInv => SpeculationExact
    BY DEF SpeculationInv
  <1>2. QED
    BY <1>1, SpeculationInvariance, PTL

-----------------------------------------------------------------------------
(* Probabilities over a common denominator                                 *)
LEMMA ScaledWeights ==
  ASSUME SpeculationTypes, NEW logits \in [Tokens -> Int]
  PROVE  Scaled(logits) \in [Tokens -> Nat]
  <1>1. gen.temperature \in Nat /\ Tokens # {}
    BY SamplingAssumption DEF SpeculationTypes
  <1>2. CASE gen.temperature = 0
    BY <1>2 DEF Scaled
  <1>3. CASE gen.temperature # 0
    <2>1. Vector(logits)
      BY <1>1 DEF Vector
    <2>2. Vector(ApplyTemperature(logits, gen.temperature))
      BY <1>1, <2>1, TemperedIs
    <2>3. QED
      BY <1>3, <2>2, WeightsPositive DEF Scaled
  <1>4. QED
    BY <1>2, <1>3

LEMMA SameMass ==
  ASSUME SpeculationTypes, NEW last \in Tokens
  PROVE  /\ PTarget(last) \in [Tokens -> Nat] /\ PDraft(last) \in [Tokens -> Nat]
         /\ Mass(PTarget(last), Tokens) = Mass(PDraft(last), Tokens)
  <1>1. IsFiniteSet(Tokens)
    BY SamplingAssumption
  <1>2. PICK p : p = Scaled(TargetLogits[last])
    OBVIOUS
  <1>3. PICK q : q = Scaled(DraftLogits[last])
    OBVIOUS
  <1>4. p \in [Tokens -> Nat] /\ q \in [Tokens -> Nat]
    BY <1>2, <1>3, SpeculationAssumption, ScaledWeights
  <1>5. PICK a \in Nat : a = SumFunctionOnSet(p, Tokens)
    BY <1>1, <1>4, SumNat
  <1>6. PICK b \in Nat : b = SumFunctionOnSet(q, Tokens)
    BY <1>1, <1>4, SumNat
  <1>7. PICK f : f = [t \in Tokens |-> p[t] * b]
    OBVIOUS
  <1>8. PICK g : g = [t \in Tokens |-> q[t] * a]
    OBVIOUS
  <1>9. PTarget(last) = f /\ PDraft(last) = g
    BY <1>2, <1>3, <1>5, <1>6, <1>7, <1>8 DEF PTarget, PDraft, Mass
  <1>10. f \in [Tokens -> Nat] /\ g \in [Tokens -> Nat]
    <2>1. \A i, j \in Nat : i * j \in Nat
      OBVIOUS
    <2>2. QED
      BY <1>4, <1>7, <1>8, <2>1
  <1>11. \A i, j \in Int : i * j = j * i
    OBVIOUS
  <1>12. \A t \in Tokens : p[t] \in Int /\ f[t] = b * p[t] /\ q[t] \in Int /\ g[t] = a * q[t]
    BY <1>4, <1>7, <1>8, <1>11
  <1>13. b \in Int /\ a \in Int
    OBVIOUS
  <1>14. SumFunctionOnSet(f, Tokens) = b * SumFunctionOnSet(p, Tokens)
    BY <1>1, <1>12, <1>13, SumScaled
  <1>15. SumFunctionOnSet(g, Tokens) = a * SumFunctionOnSet(q, Tokens)
    BY <1>1, <1>12, <1>13, SumScaled
  <1>16. b * a = a * b
    BY <1>11, <1>13
  <1>17. QED
    BY <1>5, <1>6, <1>9, <1>10, <1>14, <1>15, <1>16 DEF Mass

LEMMA PreservedIn == SpeculationTypes => TargetPreserved
  <1>1. SUFFICES ASSUME SpeculationTypes PROVE TargetPreserved
    OBVIOUS
  <1>2. PICK last \in Tokens : last = Last(context)
    <2>1. Len(context) \in 1..Len(context)
      BY <1>1 DEF SpeculationTypes
    <2>2. Last(context) \in Tokens
      BY <1>1, <2>1, ElementOfSeq DEF SpeculationTypes, Last
    <2>3. QED
      BY <2>2
  <1>3. PICK p \in [Tokens -> Nat] : p = PTarget(last)
    BY <1>1, SameMass
  <1>4. PICK q \in [Tokens -> Nat] : q = PDraft(last)
    BY <1>1, SameMass
  <1>5. PICK kept : kept = [t \in Tokens |-> IF p[t] < q[t] THEN p[t] ELSE q[t]]
    OBVIOUS
  <1>6. PICK diff : diff = [t \in Tokens |-> IF p[t] > q[t] THEN p[t] - q[t] ELSE 0]
    OBVIOUS
  <1>7. \A t \in Tokens : kept[t] \in Nat /\ diff[t] \in Nat /\ p[t] \in Nat /\ p[t] = kept[t] + diff[t]
    BY <1>5, <1>6
  <1>8. IsFiniteSet(Tokens)
    BY SamplingAssumption
  <1>9. PICK m \in Nat : m = Mass(p, Tokens)
    BY <1>8, SumNat DEF Mass
  <1>10. PICK k \in Nat : k = Mass(kept, Tokens)
    BY <1>7, <1>8, SumNat DEF Mass
  <1>11. PICK d \in Nat : d = Mass(diff, Tokens)
    BY <1>7, <1>8, SumNat DEF Mass
  <1>12. m = k + d
    <2>1. \A t \in Tokens : kept[t] \in Int /\ diff[t] \in Int /\ p[t] = kept[t] + diff[t]
      BY <1>7
    <2>2. SumFunctionOnSet(p, Tokens) = SumFunctionOnSet(kept, Tokens) + SumFunctionOnSet(diff, Tokens)
      BY <1>8, <2>1, SumBoth
    <2>3. QED
      BY <1>9, <1>10, <1>11, <2>2 DEF Mass
  <1>13. Mass(q, Tokens) = m
    BY <1>1, <1>3, <1>4, <1>9, SameMass
  <1>14. PICK residual : residual = Residual(p, q)
    OBVIOUS
  <1>15. residual = IF d = 0 THEN p ELSE diff
    BY <1>6, <1>11, <1>14 DEF Residual
  <1>16. ASSUME NEW t \in Tokens
         PROVE  kept[t] * Mass(residual, Tokens) + (m - k) * residual[t] = p[t] * Mass(residual, Tokens)
    <2>1. PICK x \in Nat : x = kept[t]
      BY <1>7
    <2>2. PICK y \in Nat : y = diff[t]
      BY <1>7
    <2>3. p[t] = x + y /\ m - k = d
      BY <1>7, <1>12, <2>1, <2>2
    <2>4. CASE d = 0
      <3>1. \A u \in Tokens : diff[u] = 0
        <4>1. SumFunctionOnSet(diff, Tokens) = 0
          BY <1>11, <2>4 DEF Mass
        <4>2. \A u \in Tokens : diff[u] \in Nat
          BY <1>7
        <4>3. QED
          BY <1>8, <4>1, <4>2, SumZero
      <3>2. y = 0 /\ residual = p /\ Mass(residual, Tokens) = m
        BY <1>9, <1>15, <2>2, <2>4, <3>1
      <3>3. x * m + 0 * x = x * m
        OBVIOUS
      <3>4. p[t] = x
        BY <2>3, <3>2
      <3>5. QED
        BY <2>1, <2>3, <2>4, <3>2, <3>3, <3>4
    <2>5. CASE d # 0
      <3>1. residual[t] = y /\ Mass(residual, Tokens) = d
        BY <1>11, <1>15, <2>2, <2>5
      <3>2. \A i, j, l \in Nat : i * l + l * j = (i + j) * l
        OBVIOUS
      <3>3. x * d + d * y = (x + y) * d
        BY <3>2
      <3>4. QED
        BY <2>1, <2>3, <3>1, <3>3
    <2>6. QED
      BY <2>4, <2>5
  <1>17. QED
    BY <1>2, <1>3, <1>4, <1>5, <1>10, <1>13, <1>14, <1>16 DEF TargetPreserved

(* Under the typical rule a token, accepted as drafted or drawn from the   *)
(* residual, has the probability the target gives it, for any two models,  *)
(* if the draft is drawn from its distribution as it stands.  propose()    *)
(* draws through the sampler, which with the default top_p and top_k       *)
(* filters it first: of such drafts nothing is claimed.                    *)
THEOREM PreservedTarget == SpeculationSpec => []TargetPreserved
  <1>1. SpeculationInv => TargetPreserved
    BY PreservedIn DEF SpeculationInv
  <1>2. QED
    BY <1>1, SpeculationInvariance, PTL
=============================================================================
