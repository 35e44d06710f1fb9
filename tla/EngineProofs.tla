---------------------------- MODULE EngineProofs ----------------------------
(***************************************************************************)
(* Proofs about the scheduler and the engine, for any requests, any limits *)
(* and any pool of blocks.  Every theorem follows from the inductive       *)
(* invariant IInv; its conjuncts are kept by every step, one lemma each.   *)
(***************************************************************************)
EXTENDS EngineLoops, Sums, SequenceTheorems, TLAPS

-----------------------------------------------------------------------------
(* All but who has an assembler.                                           *)
queueVars == <<schedulerVars, ready, raised, history>>

(* Dropping an assembler changes nothing else.                             *)
LEMMA AssemblersApart ==
  /\ UNCHANGED vars => UNCHANGED queueVars
  /\ \A r \in Requests : DropAssembler(r) => UNCHANGED queueVars
  BY DEF vars, queueVars, DropAssembler

-----------------------------------------------------------------------------
(***************************************************************************)
(* Sequences and the sets of their elements.                               *)
(***************************************************************************)
(* Appending adds one element.                                             *)
LEMMA RangeAppend ==
  ASSUME NEW S, NEW s \in Seq(S), NEW x \in S
  PROVE  Range(Append(s, x)) = Range(s) \cup {x}
  <1>1. PICK t : t = <<x>>
    OBVIOUS
  <1>2. Append(s, x) = s \o t /\ t \in Seq(S)
    BY <1>1, AppendIsConcat
  <1>3. Range(t) = {x}
    BY <1>1 DEF Range
  <1>4. Range(s \o t) = Range(s) \cup Range(t)
    BY <1>2, RangeConcatenation
  <1>5. QED
    BY <1>2, <1>3, <1>4

(* Joined sequences are sequences.                                         *)
LEMMA JoinedSeq ==
  ASSUME NEW S, NEW s \in Seq(S), NEW t \in Seq(S)
  PROVE  s \o t \in Seq(S)
  BY ConcatProperties

(* Joining is associative.                                                 *)
LEMMA JoinAssociative ==
  ASSUME NEW S, NEW s \in Seq(S), NEW t \in Seq(S), NEW u \in Seq(S)
  PROVE  (s \o t) \o u = s \o (t \o u)
  BY ConcatAssociative, SMTT(30)

(* The first element and the others.                                       *)
LEMMA HeadTailFacts ==
  ASSUME NEW S, NEW s \in Seq(S), s # << >>
  PROVE  /\ Len(s) \in Nat \ {0} /\ DOMAIN s = 1..Len(s)
         /\ Head(s) = s[1] /\ Head(s) \in S
         /\ Tail(s) \in Seq(S) /\ Len(Tail(s)) = Len(s) - 1
         /\ DOMAIN Tail(s) = 1..(Len(s) - 1)
         /\ \A i \in 1..(Len(s) - 1) : Tail(s)[i] = s[i + 1]
         /\ Range(s) = {Head(s)} \cup Range(Tail(s))
  <1>1. Len(s) \in Nat \ {0} /\ DOMAIN s = 1..Len(s) /\ Head(s) = s[1]
    BY EmptySeq, LenProperties
  <1>2. /\ Head(s) \in S /\ Tail(s) \in Seq(S) /\ Len(Tail(s)) = Len(s) - 1
        /\ \A i \in 1..Len(Tail(s)) : Tail(s)[i] = s[i + 1]
    BY HeadTailProperties
  <1>3. DOMAIN Tail(s) = 1..(Len(s) - 1)
    BY <1>2, LenProperties
  <1>4. Range(s) = {Head(s)} \cup Range(Tail(s))
    <2>1. ASSUME NEW x \in Range(s) PROVE x \in {Head(s)} \cup Range(Tail(s))
      <3>1. PICK i \in 1..Len(s) : s[i] = x
        BY <1>1 DEF Range
      <3>2. CASE i = 1
        BY <3>1, <3>2, <1>1
      <3>3. CASE i # 1
        <4>1. i - 1 \in 1..(Len(s) - 1) /\ (i - 1) + 1 = i
          BY <3>3, <1>1
        <4>2. Tail(s)[i - 1] = x
          BY <4>1, <1>2, <3>1
        <4>3. QED
          BY <4>1, <4>2, <1>3 DEF Range
      <3>4. QED
        BY <3>2, <3>3
    <2>2. ASSUME NEW x \in Range(Tail(s)) PROVE x \in Range(s)
      <3>1. PICK i \in 1..(Len(s) - 1) : Tail(s)[i] = x
        BY <1>3 DEF Range
      <3>2. i + 1 \in 1..Len(s) /\ s[i + 1] = x
        BY <3>1, <1>1, <1>2
      <3>3. QED
        BY <3>2, <1>1 DEF Range
    <2>3. Head(s) \in Range(s)
      BY <1>1 DEF Range
    <2>4. QED
      BY <2>1, <2>2, <2>3
  <1>5. QED
    BY <1>1, <1>2, <1>3, <1>4

(* All but the last element.                                               *)
LEMMA FrontFacts ==
  ASSUME NEW S, NEW s \in Seq(S), s # << >>,
         IsInjective(s)
  PROVE  /\ SubSeq(s, 1, Len(s) - 1) \in Seq(S)
         /\ Len(SubSeq(s, 1, Len(s) - 1)) = Len(s) - 1
         /\ DOMAIN SubSeq(s, 1, Len(s) - 1) = 1..(Len(s) - 1)
         /\ \A i \in 1..(Len(s) - 1) : SubSeq(s, 1, Len(s) - 1)[i] = s[i]
         /\ s[Len(s)] \in S
         /\ Range(SubSeq(s, 1, Len(s) - 1)) = Range(s) \ {s[Len(s)]}
         /\ SubSeq(s, 1, Len(s) - 1) \o <<s[Len(s)]>> = s
  <1>1. Len(s) \in Nat \ {0} /\ DOMAIN s = 1..Len(s) /\ Len(s) \in 1..Len(s)
    BY EmptySeq, LenProperties
  <1>2. \A i \in 1..Len(s) : s[i] \in S
    BY <1>1, ElementOfSeq
  <1>3. PICK n \in Nat : n = Len(s) - 1 /\ Len(s) = n + 1
    <2>1. Len(s) - 1 \in Nat /\ Len(s) = (Len(s) - 1) + 1
      BY <1>1
    <2>2. QED
      BY <2>1
  <1>4. PICK f : f = SubSeq(s, 1, n)
    OBVIOUS
  <1>5. f \in Seq(S) /\ Len(f) = n /\ \A i \in 1..n : f[i] = s[i]
    <2>1. \A i \in 1..n : s[i] \in S
      BY <1>2, <1>3
    <2>2. /\ f \in Seq(S) /\ Len(f) = (IF 1 <= n THEN n - 1 + 1 ELSE 0)
          /\ \A i \in 1..(n - 1 + 1) : f[i] = s[1 + i - 1]
      BY <2>1, <1>4, SubSeqProperties
    <2>3. QED
      BY <2>2
  <1>6. DOMAIN f = 1..n
    BY <1>5, LenProperties
  <1>7. Range(f) = Range(s) \ {s[Len(s)]}
    <2>1. ASSUME NEW x \in Range(f) PROVE x \in Range(s) /\ x # s[Len(s)]
      <3>1. PICK i \in 1..n : f[i] = x
        BY <1>6 DEF Range
      <3>2. i \in 1..Len(s) /\ i # Len(s)
        BY <3>1, <1>3
      <3>3. s[i] = x
        BY <3>1, <1>5
      <3>4. i \in DOMAIN s /\ Len(s) \in DOMAIN s
        BY <3>2, <1>1
      <3>5. QED
        BY <3>2, <3>3, <3>4 DEF Range, IsInjective
    <2>2. ASSUME NEW x \in Range(s), x # s[Len(s)] PROVE x \in Range(f)
      <3>1. PICK i \in 1..Len(s) : s[i] = x
        BY <1>1 DEF Range
      <3>2. i \in 1..n
        BY <3>1, <2>2, <1>3
      <3>3. QED
        BY <3>1, <3>2, <1>5, <1>6 DEF Range
    <2>3. QED
      BY <2>1, <2>2
  <1>8. f \o <<s[Len(s)]>> = s
    <2>1. <<s[Len(s)]>> \in Seq(S) /\ Len(<<s[Len(s)]>>) = 1
      BY <1>1, <1>2
    <2>2. SubSeq(s, 1, n) \o SubSeq(s, n + 1, n + 1) = SubSeq(s, 1, n + 1)
      BY <1>3, <1>1, ConcatAdjacentSubSeq
    <2>3. SubSeq(s, n + 1, n + 1) = <<s[n + 1]>>
      <3>1. PICK m \in Nat : m = n + 1 /\ m \in 1..Len(s)
        BY <1>1, <1>3
      <3>2. s[m] \in S
        BY <3>1, <1>2
      <3>3. /\ SubSeq(s, m, m) \in Seq(S) /\ Len(SubSeq(s, m, m)) = m - m + 1
            /\ \A i \in 1..(m - m + 1) : SubSeq(s, m, m)[i] = s[m + i - 1]
        BY <3>1, <3>2, SubSeqProperties
      <3>4. Len(SubSeq(s, m, m)) = 1 /\ SubSeq(s, m, m)[1] = s[m]
        BY <3>1, <3>3
      <3>5. PICK u : u = <<s[m]>>
        OBVIOUS
      <3>6. u \in Seq(S) /\ Len(u) = 1 /\ u[1] = s[m]
        BY <3>2, <3>5
      <3>7. SubSeq(s, m, m) = u
        BY <3>3, <3>4, <3>6, SeqEqual
      <3>8. QED
        BY <3>1, <3>5, <3>7
    <2>4. SubSeq(s, 1, n + 1) = s
      BY <1>3, SubSeqFull
    <2>5. QED
      BY <2>2, <2>3, <2>4, <1>3, <1>4
  <1>9. QED
    BY <1>1, <1>2, <1>3, <1>4, <1>5, <1>6, <1>7, <1>8

(* list.remove() on a list without repetitions.                            *)
LEMMA RemoveFacts ==
  ASSUME NEW S, NEW s \in Seq(S), NEW k \in 1..Len(s),
         IsInjective(s)
  PROVE  /\ Remove(s, s[k]) \in Seq(S)
         /\ Len(Remove(s, s[k])) = Len(s) - 1
         /\ DOMAIN Remove(s, s[k]) = 1..(Len(s) - 1)
         /\ \A j \in 1..(Len(s) - 1) : Remove(s, s[k])[j] = IF j < k THEN s[j] ELSE s[j + 1]
         /\ Range(Remove(s, s[k])) = Range(s) \ {s[k]}
  <1>1. Len(s) \in Nat \ {0} /\ DOMAIN s = 1..Len(s)
    BY LenProperties
  <1>2. PICK n \in Nat : n = Len(s) - 1 /\ Len(s) = n + 1
    <2>1. Len(s) - 1 \in Nat /\ Len(s) = (Len(s) - 1) + 1
      BY <1>1
    <2>2. QED
      BY <2>1
  <1>3. (CHOOSE j \in DOMAIN s : s[j] = s[k]) = k
    <2>1. \A j \in DOMAIN s : s[j] = s[k] => j = k
      BY <1>1 DEF IsInjective
    <2>2. k \in DOMAIN s /\ s[k] = s[k]
      BY <1>1
    <2>3. QED
      BY <2>1, <2>2
  <1>4. PICK f : f = [j \in 1..n |-> IF j < k THEN s[j] ELSE s[j + 1]]
    OBVIOUS
  <1>5. Remove(s, s[k]) = f
    BY <1>2, <1>3, <1>4 DEF Remove
  <1>6. \A j \in 1..n : f[j] \in S
    <2>1. TAKE j \in 1..n
    <2>2. j \in 1..Len(s) /\ j + 1 \in 1..Len(s)
      BY <1>2
    <2>3. s[j] \in S /\ s[j + 1] \in S
      BY <2>2, ElementOfSeq
    <2>4. QED
      BY <2>3, <1>4
  <1>7. f \in Seq(S) /\ Len(f) = n /\ DOMAIN f = 1..n
    <2>1. f \in [1..n -> S]
      BY <1>4, <1>6
    <2>2. f \in Seq(S)
      BY <2>1, SeqDef
    <2>3. QED
      BY <2>1, <2>2, LenProperties
  <1>8. Range(f) = Range(s) \ {s[k]}
    <2>1. ASSUME NEW x \in Range(f) PROVE x \in Range(s) /\ x # s[k]
      <3>1. PICK j \in 1..n : f[j] = x
        BY <1>7 DEF Range
      <3>2. PICK i \in 1..Len(s) : i # k /\ s[i] = x
        <4>1. CASE j < k
          BY <4>1, <3>1, <1>2, <1>4
        <4>2. CASE ~(j < k)
          <5>1. j + 1 \in 1..Len(s) /\ j + 1 # k /\ s[j + 1] = x
            BY <4>2, <3>1, <1>2, <1>4
          <5>2. QED
            BY <5>1
        <4>3. QED
          BY <4>1, <4>2
      <3>3. QED
        BY <3>2, <1>1 DEF Range, IsInjective
    <2>2. ASSUME NEW x \in Range(s), x # s[k] PROVE x \in Range(f)
      <3>1. PICK i \in 1..Len(s) : s[i] = x /\ i # k
        BY <2>2, <1>1 DEF Range
      <3>2. PICK j \in 1..n : f[j] = x
        <4>1. CASE i < k
          <5>1. i \in 1..n /\ f[i] = x
            BY <4>1, <3>1, <1>2, <1>4
          <5>2. QED
            BY <5>1
        <4>2. CASE ~(i < k)
          <5>1. i - 1 \in 1..n /\ ~(i - 1 < k) /\ (i - 1) + 1 = i
            BY <4>2, <3>1, <1>2
          <5>2. f[i - 1] = x
            BY <5>1, <3>1, <1>4
          <5>3. QED
            BY <5>1, <5>2
        <4>3. QED
          BY <4>1, <4>2
      <3>3. QED
        BY <3>2, <1>7 DEF Range
    <2>3. QED
      BY <2>1, <2>2
  <1>9. QED
    BY <1>2, <1>4, <1>5, <1>7, <1>8

(* The running batch and the waiting queue have no request in common.      *)
LEMMA ConcatFacts ==
  ASSUME NEW S, NEW s \in Seq(S), NEW t \in Seq(S),
         IsInjective(s \o t)
  PROVE  /\ IsInjective(s)
         /\ IsInjective(t)
         /\ Range(s) \cap Range(t) = {}
         /\ Range(s \o t) = Range(s) \cup Range(t)
  <1>1. Len(s) \in Nat /\ Len(t) \in Nat /\ DOMAIN s = 1..Len(s) /\ DOMAIN t = 1..Len(t)
    BY LenProperties
  <1>2. PICK u : u = s \o t
    OBVIOUS
  <1>3. /\ u \in Seq(S) /\ Len(u) = Len(s) + Len(t)
        /\ \A i \in 1..Len(s) + Len(t) : u[i] = IF i <= Len(s) THEN s[i] ELSE t[i - Len(s)]
    BY <1>2, ConcatProperties
  <1>4. DOMAIN u = 1..(Len(s) + Len(t))
    BY <1>3, LenProperties
  <1>5. \A i \in 1..Len(s) : i \in DOMAIN u /\ u[i] = s[i]
    BY <1>1, <1>3, <1>4
  <1>6. \A i \in 1..Len(t) : Len(s) + i \in DOMAIN u /\ u[Len(s) + i] = t[i]
    <2>1. TAKE i \in 1..Len(t)
    <2>2. Len(s) + i \in 1..(Len(s) + Len(t)) /\ ~(Len(s) + i <= Len(s)) /\ (Len(s) + i) - Len(s) = i
      BY <1>1
    <2>3. QED
      BY <2>2, <1>3, <1>4
  <1>7. IsInjective(u)
    BY <1>2
  <1>8. IsInjective(s)
    BY <1>1, <1>5, <1>7 DEF IsInjective
  <1>9. IsInjective(t)
    <2>1. SUFFICES ASSUME NEW i \in 1..Len(t), NEW j \in 1..Len(t), t[i] = t[j] PROVE i = j
      BY <1>1 DEF IsInjective
    <2>2. Len(s) + i = Len(s) + j
      BY <2>1, <1>6, <1>7 DEF IsInjective
    <2>3. QED
      BY <2>2, <1>1
  <1>10. Range(s) \cap Range(t) = {}
    <2>1. SUFFICES ASSUME NEW i \in 1..Len(s), NEW j \in 1..Len(t), s[i] = t[j] PROVE FALSE
      BY <1>1 DEF Range
    <2>2. i = Len(s) + j
      BY <2>1, <1>5, <1>6, <1>7 DEF IsInjective
    <2>3. QED
      BY <2>2, <1>1
  <1>11. QED
    BY <1>8, <1>9, <1>10, RangeConcatenation

(* Removing a request from the queue it is in, or from both in a row.      *)
LEMMA ConcatRemove ==
  ASSUME NEW S, NEW s \in Seq(S), NEW t \in Seq(S), NEW x \in S,
         IsInjective(s \o t)
  PROVE  /\ x \in Range(s) => Remove(s, x) \o t = Remove(s \o t, x)
         /\ x \in Range(t) => s \o Remove(t, x) = Remove(s \o t, x)
  <1>1. Len(s) \in Nat /\ Len(t) \in Nat /\ DOMAIN s = 1..Len(s) /\ DOMAIN t = 1..Len(t)
    BY LenProperties
  <1>2. PICK u \in Seq(S) : u = s \o t
    BY ConcatProperties
  <1>3. /\ Len(u) = Len(s) + Len(t)
        /\ \A i \in 1..Len(s) + Len(t) : u[i] = IF i <= Len(s) THEN s[i] ELSE t[i - Len(s)]
    BY <1>2, ConcatProperties
  <1>4. DOMAIN u = 1..Len(u)
    BY LenProperties
  <1>5. IsInjective(u)
    BY <1>2
  <1>6. IsInjective(s)
    BY ConcatFacts
  <1>7. IsInjective(t)
    BY ConcatFacts
  <1>8. ASSUME x \in Range(s) PROVE Remove(s, x) \o t = Remove(u, x)
    <2>1. PICK k \in 1..Len(s) : s[k] = x
      BY <1>8, <1>1 DEF Range
    <2>2. k \in 1..Len(u) /\ u[k] = x
      BY <2>1, <1>1, <1>3
    <2>3. PICK f, g : f = Remove(s, x) /\ g = Remove(u, x)
      OBVIOUS
    <2>4. /\ f \in Seq(S) /\ Len(f) = Len(s) - 1
          /\ \A j \in 1..(Len(s) - 1) : f[j] = IF j < k THEN s[j] ELSE s[j + 1]
      <3>1. f = Remove(s, s[k])
        BY <2>1, <2>3
      <3>2. /\ Remove(s, s[k]) \in Seq(S) /\ Len(Remove(s, s[k])) = Len(s) - 1
            /\ \A j \in 1..(Len(s) - 1) : Remove(s, s[k])[j] = IF j < k THEN s[j] ELSE s[j + 1]
        BY <1>6, RemoveFacts
      <3>3. QED
        BY <3>1, <3>2
    <2>5. /\ g \in Seq(S) /\ Len(g) = Len(u) - 1
          /\ \A j \in 1..(Len(u) - 1) : g[j] = IF j < k THEN u[j] ELSE u[j + 1]
      <3>1. g = Remove(u, u[k])
        BY <2>2, <2>3
      <3>2. /\ Remove(u, u[k]) \in Seq(S) /\ Len(Remove(u, u[k])) = Len(u) - 1
            /\ \A j \in 1..(Len(u) - 1) : Remove(u, u[k])[j] = IF j < k THEN u[j] ELSE u[j + 1]
        BY <2>2, <1>5, RemoveFacts
      <3>3. QED
        BY <3>1, <3>2
    <2>6. /\ f \o t \in Seq(S) /\ Len(f \o t) = Len(f) + Len(t)
          /\ \A j \in 1..Len(f) + Len(t) : (f \o t)[j] = IF j <= Len(f) THEN f[j] ELSE t[j - Len(f)]
      <3>1. f \in Seq(S)
        BY <2>4
      <3>2. QED
        BY <3>1, ConcatProperties
    <2>7. Len(f \o t) = Len(g) /\ Len(g) = Len(s) - 1 + Len(t)
      BY <2>4, <2>5, <2>6, <1>1, <1>3
    <2>8. ASSUME NEW j \in 1..Len(g) PROVE (f \o t)[j] = g[j]
      <3>1. j \in 1..(Len(u) - 1) /\ j \in 1..(Len(f) + Len(t))
        BY <2>4, <2>5, <2>7, <1>1
      <3>2. j \in 1..(Len(s) + Len(t)) /\ j + 1 \in 1..(Len(s) + Len(t))
        BY <2>7, <1>1
      <3>3. CASE j < k
        <4>1. j \in 1..(Len(s) - 1) /\ j <= Len(f) /\ j <= Len(s)
          BY <3>3, <1>1, <2>4
        <4>2. QED
          BY <3>1, <3>2, <3>3, <4>1, <2>4, <2>5, <2>6, <1>3
      <3>4. CASE ~(j < k) /\ j <= Len(s) - 1
        <4>1. j \in 1..(Len(s) - 1) /\ j <= Len(f) /\ j + 1 <= Len(s)
          BY <3>4, <1>1, <2>4
        <4>2. QED
          BY <3>1, <3>2, <3>4, <4>1, <2>4, <2>5, <2>6, <1>3
      <3>5. CASE ~(j <= Len(s) - 1)
        <4>1. ~(j < k) /\ ~(j <= Len(f)) /\ ~(j + 1 <= Len(s)) /\ j - Len(f) = (j + 1) - Len(s)
          BY <3>5, <1>1, <2>4
        <4>2. (f \o t)[j] = t[j - Len(f)]
          BY <3>1, <4>1, <2>6
        <4>3. g[j] = u[j + 1]
          BY <3>1, <4>1, <2>5
        <4>4. u[j + 1] = t[(j + 1) - Len(s)]
          BY <3>2, <4>1, <1>3
        <4>5. QED
          BY <4>1, <4>2, <4>3, <4>4
      <3>6. QED
        BY <3>3, <3>4, <3>5
    <2>9. f \o t = g
      BY <2>5, <2>6, <2>7, <2>8, SeqEqual
    <2>10. QED
      BY <2>3, <2>9
  <1>9. ASSUME x \in Range(t) PROVE s \o Remove(t, x) = Remove(u, x)
    <2>1. PICK k \in 1..Len(t) : t[k] = x
      BY <1>9, <1>1 DEF Range
    <2>2. PICK m \in 1..Len(u) : m = Len(s) + k
      BY <1>1, <1>3
    <2>3. u[m] = x
      <3>1. ~(m <= Len(s)) /\ m - Len(s) = k /\ m \in 1..(Len(s) + Len(t))
        BY <2>2, <1>1, <1>3
      <3>2. QED
        BY <3>1, <2>1, <1>3
    <2>4. PICK f, g : f = Remove(t, x) /\ g = Remove(u, x)
      OBVIOUS
    <2>5. /\ f \in Seq(S) /\ Len(f) = Len(t) - 1
          /\ \A j \in 1..(Len(t) - 1) : f[j] = IF j < k THEN t[j] ELSE t[j + 1]
      <3>1. f = Remove(t, t[k])
        BY <2>1, <2>4
      <3>2. /\ Remove(t, t[k]) \in Seq(S) /\ Len(Remove(t, t[k])) = Len(t) - 1
            /\ \A j \in 1..(Len(t) - 1) : Remove(t, t[k])[j] = IF j < k THEN t[j] ELSE t[j + 1]
        BY <1>7, RemoveFacts
      <3>3. QED
        BY <3>1, <3>2
    <2>6. /\ g \in Seq(S) /\ Len(g) = Len(u) - 1
          /\ \A j \in 1..(Len(u) - 1) : g[j] = IF j < m THEN u[j] ELSE u[j + 1]
      <3>1. g = Remove(u, u[m])
        BY <2>3, <2>4
      <3>2. /\ Remove(u, u[m]) \in Seq(S) /\ Len(Remove(u, u[m])) = Len(u) - 1
            /\ \A j \in 1..(Len(u) - 1) : Remove(u, u[m])[j] = IF j < m THEN u[j] ELSE u[j + 1]
        BY <2>2, <1>5, RemoveFacts
      <3>3. QED
        BY <3>1, <3>2
    <2>7. /\ s \o f \in Seq(S) /\ Len(s \o f) = Len(s) + Len(f)
          /\ \A j \in 1..Len(s) + Len(f) : (s \o f)[j] = IF j <= Len(s) THEN s[j] ELSE f[j - Len(s)]
      <3>1. f \in Seq(S)
        BY <2>5
      <3>2. QED
        BY <3>1, ConcatProperties
    <2>8. Len(s \o f) = Len(g) /\ Len(g) = Len(s) + Len(t) - 1
      BY <2>5, <2>6, <2>7, <1>1, <1>3
    <2>9. ASSUME NEW j \in 1..Len(g) PROVE (s \o f)[j] = g[j]
      <3>1. j \in 1..(Len(u) - 1) /\ j \in 1..(Len(s) + Len(f))
        BY <2>5, <2>6, <2>8, <1>1
      <3>2. j \in 1..(Len(s) + Len(t)) /\ j + 1 \in 1..(Len(s) + Len(t))
        BY <2>8, <1>1
      <3>3. CASE j <= Len(s)
        <4>1. j < m
          BY <3>3, <2>2, <1>1
        <4>2. QED
          BY <3>1, <3>2, <3>3, <4>1, <2>6, <2>7, <1>3
      <3>4. CASE ~(j <= Len(s))
        <4>1. PICK i \in 1..(Len(t) - 1) : i = j - Len(s)
          <5>1. Len(s) \in Nat /\ Len(t) \in Nat /\ Len(f) = Len(t) - 1
            BY <1>1, <2>5
          <5>2. j \in 1..(Len(s) + Len(f)) /\ ~(j <= Len(s))
            BY <3>1, <3>4
          <5>3. j - Len(s) \in 1..(Len(t) - 1)
            BY <5>1, <5>2
          <5>4. QED
            BY <5>3
        <4>2. (j < m <=> i < k) /\ ~(j + 1 <= Len(s)) /\ (j + 1) - Len(s) = i + 1
          BY <3>4, <4>1, <2>2, <1>1
        <4>3. (s \o f)[j] = f[i]
          BY <3>1, <3>4, <4>1, <2>7
        <4>4. u[j] = t[i] /\ u[j + 1] = t[i + 1]
          BY <3>2, <3>4, <4>1, <4>2, <1>3
        <4>5. QED
          BY <3>1, <4>1, <4>2, <4>3, <4>4, <2>5, <2>6
      <3>5. QED
        BY <3>3, <3>4
    <2>10. s \o f = g
      BY <2>6, <2>7, <2>8, <2>9, SeqEqual
    <2>11. QED
      BY <2>4, <2>10
  <1>10. QED
    BY <1>2, <1>8, <1>9

-----------------------------------------------------------------------------
(***************************************************************************)
(* What the invariant says of the queues and how steps change them.        *)
(***************************************************************************)
(* A request that is live is in one queue, once.                           *)
LEMMA Queues ==
  ASSUME IInv
  PROVE  /\ running \in Seq(Requests) /\ waiting \in Seq(Requests) /\ arrived \in Seq(Requests)
         /\ Range(running) \subseteq Requests /\ Range(waiting) \subseteq Requests
         /\ IsInjective(running)
         /\ IsInjective(waiting)
         /\ Range(running) \cap Range(waiting) = {}
         /\ Range(arrived) = Range(running) \cup Range(waiting)
  <1>1. running \in Seq(Requests) /\ waiting \in Seq(Requests) /\ arrived \in Seq(Requests)
    BY DEF IInv, TypeOK
  <1>2. arrived = running \o waiting
    BY DEF IInv, ServedInOrder
  <1>3. IsInjective(running \o waiting)
    BY <1>2 DEF IInv, ArrivedOnce
  <1>4. /\ IsInjective(running)
        /\ IsInjective(waiting)
        /\ Range(running) \cap Range(waiting) = {}
        /\ Range(running \o waiting) = Range(running) \cup Range(waiting)
    BY <1>1, <1>3, ConcatFacts
  <1>5. Range(running) \subseteq Requests /\ Range(waiting) \subseteq Requests
    BY <1>1, RangeOfSeq
  <1>6. QED
    BY <1>1, <1>2, <1>4, <1>5

(* Tables after an allocation, an append or a prefill chunk.               *)
LEMMA ResizeFacts ==
  ASSUME NEW r, NEW n, Pool!Resize(r, n)
  PROVE  /\ DOMAIN tokens' = DOMAIN tokens \cup {r}
         /\ tokens'[r] = n
         /\ \A q \in DOMAIN tokens \ {r} : tokens'[q] = tokens[q]
  BY DEF Pool!Resize

(* Tables after a preemption, a completion or an abort.                    *)
LEMMA ReleaseFacts ==
  ASSUME NEW r, Pool!Release(r)
  PROVE  /\ DOMAIN tokens' = DOMAIN tokens \ {r}
         /\ \A q \in DOMAIN tokens \ {r} : tokens'[q] = tokens[q]
  <1>1. tokens' = [q \in DOMAIN tokens \ {r} |-> tokens[q]]
    BY DEF Pool!Release, Pool!Restrict, Restrict
  <1>2. QED
    BY <1>1

(* A preemption takes the last of the running requests, which goes to the  *)
(* front of the queue with a prompt that is not processed.                 *)
LEMMA PreemptFacts ==
  ASSUME IInv, running # << >>, Preempt
  PROVE  /\ Len(running) \in Nat \ {0} /\ Len(running') = Len(running) - 1
         /\ DOMAIN running = 1..Len(running) /\ DOMAIN running' = 1..(Len(running) - 1)
         /\ \A i \in 1..(Len(running) - 1) : running'[i] = running[i]
         /\ Victim = running[Len(running)] /\ Victim \in Range(running)
         /\ Victim \in Requests /\ Victim \notin Range(waiting)
         /\ running' \in Seq(Requests) /\ waiting' \in Seq(Requests)
         /\ Range(running') = Range(running) \ {Victim}
         /\ Range(waiting') = Range(waiting) \cup {Victim}
         /\ Len(waiting') = Len(waiting) + 1
         /\ running' \o waiting' = running \o waiting
  <1>1. running \in Seq(Requests) /\ waiting \in Seq(Requests) /\ Range(running) \cap Range(waiting) = {}
    BY Queues
  <1>2. IsInjective(running)
    BY Queues
  <1>3. Len(running) \in Nat \ {0} /\ DOMAIN running = 1..Len(running)
    BY <1>1, EmptySeq, LenProperties
  <1>4. PICK v : v = running[Len(running)]
    OBVIOUS
  <1>5. PICK f : f = SubSeq(running, 1, Len(running) - 1)
    OBVIOUS
  <1>6. /\ f \in Seq(Requests) /\ Len(f) = Len(running) - 1 /\ DOMAIN f = 1..(Len(running) - 1)
        /\ \A i \in 1..(Len(running) - 1) : f[i] = running[i]
        /\ v \in Requests /\ Range(f) = Range(running) \ {v} /\ f \o <<v>> = running
    BY <1>1, <1>2, <1>4, <1>5, FrontFacts
  <1>7. v \in Range(running) /\ v \notin Range(waiting)
    BY <1>1, <1>3, <1>4 DEF Range
  <1>8. PICK one : one = <<v>>
    OBVIOUS
  <1>9. one \in Seq(Requests) /\ Len(one) = 1 /\ Range(one) = {v}
    BY <1>6, <1>8 DEF Range
  <1>10. running' = f /\ waiting' = one \o waiting
    BY <1>4, <1>5, <1>8 DEF Preempt, VictimFirst, Victim
  <1>11. /\ waiting' \in Seq(Requests) /\ Len(waiting') = 1 + Len(waiting)
         /\ Range(waiting') = {v} \cup Range(waiting)
    <2>1. one \in Seq(Requests) /\ waiting \in Seq(Requests)
      BY <1>1, <1>9
    <2>2. one \o waiting \in Seq(Requests) /\ Len(one \o waiting) = Len(one) + Len(waiting)
      BY <2>1, ConcatProperties
    <2>3. Range(one \o waiting) = Range(one) \cup Range(waiting)
      BY <2>1, RangeConcatenation
    <2>4. QED
      BY <2>2, <2>3, <1>9, <1>10
  <1>12. running' \o waiting' = running \o waiting
    <2>1. (f \o one) \o waiting = f \o (one \o waiting)
      <3>1. f \in Seq(Requests) /\ one \in Seq(Requests) /\ waiting \in Seq(Requests)
        BY <1>1, <1>6, <1>9
      <3>2. QED
        BY <3>1, ConcatAssociative
    <2>2. QED
      BY <2>1, <1>6, <1>8, <1>10
  <1>13. Len(waiting') = Len(waiting) + 1
    BY <1>1, <1>11, LenProperties
  <1>14. QED
    BY <1>3, <1>4, <1>6, <1>7, <1>10, <1>11, <1>12, <1>13 DEF Victim

(* Aborting or finishing a request takes it out of its queue.              *)
LEMMA LeaveFacts ==
  ASSUME IInv, NEW r, Queued(r), Leave(r)
  PROVE  /\ r \in Requests
         /\ running' \in Seq(Requests) /\ waiting' \in Seq(Requests) /\ arrived' \in Seq(Requests)
         /\ Range(running') = Range(running) \ {r}
         /\ Range(waiting') = Range(waiting) \ {r}
         /\ Range(arrived') = Range(arrived) \ {r}
         /\ Len(running') <= Len(running)
         /\ Len(waiting') + Len(running') <= Len(waiting) + Len(running)
         /\ running' \o waiting' = arrived'
         /\ IsInjective(arrived')
  <1>1. /\ running \in Seq(Requests) /\ waiting \in Seq(Requests) /\ arrived \in Seq(Requests)
        /\ Range(running) \cap Range(waiting) = {}
        /\ Range(arrived) = Range(running) \cup Range(waiting)
        /\ Range(running) \subseteq Requests /\ Range(waiting) \subseteq Requests
    BY Queues
  <1>2. IsInjective(running)
    BY Queues
  <1>3. IsInjective(waiting)
    BY Queues
  <1>4. arrived = running \o waiting
    BY DEF IInv, ServedInOrder
  <1>5. IsInjective(arrived)
    BY DEF IInv, ArrivedOnce
  <1>6. r \in Range(running) \cup Range(waiting)
    BY DEF Queued
  <1>7. /\ Len(running) \in Nat /\ DOMAIN running = 1..Len(running)
        /\ Len(waiting) \in Nat /\ DOMAIN waiting = 1..Len(waiting)
        /\ Len(arrived) \in Nat /\ DOMAIN arrived = 1..Len(arrived)
    BY <1>1, LenProperties
  <1>8. arrived' = Remove(arrived, r)
    BY DEF Leave
  <1>9. PICK k \in 1..Len(arrived) : arrived[k] = r
    BY <1>1, <1>6, <1>7 DEF Range
  <1>10. /\ arrived' \in Seq(Requests) /\ Range(arrived') = Range(arrived) \ {r}
         /\ DOMAIN arrived' = 1..(Len(arrived) - 1)
         /\ \A j \in 1..(Len(arrived) - 1) :
              arrived'[j] = IF j < k THEN arrived[j] ELSE arrived[j + 1]
    <2>1. /\ Remove(arrived, arrived[k]) \in Seq(Requests)
          /\ Range(Remove(arrived, arrived[k])) = Range(arrived) \ {arrived[k]}
          /\ DOMAIN Remove(arrived, arrived[k]) = 1..(Len(arrived) - 1)
          /\ \A j \in 1..(Len(arrived) - 1) :
               Remove(arrived, arrived[k])[j] = IF j < k THEN arrived[j] ELSE arrived[j + 1]
      <3>1. arrived \in Seq(Requests) /\ IsInjective(arrived)
        BY <1>1, <1>5
      <3>2. k \in 1..Len(arrived)
        OBVIOUS
      <3>3. QED
        BY <3>1, <3>2, RemoveFacts
    <2>2. arrived' = Remove(arrived, arrived[k])
      BY <1>8, <1>9
    <2>3. QED
      BY <2>1, <2>2, <1>9
  <1>11. IsInjective(arrived')
    <2>1. SUFFICES ASSUME NEW i \in 1..(Len(arrived) - 1), NEW j \in 1..(Len(arrived) - 1),
                          arrived'[i] = arrived'[j]
                   PROVE  i = j
      BY <1>10 DEF IsInjective
    <2>2. PICK m \in 1..Len(arrived) : m = (IF i < k THEN i ELSE i + 1) /\ arrived'[i] = arrived[m]
      BY <1>7, <1>10
    <2>3. PICK n \in 1..Len(arrived) : n = (IF j < k THEN j ELSE j + 1) /\ arrived'[j] = arrived[n]
      BY <1>7, <1>10
    <2>4. m = n
      BY <2>1, <2>2, <2>3, <1>5, <1>7 DEF IsInjective
    <2>5. QED
      BY <2>2, <2>3, <2>4
  <1>12. running \in Seq(Requests) /\ waiting \in Seq(Requests) /\ arrived \in Seq(Requests)
    BY <1>1
  <1>13. r \in Requests
    BY <1>1, <1>6
  <1>14. CASE r \in Range(running)
    <2>1. running' = Remove(running, r) /\ waiting' = waiting
      BY <1>14, <1>1 DEF Leave
    <2>2. PICK m \in 1..Len(running) : running[m] = r
      BY <1>14, <1>7 DEF Range
    <2>3. /\ Remove(running, running[m]) \in Seq(Requests)
          /\ Range(Remove(running, running[m])) = Range(running) \ {running[m]}
          /\ Len(Remove(running, running[m])) = Len(running) - 1
      BY <1>1, <1>2, RemoveFacts
    <2>4. running' \in Seq(Requests) /\ Range(running') = Range(running) \ {r}
          /\ Len(running') = Len(running) - 1
      BY <2>1, <2>2, <2>3
    <2>5. Remove(running, r) \o waiting = Remove(arrived, r)
      <3>1. IsInjective(running \o waiting)
        BY <1>4, <1>5
      <3>2. /\ r \in Range(running) => Remove(running, r) \o waiting = Remove(running \o waiting, r)
            /\ r \in Range(waiting) => running \o Remove(waiting, r) = Remove(running \o waiting, r)
        BY <3>1, <1>12, <1>13, ConcatRemove
      <3>3. QED
        BY <3>2, <1>4, <1>14
    <2>6. Range(waiting') = Range(waiting) \ {r}
      BY <2>1, <1>1, <1>14
    <2>7. QED
      BY <2>1, <2>4, <2>5, <2>6, <1>1, <1>7, <1>8, <1>10, <1>11, <1>14
  <1>15. CASE r \in Range(waiting)
    <2>1. waiting' = Remove(waiting, r) /\ running' = running
      BY <1>15 DEF Leave
    <2>2. PICK m \in 1..Len(waiting) : waiting[m] = r
      BY <1>15, <1>7 DEF Range
    <2>3. /\ Remove(waiting, waiting[m]) \in Seq(Requests)
          /\ Range(Remove(waiting, waiting[m])) = Range(waiting) \ {waiting[m]}
          /\ Len(Remove(waiting, waiting[m])) = Len(waiting) - 1
      BY <1>1, <1>3, RemoveFacts
    <2>4. waiting' \in Seq(Requests) /\ Range(waiting') = Range(waiting) \ {r}
          /\ Len(waiting') = Len(waiting) - 1
      BY <2>1, <2>2, <2>3
    <2>5. running \o Remove(waiting, r) = Remove(arrived, r)
      <3>1. IsInjective(running \o waiting)
        BY <1>4, <1>5
      <3>2. /\ r \in Range(running) => Remove(running, r) \o waiting = Remove(running \o waiting, r)
            /\ r \in Range(waiting) => running \o Remove(waiting, r) = Remove(running \o waiting, r)
        BY <3>1, <1>12, <1>13, ConcatRemove
      <3>3. QED
        BY <3>2, <1>4, <1>15
    <2>6. Range(running') = Range(running) \ {r}
      BY <2>1, <1>1, <1>15
    <2>7. QED
      BY <2>1, <2>4, <2>5, <2>6, <1>1, <1>7, <1>8, <1>10, <1>11, <1>15
  <1>16. QED
    BY <1>6, <1>14, <1>15

-----------------------------------------------------------------------------
(***************************************************************************)
(* The steps, by what they do to the queues.                               *)
(***************************************************************************)
(* Only a request with a processed prompt is preempted for, and it runs.   *)
LEMMA DecodePreemptRunning ==
  ASSUME IInv, DecodeNext
  PROVE  /\ Head(todo) \in Range(running) /\ Head(todo) \in Requests /\ running # << >>
         /\ 1 \in DOMAIN todo /\ Head(todo) = todo[1]
  <1>1. pc = "decodes" /\ todo # << >> /\ PrefillDone(Head(todo))
    BY DEF DecodeNext
  <1>2. todo \in Seq(Requests)
    BY DEF IInv, TypeOK
  <1>3. Len(todo) \in Nat \ {0} /\ DOMAIN todo = 1..Len(todo) /\ Head(todo) = todo[1]
        /\ Head(todo) \in Requests
    BY <1>1, <1>2, HeadTailFacts
  <1>4. todo[1] \in Range(running)
    BY <1>1, <1>3 DEF IInv, DecodeOrder
  <1>5. running # << >>
    BY <1>4 DEF Range
  <1>6. QED
    BY <1>3, <1>4, <1>5

(* The queues change only where a request arrives, is preempted, admitted, *)
(* aborted or finished, or where the engine is reset.                      *)
LEMMA QueueSteps ==
  ASSUME IInv, [Next]_vars
  PROVE  \/ UNCHANGED <<running, waiting, arrived>> /\ DOMAIN tokens' = DOMAIN tokens
         \/ \E r \in Requests, n \in PromptLengths : Add(r, n)
         \/ running # << >> /\ Preempt /\ UNCHANGED arrived
         \/ Admit
         \/ \E r \in Requests : Queued(r) /\ Leave(r)
         \/ Reset
  <1>1. CASE Plan
    <2>1. ASSUME DecodePreempt PROVE running # << >> /\ Preempt /\ UNCHANGED arrived
      BY <2>1, DecodePreemptRunning DEF DecodePreempt
    <2>2. ASSUME AdmitPreempt PROVE running # << >> /\ Preempt /\ UNCHANGED arrived
      BY <2>2 DEF AdmitPreempt
    <2>3. ASSUME ScheduleBegin \/ DecodeSkip \/ Decode \/ DecodesDone \/ PrefillPlan
                 \/ PrefillSkip \/ PrefillsDone \/ AdmissionsDone
          PROVE  UNCHANGED <<running, waiting, arrived>> /\ DOMAIN tokens' = DOMAIN tokens
      BY <2>3 DEF ScheduleBegin, DecodeSkip, Decode, DecodesDone, PrefillPlan, PrefillSkip,
                  PrefillsDone, AdmissionsDone, queues, cache
    <2>4. QED
      BY <1>1, <2>1, <2>2, <2>3 DEF Plan, Schedule
  <1>2. CASE PrefillChunk
    <2>1. UNCHANGED <<running, waiting, arrived>>
      BY <1>2 DEF PrefillChunk, queues
    <2>2. DOMAIN tokens' = DOMAIN tokens
      <3>1. CASE UNCHANGED cache
        BY <3>1 DEF cache
      <3>2. CASE Head(todo) \in DOMAIN tokens
                 /\ Pool!Resize(Head(todo), SlotsAfter(Head(todo)))
        BY <3>2, ResizeFacts
      <3>3. QED
        BY <1>2, <3>1, <3>2 DEF PrefillChunk
    <2>3. QED
      BY <2>1, <2>2
  <1>3. CASE PrefillOutOfBlocks
    <2>1. Head(todo) \in DOMAIN tokens /\ Pool!Resize(Head(todo), RoomFor(Head(todo)))
      BY <1>3 DEF PrefillOutOfBlocks
    <2>2. DOMAIN tokens' = DOMAIN tokens
      BY <2>1, ResizeFacts
    <2>3. QED
      BY <1>3, <2>2 DEF PrefillOutOfBlocks, queues
  <1>4. CASE SampleGoOn
    <2>1. Head(ready) \in DOMAIN tokens /\ Pool!Resize(Head(ready), tokens[Head(ready)] + 1)
      BY <1>4 DEF SampleGoOn
    <2>2. DOMAIN tokens' = DOMAIN tokens
      BY <2>1, ResizeFacts
    <2>3. QED
      BY <1>4, <2>2 DEF SampleGoOn, queues
  <1>5. CASE SampleFinish
    <2>1. Head(ready) \in DOMAIN tokens /\ Leave(Head(ready))
      BY <1>5 DEF SampleFinish
    <2>2. Head(ready) \in Range(running) /\ Head(ready) \in Requests
      BY <2>1, Queues DEF IInv, TablesAreRunning
    <2>3. QED
      BY <2>1, <2>2 DEF Queued
  <1>6. CASE PrefillWithoutTable \/ PrefillsExecuted \/ Collect \/ Collected \/ SampleRaise \/ StepEnd
    BY <1>6 DEF PrefillWithoutTable, PrefillsExecuted, Collect, Collected, SampleRaise, StepEnd,
                queues, cache
  <1>7. CASE \E r \in Requests : AbortRequest(r)
    BY <1>7 DEF AbortRequest, Abort
  <1>8. CASE UNCHANGED queueVars
    BY <1>8 DEF queueVars, schedulerVars, queues, cache
  <1>9. QED
    BY <1>1, <1>2, <1>3, <1>4, <1>5, <1>6, <1>7, <1>8, AssemblersApart DEF Next, Step, Execute

(* Admission moves the head of the queue to the end of the batch.          *)
LEMMA AdmitFacts ==
  ASSUME IInv, Admit
  PROVE  /\ Head(waiting) \in Requests /\ Head(waiting) \in Range(waiting)
         /\ Head(waiting) \notin Range(running)
         /\ running' \in Seq(Requests) /\ waiting' \in Seq(Requests)
         /\ Range(running') = Range(running) \cup {Head(waiting)}
         /\ Range(waiting') = Range(waiting) \ {Head(waiting)}
         /\ Len(running') = Len(running) + 1 /\ Len(waiting') = Len(waiting) - 1
         /\ Len(running) < MaxRunning
         /\ running' \o waiting' = running \o waiting
         /\ UNCHANGED arrived
         /\ DOMAIN tokens' = DOMAIN tokens \cup {Head(waiting)}
         /\ tokens'[Head(waiting)] = PlanChunk(Head(waiting))
         /\ \A q \in DOMAIN tokens \ {Head(waiting)} : tokens'[q] = tokens[q]
  <1>1. PICK r : r = Head(waiting)
    OBVIOUS
  <1>2. running \in Seq(Requests) /\ waiting \in Seq(Requests)
        /\ Range(running) \cap Range(waiting) = {} /\ waiting # << >>
    BY Queues DEF Admit, CanAdmit
  <1>3. /\ Len(waiting) \in Nat \ {0} /\ DOMAIN waiting = 1..Len(waiting) /\ r = waiting[1]
        /\ r \in Requests /\ Tail(waiting) \in Seq(Requests) /\ Len(Tail(waiting)) = Len(waiting) - 1
        /\ DOMAIN Tail(waiting) = 1..(Len(waiting) - 1)
        /\ \A i \in 1..(Len(waiting) - 1) : Tail(waiting)[i] = waiting[i + 1]
        /\ Range(waiting) = {r} \cup Range(Tail(waiting))
    BY <1>1, <1>2, HeadTailFacts
  <1>4. r \in Range(waiting) /\ r \notin Range(running)
    BY <1>2, <1>3
  <1>5. r \notin Range(Tail(waiting))
    <2>1. IsInjective(waiting)
      BY Queues
    <2>2. SUFFICES ASSUME NEW i \in 1..(Len(waiting) - 1), Tail(waiting)[i] = r PROVE FALSE
      BY <1>3 DEF Range
    <2>3. waiting[i + 1] = waiting[1] /\ i + 1 \in 1..Len(waiting) /\ 1 \in 1..Len(waiting)
      BY <2>2, <1>3
    <2>4. i + 1 = 1
      BY <2>1, <2>3, <1>3 DEF IsInjective
    <2>5. QED
      BY <2>4
  <1>6. running' = Append(running, r) /\ waiting' = Tail(waiting) /\ UNCHANGED arrived
        /\ Len(running) < MaxRunning
    BY <1>1 DEF Admit, CanAdmit
  <1>7. running' \in Seq(Requests) /\ Len(running') = Len(running) + 1
    BY <1>2, <1>3, <1>6, AppendProperties
  <1>8. Range(running') = Range(running) \cup {r}
    BY <1>2, <1>3, <1>6, RangeAppend
  <1>9. running' \o waiting' = running \o waiting
    <2>1. PICK one, rest : one = <<r>> /\ rest = Tail(waiting)
      OBVIOUS
    <2>2. one \in Seq(Requests) /\ rest \in Seq(Requests)
      BY <2>1, <1>3
    <2>3. Append(running, r) = running \o one
      BY <2>1, <1>2, <1>3, AppendIsConcat
    <2>4. (running \o one) \o rest = running \o (one \o rest)
      <3>1. running \in Seq(Requests) /\ one \in Seq(Requests) /\ rest \in Seq(Requests)
        BY <1>2, <2>2
      <3>2. QED
        BY <3>1, JoinAssociative, SMTT(30)
    <2>5. one \o rest = waiting
      <3>1. /\ one \o rest \in Seq(Requests) /\ Len(one \o rest) = Len(one) + Len(rest)
            /\ \A i \in 1..Len(one) + Len(rest) :
                 (one \o rest)[i] = IF i <= Len(one) THEN one[i] ELSE rest[i - Len(one)]
        BY <2>2, ConcatProperties
      <3>2. Len(one) = 1 /\ one[1] = r /\ Len(rest) = Len(waiting) - 1
        BY <2>1, <1>3
      <3>3. Len(one \o rest) = Len(waiting)
        BY <3>1, <3>2, <1>3
      <3>4. ASSUME NEW i \in 1..Len(waiting) PROVE (one \o rest)[i] = waiting[i]
        <4>1. CASE i = 1
          BY <4>1, <3>1, <3>2, <1>3
        <4>2. CASE i # 1
          <5>1. i - 1 \in 1..(Len(waiting) - 1) /\ (i - 1) + 1 = i /\ ~(i <= 1)
            BY <4>2, <1>3
          <5>2. (one \o rest)[i] = rest[i - 1]
            BY <5>1, <3>1, <3>2, <1>3
          <5>3. rest[i - 1] = waiting[i]
            BY <5>1, <2>1, <1>3
          <5>4. QED
            BY <5>2, <5>3
        <4>3. QED
          BY <4>1, <4>2
      <3>5. QED
        BY <3>1, <3>3, <3>4, <1>2, SeqEqual
    <2>6. QED
      BY <2>1, <2>3, <2>4, <2>5, <1>6
  <1>10. Pool!Resize(r, PlanChunk(r))
    BY <1>1 DEF Admit
  <1>11. /\ DOMAIN tokens' = DOMAIN tokens \cup {r} /\ tokens'[r] = PlanChunk(r)
         /\ \A q \in DOMAIN tokens \ {r} : tokens'[q] = tokens[q]
    BY <1>10, ResizeFacts
  <1>12. Range(waiting') = Range(waiting) \ {r}
    BY <1>3, <1>5, <1>6
  <1>13. Len(waiting') = Len(waiting) - 1
    BY <1>3, <1>6
  <1>14. QED
    BY <1>1, <1>3, <1>4, <1>6, <1>7, <1>8, <1>9, <1>11, <1>12, <1>13

(* A new request goes to the end of the waiting queue.                     *)
LEMMA AddFacts ==
  ASSUME IInv, NEW r \in Requests, NEW n \in PromptLengths, Add(r, n)
  PROVE  /\ r \notin Range(running) /\ r \notin Range(waiting)
         /\ waiting' \in Seq(Requests) /\ arrived' \in Seq(Requests)
         /\ Range(waiting') = Range(waiting) \cup {r}
         /\ Range(arrived') = Range(arrived) \cup {r}
         /\ Len(waiting) < MaxWaiting /\ Len(waiting') = Len(waiting) + 1
         /\ running \o waiting' = arrived'
         /\ IsInjective(arrived')
         /\ UNCHANGED <<running, tokens, available>>
  <1>1. /\ running \in Seq(Requests) /\ waiting \in Seq(Requests) /\ arrived \in Seq(Requests)
        /\ Range(arrived) = Range(running) \cup Range(waiting) /\ IsInjective(arrived)
        /\ arrived = running \o waiting
    BY Queues DEF IInv, ArrivedOnce, ServedInOrder
  <1>2. /\ r \notin Range(running) /\ r \notin Range(waiting) /\ Len(waiting) < MaxWaiting
        /\ waiting' = Append(waiting, r) /\ arrived' = Append(arrived, r)
        /\ UNCHANGED <<running, tokens, available>>
    BY DEF Add, AddRequest, Queued, WaitingHasRoom, cache
  <1>3. /\ waiting' \in Seq(Requests) /\ Len(waiting') = Len(waiting) + 1
        /\ arrived' \in Seq(Requests) /\ Len(arrived') = Len(arrived) + 1
        /\ \A i \in 1..Len(arrived) : arrived'[i] = arrived[i]
        /\ arrived'[Len(arrived) + 1] = r
    BY <1>1, <1>2, AppendProperties
  <1>4. Range(waiting') = Range(waiting) \cup {r} /\ Range(arrived') = Range(arrived) \cup {r}
    <2>1. Range(Append(waiting, r)) = Range(waiting) \cup {r}
      BY <1>1, RangeAppend
    <2>2. Range(Append(arrived, r)) = Range(arrived) \cup {r}
      <3>1. arrived \in Seq(Requests)
        BY <1>1
      <3>2. QED
        BY <3>1, RangeAppend
    <2>3. QED
      BY <2>1, <2>2, <1>2
  <1>5. running \o waiting' = arrived'
    <2>1. PICK one : one = <<r>>
      OBVIOUS
    <2>2. one \in Seq(Requests) /\ waiting' = waiting \o one /\ arrived' = arrived \o one
      BY <2>1, <1>1, <1>2, AppendIsConcat
    <2>3. (running \o waiting) \o one = running \o (waiting \o one)
      BY <2>2, <1>1, ConcatAssociative
    <2>4. QED
      BY <2>2, <2>3, <1>1
  <1>6. IsInjective(arrived')
    <2>1. Len(arrived) \in Nat /\ DOMAIN arrived = 1..Len(arrived)
          /\ DOMAIN arrived' = 1..(Len(arrived) + 1)
      BY <1>1, <1>3, LenProperties
    <2>2. \A i \in 1..Len(arrived) : arrived[i] # r
      BY <2>1, <1>1, <1>2 DEF Range
    <2>3. SUFFICES ASSUME NEW i \in 1..(Len(arrived) + 1), NEW j \in 1..(Len(arrived) + 1),
                          arrived'[i] = arrived'[j]
                   PROVE  i = j
      BY <2>1 DEF IsInjective
    <2>4. CASE i \in 1..Len(arrived) /\ j \in 1..Len(arrived)
      BY <2>1, <2>3, <2>4, <1>1, <1>3 DEF IsInjective
    <2>5. CASE i = Len(arrived) + 1 \/ j = Len(arrived) + 1
      BY <2>1, <2>2, <2>3, <2>5, <1>3
    <2>6. QED
      BY <2>1, <2>4, <2>5
  <1>7. QED
    BY <1>2, <1>3, <1>4, <1>5, <1>6

(* The queues stay in order of arrival, bounded and in step with the       *)
(* block tables.                                                           *)
LEMMA QueuesInvariant ==
  ASSUME IInv, [Next]_vars
  PROVE  /\ running' \in Seq(Requests) /\ waiting' \in Seq(Requests) /\ arrived' \in Seq(Requests)
         /\ ServedInOrder' /\ ArrivedOnce' /\ TablesAreRunning' /\ QueuesBounded'
  <1>1. /\ running \in Seq(Requests) /\ waiting \in Seq(Requests) /\ arrived \in Seq(Requests)
        /\ Range(running) \cap Range(waiting) = {} /\ Range(arrived) = Range(running) \cup Range(waiting)
        /\ Len(running) \in Nat /\ Len(waiting) \in Nat
    BY Queues, LenProperties
  <1>2. /\ running \o waiting = arrived /\ IsInjective(arrived) /\ DOMAIN tokens = Range(running)
        /\ Len(running) <= MaxRunning /\ Len(waiting) + Len(running) <= MaxWaiting + MaxRunning
    BY DEF IInv, ServedInOrder, ArrivedOnce, TablesAreRunning, QueuesBounded
  <1>3. MaxRunning \in Nat /\ MaxWaiting \in Nat
    BY SchedulerAssumption
  <1> USE DEF ServedInOrder, ArrivedOnce, TablesAreRunning, QueuesBounded
  <1>4. CASE UNCHANGED <<running, waiting, arrived>> /\ DOMAIN tokens' = DOMAIN tokens
    <2>1. running' = running /\ waiting' = waiting /\ arrived' = arrived /\ DOMAIN tokens' = DOMAIN tokens
      BY <1>4
    <2>2. QED
      BY <2>1, <1>1, <1>2
  <1>5. ASSUME NEW r \in Requests, NEW n \in PromptLengths, Add(r, n)
        PROVE  /\ running' \in Seq(Requests) /\ waiting' \in Seq(Requests) /\ arrived' \in Seq(Requests)
               /\ ServedInOrder' /\ ArrivedOnce' /\ TablesAreRunning' /\ QueuesBounded'
    <2>1. /\ waiting' \in Seq(Requests) /\ arrived' \in Seq(Requests)
          /\ Len(waiting) < MaxWaiting /\ Len(waiting') = Len(waiting) + 1
          /\ running \o waiting' = arrived' /\ IsInjective(arrived')
          /\ UNCHANGED <<running, tokens, available>>
      BY <1>5, AddFacts
    <2>2. running' = running /\ tokens' = tokens
      BY <2>1
    <2>3. QED
      BY <2>1, <2>2, <1>1, <1>2, <1>3
  <1>6. CASE running # << >> /\ Preempt /\ UNCHANGED arrived
    <2>1. /\ running' \in Seq(Requests) /\ waiting' \in Seq(Requests)
          /\ Len(running') = Len(running) - 1 /\ Len(waiting') = Len(waiting) + 1
          /\ Range(running') = Range(running) \ {Victim}
          /\ running' \o waiting' = running \o waiting
      BY <1>6, PreemptFacts
    <2>2. DOMAIN tokens' = DOMAIN tokens \ {Victim}
      BY <1>6, ReleaseFacts DEF Preempt
    <2>3. arrived' = arrived
      BY <1>6
    <2>4. QED
      BY <2>1, <2>2, <2>3, <1>1, <1>2, <1>3
  <1>7. CASE Admit
    <2>1. /\ running' \in Seq(Requests) /\ waiting' \in Seq(Requests)
          /\ Range(running') = Range(running) \cup {Head(waiting)}
          /\ Len(running') = Len(running) + 1 /\ Len(waiting') = Len(waiting) - 1
          /\ Len(running) < MaxRunning /\ running' \o waiting' = running \o waiting
          /\ arrived' = arrived /\ DOMAIN tokens' = DOMAIN tokens \cup {Head(waiting)}
      BY <1>7, AdmitFacts
    <2>2. QED
      BY <2>1, <1>1, <1>2, <1>3
  <1>8. ASSUME NEW r \in Requests, Queued(r), Leave(r)
        PROVE  /\ running' \in Seq(Requests) /\ waiting' \in Seq(Requests) /\ arrived' \in Seq(Requests)
               /\ ServedInOrder' /\ ArrivedOnce' /\ TablesAreRunning' /\ QueuesBounded'
    <2>1. /\ running' \in Seq(Requests) /\ waiting' \in Seq(Requests) /\ arrived' \in Seq(Requests)
          /\ Range(running') = Range(running) \ {r}
          /\ Len(running') <= Len(running)
          /\ Len(waiting') + Len(running') <= Len(waiting) + Len(running)
          /\ running' \o waiting' = arrived' /\ IsInjective(arrived')
      BY <1>8, LeaveFacts
    <2>2. DOMAIN tokens' = DOMAIN tokens \ {r}
      BY <1>8, ReleaseFacts DEF Leave
    <2>3. Len(running') \in Nat /\ Len(waiting') \in Nat
      BY <2>1, LenProperties
    <2>4. QED
      BY <2>1, <2>2, <2>3, <1>1, <1>2, <1>3
  <1>9. CASE Reset
    <2>1. running' = << >> /\ waiting' = << >> /\ arrived' = << >> /\ tokens' = << >>
      BY <1>9 DEF Reset, Pool!ReleaseAll
    <2>2. PICK none : none = << >>
      OBVIOUS
    <2>3. none \in Seq(Requests) /\ Len(none) = 0 /\ DOMAIN none = {} /\ none \o none = none
      BY <2>2
    <2>4. IsInjective(none) /\ Range(none) = {}
      BY <2>3 DEF IsInjective, Range
    <2>5. QED
      BY <2>1, <2>2, <2>3, <2>4, <1>3
  <1>10. QED
    BY <1>4, <1>5, <1>6, <1>7, <1>8, <1>9, QueueSteps

-----------------------------------------------------------------------------
(***************************************************************************)
(* Blocks and tokens.                                                      *)
(***************************************************************************)
(* The blocks tokens need are a number, and hold them.                     *)
LEMMA BlocksFacts ==
  ASSUME NEW B \in Nat \ {0}, NEW n \in Nat
  PROVE  /\ (n + B - 1) \div B \in Nat
         /\ ((n + B - 1) \div B) * B >= n
  OBVIOUS

(* Full blocks are the blocks of their tokens.                             *)
LEMMA BlocksOfWhole ==
  ASSUME NEW B \in Nat \ {0}, NEW k \in Nat
  PROVE  k * B \in Nat /\ (k * B + B - 1) \div B = k
  OBVIOUS

(* Tokens that fit into k blocks need no more.                             *)
LEMMA BlocksWithin ==
  ASSUME NEW B \in Nat \ {0}, NEW k \in Nat, NEW n \in Nat, n <= k * B
  PROVE  (n + B - 1) \div B <= k
  OBVIOUS

(* One more token starts a block at a boundary only.                       *)
LEMMA BlocksOfNext ==
  ASSUME NEW B \in Nat \ {0}, NEW n \in Nat
  PROVE  ((n + 1) + B - 1) \div B =
           IF n % B = 0 THEN (n + B - 1) \div B + 1 ELSE (n + B - 1) \div B
  OBVIOUS

(* What a prefill chunk leaves of a prompt.                                *)
LEMMA ChunkEndFacts ==
  ASSUME IInv, Executing
  PROVE  /\ Head(todo) \in Requests /\ Head(todo) \in DOMAIN chunkSizes
         /\ promptLen[Head(todo)] \in Nat /\ offset[Head(todo)] \in Nat
         /\ ChunkEnd(Head(todo)) \in Nat
         /\ offset[Head(todo)] <= ChunkEnd(Head(todo))
         /\ ChunkEnd(Head(todo)) <= promptLen[Head(todo)]
         /\ ChunkEnd(Head(todo)) <= offset[Head(todo)] => PrefillDone(Head(todo))
  <1>1. PICK r : r = Head(todo)
    OBVIOUS
  <1>2. todo \in Seq(Requests) /\ todo # << >> /\ pc = "execute"
    BY DEF IInv, TypeOK, Executing
  <1>3. r \in Requests /\ r \in Range(todo)
    BY <1>1, <1>2, HeadTailFacts
  <1>4. r \in DOMAIN chunkSizes
    BY <1>2, <1>3 DEF IInv, PlannedChunks
  <1>5. chunkSizes[r] \in Nat \ {0}
    BY <1>4 DEF IInv, TypeOK
  <1>6. promptLen[r] \in Nat /\ offset[r] \in Nat
    <2>1. promptLen \in [Requests -> Nat] /\ offset \in [Requests -> Nat]
      BY DEF IInv, TypeOK
    <2>2. QED
      BY <2>1, <1>3
  <1>7. offset[r] <= promptLen[r]
    BY <1>3 DEF IInv, Lengths
  <1>8. /\ ChunkEnd(r) \in Nat /\ offset[r] <= ChunkEnd(r) /\ ChunkEnd(r) <= promptLen[r]
        /\ ChunkEnd(r) <= offset[r] => offset[r] >= promptLen[r]
    BY <1>5, <1>6, <1>7 DEF ChunkEnd, MinOf
  <1>9. QED
    BY <1>1, <1>3, <1>4, <1>6, <1>8 DEF PrefillDone

(* The next request to sample for, if there is one.                        *)
LEMMA SamplingFacts ==
  ASSUME IInv, Sampling
  PROVE  /\ Head(ready) \in Requests /\ Tail(ready) \in Seq(Requests)
         /\ Len(ready) \in Nat /\ Len(Tail(ready)) = Len(ready) - 1
         /\ Range(Tail(ready)) \subseteq Range(ready)
         /\ PrefillDone(Head(ready))
         /\ Head(ready) \notin Range(waiting)
  <1>1. ready \in Seq(Requests) /\ ready # << >>
    BY DEF IInv, TypeOK, Sampling
  <1>2. PICK r : r = Head(ready)
    OBVIOUS
  <1>3. /\ r \in Requests /\ Tail(ready) \in Seq(Requests) /\ Range(ready) = {r} \cup Range(Tail(ready))
        /\ Len(ready) \in Nat /\ Len(Tail(ready)) = Len(ready) - 1
    BY <1>1, <1>2, HeadTailFacts
  <1>4. PrefillDone(r)
    BY <1>3 DEF IInv, ReadyPrefilled
  <1>5. r \notin Range(waiting)
    <2>1. SUFFICES ASSUME r \in Range(waiting) PROVE FALSE
      OBVIOUS
    <2>2. offset[r] = 0
      BY <2>1 DEF IInv, Progress
    <2>3. r \in Range(arrived)
      BY <2>1, Queues
    <2>4. promptLen[r] >= 1
      BY <2>3 DEF IInv, Lengths
    <2>5. promptLen \in [Requests -> Nat]
      BY DEF IInv, TypeOK
    <2>6. QED
      BY <2>2, <2>4, <2>5, <1>3, <1>4 DEF PrefillDone
  <1>6. QED
    BY <1>2, <1>3, <1>4, <1>5

(* The steps, by what they do to the requests.                             *)
LEMMA RequestSteps ==
  ASSUME IInv, [Next]_vars
  PROVE  \/ UNCHANGED <<promptLen, generated, offset, asked, sampled>>
         \/ \E r \in Requests, n \in PromptLengths : Add(r, n)
         \/ running # << >> /\ Preempt /\ UNCHANGED <<asked, sampled>>
         \/ PrefillChunk
         \/ /\ Sampling /\ Record(Head(ready))
            /\ UNCHANGED <<promptLen, offset, asked>>
  <1>1. CASE Plan
    <2>1. ASSUME DecodePreempt PROVE running # << >> /\ Preempt
      BY <2>1, DecodePreemptRunning DEF DecodePreempt
    <2>2. ASSUME AdmitPreempt PROVE running # << >> /\ Preempt
      BY <2>2 DEF AdmitPreempt
    <2>3. ASSUME ScheduleBegin \/ DecodeSkip \/ Decode \/ DecodesDone \/ PrefillPlan
                 \/ PrefillSkip \/ PrefillsDone \/ Admit \/ AdmissionsDone
          PROVE  UNCHANGED <<promptLen, generated, offset>>
      BY <2>3 DEF ScheduleBegin, DecodeSkip, Decode, DecodesDone, PrefillPlan, PrefillSkip,
                  PrefillsDone, Admit, AdmissionsDone, requests
    <2>4. UNCHANGED <<asked, sampled>>
      BY <1>1 DEF Plan
    <2>5. QED
      BY <1>1, <2>1, <2>2, <2>3, <2>4 DEF Plan, Schedule
  <1>2. CASE PrefillWithoutTable \/ PrefillOutOfBlocks \/ PrefillsExecuted \/ Collect \/ Collected
             \/ StepEnd \/ Reset \/ (\E r \in Requests : AbortRequest(r)) \/ UNCHANGED queueVars
    BY <1>2 DEF PrefillWithoutTable, PrefillOutOfBlocks, PrefillsExecuted, Collect, Collected,
                StepEnd, Reset, AbortRequest, Abort, queueVars, schedulerVars, requests, history
  <1>3. CASE SampleGoOn \/ SampleFinish \/ SampleRaise
    BY <1>3 DEF SampleGoOn, SampleFinish, SampleRaise
  <1>4. QED
    BY <1>1, <1>2, <1>3, AssemblersApart DEF Next, Step, Execute

(* Prompts, outputs and history counts stay numbers, no prompt is read     *)
(* past its end, and no token is lost or repeated.                         *)
LEMMA RequestsInvariant ==
  ASSUME IInv, [Next]_vars
  PROVE  /\ {promptLen', generated', offset', asked', sampled'} \subseteq [Requests -> Nat]
         /\ Lengths' /\ TokensKept'
  <1>1. /\ promptLen \in [Requests -> Nat] /\ generated \in [Requests -> Nat]
        /\ offset \in [Requests -> Nat] /\ asked \in [Requests -> Nat] /\ sampled \in [Requests -> Nat]
    BY DEF IInv, TypeOK
  <1>2. /\ \A r \in Requests : offset[r] <= promptLen[r]
        /\ \A r \in Range(arrived) : promptLen[r] >= 1
        /\ \A r \in Requests : promptLen[r] + generated[r] = asked[r] + sampled[r]
    BY DEF IInv, Lengths, TokensKept
  <1>3. Range(arrived) \subseteq Requests
    BY Queues
  <1>4. \/ Range(arrived') \subseteq Range(arrived)
        \/ \E r \in Requests, n \in PromptLengths : Add(r, n)
    <2>1. CASE \E r \in Requests : Queued(r) /\ Leave(r)
      BY <2>1, LeaveFacts
    <2>2. CASE Admit
      BY <2>2, AdmitFacts
    <2>3. CASE Reset
      BY <2>3 DEF Reset, Range
    <2>4. QED
      BY <2>1, <2>2, <2>3, QueueSteps
  <1> USE DEF Lengths, TokensKept
  <1>5. CASE UNCHANGED <<promptLen, generated, offset, asked, sampled>>
             /\ Range(arrived') \subseteq Range(arrived)
    <2>1. /\ promptLen' = promptLen /\ generated' = generated /\ offset' = offset
          /\ asked' = asked /\ sampled' = sampled
      BY <1>5
    <2>2. QED
      BY <2>1, <1>5, <1>1, <1>2
  <1>6. ASSUME NEW r \in Requests, NEW n \in PromptLengths, Add(r, n)
        PROVE  /\ {promptLen', generated', offset', asked', sampled'} \subseteq [Requests -> Nat]
               /\ Lengths' /\ TokensKept'
    <2>1. n \in Nat \ {0}
      BY SchedulerAssumption
    <2>2. /\ promptLen' = [promptLen EXCEPT ![r] = n] /\ generated' = [generated EXCEPT ![r] = 0]
          /\ offset' = [offset EXCEPT ![r] = 0] /\ asked' = [asked EXCEPT ![r] = n]
          /\ sampled' = [sampled EXCEPT ![r] = 0]
      BY <1>6 DEF Add, AddRequest
    <2>3. Range(arrived') = Range(arrived) \cup {r}
      BY <1>6, AddFacts
    <2>4. QED
      BY <2>1, <2>2, <2>3, <1>1, <1>2, <1>3
  <1>7. CASE /\ running # << >> /\ Preempt /\ UNCHANGED <<asked, sampled>>
             /\ Range(arrived') \subseteq Range(arrived)
    <2>1. PICK v \in Requests : v = Victim
      BY <1>7, PreemptFacts
    <2>2. /\ promptLen' = [promptLen EXCEPT ![v] = promptLen[v] + generated[v]]
          /\ generated' = [generated EXCEPT ![v] = 0] /\ offset' = [offset EXCEPT ![v] = 0]
          /\ asked' = asked /\ sampled' = sampled
      BY <1>7, <2>1 DEF Preempt, OutputFolded
    <2>3. promptLen[v] + generated[v] \in Nat
      BY <1>1, <2>1
    <2>4. /\ promptLen' \in [Requests -> Nat] /\ generated' \in [Requests -> Nat]
          /\ offset' \in [Requests -> Nat] /\ asked' \in [Requests -> Nat] /\ sampled' \in [Requests -> Nat]
      BY <2>2, <2>3, <1>1
    <2>5. \A r \in Requests : offset'[r] <= promptLen'[r]
      BY <2>2, <2>3, <1>1, <1>2
    <2>6. \A r \in Range(arrived') : promptLen'[r] >= 1
      BY <2>2, <1>1, <1>2, <1>3, <1>7
    <2>7. \A r \in Requests : promptLen'[r] + generated'[r] = asked'[r] + sampled'[r]
      BY <2>2, <1>1, <1>2
    <2>8. QED
      BY <2>4, <2>5, <2>6, <2>7
  <1>8. CASE PrefillChunk /\ Range(arrived') \subseteq Range(arrived)
    <2>1. Executing
      BY <1>8 DEF PrefillChunk
    <2>2. PICK r \in Requests : r = Head(todo)
      BY <2>1, ChunkEndFacts
    <2>3. ChunkEnd(r) \in Nat /\ ChunkEnd(r) <= promptLen[r]
      BY <2>1, <2>2, ChunkEndFacts
    <2>4. /\ offset' = [offset EXCEPT ![r] = ChunkEnd(r)] /\ promptLen' = promptLen
          /\ generated' = generated /\ asked' = asked /\ sampled' = sampled
      BY <1>8, <2>2 DEF PrefillChunk
    <2>5. QED
      BY <2>2, <2>3, <2>4, <1>8, <1>1, <1>2
  <1>9. CASE /\ Sampling /\ Record(Head(ready)) /\ UNCHANGED <<promptLen, offset, asked>>
             /\ Range(arrived') \subseteq Range(arrived)
    <2>1. PICK r \in Requests : r = Head(ready)
      BY <1>9, SamplingFacts
    <2>2. /\ generated' = [generated EXCEPT ![r] = generated[r] + 1]
          /\ sampled' = [sampled EXCEPT ![r] = sampled[r] + 1]
          /\ promptLen' = promptLen /\ offset' = offset /\ asked' = asked
      BY <1>9, <2>1 DEF Record
    <2>3. generated[r] + 1 \in Nat /\ sampled[r] + 1 \in Nat
      BY <2>1, <1>1
    <2>4. generated' \in [Requests -> Nat] /\ sampled' \in [Requests -> Nat]
      BY <2>2, <2>3, <1>1
    <2>5. \A q \in Requests : promptLen'[q] + generated'[q] = asked'[q] + sampled'[q]
      BY <2>1, <2>2, <1>1, <1>2
    <2>6. QED
      BY <2>2, <2>4, <2>5, <1>9, <1>1, <1>2
  <1>10. QED
    BY <1>4, <1>5, <1>6, <1>7, <1>8, <1>9, RequestSteps

-----------------------------------------------------------------------------
(***************************************************************************)
(* Block tables and requests.                                              *)
(***************************************************************************)
(* Progress and CacheInStep, request by request.                           *)
WaitingOK(q) == offset[q] = 0 /\ generated[q] = 0

RunningOK(q) ==
  /\ state[q] \in {"PREFILL", "RUNNING"}
  /\ ~PrefillDone(q) => generated[q] = 0 /\ tokens[q] <= promptLen[q]
  /\ q \notin torn =>
       /\ tokens[q] >= offset[q] + generated[q]
       /\ PrefillDone(q) => tokens[q] = promptLen[q] + generated[q]

SameRequest(q) ==
  /\ promptLen'[q] = promptLen[q] /\ generated'[q] = generated[q] /\ offset'[q] = offset[q]

SameTable(q) ==
  /\ state'[q] = state[q] /\ tokens'[q] = tokens[q]
  /\ q \in torn => q \in torn'

(* What a step leaves alone stays in order.                                *)
LEMMA SameOK ==
  ASSUME NEW q, SameRequest(q)
  PROVE  /\ WaitingOK(q) => WaitingOK(q)'
         /\ RunningOK(q) /\ SameTable(q) => RunningOK(q)'
  BY DEF SameRequest, SameTable, WaitingOK, RunningOK, PrefillDone

(* The requests in the queues have tables, prompts and outputs of numbers. *)
LEMMA Values ==
  ASSUME IInv
  PROVE  /\ \A q \in Requests : promptLen[q] \in Nat /\ generated[q] \in Nat /\ offset[q] \in Nat
         /\ \A q \in Requests : offset[q] <= promptLen[q]
         /\ \A q \in Range(running) : tokens[q] \in Nat /\ q \in DOMAIN tokens
         /\ \A q \in Range(running) \cup Range(waiting) : q \in Requests /\ promptLen[q] >= 1
         /\ DOMAIN state = Requests
  <1>1. /\ promptLen \in [Requests -> Nat] /\ generated \in [Requests -> Nat] /\ offset \in [Requests -> Nat]
        /\ state \in [Requests -> States] /\ \A q \in DOMAIN tokens : tokens[q] \in Nat
    BY DEF IInv, TypeOK
  <1>2. DOMAIN tokens = Range(running)
    BY DEF IInv, TablesAreRunning
  <1>3. /\ \A q \in Range(arrived) : promptLen[q] >= 1
        /\ \A q \in Requests : offset[q] <= promptLen[q]
    BY DEF IInv, Lengths
  <1>4. /\ Range(arrived) = Range(running) \cup Range(waiting)
        /\ Range(running) \subseteq Requests /\ Range(waiting) \subseteq Requests
    BY Queues
  <1>5. QED
    BY <1>1, <1>2, <1>3, <1>4

(* A plan forgets torn requests only as it preempts them.                  *)
LEMMA TornKept ==
  ASSUME Plan, NEW q \in Requests, state'[q] # "PREEMPTED", q \in torn
  PROVE  q \in torn'
  BY DEF Plan

(* The invariant in these terms.                                           *)
LEMMA PerRequest ==
  ASSUME Progress, CacheInStep
  PROVE  /\ \A q \in Range(running) : RunningOK(q)
         /\ \A q \in Range(waiting) : WaitingOK(q)
  BY DEF Progress, CacheInStep, RunningOK, WaitingOK

(* And after a step.                                                       *)
LEMMA PerRequestNext ==
  ASSUME \A q \in Range(running)' : RunningOK(q)',
         \A q \in Range(waiting)' : WaitingOK(q)'
  PROVE  Progress' /\ CacheInStep'
  BY DEF Progress, CacheInStep, RunningOK, WaitingOK, PrefillDone

(* Waiting requests start over and the tables of running requests stay in  *)
(* step with their tokens.                                                 *)
LEMMA TablesInvariant ==
  ASSUME IInv, [Next]_vars
  PROVE  Progress' /\ CacheInStep'
  <1>1. /\ \A q \in Range(running) : RunningOK(q)
        /\ \A q \in Range(waiting) : WaitingOK(q)
    BY PerRequest DEF IInv
  <1>2. SUFFICES /\ \A q \in Range(running') : RunningOK(q)'
                 /\ \A q \in Range(waiting') : WaitingOK(q)'
    BY PerRequestNext
  <1>3. ASSUME Range(running') \subseteq Range(running), Range(waiting') \subseteq Range(waiting),
               \A q \in Range(running') \cup Range(waiting') : SameRequest(q),
               \A q \in Range(running') : SameTable(q)
        PROVE  /\ \A q \in Range(running') : RunningOK(q)'
               /\ \A q \in Range(waiting') : WaitingOK(q)'
    BY <1>1, <1>3, SameOK
  <1>4. CASE Plan
    <2>1. CASE \/ ScheduleBegin \/ DecodeSkip \/ Decode \/ DecodesDone
               \/ PrefillPlan \/ PrefillSkip \/ PrefillsDone \/ AdmissionsDone
      <3>1. UNCHANGED <<queues, requests, tokens>>
        BY <2>1 DEF ScheduleBegin, DecodeSkip, Decode, DecodesDone, PrefillPlan, PrefillSkip,
                    PrefillsDone, AdmissionsDone, cache
      <3>2. /\ running' = running /\ waiting' = waiting /\ promptLen' = promptLen
            /\ generated' = generated /\ offset' = offset /\ state' = state /\ tokens' = tokens
        BY <3>1 DEF queues, requests
      <3>3. \A q \in Range(running') : SameTable(q)
        <4>1. TAKE q \in Range(running')
        <4>2. state'[q] # "PREEMPTED" /\ q \in Requests
          BY <3>2, <1>1, Queues DEF RunningOK
        <4>3. q \in torn => q \in torn'
          BY <4>2, <1>4, TornKept
        <4>4. QED
          BY <4>3, <3>2 DEF SameTable
      <3>4. \A q \in Range(running') \cup Range(waiting') : SameRequest(q)
        BY <3>2 DEF SameRequest
      <3>5. QED
        BY <3>2, <3>3, <3>4, <1>3
    <2>2. CASE DecodePreempt \/ AdmitPreempt
      <3>1. running # << >> /\ Preempt
        BY <2>2, DecodePreemptRunning DEF DecodePreempt, AdmitPreempt
      <3>2. PICK v \in Requests : v = Victim
        BY <3>1, PreemptFacts
      <3>3. /\ Range(running') = Range(running) \ {v} /\ Range(waiting') = Range(waiting) \cup {v}
        BY <3>1, <3>2, PreemptFacts
      <3>4. /\ promptLen' = [promptLen EXCEPT ![v] = promptLen[v] + generated[v]]
            /\ generated' = [generated EXCEPT ![v] = 0] /\ offset' = [offset EXCEPT ![v] = 0]
            /\ state' = [state EXCEPT ![v] = "PREEMPTED"] /\ Pool!Release(v)
        BY <3>1, <3>2 DEF Preempt, OutputFolded
      <3>5. \A q \in DOMAIN tokens \ {v} : tokens'[q] = tokens[q]
        BY <3>4, ReleaseFacts
      <3>6. \A q \in Requests \ {v} : SameRequest(q)
        BY <3>4, Values DEF SameRequest, IInv, TypeOK
      <3>7. ASSUME NEW q \in Range(running') PROVE RunningOK(q)'
        <4>1. q \in Range(running) /\ q # v /\ q \in Requests /\ q \in DOMAIN tokens
          BY <3>3, Values
        <4>2. state'[q] = state[q] /\ state[q] # "PREEMPTED"
          BY <4>1, <3>4, <1>1 DEF RunningOK, IInv, TypeOK
        <4>3. q \in torn => q \in torn'
          BY <4>1, <4>2, <1>4, TornKept
        <4>4. SameTable(q) /\ SameRequest(q)
          BY <4>1, <4>2, <4>3, <3>5, <3>6 DEF SameTable
        <4>5. QED
          BY <4>1, <4>4, <1>1, SameOK
      <3>8. ASSUME NEW q \in Range(waiting') PROVE WaitingOK(q)'
        <4>1. CASE q = v
          <5>1. generated'[v] = 0 /\ offset'[v] = 0
            BY <3>2, <3>4 DEF IInv, TypeOK
          <5>2. QED
            BY <4>1, <5>1 DEF WaitingOK
        <4>2. CASE q # v
          BY <4>2, <3>3, <3>6, <1>1, Values, SameOK
        <4>3. QED
          BY <4>1, <4>2
      <3>9. QED
        BY <3>7, <3>8
    <2>3. CASE Admit
      <3>1. PICK r \in Requests : r = Head(waiting)
        BY <2>3, AdmitFacts
      <3>2. /\ Range(running') = Range(running) \cup {r} /\ Range(waiting') = Range(waiting) \ {r}
            /\ r \in Range(waiting) /\ r \notin Range(running)
            /\ tokens'[r] = PlanChunk(r)
            /\ \A q \in DOMAIN tokens \ {r} : tokens'[q] = tokens[q]
        BY <2>3, <3>1, AdmitFacts
      <3>3. /\ promptLen' = promptLen /\ generated' = generated /\ offset' = offset
            /\ state' = [state EXCEPT ![r] = "PREFILL"]
        BY <2>3, <3>1 DEF Admit
      <3>4. \A q : SameRequest(q)
        BY <3>3 DEF SameRequest
      <3>5. ASSUME NEW q \in Range(running') PROVE RunningOK(q)'
        <4>1. CASE q = r
          <5>1. offset[r] = 0 /\ generated[r] = 0
            BY <3>2, <1>1 DEF WaitingOK
          <5>2. promptLen[r] \in Nat /\ promptLen[r] >= 1
            BY <3>2, Values
          <5>3. PlanChunk(r) > 0
            BY <2>3, <3>1 DEF Admit, CanAdmit
          <5>4. /\ PlanChunk(r) \in Int /\ PlanChunk(r) <= promptLen[r]
            <6>1. budget \in Nat /\ ChunkSize \in Nat
              BY SchedulerAssumption DEF IInv, TypeOK
            <6>2. Remaining(r) = promptLen[r]
              BY <5>1, <5>2 DEF Remaining
            <6>3. QED
              BY <5>2, <6>1, <6>2 DEF PlanChunk, MinOf
          <5>5. state'[r] = "PREFILL"
            BY <3>3 DEF IInv, TypeOK
          <5>6. QED
            BY <4>1, <5>1, <5>2, <5>3, <5>4, <5>5, <3>2, <3>3 DEF RunningOK, PrefillDone
        <4>2. CASE q # r
          <5>1. q \in Range(running) /\ q \in Requests /\ q \in DOMAIN tokens
            BY <4>2, <3>2, Values
          <5>2. state'[q] = state[q] /\ state[q] # "PREEMPTED"
            BY <4>2, <5>1, <3>3, <1>1 DEF RunningOK, IInv, TypeOK
          <5>3. q \in torn => q \in torn'
            BY <5>1, <5>2, <1>4, TornKept
          <5>4. SameTable(q)
            BY <4>2, <5>1, <5>2, <5>3, <3>2 DEF SameTable
          <5>5. QED
            BY <5>1, <5>4, <3>4, <1>1, SameOK
        <4>3. QED
          BY <4>1, <4>2
      <3>6. ASSUME NEW q \in Range(waiting') PROVE WaitingOK(q)'
        BY <3>2, <3>4, <1>1, SameOK
      <3>7. QED
        BY <3>5, <3>6
    <2>4. QED
      BY <1>4, <2>1, <2>2, <2>3 DEF Plan, Schedule
  <1>5. CASE PrefillChunk
    <2>1. PICK r \in Requests : r = Head(todo)
      BY <1>5, ChunkEndFacts DEF PrefillChunk
    <2>2. /\ ChunkEnd(r) \in Nat /\ offset[r] <= ChunkEnd(r) /\ ChunkEnd(r) <= promptLen[r]
          /\ ChunkEnd(r) <= offset[r] => PrefillDone(r)
          /\ promptLen[r] \in Nat /\ offset[r] \in Nat
      BY <1>5, <2>1, ChunkEndFacts DEF PrefillChunk
    <2>3. /\ running' = running /\ waiting' = waiting /\ promptLen' = promptLen
          /\ generated' = generated /\ torn' = torn /\ offset' = [offset EXCEPT ![r] = ChunkEnd(r)]
          /\ state' = IF ChunkEnd(r) >= promptLen[r] THEN [state EXCEPT ![r] = "RUNNING"] ELSE state
      BY <1>5, <2>1 DEF PrefillChunk, queues
    <2>4. \A q \in Requests \ {r} : SameRequest(q)
      BY <2>3 DEF SameRequest, IInv, TypeOK
    <2>5. CASE UNCHANGED cache /\ ChunkEnd(r) <= offset[r]
      <3>1. tokens' = tokens /\ ChunkEnd(r) = offset[r]
        BY <2>2, <2>5 DEF cache
      <3>2. offset' = offset
        BY <3>1, <2>3 DEF IInv, TypeOK
      <3>3. \A q : SameRequest(q)
        BY <3>2, <2>3 DEF SameRequest
      <3>4. ASSUME NEW q \in Range(running') PROVE RunningOK(q)'
        <4>1. RunningOK(q) /\ q \in Requests
          BY <2>3, <1>1, Values
        <4>2. state'[q] \in {"PREFILL", "RUNNING"}
          BY <4>1, <2>3 DEF RunningOK, IInv, TypeOK
        <4>3. QED
          BY <4>1, <4>2, <3>1, <3>2, <2>3 DEF RunningOK, PrefillDone
      <3>5. QED
        BY <3>3, <3>4, <2>3, <1>1, SameOK
    <2>6. CASE /\ ChunkEnd(r) > offset[r] /\ r \in DOMAIN tokens
               /\ Pool!Resize(r, SlotsAfter(r))
      <3>1. r \in Range(running) /\ r \notin Range(waiting)
        BY <2>6, Queues DEF IInv, TablesAreRunning
      <3>2. /\ tokens'[r] = SlotsAfter(r)
            /\ \A q \in DOMAIN tokens \ {r} : tokens'[q] = tokens[q]
        BY <2>6, ResizeFacts
      <3>3. generated[r] = 0 /\ tokens[r] <= promptLen[r] /\ tokens[r] \in Nat
        <4>1. ~PrefillDone(r)
          BY <2>2, <2>6 DEF PrefillDone
        <4>2. QED
          BY <4>1, <3>1, <1>1, Values DEF RunningOK
      <3>4. /\ tokens'[r] \in Nat /\ tokens'[r] >= ChunkEnd(r) /\ tokens'[r] <= promptLen[r]
        BY <2>2, <3>2, <3>3 DEF SlotsAfter, MaxTo
      <3>5. ASSUME NEW q \in Range(running') PROVE RunningOK(q)'
        <4>1. RunningOK(q) /\ q \in Requests /\ q \in DOMAIN tokens
          BY <2>3, <1>1, Values
        <4>2. state'[q] \in {"PREFILL", "RUNNING"}
          BY <4>1, <2>3 DEF RunningOK, IInv, TypeOK
        <4>3. CASE q = r
          <5>1. offset'[r] = ChunkEnd(r)
            BY <2>3 DEF IInv, TypeOK
          <5>2. QED
            BY <4>2, <4>3, <5>1, <3>3, <3>4, <2>2, <2>3 DEF RunningOK, PrefillDone
        <4>4. CASE q # r
          <5>1. SameRequest(q) /\ SameTable(q)
            BY <4>1, <4>4, <3>2, <2>3, <2>4 DEF SameTable, IInv, TypeOK
          <5>2. QED
            BY <4>1, <5>1, SameOK
        <4>5. QED
          BY <4>3, <4>4
      <3>6. ASSUME NEW q \in Range(waiting') PROVE WaitingOK(q)'
        BY <3>1, <2>3, <2>4, <1>1, Values, SameOK
      <3>7. QED
        BY <3>5, <3>6
    <2>7. QED
      BY <1>5, <2>1, <2>5, <2>6 DEF PrefillChunk
  <1>6. CASE PrefillOutOfBlocks
    <2>1. PICK r \in Requests : r = Head(todo)
      BY <1>6, ChunkEndFacts DEF PrefillOutOfBlocks
    <2>2. /\ ChunkEnd(r) \in Nat /\ ChunkEnd(r) <= promptLen[r]
          /\ promptLen[r] \in Nat /\ offset[r] \in Nat
      BY <1>6, <2>1, ChunkEndFacts DEF PrefillOutOfBlocks
    <2>3. /\ running' = running /\ waiting' = waiting /\ promptLen' = promptLen
          /\ generated' = generated /\ offset' = offset /\ state' = state /\ torn' = torn
      BY <1>6 DEF PrefillOutOfBlocks, queues, requests
    <2>4. /\ ChunkEnd(r) > offset[r] /\ r \in DOMAIN tokens /\ ChunkEnd(r) > RoomFor(r)
          /\ Pool!Resize(r, RoomFor(r))
      BY <1>6, <2>1 DEF PrefillOutOfBlocks
    <2>5. /\ tokens'[r] = RoomFor(r) /\ \A q \in DOMAIN tokens \ {r} : tokens'[q] = tokens[q]
      BY <2>4, ResizeFacts
    <2>6. r \in Range(running) /\ tokens[r] \in Nat
      BY <2>4, Values DEF IInv, TablesAreRunning
    <2>7. RoomFor(r) \in Nat /\ RoomFor(r) >= tokens[r]
      <3>1. BlockSize \in Nat \ {0} /\ available \in Nat
        BY SchedulerAssumption DEF IInv, TypeOK
      <3>2. PICK k \in Nat : k = Pool!BlocksNeeded(tokens[r]) /\ k * BlockSize >= tokens[r]
        BY <3>1, <2>6, BlocksFacts DEF Pool!BlocksNeeded
      <3>3. RoomFor(r) = (k + available) * BlockSize
        BY <3>2 DEF RoomFor
      <3>4. (k + available) * BlockSize = k * BlockSize + available * BlockSize
            /\ available * BlockSize \in Nat /\ k * BlockSize \in Nat
        BY <3>1, <3>2
      <3>5. QED
        BY <3>2, <3>3, <3>4, <2>6
    <2>8. ~PrefillDone(r) /\ RunningOK(r)
      BY <2>2, <2>4, <2>6, <1>1 DEF PrefillDone
    <2>9. RunningOK(r)'
      <3>1. generated[r] = 0 /\ state[r] \in {"PREFILL", "RUNNING"}
        BY <2>8 DEF RunningOK
      <3>2. tokens'[r] <= promptLen[r] /\ tokens'[r] >= tokens[r] /\ tokens'[r] \in Nat
        BY <2>2, <2>4, <2>5, <2>7
      <3>3. r \notin torn => tokens[r] >= offset[r] + generated[r]
        BY <2>8 DEF RunningOK
      <3>4. QED
        BY <3>1, <3>2, <3>3, <2>2, <2>3, <2>6, <2>8 DEF RunningOK, PrefillDone
    <2>10. \A q : SameRequest(q)
      BY <2>3 DEF SameRequest
    <2>11. \A q \in Range(running) \ {r} : SameTable(q)
      BY <2>3, <2>5, Values DEF SameTable
    <2>12. QED
      BY <2>3, <2>9, <2>10, <2>11, <1>1, SameOK
  <1>7. CASE SampleGoOn
    <2>1. PICK r \in Requests : r = Head(ready)
      BY <1>7, SamplingFacts DEF SampleGoOn
    <2>2. PrefillDone(r) /\ r \notin Range(waiting)
      BY <1>7, <2>1, SamplingFacts DEF SampleGoOn
    <2>3. /\ running' = running /\ waiting' = waiting /\ promptLen' = promptLen
          /\ generated' = [generated EXCEPT ![r] = generated[r] + 1]
          /\ offset' = offset /\ state' = state /\ torn' = torn
          /\ r \in DOMAIN tokens /\ Pool!Resize(r, tokens[r] + 1)
      BY <1>7, <2>1 DEF SampleGoOn, Record, queues
    <2>4. /\ tokens'[r] = tokens[r] + 1 /\ \A q \in DOMAIN tokens \ {r} : tokens'[q] = tokens[q]
      BY <2>3, ResizeFacts
    <2>5. RunningOK(r) /\ tokens[r] \in Nat /\ promptLen[r] \in Nat /\ offset[r] \in Nat /\ generated[r] \in Nat
      BY <2>3, <1>1, Values DEF IInv, TablesAreRunning
    <2>6. generated'[r] = generated[r] + 1
      BY <2>3 DEF IInv, TypeOK
    <2>7. RunningOK(r)'
      BY <2>2, <2>3, <2>4, <2>5, <2>6 DEF RunningOK, PrefillDone
    <2>8. \A q \in Requests \ {r} : SameRequest(q)
      BY <2>3 DEF SameRequest, IInv, TypeOK
    <2>9. \A q \in Range(running) \ {r} : SameTable(q)
      BY <2>3, <2>4, Values DEF SameTable
    <2>10. QED
      BY <2>2, <2>3, <2>7, <2>8, <2>9, <1>1, Values, SameOK
  <1>8. CASE SampleFinish
    <2>1. PICK r \in Requests : r = Head(ready)
      BY <1>8, SamplingFacts DEF SampleFinish
    <2>2. /\ promptLen' = promptLen /\ offset' = offset /\ torn' = torn
          /\ generated' = [generated EXCEPT ![r] = generated[r] + 1]
          /\ r \in DOMAIN tokens /\ Leave(r)
      BY <1>8, <2>1 DEF SampleFinish, Record
    <2>3. Queued(r)
      BY <2>2 DEF Queued, IInv, TablesAreRunning
    <2>4. Range(running') = Range(running) \ {r} /\ Range(waiting') = Range(waiting) \ {r}
      BY <2>2, <2>3, LeaveFacts
    <2>5. \A q \in DOMAIN tokens \ {r} : tokens'[q] = tokens[q]
      BY <2>2, ReleaseFacts DEF Leave
    <2>6. \A q \in Requests \ {r} : SameRequest(q)
      BY <2>2 DEF SameRequest, IInv, TypeOK
    <2>7. \A q \in Range(running) \ {r} : SameTable(q)
      BY <2>2, <2>5, Values DEF SameTable, Leave
    <2>8. QED
      BY <2>4, <2>6, <2>7, <1>3, Values
  <1>9. CASE SampleRaise
    <2>1. PICK r \in Requests : r = Head(ready)
      BY <1>9, SamplingFacts DEF SampleRaise
    <2>2. PrefillDone(r) /\ r \notin Range(waiting)
      BY <1>9, <2>1, SamplingFacts DEF SampleRaise
    <2>3. /\ running' = running /\ waiting' = waiting /\ promptLen' = promptLen
          /\ generated' = [generated EXCEPT ![r] = generated[r] + 1]
          /\ offset' = offset /\ state' = state /\ torn' = torn \cup {r} /\ tokens' = tokens
      BY <1>9, <2>1 DEF SampleRaise, Record, queues, cache
    <2>4. \A q \in Requests \ {r} : SameRequest(q)
      BY <2>3 DEF SameRequest, IInv, TypeOK
    <2>5. \A q \in Range(running) : SameTable(q)
      BY <2>3 DEF SameTable
    <2>6. r \in Range(running) => RunningOK(r)'
      BY <2>2, <2>3, <1>1 DEF RunningOK, PrefillDone
    <2>7. QED
      BY <2>2, <2>3, <2>4, <2>5, <2>6, <1>1, Values, SameOK
  <1>10. ASSUME NEW r \in Requests, NEW n \in PromptLengths, Add(r, n)
         PROVE  /\ \A q \in Range(running') : RunningOK(q)'
                /\ \A q \in Range(waiting') : WaitingOK(q)'
    <2>1. /\ r \notin Range(running) /\ r \notin Range(waiting)
          /\ running' = running /\ Range(waiting') = Range(waiting) \cup {r} /\ tokens' = tokens
      BY <1>10, AddFacts
    <2>2. /\ promptLen' = [promptLen EXCEPT ![r] = n] /\ generated' = [generated EXCEPT ![r] = 0]
          /\ offset' = [offset EXCEPT ![r] = 0] /\ state' = [state EXCEPT ![r] = "WAITING"]
          /\ torn' = torn
      BY <1>10 DEF Add, AddRequest
    <2>3. \A q \in Requests \ {r} : SameRequest(q)
      BY <2>2 DEF SameRequest, IInv, TypeOK
    <2>4. \A q \in Range(running) : SameTable(q)
      BY <2>1, <2>2, Values DEF SameTable, IInv, TypeOK
    <2>5. WaitingOK(r)'
      BY <2>2 DEF WaitingOK, IInv, TypeOK
    <2>6. QED
      BY <2>1, <2>3, <2>4, <2>5, <1>1, Values, SameOK
  <1>11. ASSUME NEW r \in Requests, AbortRequest(r)
         PROVE  /\ \A q \in Range(running') : RunningOK(q)'
                /\ \A q \in Range(waiting') : WaitingOK(q)'
    <2>1. Queued(r) /\ Leave(r) /\ torn' = torn
          /\ promptLen' = promptLen /\ generated' = generated /\ offset' = offset
      BY <1>11 DEF AbortRequest, Abort, history
    <2>2. Range(running') = Range(running) \ {r} /\ Range(waiting') = Range(waiting) \ {r}
      BY <2>1, LeaveFacts
    <2>3. \A q \in DOMAIN tokens \ {r} : tokens'[q] = tokens[q]
      BY <2>1, ReleaseFacts DEF Leave
    <2>4. \A q : SameRequest(q)
      BY <2>1 DEF SameRequest
    <2>5. \A q \in Range(running) \ {r} : SameTable(q)
      BY <2>1, <2>3, Values DEF SameTable, Leave
    <2>6. QED
      BY <2>2, <2>4, <2>5, <1>3
  <1>12. CASE Reset
    <2>1. Range(running') = {} /\ Range(waiting') = {}
      BY <1>12 DEF Reset, Range
    <2>2. QED
      BY <2>1
  <1>13. CASE PrefillWithoutTable \/ PrefillsExecuted \/ Collect \/ Collected \/ StepEnd \/ UNCHANGED queueVars
    <2>1. /\ running' = running /\ waiting' = waiting /\ promptLen' = promptLen /\ torn' = torn
          /\ generated' = generated /\ offset' = offset /\ state' = state /\ tokens' = tokens
      BY <1>13 DEF PrefillWithoutTable, PrefillsExecuted, Collect, Collected, StepEnd, queueVars,
                   schedulerVars, queues, requests, cache, history
    <2>2. (\A q : SameRequest(q)) /\ (\A q : SameTable(q))
      BY <2>1 DEF SameRequest, SameTable
    <2>3. QED
      BY <2>1, <2>2, <1>3
  <1>14. QED
    BY <1>4, <1>5, <1>6, <1>7, <1>8, <1>9, <1>10, <1>11, <1>12, <1>13, AssemblersApart DEF Next, Step, Execute


-----------------------------------------------------------------------------
(***************************************************************************)
(* The plan of a step.                                                     *)
(***************************************************************************)
(* A chunk is within the budget.                                           *)
LEMMA PlanChunkFacts ==
  ASSUME IInv, NEW r \in Requests
  PROVE  PlanChunk(r) \in Nat /\ PlanChunk(r) <= budget /\ budget \in Nat
  <1>1. budget \in Nat /\ ChunkSize \in Nat /\ promptLen[r] \in Nat /\ offset[r] \in Nat
        /\ offset[r] <= promptLen[r]
    BY SchedulerAssumption, Values DEF IInv, TypeOK
  <1>2. Remaining(r) \in Nat
    BY <1>1 DEF Remaining
  <1>3. QED
    BY <1>1, <1>2 DEF PlanChunk, MinOf

(* The queues a plan takes its requests from.                              *)
LEMMA PlanHeads ==
  ASSUME IInv
  PROVE  /\ todo # << >> => Head(todo) \in Requests /\ Tail(todo) \in Seq(Requests)
                            /\ Range(Tail(todo)) \subseteq Range(todo)
         /\ waiting # << >> => Head(waiting) \in Requests
         /\ ready # << >> => Tail(ready) \in Seq(Requests) /\ Range(Tail(ready)) \subseteq Range(ready)
  <1>1. todo \in Seq(Requests) /\ waiting \in Seq(Requests) /\ ready \in Seq(Requests)
    BY DEF IInv, TypeOK
  <1>2. todo # << >> => Head(todo) \in Requests /\ Tail(todo) \in Seq(Requests)
                        /\ Range(Tail(todo)) \subseteq Range(todo)
    BY <1>1, HeadTailFacts
  <1>3. waiting # << >> => Head(waiting) \in Requests
    BY <1>1, HeadTailFacts
  <1>4. ready # << >> => Tail(ready) \in Seq(Requests) /\ Range(Tail(ready)) \subseteq Range(ready)
    BY <1>1, HeadTailFacts
  <1>5. QED
    BY <1>2, <1>3, <1>4

(* A prefill planned has a chunk.                                          *)
LEMMA PlanPrefillFacts ==
  ASSUME IInv, NEW r \in Requests, PlanChunk(r) > 0, PlanPrefill(r, PlanChunk(r))
  PROVE  /\ prefill' \in Seq(Requests) /\ Range(prefill') \subseteq DOMAIN chunkSizes'
         /\ DOMAIN chunkSizes' \subseteq Requests
         /\ \A q \in DOMAIN chunkSizes' : chunkSizes'[q] \in Nat \ {0}
         /\ budget' \in Nat /\ budget' < budget
  <1>1. PICK n \in Nat : n = PlanChunk(r) /\ n > 0 /\ n <= budget /\ budget \in Nat
    BY PlanChunkFacts
  <1>2. /\ prefill' = Append(prefill, r) /\ budget' = budget - n
        /\ chunkSizes' = [q \in DOMAIN chunkSizes \cup {r} |-> IF q = r THEN n ELSE chunkSizes[q]]
    BY <1>1 DEF PlanPrefill
  <1>3. prefill \in Seq(Requests) /\ Range(prefill) \subseteq DOMAIN chunkSizes
        /\ DOMAIN chunkSizes \subseteq Requests
        /\ \A q \in DOMAIN chunkSizes : chunkSizes[q] \in Nat \ {0}
    BY DEF IInv, TypeOK, PlannedChunks
  <1>4. prefill' \in Seq(Requests) /\ Range(prefill') = Range(prefill) \cup {r}
    <2>1. prefill \in Seq(Requests)
      BY <1>3
    <2>2. Append(prefill, r) \in Seq(Requests) /\ Range(Append(prefill, r)) = Range(prefill) \cup {r}
      BY <2>1, RangeAppend, AppendProperties
    <2>3. QED
      BY <2>2, <1>2
  <1>5. DOMAIN chunkSizes' = DOMAIN chunkSizes \cup {r}
        /\ \A q \in DOMAIN chunkSizes' : chunkSizes'[q] \in Nat \ {0}
    BY <1>1, <1>2, <1>3
  <1>6. budget' \in Nat /\ budget' < budget
    BY <1>1, <1>2
  <1>7. QED
    BY <1>3, <1>4, <1>5, <1>6

(* Planning prefills, of requests in flight or newly admitted.             *)
LEMMA PrefillPlans ==
  ASSUME IInv, PrefillPlan \/ Admit
  PROVE  /\ prefill' \in Seq(Requests) /\ Range(prefill') \subseteq DOMAIN chunkSizes'
         /\ DOMAIN chunkSizes' \subseteq Requests
         /\ \A q \in DOMAIN chunkSizes' : chunkSizes'[q] \in Nat \ {0}
         /\ budget' \in Nat /\ budget' < budget
  <1>1. CASE PrefillPlan
    <2>1. PICK r \in Requests : r = Head(todo)
      BY <1>1, PlanHeads DEF PrefillPlan
    <2>2. PlanChunk(r) > 0 /\ PlanPrefill(r, PlanChunk(r))
      BY <1>1, <2>1 DEF PrefillPlan, Prefilling
    <2>3. QED
      BY <2>2, PlanPrefillFacts
  <1>2. CASE Admit
    <2>1. PICK r \in Requests : r = Head(waiting)
      BY <1>2, AdmitFacts
    <2>2. PlanChunk(r) > 0 /\ PlanPrefill(r, PlanChunk(r))
      BY <1>2, <2>1 DEF Admit, CanAdmit
    <2>3. QED
      BY <2>2, PlanPrefillFacts
  <1>3. QED
    BY <1>1, <1>2

(* The decodes to come stay in order as the first of them is visited and   *)
(* the last running request preempted for it or not.                       *)
LEMMA VisitHead ==
  ASSUME IInv, pc = "decodes", todo # << >>,
         NEW run, NEW dec,
         \A i \in DOMAIN run : i \in DOMAIN running /\ run[i] = running[i],
         Range(dec) \subseteq Range(decode) \cup {Head(todo)}
  PROVE  \A q \in DOMAIN Tail(todo), i, j \in DOMAIN run :
           run[j] = Tail(todo)[q] =>
             /\ run[i] \in Range(dec) => i < j
             /\ \A p \in DOMAIN Tail(todo) : p < q /\ run[i] = Tail(todo)[p] => i < j
  <1>1. todo \in Seq(Requests)
    BY DEF IInv, TypeOK
  <1>2. /\ Len(todo) \in Nat \ {0} /\ DOMAIN todo = 1..Len(todo) /\ Head(todo) = todo[1]
        /\ DOMAIN Tail(todo) = 1..(Len(todo) - 1)
        /\ \A i \in 1..(Len(todo) - 1) : Tail(todo)[i] = todo[i + 1]
    BY <1>1, HeadTailFacts
  <1>3. \A q \in DOMAIN todo, i, j \in DOMAIN running :
          running[j] = todo[q] =>
            /\ running[i] \in Range(decode) => i < j
            /\ \A p \in DOMAIN todo : p < q /\ running[i] = todo[p] => i < j
    BY DEF IInv, DecodeOrder
  <1>4. SUFFICES ASSUME NEW q \in 1..(Len(todo) - 1), NEW i \in DOMAIN run, NEW j \in DOMAIN run,
                        run[j] = Tail(todo)[q]
                 PROVE  /\ run[i] \in Range(dec) => i < j
                        /\ \A p \in 1..(Len(todo) - 1) : p < q /\ run[i] = Tail(todo)[p] => i < j
    BY <1>2
  <1>5. PICK q1 \in 1..Len(todo) : q1 = q + 1 /\ 1 < q1
    BY <1>2
  <1>6. running[j] = todo[q1] /\ i \in DOMAIN running /\ j \in DOMAIN running /\ run[i] = running[i]
    BY <1>2, <1>4, <1>5
  <1>7. ASSUME run[i] \in Range(dec) PROVE i < j
    <2>1. CASE run[i] \in Range(decode)
      BY <2>1, <1>2, <1>3, <1>5, <1>6
    <2>2. CASE run[i] = Head(todo)
      <3>1. running[i] = todo[1] /\ 1 \in 1..Len(todo)
        BY <2>2, <1>2, <1>6
      <3>2. QED
        BY <3>1, <1>2, <1>3, <1>5, <1>6
    <2>3. QED
      BY <1>7, <2>1, <2>2
  <1>8. ASSUME NEW p \in 1..(Len(todo) - 1), p < q, run[i] = Tail(todo)[p] PROVE i < j
    <2>1. PICK p1 \in 1..Len(todo) : p1 = p + 1 /\ p1 < q1
      BY <1>2, <1>5, <1>8
    <2>2. running[i] = todo[p1]
      BY <2>1, <1>2, <1>6, <1>8
    <2>3. QED
      BY <2>1, <2>2, <1>2, <1>3, <1>5, <1>6
  <1>9. QED
    BY <1>7, <1>8

(* A decode planned is a request of the batch not planned before.          *)
LEMMA DecodeAddFacts ==
  ASSUME IInv, DecodeNext, NEW run, NEW dec, run = running,
         dec = Append(decode, Head(todo))
  PROVE  /\ dec \in Seq(Requests) /\ Range(dec) = Range(decode) \cup {Head(todo)}
         /\ Range(dec) \subseteq Range(run) /\ IsInjective(dec)
  <1>1. pc = "decodes" /\ decode \in Seq(Requests)
    BY DEF IInv, TypeOK, DecodeNext
  <1>2. Range(decode) \subseteq Range(running) /\ IsInjective(decode)
    BY <1>1 DEF IInv, PlannedDecodesRun
  <1>3. PICK h \in Requests : h = Head(todo) /\ h \in Range(running) /\ 1 \in DOMAIN todo /\ h = todo[1]
    BY DecodePreemptRunning
  <1>4. h \notin Range(decode)
    <2>1. PICK j \in DOMAIN running : running[j] = h
      BY <1>3 DEF Range
    <2>2. SUFFICES ASSUME h \in Range(decode) PROVE FALSE
      OBVIOUS
    <2>3. j < j
      BY <1>1, <1>3, <2>1, <2>2 DEF IInv, DecodeOrder
    <2>4. j \in 1..Len(running)
      BY <2>1, Queues, LenProperties
    <2>5. QED
      BY <2>3, <2>4
  <1>5. dec \in Seq(Requests) /\ Range(dec) = Range(decode) \cup {h}
    BY <1>1, <1>3, RangeAppend, AppendProperties
  <1>6. IsInjective(dec)
    <2>1. /\ Len(decode) \in Nat /\ DOMAIN decode = 1..Len(decode)
          /\ \A i \in 1..Len(decode) : dec[i] = decode[i]
          /\ dec[Len(decode) + 1] = h /\ Len(dec) = Len(decode) + 1
      BY <1>1, <1>3, AppendProperties, LenProperties
    <2>2. DOMAIN dec = 1..(Len(decode) + 1)
      BY <2>1, <1>5, LenProperties
    <2>3. \A i \in 1..Len(decode) : decode[i] # h
      BY <2>1, <1>4 DEF Range
    <2>4. SUFFICES ASSUME NEW i \in 1..(Len(decode) + 1), NEW j \in 1..(Len(decode) + 1), dec[i] = dec[j]
                   PROVE  i = j
      BY <2>2 DEF IsInjective
    <2>5. CASE i \in 1..Len(decode) /\ j \in 1..Len(decode)
      BY <2>1, <2>4, <2>5, <1>2 DEF IsInjective
    <2>6. CASE i = Len(decode) + 1 \/ j = Len(decode) + 1
      BY <2>1, <2>3, <2>4, <2>6
    <2>7. QED
      BY <2>1, <2>5, <2>6
  <1>7. QED
    BY <1>2, <1>3, <1>5, <1>6

(* The victim of a preemption for a decode was not planned itself.         *)
LEMMA VictimNotPlanned ==
  ASSUME IInv, DecodeNext
  PROVE  Victim \notin Range(decode)
  <1>1. PICK h \in Requests : h = Head(todo) /\ h \in Range(running) /\ 1 \in DOMAIN todo /\ h = todo[1]
    BY DecodePreemptRunning
  <1>2. running \in Seq(Requests) /\ Len(running) \in Nat /\ DOMAIN running = 1..Len(running)
    BY Queues, LenProperties
  <1>3. PICK j \in 1..Len(running) : running[j] = h
    BY <1>1, <1>2 DEF Range
  <1>4. Len(running) \in 1..Len(running)
    BY <1>2, <1>3
  <1>5. SUFFICES ASSUME running[Len(running)] \in Range(decode) PROVE FALSE
    BY DEF Victim
  <1>6. Len(running) < j
    BY <1>1, <1>2, <1>3, <1>4, <1>5 DEF IInv, DecodeOrder, DecodeNext
  <1>7. QED
    BY <1>2, <1>3, <1>6

(* What a preempted request has left of its prompt is all of it.           *)
LEMMA PreemptedUnprefilled ==
  ASSUME IInv, running # << >>, Preempt, NEW v \in Requests, v = Victim
  PROVE  /\ ~PrefillDone(v)'
         /\ \A q \in Requests : q # v /\ ~PrefillDone(q) => ~PrefillDone(q)'
  <1>1. v \in Range(running)
    BY PreemptFacts
  <1>2. promptLen[v] \in Nat /\ promptLen[v] >= 1 /\ generated[v] \in Nat
    BY <1>1, Values
  <1>3. promptLen \in [Requests -> Nat] /\ offset \in [Requests -> Nat]
    BY DEF IInv, TypeOK
  <1>4. /\ promptLen' = [promptLen EXCEPT ![v] = promptLen[v] + generated[v]]
        /\ offset' = [offset EXCEPT ![v] = 0]
    BY DEF Preempt, OutputFolded
  <1>5. promptLen'[v] = promptLen[v] + generated[v] /\ offset'[v] = 0
    BY <1>3, <1>4
  <1>6. ~(offset'[v] >= promptLen'[v])
    BY <1>2, <1>5
  <1>7. \A q \in Requests : q # v => promptLen'[q] = promptLen[q] /\ offset'[q] = offset[q]
    BY <1>3, <1>4
  <1>8. QED
    BY <1>6, <1>7 DEF PrefillDone

(* The decodes of a plan are running requests, each planned once, in the   *)
(* order of the batch.                                                     *)
LEMMA DecodesInvariant ==
  ASSUME IInv, [Next]_vars
  PROVE  PlannedDecodesRun' /\ DecodeOrder'
  <1> USE DEF PlannedDecodesRun, DecodeOrder
  <1>1. CASE pc' # "decodes"
    BY <1>1
  <1>2. CASE ScheduleBegin
    <2>1. PICK none : none = << >>
      OBVIOUS
    <2>2. todo' = running /\ running' = running /\ decode' = none
      BY <1>2, <2>1 DEF ScheduleBegin, queues
    <2>3. DOMAIN none = {} /\ Range(none) = {} /\ IsInjective(none)
      BY <2>1 DEF Range, IsInjective
    <2>4. IsInjective(running)
      BY Queues
    <2>5. running \in Seq(Requests) /\ DOMAIN running = 1..Len(running)
      BY Queues, LenProperties
    <2>6. \A q \in DOMAIN running, i, j \in DOMAIN running :
            running[j] = running[q] => \A p \in DOMAIN running : p < q /\ running[i] = running[p] => i < j
      BY <2>4 DEF IsInjective
    <2>7. \A q \in DOMAIN running : running[q] \in Range(running)
      BY DEF Range
    <2>8. QED
      BY <2>2, <2>3, <2>6, <2>7
  <1>3. CASE DecodeSkip \/ Decode \/ DecodePreempt
    <2>1. pc = "decodes" /\ todo # << >> /\ todo' = Tail(todo)
      BY <1>3 DEF DecodeSkip, Decode, DecodePreempt, DecodeNext
    <2>2. todo \in Seq(Requests) /\ decode \in Seq(Requests)
      BY DEF IInv, TypeOK
    <2>3. PICK t : t = Tail(todo)
      OBVIOUS
    <2>4. /\ \A q \in DOMAIN t : q + 1 \in DOMAIN todo /\ t[q] = todo[q + 1] /\ t[q] \in Requests
      <3>1. /\ Len(todo) \in Nat \ {0} /\ DOMAIN todo = 1..Len(todo)
            /\ t \in Seq(Requests) /\ Len(t) = Len(todo) - 1 /\ DOMAIN t = 1..(Len(todo) - 1)
            /\ \A i \in 1..(Len(todo) - 1) : t[i] = todo[i + 1]
        BY <2>1, <2>2, <2>3, HeadTailFacts
      <3>2. \A q \in 1..Len(t) : t[q] \in Requests
        BY <3>1, ElementOfSeq
      <3>3. QED
        BY <3>1, <3>2
    <2>5. \A q \in DOMAIN t : t[q] \in Range(running) \/ ~PrefillDone(t[q])
      BY <2>1, <2>4 DEF IInv
    <2>6. Range(decode) \subseteq Range(running) /\ IsInjective(decode)
      BY <2>1 DEF IInv
    <2>7. PICK run, dec : run = running' /\ dec = decode'
      OBVIOUS
    <2>8. /\ \A i \in DOMAIN run : i \in DOMAIN running /\ run[i] = running[i]
          /\ Range(dec) \subseteq Range(decode) \cup {Head(todo)}
          /\ Range(dec) \subseteq Range(run) /\ IsInjective(dec)
          /\ \A q \in DOMAIN t : t[q] \in Range(run) \/ ~PrefillDone(t[q])'
      <3>1. CASE DecodeSkip
        <4>1. run = running /\ dec = decode /\ promptLen' = promptLen /\ offset' = offset
          BY <3>1, <2>7 DEF DecodeSkip, queues, requests, plan
        <4>2. QED
          BY <4>1, <2>5, <2>6 DEF PrefillDone
      <3>2. CASE Decode
        <4>1. run = running /\ dec = Append(decode, Head(todo)) /\ promptLen' = promptLen /\ offset' = offset
          BY <3>2, <2>7 DEF Decode, DecodeAdd, queues, requests
        <4>2. Range(dec) = Range(decode) \cup {Head(todo)} /\ Range(dec) \subseteq Range(run) /\ IsInjective(dec)
          BY <3>2, <4>1, DecodeAddFacts DEF Decode
        <4>3. QED
          BY <4>1, <4>2, <2>5 DEF PrefillDone
      <3>3. CASE DecodePreempt
        <4>1. DecodeNext /\ Preempt /\ running # << >>
          BY <3>3, DecodePreemptRunning DEF DecodePreempt
        <4>2. PICK v \in Requests : v = Victim
          BY <4>1, PreemptFacts
        <4>3. /\ Range(run) = Range(running) \ {v}
              /\ \A i \in DOMAIN run : i \in DOMAIN running /\ run[i] = running[i]
          <5>1. /\ Len(running) \in Nat \ {0} /\ DOMAIN running = 1..Len(running)
                /\ DOMAIN running' = 1..(Len(running) - 1)
                /\ \A i \in 1..(Len(running) - 1) : running'[i] = running[i]
                /\ Range(running') = Range(running) \ {v}
            BY <4>1, <4>2, PreemptFacts
          <5>2. QED
            BY <5>1, <2>7
        <4>4. v \notin Range(decode)
          BY <4>1, <4>2, VictimNotPlanned
        <4>5. /\ ~PrefillDone(v)'
              /\ \A q \in Requests : q # v /\ ~PrefillDone(q) => ~PrefillDone(q)'
          BY <4>1, <4>2, PreemptedUnprefilled
        <4>6. \A q \in DOMAIN t : t[q] \in Range(run) \/ ~PrefillDone(t[q])'
          BY <4>3, <4>5, <2>4, <2>5
        <4>7. CASE v = Head(todo)
          <5>1. dec = decode
            BY <3>3, <4>2, <4>7, <2>7 DEF DecodePreempt
          <5>2. QED
            BY <5>1, <4>3, <4>4, <4>6, <2>6
        <4>8. CASE v # Head(todo)
          <5>1. dec = Append(decode, Head(todo))
            BY <3>3, <4>2, <4>8, <2>7 DEF DecodePreempt, DecodeAdd
          <5>2. Range(dec) = Range(decode) \cup {Head(todo)} /\ Range(dec) \subseteq Range(running)
                /\ IsInjective(dec)
            BY <4>1, <5>1, DecodeAddFacts
          <5>3. QED
            BY <5>2, <4>3, <4>4, <4>6, <4>8
        <4>9. QED
          BY <4>7, <4>8
      <3>4. QED
        BY <1>3, <3>1, <3>2, <3>3
    <2>9. \A q \in DOMAIN t, i, j \in DOMAIN run :
            run[j] = t[q] =>
              /\ run[i] \in Range(dec) => i < j
              /\ \A p \in DOMAIN t : p < q /\ run[i] = t[p] => i < j
      BY <2>1, <2>3, <2>8, VisitHead
    <2>10. QED
      BY <2>1, <2>3, <2>7, <2>8, <2>9
  <1>4. CASE UNCHANGED <<pc, todo, running, decode, promptLen, offset>>
    BY <1>4 DEF IInv, PrefillDone
  <1>5. CASE pc = "idle" /\ pc' = "idle"
    BY <1>5
  <1>6. QED
    <2>1. CASE Plan
      BY <1>1, <1>2, <1>3, <2>1
        DEF Plan, Schedule, DecodesDone, PrefillPlan, PrefillSkip, PrefillsDone, Admit,
            AdmitPreempt, AdmissionsDone
    <2>2. CASE Execute
      BY <1>1, <2>2
        DEF Execute, PrefillChunk, PrefillWithoutTable, PrefillOutOfBlocks, PrefillsExecuted,
            Collect, Collected, SampleGoOn, SampleFinish, SampleRaise, StepEnd, Raise, Return,
            Executing, Sampling
    <2>3. CASE (\E r \in Requests : (\E n \in PromptLengths : Add(r, n)) \/ AbortRequest(r)) \/ Reset
      BY <1>5, <2>3 DEF Add, AddRequest, AbortRequest, Abort, Reset
    <2>4. CASE UNCHANGED queueVars
      BY <1>4, <2>4 DEF queueVars, schedulerVars, queues, requests, plan
    <2>5. QED
      BY <2>1, <2>2, <2>3, <2>4, AssemblersApart DEF Next, Step

(* The types of what a step plans and does.                                *)
PlanTypes ==
  /\ todo \in Seq(Requests) /\ decode \in Seq(Requests)
  /\ prefill \in Seq(Requests) /\ ready \in Seq(Requests)
  /\ pc \in {"idle", "decodes", "prefills", "admissions", "execute", "collect", "sample"}
  /\ budget \in Nat /\ spent \in Nat
  /\ DOMAIN chunkSizes \subseteq Requests
  /\ \A r \in DOMAIN chunkSizes : chunkSizes[r] \in Nat \ {0}
  /\ raised \in {"none", "OutOfCacheBlocks", "SequenceNotFound"}
  /\ torn \subseteq Requests

(* While a step is planned, executed or over, nobody is ready; then those  *)
(* with a processed prompt are.                                            *)
LEMMA ReadyFacts ==
  ASSUME IInv
  PROVE  /\ pc \notin {"collect", "sample"} => ready = << >>
         /\ \A r \in Range(ready) : PrefillDone(r)
         /\ ready = << >> => Range(ready) = {}
  BY DEF IInv, ReadyPrefilled, Range

(* A step that is over, or between steps, leaves nothing planned.          *)
LEMMA PlanEmpty ==
  ASSUME Return
  PROVE  /\ todo' \in Seq(Requests) /\ decode' \in Seq(Requests) /\ prefill' \in Seq(Requests)
         /\ ready' \in Seq(Requests) /\ budget' \in Nat /\ spent' \in Nat
         /\ DOMAIN chunkSizes' = {} /\ Range(prefill') = {} /\ Range(ready') = {} /\ ready' = << >>
         /\ pc' = "idle"
  <1>1. PICK none : none = << >>
    OBVIOUS
  <1>2. none \in Seq(Requests) /\ DOMAIN none = {} /\ Range(none) = {}
    BY <1>1 DEF Range
  <1>3. /\ todo' = none /\ decode' = none /\ prefill' = none /\ ready' = none /\ chunkSizes' = none
        /\ budget' = 0 /\ spent' = 0 /\ pc' = "idle"
    BY <1>1 DEF Return
  <1>4. QED
    BY <1>1, <1>2, <1>3

(* Planning keeps the types of the plan and a chunk for every prefill.     *)
LEMMA PlanKeepsPlan ==
  ASSUME IInv, Plan
  PROVE  PlanTypes' /\ PlannedChunks' /\ ReadyPrefilled'
  <1>1. /\ todo \in Seq(Requests) /\ decode \in Seq(Requests) /\ running \in Seq(Requests)
        /\ prefill \in Seq(Requests) /\ ready \in Seq(Requests)
        /\ budget \in Nat /\ spent \in Nat /\ DOMAIN chunkSizes \subseteq Requests
        /\ \A r \in DOMAIN chunkSizes : chunkSizes[r] \in Nat \ {0}
        /\ torn \subseteq Requests
    BY DEF IInv, TypeOK
  <1>2. Range(prefill) \subseteq DOMAIN chunkSizes
    BY DEF IInv, PlannedChunks
  <1>3. /\ ready' = ready /\ spent' = spent /\ raised' = "none" /\ torn' \subseteq torn
        /\ pc \in {"idle", "decodes", "prefills", "admissions"}
    BY DEF Plan, Schedule, ScheduleBegin, DecodeSkip, Decode, DecodePreempt, DecodesDone, DecodeNext,
           PrefillPlan, PrefillSkip, PrefillsDone, Admit, AdmitPreempt, AdmissionsDone
  <1>4. ready = << >> /\ Range(ready) = {}
    BY <1>3, ReadyFacts
  <1>5. ReadyPrefilled'
    BY <1>3, <1>4 DEF ReadyPrefilled
  <1>6. ASSUME todo' \in Seq(Requests), decode' \in Seq(Requests), prefill' \in Seq(Requests),
               pc' \in {"idle", "decodes", "prefills", "admissions", "execute"},
               budget' \in Nat, DOMAIN chunkSizes' \subseteq Requests,
               \A r \in DOMAIN chunkSizes' : chunkSizes'[r] \in Nat \ {0},
               Range(prefill') \subseteq DOMAIN chunkSizes',
               pc' = "execute" => todo' = prefill'
        PROVE  PlanTypes' /\ PlannedChunks'
    <2>1. PlanTypes'
      BY <1>1, <1>3, <1>6 DEF PlanTypes
    <2>2. PlannedChunks'
      BY <1>6 DEF PlannedChunks
    <2>3. QED
      BY <2>1, <2>2
  <1>7. CASE ScheduleBegin
    <2>1. PICK none : none = << >>
      OBVIOUS
    <2>2. none \in Seq(Requests) /\ DOMAIN none = {} /\ Range(none) = {}
      BY <2>1 DEF Range
    <2>3. /\ todo' = running /\ decode' = none /\ prefill' = none /\ chunkSizes' = none
          /\ budget' = MaxBatchedTokens /\ pc' = "decodes"
      BY <1>7, <2>1 DEF ScheduleBegin
    <2>4. MaxBatchedTokens \in Nat
      BY SchedulerAssumption
    <2>5. QED
      BY <2>2, <2>3, <2>4, <1>1, <1>5, <1>6
  <1>8. CASE DecodeSkip \/ Decode \/ DecodePreempt
    <2>1. /\ todo # << >> /\ todo' = Tail(todo) /\ pc' = "decodes"
          /\ prefill' = prefill /\ chunkSizes' = chunkSizes
      BY <1>8 DEF DecodeSkip, Decode, DecodePreempt, DecodeNext, plan
    <2>2. Head(todo) \in Requests /\ Tail(todo) \in Seq(Requests)
      BY <2>1, PlanHeads
    <2>3. \/ decode' = decode /\ budget' = budget
          \/ decode' = Append(decode, Head(todo)) /\ budget' = budget - 1 /\ budget > 0
      BY <1>8 DEF DecodeSkip, Decode, DecodePreempt, DecodeNext, DecodeAdd, plan
    <2>4. Append(decode, Head(todo)) \in Seq(Requests)
      <3>1. decode \in Seq(Requests)
        BY <1>1
      <3>2. QED
        BY <2>2, <3>1, AppendProperties
    <2>5. decode' \in Seq(Requests) /\ budget' \in Nat
      <3>1. decode' = decode \/ decode' = Append(decode, Head(todo))
        BY <2>3
      <3>2. decode' \in Seq(Requests)
        BY <2>4, <3>1, <1>1
      <3>3. budget \in Nat /\ (budget' = budget \/ (budget' = budget - 1 /\ budget > 0))
        BY <2>3, <1>1
      <3>4. budget' \in Nat
        BY <3>3
      <3>5. QED
        BY <3>2, <3>4
    <2>6. QED
      BY <2>1, <2>2, <2>5, <1>1, <1>2, <1>5, <1>6
  <1>9. CASE DecodesDone
    <2>1. /\ todo' = running /\ pc' = "prefills" /\ decode' = decode /\ budget' = budget
          /\ prefill' = prefill /\ chunkSizes' = chunkSizes
      BY <1>9 DEF DecodesDone, plan
    <2>2. QED
      BY <2>1, <1>1, <1>2, <1>5, <1>6
  <1>10. CASE PrefillPlan \/ Admit
    <2>1. /\ prefill' \in Seq(Requests) /\ Range(prefill') \subseteq DOMAIN chunkSizes'
          /\ DOMAIN chunkSizes' \subseteq Requests
          /\ \A q \in DOMAIN chunkSizes' : chunkSizes'[q] \in Nat \ {0}
          /\ budget' \in Nat
      BY <1>10, PrefillPlans
    <2>2. /\ pc' \in {"prefills", "admissions"} /\ decode' = decode
          /\ todo' = todo \/ (todo # << >> /\ todo' = Tail(todo))
      BY <1>10 DEF PrefillPlan, Admit
    <2>3. todo' \in Seq(Requests)
      BY <2>2, <1>1, PlanHeads
    <2>4. QED
      BY <2>1, <2>2, <2>3, <1>1, <1>5, <1>6
  <1>11. CASE PrefillSkip \/ PrefillsDone \/ AdmitPreempt
    <2>1. /\ todo' = todo \/ (todo # << >> /\ todo' = Tail(todo))
          /\ decode' = decode /\ budget' = budget /\ pc' \in {"prefills", "admissions"}
          /\ prefill' = prefill /\ chunkSizes' = chunkSizes
      BY <1>11 DEF PrefillSkip, PrefillsDone, AdmitPreempt, plan
    <2>2. todo' \in Seq(Requests)
      BY <2>1, <1>1, PlanHeads
    <2>3. QED
      BY <2>1, <2>2, <1>1, <1>2, <1>5, <1>6
  <1>12. CASE AdmissionsDone
    <2>1. /\ todo' = prefill /\ decode' = decode /\ budget' = budget /\ pc' = "execute"
          /\ prefill' = prefill /\ chunkSizes' = chunkSizes
      BY <1>12 DEF AdmissionsDone, plan
    <2>2. QED
      BY <2>1, <1>1, <1>2, <1>5, <1>6
  <1>13. QED
    BY <1>7, <1>8, <1>9, <1>10, <1>11, <1>12 DEF Plan, Schedule

(* So does executing it.                                                   *)
LEMMA ExecuteKeepsPlan ==
  ASSUME IInv, Execute
  PROVE  PlanTypes' /\ PlannedChunks' /\ ReadyPrefilled'
  <1>1. /\ todo \in Seq(Requests) /\ decode \in Seq(Requests)
        /\ prefill \in Seq(Requests) /\ ready \in Seq(Requests)
        /\ budget \in Nat /\ spent \in Nat /\ DOMAIN chunkSizes \subseteq Requests
        /\ \A r \in DOMAIN chunkSizes : chunkSizes[r] \in Nat \ {0}
        /\ torn \subseteq Requests /\ raised \in {"none", "OutOfCacheBlocks", "SequenceNotFound"}
    BY DEF IInv, TypeOK
  <1>2. /\ Range(prefill) \subseteq DOMAIN chunkSizes
        /\ pc = "execute" => Range(todo) \subseteq DOMAIN chunkSizes
        /\ \A r \in Range(ready) : PrefillDone(r)
    BY DEF IInv, PlannedChunks, ReadyPrefilled
  <1>3. ASSUME todo' \in Seq(Requests), ready' \in Seq(Requests), spent' \in Nat,
               pc' \in {"execute", "collect", "sample"},
               pc' = "execute" => Range(todo') \subseteq DOMAIN chunkSizes,
               UNCHANGED <<decode, prefill, chunkSizes, budget, raised, torn>>
        PROVE  PlanTypes' /\ PlannedChunks'
    <2>1. /\ decode' = decode /\ prefill' = prefill /\ chunkSizes' = chunkSizes
          /\ budget' = budget /\ raised' = raised /\ torn' = torn
      BY <1>3
    <2>2. PlanTypes'
      BY <1>1, <1>3, <2>1 DEF PlanTypes
    <2>3. PlannedChunks'
      BY <1>2, <1>3, <2>1 DEF PlannedChunks
    <2>4. QED
      BY <2>2, <2>3
  <1>4. CASE PrefillChunk
    <2>1. /\ Executing /\ todo # << >> /\ pc = "execute" /\ pc' = "execute"
          /\ todo' = Tail(todo) /\ ready' = ready
          /\ spent' = spent + ChunkEnd(Head(todo)) - offset[Head(todo)]
          /\ UNCHANGED <<decode, prefill, chunkSizes, budget, raised, torn>>
      BY <1>4 DEF PrefillChunk, Executing, plan
    <2>2. Tail(todo) \in Seq(Requests) /\ Range(Tail(todo)) \subseteq Range(todo)
      BY <2>1, PlanHeads
    <2>3. PICK n \in Nat, m \in Nat : n = ChunkEnd(Head(todo)) /\ m = offset[Head(todo)] /\ m <= n
      BY <2>1, ChunkEndFacts
    <2>4. spent' \in Nat
      <3>1. spent' = spent + n - m
        BY <2>1, <2>3
      <3>2. spent \in Nat
        BY <1>1 DEF PlanTypes
      <3>3. n \in Nat /\ m \in Nat /\ m <= n
        BY <2>3
      <3>4. QED
        BY <3>1, <3>2, <3>3
    <2>5. ready = << >> /\ Range(ready) = {}
      BY <2>1, ReadyFacts
    <2>6. ReadyPrefilled'
      BY <2>1, <2>5 DEF ReadyPrefilled
    <2>7. QED
      BY <2>1, <2>2, <2>4, <2>6, <1>1, <1>2, <1>3
  <1>5. CASE PrefillWithoutTable \/ PrefillOutOfBlocks \/ SampleRaise \/ StepEnd
    <2>1. Return
      BY <1>5 DEF PrefillWithoutTable, PrefillOutOfBlocks, SampleRaise, StepEnd, Raise
    <2>2. raised' \in {"none", "OutOfCacheBlocks", "SequenceNotFound"}
      BY <1>1, <1>5 DEF PrefillWithoutTable, PrefillOutOfBlocks, SampleRaise, StepEnd, Raise
    <2>3. torn' \subseteq Requests
      <3>1. CASE SampleRaise
        BY <1>1, <3>1, SamplingFacts DEF SampleRaise
      <3>2. CASE ~SampleRaise
        BY <1>1, <1>5, <3>2 DEF PrefillWithoutTable, PrefillOutOfBlocks, StepEnd
      <3>3. QED
        BY <3>1, <3>2
    <2>4. PlanTypes'
      BY <2>1, <2>2, <2>3, PlanEmpty DEF PlanTypes
    <2>5. PlannedChunks' /\ ReadyPrefilled'
      BY <2>1, PlanEmpty DEF PlannedChunks, ReadyPrefilled
    <2>6. QED
      BY <2>4, <2>5
  <1>6. CASE PrefillsExecuted \/ Collected
    <2>1. /\ pc' \in {"collect", "sample"} /\ ready' = ready /\ spent' = spent
          /\ todo' = todo \/ todo' = decode \o prefill
          /\ promptLen' = promptLen /\ offset' = offset
          /\ UNCHANGED <<decode, prefill, chunkSizes, budget, raised, torn>>
      BY <1>6 DEF PrefillsExecuted, Collected, plan, requests
    <2>2. todo' \in Seq(Requests)
      <3>1. todo \in Seq(Requests) /\ decode \in Seq(Requests) /\ prefill \in Seq(Requests)
        BY <1>1 DEF PlanTypes
      <3>2. decode \o prefill \in Seq(Requests)
        BY <3>1, JoinedSeq
      <3>3. QED
        BY <2>1, <3>1, <3>2
    <2>3. ReadyPrefilled'
      BY <2>1, <1>2 DEF ReadyPrefilled, PrefillDone
    <2>4. QED
      BY <2>1, <2>2, <2>3, <1>1, <1>3
  <1>7. CASE Collect
    <2>1. /\ pc' = "collect" /\ todo # << >> /\ todo' = Tail(todo)
          /\ spent' = spent \/ spent' = spent + 1
          /\ ready' = ready \/ (PrefillDone(Head(todo)) /\ ready' = Append(ready, Head(todo)))
          /\ promptLen' = promptLen /\ offset' = offset
          /\ UNCHANGED <<decode, prefill, chunkSizes, budget, raised, torn>>
      BY <1>7 DEF Collect, IsReady, plan, requests
    <2>2. Head(todo) \in Requests /\ Tail(todo) \in Seq(Requests)
      BY <2>1, PlanHeads
    <2>3. spent' \in Nat
      BY <2>1, <1>1
    <2>4. ready' \in Seq(Requests) /\ \A r \in Range(ready') : PrefillDone(r)
      <3>1. CASE ready' = ready
        BY <3>1, <1>1, <1>2
      <3>2. CASE PrefillDone(Head(todo)) /\ ready' = Append(ready, Head(todo))
        <4>1. ready \in Seq(Requests)
          BY <1>1
        <4>2. /\ Append(ready, Head(todo)) \in Seq(Requests)
              /\ Range(Append(ready, Head(todo))) = Range(ready) \cup {Head(todo)}
          BY <4>1, <2>2, RangeAppend, AppendProperties
        <4>3. QED
          BY <3>2, <4>2, <1>2
      <3>3. QED
        BY <2>1, <3>1, <3>2
    <2>5. ReadyPrefilled'
      BY <2>1, <2>4 DEF ReadyPrefilled, PrefillDone
    <2>6. QED
      BY <2>1, <2>2, <2>3, <2>4, <2>5, <1>3
  <1>8. CASE SampleGoOn \/ SampleFinish
    <2>1. /\ pc' = "sample" /\ ready # << >> /\ ready' = Tail(ready) /\ todo' = todo /\ spent' = spent
          /\ promptLen' = promptLen /\ offset' = offset
          /\ UNCHANGED <<decode, prefill, chunkSizes, budget, raised, torn>>
      BY <1>8 DEF SampleGoOn, SampleFinish, Sampling, plan
    <2>2. Tail(ready) \in Seq(Requests) /\ Range(Tail(ready)) \subseteq Range(ready)
      BY <2>1, PlanHeads
    <2>3. ReadyPrefilled'
      BY <2>1, <2>2, <1>2 DEF ReadyPrefilled, PrefillDone
    <2>4. QED
      BY <2>1, <2>2, <2>3, <1>1, <1>3
  <1>9. QED
    BY <1>4, <1>5, <1>6, <1>7, <1>8 DEF Execute

(* Between steps nothing is planned.                                       *)
LEMMA PlanInvariant ==
  ASSUME IInv, [Next]_vars
  PROVE  PlanTypes' /\ PlannedChunks' /\ ReadyPrefilled'
  <1>1. PlanTypes /\ PlannedChunks /\ ReadyPrefilled
    BY DEF IInv, TypeOK, PlanTypes
  <1>2. CASE (\E r \in Requests : (\E n \in PromptLengths : Add(r, n)) \/ AbortRequest(r)) \/ Reset
    <2>1. /\ pc = "idle"
          /\ UNCHANGED <<todo, decode, prefill, ready, pc, budget, spent, chunkSizes, raised, torn>>
      BY <1>2 DEF Add, AddRequest, AbortRequest, Abort, Reset, plan, history
    <2>2. ready = << >> /\ Range(ready) = {}
      BY <2>1, ReadyFacts
    <2>3. QED
      BY <1>1, <2>1, <2>2 DEF PlanTypes, PlannedChunks, ReadyPrefilled
  <1>3. CASE UNCHANGED queueVars
    BY <1>1, <1>3 DEF queueVars, schedulerVars, plan, requests, history, PlanTypes, PlannedChunks,
                      ReadyPrefilled, PrefillDone
  <1>4. QED
    BY <1>2, <1>3, PlanKeepsPlan, ExecuteKeepsPlan, AssemblersApart DEF Next, Step

-----------------------------------------------------------------------------
(***************************************************************************)
(* The cache and the states of the requests.                               *)
(***************************************************************************)
(* Block tables count tokens, and blocks never run below none.             *)
CacheTypes == (\A r \in DOMAIN tokens : tokens[r] \in Nat) /\ available \in Nat

(* The blocks a request holds.                                             *)
LEMMA HeldFacts ==
  ASSUME IInv, NEW r
  PROVE  /\ Pool!Held(r) \in Nat /\ available \in Nat
         /\ r \in DOMAIN tokens => /\ tokens[r] \in Nat
                                   /\ Pool!Held(r) = Pool!BlocksNeeded(tokens[r])
         /\ r \notin DOMAIN tokens => Pool!Held(r) = 0
  <1>1. BlockSize \in Nat \ {0} /\ available \in Nat /\ \A q \in DOMAIN tokens : tokens[q] \in Nat
    BY SchedulerAssumption DEF IInv, TypeOK
  <1>2. CASE r \in DOMAIN tokens
    <2>1. tokens[r] \in Nat
      BY <1>1, <1>2
    <2>2. Pool!BlocksNeeded(tokens[r]) \in Nat
      BY <1>1, <2>1, BlocksFacts DEF Pool!BlocksNeeded
    <2>3. QED
      BY <1>1, <1>2, <2>1, <2>2 DEF Pool!Held
  <1>3. CASE r \notin DOMAIN tokens
    BY <1>1, <1>3 DEF Pool!Held
  <1>4. QED
    BY <1>2, <1>3

(* Blocks returned are available again.                                    *)
LEMMA ReleaseTypes ==
  ASSUME IInv, NEW r, Pool!Release(r)
  PROVE  CacheTypes'
  <1>1. /\ DOMAIN tokens' = DOMAIN tokens \ {r}
        /\ \A q \in DOMAIN tokens \ {r} : tokens'[q] = tokens[q]
    BY ReleaseFacts
  <1>2. available' = available + Pool!Held(r)
    BY DEF Pool!Release
  <1>3. Pool!Held(r) \in Nat /\ available \in Nat
    BY HeldFacts
  <1>4. QED
    BY <1>1, <1>2, <1>3 DEF CacheTypes, IInv, TypeOK

(* A table takes no more blocks than it has and are available.             *)
LEMMA ResizeTypes ==
  ASSUME IInv, NEW r, NEW n \in Nat, Pool!Resize(r, n),
         Pool!BlocksNeeded(n) <= Pool!Held(r) + available
  PROVE  CacheTypes'
  <1>1. /\ DOMAIN tokens' = DOMAIN tokens \cup {r} /\ tokens'[r] = n
        /\ \A q \in DOMAIN tokens \ {r} : tokens'[q] = tokens[q]
    BY ResizeFacts
  <1>2. available' = available + Pool!Held(r) - Pool!BlocksNeeded(n)
    BY DEF Pool!Resize
  <1>3. Pool!Held(r) \in Nat /\ available \in Nat
    BY HeldFacts
  <1>4. Pool!BlocksNeeded(n) \in Nat
    <2>1. BlockSize \in Nat \ {0}
      BY SchedulerAssumption
    <2>2. QED
      BY <2>1, BlocksFacts DEF Pool!BlocksNeeded
  <1>5. available' \in Nat
    BY <1>2, <1>3, <1>4
  <1>6. QED
    BY <1>1, <1>5 DEF CacheTypes, IInv, TypeOK

(* A step takes blocks for one table, returns those of one table, or of    *)
(* all, or leaves the cache alone: a request is admitted, its prompt       *)
(* processed and its output extended only where there is room.             *)
CacheStep ==
  \/ UNCHANGED cache
  \/ Pool!ReleaseAll
  \/ \E r : Pool!Release(r)
  \/ \E r, n : n \in Nat /\ Pool!Resize(r, n) /\ Pool!BlocksNeeded(n) <= Pool!Held(r) + available

LEMMA CacheSteps ==
  ASSUME IInv, [Next]_vars
  PROVE  CacheStep
  <1>1. BlockSize \in Nat \ {0} /\ NumBlocks \in Nat /\ Reserve \in Nat
    BY SchedulerAssumption
  <1>2. available \in Nat /\ \A q \in DOMAIN tokens : tokens[q] \in Nat
    BY DEF IInv, TypeOK
  <1>3. CASE UNCHANGED cache
    BY <1>3 DEF CacheStep
  <1>4. CASE \E r : Pool!Release(r)
    BY <1>4 DEF CacheStep
  <1>5. CASE Admit
    <2>1. PICK r \in Requests : r = Head(waiting)
      BY <1>5, AdmitFacts
    <2>2. PICK n \in Nat : n = PlanChunk(r)
      BY PlanChunkFacts
    <2>3. Pool!CanAllocate(n) /\ Pool!Resize(r, n)
      BY <1>5, <2>1, <2>2 DEF Admit
    <2>4. PICK k \in Nat : k = Pool!BlocksNeeded(n)
      BY <1>1, BlocksFacts DEF Pool!BlocksNeeded
    <2>5. available - k >= Reserve
      BY <2>3, <2>4 DEF Pool!CanAllocate
    <2>6. Pool!Held(r) \in Nat
      BY HeldFacts
    <2>7. k <= Pool!Held(r) + available
      BY <1>1, <1>2, <2>5, <2>6
    <2>8. QED
      BY <2>3, <2>4, <2>7 DEF CacheStep
  <1>6. CASE PrefillChunk
    <2>1. PICK r \in Requests : r = Head(todo)
      BY <1>6, ChunkEndFacts DEF PrefillChunk
    <2>2. PICK n \in Nat : n = ChunkEnd(r)
      BY <1>6, <2>1, ChunkEndFacts DEF PrefillChunk
    <2>3. CASE /\ r \in DOMAIN tokens /\ n <= RoomFor(r)
               /\ Pool!Resize(r, SlotsAfter(r))
      <3>1. PICK k \in Nat : k = Pool!Held(r) /\ k = Pool!BlocksNeeded(tokens[r])
        BY <2>3, HeldFacts
      <3>2. PICK t \in Nat : t = tokens[r]
        BY <1>2, <2>3
      <3>3. PICK room \in Nat : room = k + available
        BY <1>2, <3>1
      <3>4. RoomFor(r) = room * BlockSize
        BY <3>1, <3>3 DEF RoomFor
      <3>5. t <= room * BlockSize
        <4>1. t <= k * BlockSize
          BY <1>1, <3>1, <3>2, BlocksFacts DEF Pool!BlocksNeeded
        <4>2. room * BlockSize = k * BlockSize + available * BlockSize /\ available * BlockSize \in Nat
              /\ k * BlockSize \in Nat
          BY <1>1, <1>2, <3>3
        <4>3. QED
          BY <4>1, <4>2, <3>2
      <3>6. PICK m \in Nat : m = SlotsAfter(r) /\ m <= room * BlockSize
        <4>1. SlotsAfter(r) = IF t >= n THEN t ELSE n
          BY <2>2, <3>2 DEF SlotsAfter, MaxTo
        <4>2. n <= room * BlockSize
          BY <2>3, <3>4
        <4>3. QED
          BY <4>1, <4>2, <3>5
      <3>7. Pool!BlocksNeeded(m) <= room
        BY <1>1, <3>6, BlocksWithin DEF Pool!BlocksNeeded
      <3>8. Pool!Resize(r, m)
        BY <2>3, <3>6
      <3>9. QED
        BY <3>1, <3>3, <3>7, <3>8 DEF CacheStep
    <2>4. QED
      BY <1>3, <1>6, <2>1, <2>2, <2>3 DEF PrefillChunk
  <1>7. CASE PrefillOutOfBlocks
    <2>1. PICK r \in Requests : r = Head(todo)
      BY <1>7, ChunkEndFacts DEF PrefillOutOfBlocks
    <2>2. r \in DOMAIN tokens /\ Pool!Resize(r, RoomFor(r))
      BY <1>7, <2>1 DEF PrefillOutOfBlocks
    <2>3. PICK k \in Nat : k = Pool!Held(r) /\ k = Pool!BlocksNeeded(tokens[r])
      BY <2>2, HeldFacts
    <2>4. PICK room \in Nat : room = k + available
      BY <1>2, <2>3
    <2>5. RoomFor(r) = room * BlockSize
      BY <2>3, <2>4 DEF RoomFor
    <2>6. room * BlockSize \in Nat /\ (room * BlockSize + BlockSize - 1) \div BlockSize = room
      BY <1>1, BlocksOfWhole
    <2>7. PICK m \in Nat : m = RoomFor(r) /\ Pool!BlocksNeeded(m) = room
      BY <2>5, <2>6 DEF Pool!BlocksNeeded
    <2>8. Pool!Resize(r, m) /\ Pool!BlocksNeeded(m) <= Pool!Held(r) + available
      BY <2>2, <2>3, <2>4, <2>7
    <2>9. QED
      BY <2>8 DEF CacheStep
  <1>8. CASE SampleGoOn
    <2>1. PICK r \in Requests : r = Head(ready)
      BY <1>8, SamplingFacts DEF SampleGoOn
    <2>2. r \in DOMAIN tokens /\ Pool!HasRoom(r) /\ Pool!Resize(r, tokens[r] + 1)
      BY <1>8, <2>1 DEF SampleGoOn
    <2>3. PICK t \in Nat : t = tokens[r]
      BY <1>2, <2>2
    <2>4. PICK k \in Nat : k = Pool!Held(r) /\ k = Pool!BlocksNeeded(t)
      BY <2>2, <2>3, HeldFacts
    <2>5. PICK m \in Nat : m = t + 1
      BY <2>3
    <2>6. Pool!BlocksNeeded(m) = IF t % BlockSize = 0 THEN k + 1 ELSE k
      <3>1. ((t + 1) + BlockSize - 1) \div BlockSize =
              IF t % BlockSize = 0 THEN (t + BlockSize - 1) \div BlockSize + 1
              ELSE (t + BlockSize - 1) \div BlockSize
        BY <1>1, BlocksOfNext
      <3>2. QED
        BY <3>1, <2>4, <2>5 DEF Pool!BlocksNeeded
    <2>7. t % BlockSize # 0 \/ available > 0
      BY <2>2, <2>3 DEF Pool!HasRoom
    <2>8. Pool!BlocksNeeded(m) <= k + available
      BY <1>2, <2>4, <2>6, <2>7
    <2>9. Pool!Resize(r, m)
      BY <2>2, <2>3, <2>5
    <2>10. QED
      BY <2>4, <2>8, <2>9 DEF CacheStep
  <1>9. CASE Reset
    BY <1>9 DEF Reset, CacheStep
  <1>10. CASE Plan
    BY <1>3, <1>4, <1>5, <1>10
      DEF Plan, Schedule, ScheduleBegin, DecodeSkip, Decode, DecodePreempt, DecodesDone,
          PrefillPlan, PrefillSkip, PrefillsDone, AdmitPreempt, AdmissionsDone, Preempt
  <1>11. CASE SampleFinish \/ \E r \in Requests : AbortRequest(r)
    BY <1>4, <1>11 DEF SampleFinish, AbortRequest, Abort, Leave
  <1>12. CASE PrefillWithoutTable \/ PrefillsExecuted \/ Collect \/ Collected \/ SampleRaise \/ StepEnd
    BY <1>3, <1>12 DEF PrefillWithoutTable, PrefillsExecuted, Collect, Collected, SampleRaise, StepEnd
  <1>13. CASE UNCHANGED queueVars \/ \E r \in Requests, n \in PromptLengths : Add(r, n)
    BY <1>3, <1>13 DEF queueVars, schedulerVars, Add, AddRequest
  <1>14. QED
    BY <1>5, <1>6, <1>7, <1>8, <1>9, <1>10, <1>11, <1>12, <1>13, AssemblersApart DEF Next, Step, Execute

(* Every step keeps the types of the cache.                                *)
LEMMA CacheInvariant ==
  ASSUME IInv, [Next]_vars
  PROVE  CacheTypes'
  <1>1. CASE UNCHANGED cache
    BY <1>1 DEF cache, CacheTypes, IInv, TypeOK
  <1>2. CASE Pool!ReleaseAll
    <2>1. tokens' = << >> /\ available' = NumBlocks /\ NumBlocks \in Nat
      BY <1>2, SchedulerAssumption DEF Pool!ReleaseAll
    <2>2. DOMAIN tokens' = {}
      BY <2>1
    <2>3. QED
      BY <2>1, <2>2 DEF CacheTypes
  <1>3. CASE \E r : Pool!Release(r)
    BY <1>3, ReleaseTypes
  <1>4. CASE \E r, n : /\ n \in Nat /\ Pool!Resize(r, n)
                       /\ Pool!BlocksNeeded(n) <= Pool!Held(r) + available
    BY <1>4, ResizeTypes
  <1>5. QED
    BY <1>1, <1>2, <1>3, <1>4, CacheSteps DEF CacheStep

(***************************************************************************)
(* No block is lost or lent twice: those the tables hold and those that    *)
(* are available are the pool.                                             *)
(***************************************************************************)
HeldBlocks == [r \in DOMAIN tokens |-> Pool!Held(r)]

Accounted ==
  IsFiniteSet(DOMAIN tokens) /\ available = NumBlocks - SumFunctionOnSet(HeldBlocks, DOMAIN tokens)

(* The pool's sum is the sum of the library.                               *)
LEMMA PoolSum == Pool!BlocksAccounted <=>
  available >= 0 /\ available = NumBlocks - SumFunctionOnSet(HeldBlocks, DOMAIN tokens)
  <1>1. ASSUME NEW f, NEW S PROVE Pool!SumFunctionOnSet(f, S) = SumFunctionOnSet(f, S)
    BY DEF Pool!SumFunctionOnSet, Pool!FoldFunctionOnSet, Pool!MapThenFoldSet,
           SumFunctionOnSet, FoldFunctionOnSet, MapThenFoldSet
  <1>2. Pool!SumFunction(HeldBlocks) = SumFunctionOnSet(HeldBlocks, DOMAIN tokens)
    BY <1>1 DEF Pool!SumFunction, HeldBlocks
  <1>3. QED
    BY <1>2 DEF Pool!BlocksAccounted, HeldBlocks

(* A table that goes gives its blocks back.                                *)
LEMMA ReleaseAccounted ==
  ASSUME IInv, Accounted, NEW r, Pool!Release(r)
  PROVE  Accounted'
  <1>1. /\ DOMAIN tokens' = DOMAIN tokens \ {r}
        /\ \A q \in DOMAIN tokens \ {r} : tokens'[q] = tokens[q]
    BY ReleaseFacts
  <1>2. available' = available + Pool!Held(r)
    BY DEF Pool!Release
  <1>3. IsFiniteSet(DOMAIN tokens) /\ IsFiniteSet(DOMAIN tokens \ {r})
    BY FS_Subset DEF Accounted
  <1>4. \A q \in DOMAIN tokens : HeldBlocks[q] = Pool!Held(q) /\ Pool!Held(q) \in Int
    BY HeldFacts DEF HeldBlocks
  <1>5. \A q \in DOMAIN tokens \ {r} : HeldBlocks'[q] = HeldBlocks[q]
    BY <1>1 DEF HeldBlocks, Pool!Held
  <1>6. PICK rest : rest = SumFunctionOnSet(HeldBlocks, DOMAIN tokens \ {r})
    OBVIOUS
  <1>7. SumFunctionOnSet(HeldBlocks', DOMAIN tokens \ {r}) = rest
    BY <1>3, <1>5, <1>6, SumSame
  <1>8. rest \in Int /\ available \in Int /\ Pool!Held(r) \in Int /\ NumBlocks \in Int
    BY <1>3, <1>4, <1>6, SumInt, HeldFacts, SchedulerAssumption
  <1>9. available = NumBlocks - (Pool!Held(r) + rest)
    <2>1. CASE r \in DOMAIN tokens
      <3>1. SumFunctionOnSet(HeldBlocks, DOMAIN tokens) = Pool!Held(r) + rest
        BY <1>3, <1>4, <1>6, <2>1, SumWithout
      <3>2. QED
        BY <3>1 DEF Accounted
    <2>2. CASE r \notin DOMAIN tokens
      <3>1. DOMAIN tokens \ {r} = DOMAIN tokens /\ Pool!Held(r) = 0
        BY <2>2, HeldFacts
      <3>2. available = NumBlocks - rest
        BY <1>6, <3>1 DEF Accounted
      <3>3. QED
        BY <1>8, <3>1, <3>2
    <2>3. QED
      BY <2>1, <2>2
  <1>10. available' = NumBlocks - rest
    BY <1>2, <1>8, <1>9
  <1>11. QED
    BY <1>1, <1>3, <1>7, <1>10 DEF Accounted

(* A table that is made or changes size takes the difference.              *)
LEMMA ResizeAccounted ==
  ASSUME IInv, Accounted, NEW r, NEW n \in Nat, Pool!Resize(r, n)
  PROVE  Accounted'
  <1> DEFINE others == DOMAIN tokens \ {r}
  <1>1. /\ DOMAIN tokens' = others \cup {r} /\ tokens'[r] = n
        /\ \A q \in others : tokens'[q] = tokens[q]
    BY ResizeFacts
  <1>2. available' = available + Pool!Held(r) - Pool!BlocksNeeded(n)
    BY DEF Pool!Resize
  <1>3. IsFiniteSet(DOMAIN tokens) /\ IsFiniteSet(others) /\ IsFiniteSet(others \cup {r})
    BY FS_Subset, FS_AddElement DEF Accounted
  <1>4. \A q \in DOMAIN tokens : HeldBlocks[q] = Pool!Held(q) /\ Pool!Held(q) \in Int
    BY HeldFacts DEF HeldBlocks
  <1>5. \A q \in others : HeldBlocks'[q] = HeldBlocks[q]
    BY <1>1 DEF HeldBlocks, Pool!Held
  <1>6. HeldBlocks'[r] = Pool!BlocksNeeded(n)
    BY <1>1 DEF HeldBlocks, Pool!Held
  <1>7. PICK need \in Nat : need = Pool!BlocksNeeded(n)
    BY BlocksFacts, SchedulerAssumption DEF Pool!BlocksNeeded
  <1>8. PICK rest : rest = SumFunctionOnSet(HeldBlocks, others)
    OBVIOUS
  <1>9. rest \in Int /\ available \in Int /\ Pool!Held(r) \in Int /\ NumBlocks \in Int
    BY <1>3, <1>4, <1>8, SumInt, HeldFacts, SchedulerAssumption
  <1>10. SumFunctionOnSet(HeldBlocks', others) = rest
    BY <1>3, <1>5, <1>8, SumSame
  <1>11. SumFunctionOnSet(HeldBlocks', DOMAIN tokens') = rest + need
    <2>1. \A q \in others \cup {r} : HeldBlocks'[q] \in Int
      BY <1>4, <1>5, <1>6, <1>7
    <2>2. SumFunctionOnSet(HeldBlocks', others \cup {r}) = SumFunctionOnSet(HeldBlocks', others) + HeldBlocks'[r]
      <3> HIDE DEF others
      <3>1. r \notin others
        BY DEF others
      <3>2. PICK f : f = HeldBlocks'
        OBVIOUS
      <3> QED BY <1>3, <2>1, <3>1, <3>2, SumWith
    <2> HIDE DEF others
    <2> QED BY <1>1, <1>6, <1>7, <1>10, <2>2
  <1>12. available = NumBlocks - (Pool!Held(r) + rest)
    <2>1. CASE r \in DOMAIN tokens
      <3>1. SumFunctionOnSet(HeldBlocks, DOMAIN tokens) = Pool!Held(r) + rest
        BY <1>3, <1>4, <1>8, <2>1, SumWithout
      <3>2. QED
        BY <3>1 DEF Accounted
    <2>2. CASE r \notin DOMAIN tokens
      <3>1. others = DOMAIN tokens /\ Pool!Held(r) = 0
        BY <2>2, HeldFacts
      <3>2. available = NumBlocks - rest
        BY <1>8, <3>1 DEF Accounted
      <3>3. QED
        BY <1>9, <3>1, <3>2
    <2>3. QED
      BY <2>1, <2>2
  <1>13. available' = NumBlocks - (rest + need)
    BY <1>2, <1>7, <1>9, <1>12
  <1>14. QED
    BY <1>1, <1>3, <1>11, <1>13 DEF Accounted

(* The account is right after a reset, and after every step.               *)
LEMMA AccountInvariant ==
  /\ Init => Accounted
  /\ IInv /\ Accounted /\ [Next]_vars => Accounted'
  <1>1. ASSUME tokens = << >>, available = NumBlocks PROVE Accounted
    <2>1. DOMAIN tokens = {} /\ NumBlocks \in Nat
      BY <1>1, SchedulerAssumption
    <2>2. SumFunctionOnSet(HeldBlocks, DOMAIN tokens) = 0
      BY <2>1, SumOfNone
    <2>3. QED
      BY <1>1, <2>1, <2>2, FS_EmptySet DEF Accounted
  <1>2. ASSUME tokens' = << >>, available' = NumBlocks PROVE Accounted'
    <2>1. DOMAIN tokens' = {} /\ NumBlocks \in Nat
      BY <1>2, SchedulerAssumption
    <2>2. SumFunctionOnSet(HeldBlocks', DOMAIN tokens') = 0
      BY <2>1, SumOfNone
    <2>3. QED
      BY <1>2, <2>1, <2>2, FS_EmptySet DEF Accounted
  <1>3. Init => Accounted
    BY <1>1 DEF Init, SchedulerInit, Pool!Init
  <1>4. ASSUME IInv, Accounted, [Next]_vars PROVE Accounted'
    <2>1. CASE UNCHANGED cache
      BY <1>4, <2>1 DEF cache, Accounted, HeldBlocks, Pool!Held
    <2>2. CASE Pool!ReleaseAll
      BY <1>2, <2>2 DEF Pool!ReleaseAll
    <2>3. CASE \E r : Pool!Release(r)
      BY <1>4, <2>3, ReleaseAccounted
    <2>4. CASE \E r, n : n \in Nat /\ Pool!Resize(r, n)
      BY <1>4, <2>4, ResizeAccounted
    <2>5. QED
      BY <1>4, <2>1, <2>2, <2>3, <2>4, CacheSteps DEF CacheStep
  <1>5. QED
    BY <1>3, <1>4

(* A request is always in one of its states.                               *)
LEMMA StateInvariant ==
  ASSUME IInv, [Next]_vars
  PROVE  state' \in [Requests -> States]
  <1>1. state \in [Requests -> States]
    BY DEF IInv, TypeOK
  <1>2. ASSUME NEW r, NEW s \in States, state' = [state EXCEPT ![r] = s]
        PROVE  state' \in [Requests -> States]
    BY <1>1, <1>2
  <1>3. CASE state' = state
    BY <1>1, <1>3
  <1>4. {"WAITING", "PREFILL", "RUNNING", "PREEMPTED", "FINISHED"} = States
    BY DEF States
  <1>5. CASE Plan
    <2>1. CASE DecodePreempt \/ AdmitPreempt
      <3>1. state' = [state EXCEPT ![Victim] = "PREEMPTED"]
        BY <2>1 DEF DecodePreempt, AdmitPreempt, Preempt
      <3>2. QED
        BY <3>1, <1>2, <1>4
    <2>2. CASE Admit
      <3>1. state' = [state EXCEPT ![Head(waiting)] = "PREFILL"]
        BY <2>2 DEF Admit
      <3>2. QED
        BY <3>1, <1>2, <1>4
    <2>3. CASE ScheduleBegin \/ DecodeSkip \/ Decode \/ DecodesDone \/ PrefillPlan \/ PrefillSkip
               \/ PrefillsDone \/ AdmissionsDone
      BY <1>3, <2>3 DEF ScheduleBegin, DecodeSkip, Decode, DecodesDone, PrefillPlan, PrefillSkip,
                        PrefillsDone, AdmissionsDone, requests
    <2>4. QED
      BY <1>5, <2>1, <2>2, <2>3 DEF Plan, Schedule
  <1>6. CASE PrefillChunk
    <2>1. state' = state \/ state' = [state EXCEPT ![Head(todo)] = "RUNNING"]
      BY <1>6 DEF PrefillChunk
    <2>2. QED
      BY <2>1, <1>2, <1>3, <1>4
  <1>7. CASE SampleFinish \/ \E r \in Requests : AbortRequest(r)
    <2>1. PICK r : Leave(r)
      BY <1>7 DEF SampleFinish, AbortRequest, Abort
    <2>2. state' = [state EXCEPT ![r] = "FINISHED"]
      BY <2>1 DEF Leave
    <2>3. QED
      BY <2>2, <1>2, <1>4
  <1>8. CASE \E r \in Requests, n \in PromptLengths : Add(r, n)
    <2>1. PICK r : state' = [state EXCEPT ![r] = "WAITING"]
      BY <1>8 DEF Add, AddRequest
    <2>2. QED
      BY <2>1, <1>2, <1>4
  <1>9. CASE PrefillWithoutTable \/ PrefillOutOfBlocks \/ PrefillsExecuted \/ Collect \/ Collected
             \/ SampleGoOn \/ SampleRaise \/ StepEnd \/ Reset \/ UNCHANGED queueVars
    BY <1>3, <1>9 DEF PrefillWithoutTable, PrefillOutOfBlocks, PrefillsExecuted, Collect, Collected,
                      SampleGoOn, SampleRaise, StepEnd, Reset, queueVars, schedulerVars, requests
  <1>10. QED
    BY <1>5, <1>6, <1>7, <1>8, <1>9, AssemblersApart DEF Next, Step, Execute

-----------------------------------------------------------------------------
(***************************************************************************)
(* The theorems.                                                           *)
(***************************************************************************)
(* Initially there are no requests and no tables.                          *)
LEMMA InitInvariant == Init => IInv
  <1> SUFFICES ASSUME Init PROVE IInv
    OBVIOUS
  <1>1. PICK none : none = << >>
    OBVIOUS
  <1>2. none \in Seq(Requests) /\ DOMAIN none = {} /\ Range(none) = {} /\ none \o none = none
        /\ Len(none) = 0 /\ IsInjective(none)
    BY <1>1 DEF Range, IsInjective
  <1>3. /\ waiting = none /\ running = none /\ todo = none /\ decode = none /\ prefill = none
        /\ ready = none /\ assemblers = {} /\ arrived = none /\ tokens = none /\ chunkSizes = none
        /\ available = NumBlocks /\ pc = "idle" /\ budget = 0 /\ spent = 0 /\ raised = "none" /\ torn = {}
    BY <1>1 DEF Init, SchedulerInit, Pool!Init
  <1>4. /\ state = [r \in Requests |-> "FINISHED"]
        /\ promptLen = [r \in Requests |-> 0] /\ generated = [r \in Requests |-> 0]
        /\ offset = [r \in Requests |-> 0] /\ asked = [r \in Requests |-> 0]
        /\ sampled = [r \in Requests |-> 0]
    BY DEF Init, SchedulerInit
  <1>5. NumBlocks \in Nat /\ MaxRunning \in Nat /\ MaxWaiting \in Nat
    BY SchedulerAssumption
  <1>6. TypeOK
    BY <1>2, <1>3, <1>4, <1>5 DEF TypeOK, States
  <1>7. ServedInOrder /\ ArrivedOnce /\ TablesAreRunning /\ Progress /\ CacheInStep /\ QueuesBounded
    BY <1>2, <1>3, <1>5 DEF ServedInOrder, ArrivedOnce, TablesAreRunning, Progress, CacheInStep, QueuesBounded
  <1>8. Lengths /\ TokensKept
    BY <1>2, <1>3, <1>4 DEF Lengths, TokensKept
  <1>9. PlannedDecodesRun /\ DecodeOrder /\ PlannedChunks /\ ReadyPrefilled
    BY <1>1, <1>2, <1>3 DEF PlannedDecodesRun, DecodeOrder, PlannedChunks, ReadyPrefilled
  <1>10. QED
    BY <1>6, <1>7, <1>8, <1>9 DEF IInv

(* Every step keeps the inductive invariant.                               *)
LEMMA StepInvariant == IInv /\ [Next]_vars => IInv'
  <1> SUFFICES ASSUME IInv, [Next]_vars PROVE IInv'
    OBVIOUS
  <1>1. /\ running' \in Seq(Requests) /\ waiting' \in Seq(Requests) /\ arrived' \in Seq(Requests)
        /\ ServedInOrder' /\ ArrivedOnce' /\ TablesAreRunning' /\ QueuesBounded'
    BY QueuesInvariant
  <1>2. /\ {promptLen', generated', offset', asked', sampled'} \subseteq [Requests -> Nat]
        /\ Lengths' /\ TokensKept'
    BY RequestsInvariant
  <1>3. Progress' /\ CacheInStep'
    BY TablesInvariant
  <1>4. PlannedDecodesRun' /\ DecodeOrder'
    BY DecodesInvariant
  <1>5. PlanTypes' /\ PlannedChunks' /\ ReadyPrefilled'
    BY PlanInvariant
  <1>6. CacheTypes' /\ state' \in [Requests -> States]
    BY CacheInvariant, StateInvariant
  <1>7. DOMAIN tokens' \subseteq Requests
    <2>1. DOMAIN tokens' = Range(running')
      BY <1>1 DEF TablesAreRunning
    <2>2. Range(running') \subseteq Requests
      BY <1>1, RangeOfSeq
    <2>3. QED
      BY <2>1, <2>2
  <1>8. assemblers' \subseteq Requests
    BY DEF IInv, TypeOK, Next, Step, Plan, Execute, PrefillChunk, PrefillWithoutTable, PrefillOutOfBlocks,
           PrefillsExecuted, Collect, Collected, SampleGoOn, SampleFinish, SampleRaise, StepEnd,
           Add, AbortRequest, DropAssembler, Reset, vars
  <1>9. TypeOK'
    BY <1>1, <1>2, <1>5, <1>6, <1>7, <1>8 DEF TypeOK, PlanTypes, CacheTypes
  <1>10. QED
    BY <1>1, <1>2, <1>3, <1>4, <1>5, <1>9 DEF IInv

(* The loops of a step get shorter, or budget is spent, or one request     *)
(* less is running.                                                        *)
LEMMA LoopStep ==
  ASSUME IInv, Next, pc' = pc
  PROVE  /\ pc \in {"decodes", "prefills", "execute", "collect"} => Len(todo') < Len(todo)
         /\ pc = "admissions" => \/ budget' < budget
                                 \/ budget' = budget /\ Len(running') < Len(running)
         /\ pc = "sample" => Len(ready') < Len(ready)
  <1>1. todo \in Seq(Requests)
    BY DEF IInv, TypeOK
  <1>2. todo # << >> => Len(Tail(todo)) < Len(todo)
    <2>1. SUFFICES ASSUME todo # << >> PROVE Len(Tail(todo)) < Len(todo)
      OBVIOUS
    <2>2. Len(Tail(todo)) = Len(todo) - 1 /\ Len(todo) \in Nat
      BY <1>1, <2>1, HeadTailFacts
    <2>3. QED
      BY <2>2
  <1>3. CASE DecodeSkip \/ Decode \/ DecodePreempt \/ PrefillPlan \/ PrefillSkip \/ PrefillChunk \/ Collect
    BY <1>2, <1>3 DEF DecodeSkip, Decode, DecodePreempt, DecodeNext, PrefillPlan, PrefillSkip,
                      PrefillChunk, Executing, Collect
  <1>4. CASE Admit
    BY <1>4, PrefillPlans DEF Admit
  <1>5. CASE AdmitPreempt
    <2>1. pc = "admissions" /\ budget' = budget /\ running # << >> /\ Preempt
      BY <1>5 DEF AdmitPreempt
    <2>2. Len(running') = Len(running) - 1 /\ Len(running) \in Nat
      BY <2>1, PreemptFacts
    <2>3. QED
      BY <2>1, <2>2
  <1>6. CASE SampleGoOn \/ SampleFinish
    <2>1. pc = "sample" /\ Sampling /\ ready' = Tail(ready)
      BY <1>6 DEF SampleGoOn, SampleFinish, Sampling
    <2>2. Len(Tail(ready)) = Len(ready) - 1 /\ Len(ready) \in Nat
      BY <2>1, SamplingFacts
    <2>3. QED
      BY <2>1, <2>2
  <1>7. CASE ScheduleBegin \/ DecodesDone \/ PrefillsDone \/ AdmissionsDone \/ PrefillWithoutTable
             \/ PrefillOutOfBlocks \/ PrefillsExecuted \/ Collected \/ SampleRaise \/ StepEnd
    BY <1>7 DEF ScheduleBegin, DecodesDone, PrefillsDone, AdmissionsDone, PrefillWithoutTable,
                PrefillOutOfBlocks, PrefillsExecuted, Collected, SampleRaise, StepEnd, Raise, Return
  <1>8. CASE (\E r \in Requests : (\E n \in PromptLengths : Add(r, n)) \/ AbortRequest(r) \/ DropAssembler(r)) \/ Reset
    BY <1>8 DEF Add, AddRequest, AbortRequest, Abort, DropAssembler, Reset
  <1>9. QED
    BY <1>3, <1>4, <1>5, <1>6, <1>7, <1>8 DEF Next, Step, Plan, Schedule, Execute

(* The inductive invariant holds in every behaviour.                       *)
THEOREM Invariance == Spec => []IInv
  BY InitInvariant, StepInvariant, PTL DEF Spec

(* Type correctness: in particular no counter of blocks, of tokens or of   *)
(* budget ever runs below zero.                                            *)
THEOREM TypeCorrect == Spec => []TypeOK
  <1>1. IInv => TypeOK
    BY DEF IInv
  <1>2. QED
    BY Invariance, <1>1, PTL

(* Preemption and re-admission keep the order of arrival and lose nobody   *)
(* (Scheduler._preempt, schedule, abort, finish).                          *)
THEOREM OrderKept == Spec => []ServedInOrder
  <1>1. IInv => ServedInOrder
    BY DEF IInv
  <1>2. QED
    BY Invariance, <1>1, PTL

(* Block tables exist for the running requests and no others, whichever    *)
(* way a step ends (kv_cache.allocate and free, called by the scheduler).  *)
THEOREM TablesCorrect == Spec => []TablesAreRunning
  <1>1. IInv => TablesAreRunning
    BY DEF IInv
  <1>2. QED
    BY Invariance, <1>1, PTL

(* Preemption overfills the waiting queue by max_running requests at most. *)
THEOREM Bounded == Spec => []QueuesBounded
  <1>1. IInv => QueuesBounded
    BY DEF IInv
  <1>2. QED
    BY Invariance, <1>1, PTL

(* The victim of a preemption in the decode phase was not planned before   *)
(* it, and nobody is planned twice (Scheduler.schedule, phase 1).          *)
THEOREM DecodesKept == Spec => []PlannedDecodesRun
  <1>1. IInv => PlannedDecodesRun
    BY DEF IInv
  <1>2. QED
    BY Invariance, <1>1, PTL

(* A running request's table has a slot for each of its tokens, after      *)
(* chunked prefill, duplicate chunks, preemption and re-admission, unless  *)
(* append_token raised half way.                                           *)
THEOREM CacheCorrect == Spec => []CacheInStep
  <1>1. IInv => CacheInStep
    BY DEF IInv
  <1>2. QED
    BY Invariance, <1>1, PTL

(* Folding the output into the prompt loses and repeats no token.          *)
THEOREM NoTokenLost == Spec => []TokensKept
  <1>1. IInv => TokensKept
    BY DEF IInv
  <1>2. QED
    BY Invariance, <1>1, PTL

(* No block is lost or lent twice, over all tables: the engine never has   *)
(* more blocks out than the pool, whatever a step planned.                 *)
THEOREM PoolAccounted == Spec => []BlocksAccounted
  <1>1. IInv /\ Accounted => BlocksAccounted
    BY PoolSum DEF IInv, TypeOK, Accounted, BlocksAccounted
  <1>2. QED
    BY Invariance, AccountInvariant, <1>1, PTL DEF Spec

(* The loops of schedule() and _step() end, though admission preempts and  *)
(* admits again in the same loop.                                          *)
THEOREM StepsEnd == Spec => LoopsEnd
  <1>1. IInv /\ [Next]_vars =>
          [pc' = pc =>
             /\ pc \in {"decodes", "prefills", "execute", "collect"} => Len(todo') < Len(todo)
             /\ pc = "admissions" => \/ budget' < budget
                                     \/ budget' = budget /\ Len(running') < Len(running)
             /\ pc = "sample" => Len(ready') < Len(ready)]_vars
    BY LoopStep
  <1>2. QED
    BY Invariance, <1>1, PTL DEF Spec, LoopsEnd

(* The loops that drive the engine do nothing but its steps, so that all   *)
(* of the above holds of them: they implement Engine.                      *)
THEOREM LoopsImplementEngine == LoopsInit /\ [][LoopsNext]_loopVars => Spec
  <1>1. LoopsInit => Init
    BY DEF LoopsInit
  <1>2. [LoopsNext]_loopVars => [Next]_vars
    <2>1. ASSUME LoopsNext PROVE Next \/ UNCHANGED vars
      BY <2>1 DEF LoopsNext, StreamBegins, BenchmarkBegins, BenchmarkAdds, BenchmarkLoaded, LoopRuns,
                  LoopSteps, LoopReturns, LoopStops, Interrupt, Loops, Streams, Generate, Next
    <2>2. QED
      BY <2>1 DEF loopVars
  <1>3. QED
    BY <1>1, <1>2, PTL DEF Spec
=============================================================================
