-------------------------- MODULE StandaloneProofs --------------------------
(***************************************************************************)
(* Proofs about components that stand alone.  What a scrape shows of a     *)
(* histogram that is observed meanwhile, for any buckets, any values and   *)
(* any number of threads on either side.  What a configuration says, for   *)
(* any files, variables and options.  Which experts the tokens of a batch  *)
(* get, for any router logits.  Which checkpoints load, and what they      *)
(* hold, for any shapes of a model.  What the client of a stream gets, for *)
(* any tokens and any stop strings.                                        *)
(***************************************************************************)
EXTENDS Metrics, ConfigLoading, ExpertRouting, Checkpoint, StreamAssembly, Sums, SequenceTheorems, TLAPS

-----------------------------------------------------------------------------
(***************************************************************************)
(* Metrics.                                                                *)
(***************************************************************************)
Tallies == [Observable -> Nat]

(* What a bucket of its own gets of a number of observations               *)
Alone(b, observed) ==
  SumFunctionOnSet([v \in Observable |-> IF BucketOf(v) = b THEN observed[v] ELSE 0], Observable)

(* 1 in the bucket of a value, 0 in all others                            *)
One(b, value) == IF BucketOf(value) = b THEN 1 ELSE 0

Placers(v) == {o \in Observers : v \in placing[o]}

Scrapes == [lines : Seq(Nat), sum : Nat \cup {-1}, endedBefore : Tallies, since : [Buckets -> Nat]]

MetricsTypes ==
  /\ counts \in [Buckets -> Nat] /\ total \in Nat /\ count \in Nat
  /\ placing \in [Observers -> SUBSET Observable]
  /\ begun \in Tallies /\ ended \in Tallies
  /\ scrape \in [Scrapers -> SUBSET Scrapes]
  /\ shown \in [lines : [Buckets -> Nat], sum : Nat, count : Nat, endedBefore : Tallies,
                begunAfter : Tallies, since : [Buckets -> Nat]]

(* Every observation that has begun has ended or is held by its thread,    *)
(* one to a thread.                                                        *)
Held ==
  /\ \A o \in Observers : \A v, w \in placing[o] : v = w
  /\ \A v \in Observable : begun[v] = ended[v] + Cardinality(Placers(v))

(* The histogram is what was observed.                                     *)
Tallied ==
  /\ \A b \in Buckets : counts[b] = Alone(b, ended)
  /\ total = Summed(begun) /\ count = Within(Len(Edges) + 1, begun)

(* A scrape under way: its lines lie between what had ended before and now.*)
Underway(r) ==
  /\ Len(r.lines) <= Len(Edges) + 1
  /\ \A v \in Observable : r.endedBefore[v] <= ended[v]
  /\ \A b \in Buckets : r.since[b] <= Within(b, r.endedBefore)
  /\ \A b \in 1..Len(r.lines) :
       Within(b, r.endedBefore) <= r.lines[b] /\ r.lines[b] <= Within(b, ended)
  /\ r.sum # -1 =>
       /\ Len(r.lines) = Len(Edges) + 1
       /\ Summed(r.endedBefore) <= r.sum /\ r.sum <= total

(* The last scrape, and that what comes after it shows no less.            *)
ShownHonest ==
  /\ ScrapesHonest
  /\ \A b \in Buckets : shown.lines[b] <= Within(b, ended)

MetricsInv ==
  /\ MetricsTypes
  /\ Held
  /\ Tallied
  /\ \A s \in Scrapers : \A r \in scrape[s] : Underway(r)
  /\ ShownHonest

LEMMA BucketsCounted ==
  /\ Len(Edges) \in Nat /\ DOMAIN Edges = 1..Len(Edges)
  /\ Buckets = 1..(Len(Edges) + 1) /\ IsFiniteSet(Buckets) /\ Cardinality(Buckets) = Len(Edges) + 1
  <1>1. Len(Edges) \in Nat /\ DOMAIN Edges = 1..Len(Edges)
    BY MetricsAssumption
  <1>2. Buckets = 1..(Len(Edges) + 1)
    BY DEF Buckets
  <1>3. QED
    BY <1>1, <1>2, FS_Interval

LEMMA BucketFound == ASSUME NEW v \in Observable PROVE BucketOf(v) \in Buckets
  <1> DEFINE S == {b \in Buckets : b \in DOMAIN Edges => v <= Edges[b]}
             f == [b \in S |-> b]
  <1>1. IsFiniteSet(S)
    BY BucketsCounted, FS_Subset
  <1>2. Len(Edges) + 1 \in S
    BY BucketsCounted
  <1>3. \A b \in S : f[b] \in Int
    BY BucketsCounted
  <1>4. PICK m \in S : \A b \in S : f[m] <= f[b]
    <2> HIDE DEF f, S
    <2>1. S # {}
      BY <1>2
    <2>2. QED
      BY <1>1, <1>3, <2>1, LeastOf
  <1>5. \A b \in S : m <= b
    BY <1>4
  <1>6. Min(S) \in S
    BY <1>5 DEF Min
  <1>7. QED
    BY <1>6 DEF BucketOf

LEMMA TalliesSum ==
  ASSUME NEW observed \in Tallies, NEW b
  PROVE  Within(b, observed) \in Nat /\ Alone(b, observed) \in Nat /\ Summed(observed) \in Nat
  <1>1. IsFiniteSet(Observable) /\ Observable \subseteq Nat
    BY MetricsAssumption
  <1>2. PICK f : f = [v \in Observable |-> IF BucketOf(v) <= b THEN observed[v] ELSE 0]
    OBVIOUS
  <1>3. PICK g : g = [v \in Observable |-> IF BucketOf(v) = b THEN observed[v] ELSE 0]
    OBVIOUS
  <1>4. PICK h : h = [v \in Observable |-> v * observed[v]]
    OBVIOUS
  <1>5. \A v \in Observable : f[v] \in Nat
    BY <1>2 DEF Tallies
  <1>6. \A v \in Observable : g[v] \in Nat
    BY <1>3 DEF Tallies
  <1>7. \A v \in Observable : h[v] \in Nat
    <2>1. ASSUME NEW v \in Observable PROVE h[v] \in Nat
      <3>1. v \in Nat /\ observed[v] \in Nat /\ h[v] = v * observed[v]
        BY <1>1, <1>4 DEF Tallies
      <3>2. QED
        BY <3>1
    <2>2. QED
      BY <2>1
  <1>8. SumFunctionOnSet(f, Observable) \in Nat
    BY <1>1, <1>5, SumNat
  <1>9. SumFunctionOnSet(g, Observable) \in Nat
    BY <1>1, <1>6, SumNat
  <1>10. SumFunctionOnSet(h, Observable) \in Nat
    BY <1>1, <1>7, SumNat
  <1>11. QED
    BY <1>2, <1>3, <1>4, <1>8, <1>9, <1>10 DEF Within, Alone, Summed

(* What more observations give is no less.                                 *)
LEMMA TalliesMore ==
  ASSUME NEW few \in Tallies, NEW many \in Tallies, \A v \in Observable : few[v] <= many[v], NEW b
  PROVE  /\ Within(b, few) <= Within(b, many) /\ Alone(b, few) <= Alone(b, many)
         /\ Summed(few) <= Summed(many)
  <1>1. IsFiniteSet(Observable) /\ Observable \subseteq Nat
    BY MetricsAssumption
  <1>2. PICK f : f = [v \in Observable |-> IF BucketOf(v) <= b THEN few[v] ELSE 0]
    OBVIOUS
  <1>3. PICK g : g = [v \in Observable |-> IF BucketOf(v) <= b THEN many[v] ELSE 0]
    OBVIOUS
  <1>4. \A v \in Observable : f[v] \in Int /\ g[v] \in Int /\ f[v] <= g[v]
    BY <1>2, <1>3 DEF Tallies
  <1>5. SumFunctionOnSet(f, Observable) <= SumFunctionOnSet(g, Observable)
    BY <1>1, <1>4, SumMore
  <1>6. PICK h : h = [v \in Observable |-> v * few[v]]
    OBVIOUS
  <1>7. PICK k : k = [v \in Observable |-> v * many[v]]
    OBVIOUS
  <1>8. \A v \in Observable : h[v] \in Int /\ k[v] \in Int /\ h[v] <= k[v]
    <2>1. ASSUME NEW v \in Observable PROVE h[v] \in Int /\ k[v] \in Int /\ h[v] <= k[v]
      <3>1. /\ v \in Nat /\ few[v] \in Nat /\ many[v] \in Nat /\ few[v] <= many[v]
            /\ h[v] = v * few[v] /\ k[v] = v * many[v]
        BY <1>1, <1>6, <1>7 DEF Tallies
      <3>2. \A x, y, z \in Nat : y <= z => x * y <= x * z
        OBVIOUS
      <3>3. v * few[v] <= v * many[v]
        BY <3>1, <3>2
      <3>4. QED
        BY <3>1, <3>3
    <2>2. QED
      BY <2>1
  <1>9. SumFunctionOnSet(h, Observable) <= SumFunctionOnSet(k, Observable)
    BY <1>1, <1>8, SumMore
  <1>10. PICK i : i = [v \in Observable |-> IF BucketOf(v) = b THEN few[v] ELSE 0]
    OBVIOUS
  <1>11. PICK j : j = [v \in Observable |-> IF BucketOf(v) = b THEN many[v] ELSE 0]
    OBVIOUS
  <1>12. \A v \in Observable : i[v] \in Int /\ j[v] \in Int /\ i[v] <= j[v]
    BY <1>10, <1>11 DEF Tallies
  <1>13. SumFunctionOnSet(i, Observable) <= SumFunctionOnSet(j, Observable)
    BY <1>1, <1>12, SumMore
  <1>14. QED
    BY <1>2, <1>3, <1>5, <1>6, <1>7, <1>9, <1>10, <1>11, <1>13 DEF Within, Alone, Summed

(* One bucket more                                                         *)
LEMMA WithinNext ==
  ASSUME NEW observed \in Tallies, NEW b \in Buckets
  PROVE  Within(b, observed) = (IF b = 1 THEN 0 ELSE Within(b - 1, observed)) + Alone(b, observed)
  <1>1. IsFiniteSet(Observable) /\ b \in Nat
    BY MetricsAssumption, BucketsCounted
  <1>2. PICK f : f = [v \in Observable |-> IF BucketOf(v) <= b THEN observed[v] ELSE 0]
    OBVIOUS
  <1>3. PICK g : g = [v \in Observable |-> IF BucketOf(v) <= b - 1 THEN observed[v] ELSE 0]
    OBVIOUS
  <1>4. PICK h : h = [v \in Observable |-> IF BucketOf(v) = b THEN observed[v] ELSE 0]
    OBVIOUS
  <1>5. \A v \in Observable : g[v] \in Int /\ h[v] \in Int /\ f[v] = g[v] + h[v]
    <2>1. ASSUME NEW v \in Observable PROVE g[v] \in Int /\ h[v] \in Int /\ f[v] = g[v] + h[v]
      <3>1. PICK c \in Nat : c = BucketOf(v)
        BY BucketFound, BucketsCounted
      <3>2. PICK n \in Nat : n = observed[v]
        BY DEF Tallies
      <3>3. /\ f[v] = IF c <= b THEN n ELSE 0
            /\ g[v] = IF c <= b - 1 THEN n ELSE 0
            /\ h[v] = IF c = b THEN n ELSE 0
        BY <1>2, <1>3, <1>4, <3>1, <3>2
      <3>4. QED
        BY <1>1, <3>3
    <2>2. QED
      BY <2>1
  <1>6. SumFunctionOnSet(f, Observable) = SumFunctionOnSet(g, Observable) + SumFunctionOnSet(h, Observable)
    BY <1>1, <1>5, SumBoth
  <1>7. Within(b, observed) = Within(b - 1, observed) + Alone(b, observed)
    BY <1>2, <1>3, <1>4, <1>6 DEF Within, Alone
  <1>8. ASSUME b = 1 PROVE Within(b - 1, observed) = 0
    <2>1. \A v \in Observable : g[v] = 0
      BY <1>3, <1>8, BucketFound, BucketsCounted
    <2>2. DOMAIN g = Observable
      BY <1>3
    <2>3. SumFunction(g) = 0
      BY <1>1, <2>1, <2>2, TotalOfZeros
    <2>4. QED
      BY <1>3, <2>2, <2>3 DEF SumFunction, Within
  <1>9. QED
    BY <1>7, <1>8

(* One observation more                                                    *)
LEMMA OneMore ==
  ASSUME NEW few \in Tallies, NEW v \in Observable, NEW many, many = [few EXCEPT ![v] = @ + 1]
  PROVE  /\ many \in Tallies
         /\ \A x \in Observable : few[x] <= many[x]
         /\ \A b \in Buckets : Alone(b, many) = Alone(b, few) + One(b, v)
         /\ Within(Len(Edges) + 1, many) = Within(Len(Edges) + 1, few) + 1
         /\ Summed(many) = Summed(few) + v
  <1>1. IsFiniteSet(Observable) /\ Observable \subseteq Nat
    BY MetricsAssumption
  <1>2. /\ many \in Tallies /\ \A x \in Observable : few[x] \in Nat
        /\ many[v] = few[v] + 1 /\ \A x \in Observable \ {v} : many[x] = few[x]
    BY DEF Tallies
  <1>3. \A x \in Observable : few[x] <= many[x]
    BY <1>2
  <1>4. ASSUME NEW b \in Buckets PROVE Alone(b, many) = Alone(b, few) + One(b, v)
    <2>1. PICK f : f = [x \in Observable |-> IF BucketOf(x) = b THEN few[x] ELSE 0]
      OBVIOUS
    <2>2. PICK g : g = [x \in Observable |-> IF BucketOf(x) = b THEN many[x] ELSE 0]
      OBVIOUS
    <2>3. PICK d \in Int : d = IF BucketOf(v) = b THEN 1 ELSE 0
      OBVIOUS
    <2>4. \A x \in Observable : f[x] \in Int
      BY <1>2, <2>1
    <2>5. g[v] = f[v] + d
      BY <1>2, <2>1, <2>2, <2>3
    <2>6. \A x \in Observable \ {v} : g[x] = f[x]
      BY <1>2, <2>1, <2>2
    <2>7. SumFunctionOnSet(g, Observable) = SumFunctionOnSet(f, Observable) + d
      BY <1>1, <2>4, <2>5, <2>6, SumUp
    <2>8. QED
      BY <2>1, <2>2, <2>3, <2>7 DEF Alone, One
  <1>5. Within(Len(Edges) + 1, many) = Within(Len(Edges) + 1, few) + 1
    <2>1. PICK b : b = Len(Edges) + 1
      OBVIOUS
    <2>2. \A x \in Observable : BucketOf(x) <= b
      BY <2>1, BucketFound, BucketsCounted
    <2>3. PICK f : f = [x \in Observable |-> IF BucketOf(x) <= b THEN few[x] ELSE 0]
      OBVIOUS
    <2>4. PICK g : g = [x \in Observable |-> IF BucketOf(x) <= b THEN many[x] ELSE 0]
      OBVIOUS
    <2>5. \A x \in Observable : f[x] \in Int
      BY <1>2, <2>3
    <2>6. g[v] = f[v] + 1
      BY <1>2, <2>2, <2>3, <2>4
    <2>7. \A x \in Observable \ {v} : g[x] = f[x]
      BY <1>2, <2>3, <2>4
    <2>8. SumFunctionOnSet(g, Observable) = SumFunctionOnSet(f, Observable) + 1
      <3>1. PICK d \in Int : d = 1
        OBVIOUS
      <3>2. g[v] = f[v] + d
        BY <2>6, <3>1
      <3>3. SumFunctionOnSet(g, Observable) = SumFunctionOnSet(f, Observable) + d
        BY <1>1, <2>5, <2>7, <3>2, SumUp
      <3>4. QED
        BY <3>1, <3>3
    <2>9. QED
      BY <2>1, <2>3, <2>4, <2>8 DEF Within
  <1>6. Summed(many) = Summed(few) + v
    <2>1. PICK f : f = [x \in Observable |-> x * few[x]]
      OBVIOUS
    <2>2. PICK g : g = [x \in Observable |-> x * many[x]]
      OBVIOUS
    <2>3. \A x \in Observable : f[x] \in Int
      <3>1. ASSUME NEW x \in Observable PROVE f[x] \in Int
        <4>1. x \in Int /\ few[x] \in Int /\ f[x] = x * few[x]
          BY <1>1, <1>2, <2>1
        <4>2. QED
          BY <4>1
      <3>2. QED
        BY <3>1
    <2>4. g[v] = f[v] + v
      <3>1. v \in Int /\ few[v] \in Int /\ f[v] = v * few[v] /\ g[v] = v * (few[v] + 1)
        BY <1>1, <1>2, <2>1, <2>2
      <3>2. \A x, y \in Int : x * (y + 1) = x * y + x
        OBVIOUS
      <3>3. v * (few[v] + 1) = v * few[v] + v
        BY <3>1, <3>2
      <3>4. QED
        BY <3>1, <3>3
    <2>5. v \in Int /\ \A x \in Observable \ {v} : g[x] = f[x]
      BY <1>1, <1>2, <2>1, <2>2
    <2>6. SumFunctionOnSet(g, Observable) = SumFunctionOnSet(f, Observable) + v
      BY <1>1, <2>3, <2>4, <2>5, SumUp
    <2>7. QED
      BY <2>1, <2>2, <2>6 DEF Summed
  <1>7. QED
    BY <1>2, <1>3, <1>4, <1>5, <1>6

-----------------------------------------------------------------------------
LEMMA MetricsBegins == MetricsInit => MetricsInv
  <1>1. SUFFICES ASSUME MetricsInit PROVE MetricsInv
    OBVIOUS
  <1>2. PICK none : none = [v \in Observable |-> 0]
    OBVIOUS
  <1>3. none \in Tallies /\ begun = none /\ ended = none
    BY <1>1, <1>2 DEF MetricsInit, Tallies
  <1>4. MetricsTypes
    BY <1>1, <1>3 DEF MetricsInit, MetricsTypes
  <1>5. Held
    <2>1. \A v \in Observable : Placers(v) = {}
      BY <1>1 DEF MetricsInit, Placers
    <2>2. \A v \in Observable : Cardinality(Placers(v)) = 0
      BY <2>1, FS_EmptySet
    <2>3. QED
      BY <1>1, <1>2, <1>3, <2>2 DEF MetricsInit, Held
  <1>6. \A b : Within(b, none) = 0 /\ Alone(b, none) = 0 /\ Summed(none) = 0
    <2>1. ASSUME NEW f, DOMAIN f = Observable, \A v \in Observable : f[v] = 0
          PROVE  SumFunctionOnSet(f, Observable) = 0
      BY <2>1, MetricsAssumption, TotalOfZeros DEF SumFunction
    <2>2. SUFFICES ASSUME NEW b PROVE Within(b, none) = 0 /\ Alone(b, none) = 0 /\ Summed(none) = 0
      OBVIOUS
    <2>3. PICK f : f = [v \in Observable |-> IF BucketOf(v) <= b THEN none[v] ELSE 0]
      OBVIOUS
    <2>4. PICK g : g = [v \in Observable |-> IF BucketOf(v) = b THEN none[v] ELSE 0]
      OBVIOUS
    <2>5. PICK h : h = [v \in Observable |-> v * none[v]]
      OBVIOUS
    <2>6. \A v \in Observable : f[v] = 0 /\ g[v] = 0 /\ h[v] = 0
      <3>1. ASSUME NEW v \in Observable PROVE f[v] = 0 /\ g[v] = 0 /\ h[v] = 0
        <4>1. v \in Nat /\ none[v] = 0
          BY <1>2, MetricsAssumption
        <4>2. v * 0 = 0
          BY <4>1
        <4>3. QED
          BY <2>3, <2>4, <2>5, <4>1, <4>2
      <3>2. QED
        BY <3>1
    <2>7. /\ SumFunctionOnSet(f, Observable) = 0 /\ SumFunctionOnSet(g, Observable) = 0
          /\ SumFunctionOnSet(h, Observable) = 0
      BY <2>1, <2>3, <2>4, <2>5, <2>6
    <2>8. QED
      BY <2>3, <2>4, <2>5, <2>7 DEF Within, Alone, Summed
  <1>7. Tallied
    BY <1>1, <1>3, <1>6 DEF MetricsInit, Tallied
  <1>8. \A s \in Scrapers : \A r \in scrape[s] : Underway(r)
    BY <1>1 DEF MetricsInit
  <1>9. ShownHonest
    <2>1. /\ shown.endedBefore = none /\ shown.begunAfter = none /\ shown.sum = 0 /\ shown.count = 0
          /\ \A b \in Buckets : shown.lines[b] = 0 /\ shown.since[b] = 0
      BY <1>1, <1>3 DEF MetricsInit
    <2>2. Cardinality(Buckets) \in Buckets
      BY BucketsCounted
    <2>3. ScrapesHonest
      BY <1>6, <2>1, <2>2 DEF ScrapesHonest
    <2>4. QED
      BY <1>3, <1>6, <2>1, <2>3 DEF ShownHonest
  <1>10. QED
    BY <1>4, <1>5, <1>7, <1>8, <1>9 DEF MetricsInv

(* What has only grown hurts no scrape.                                    *)
LEMMA ScrapesGrowOn ==
  ASSUME MetricsInv, ended' \in Tallies, \A v \in Observable : ended[v] <= ended'[v],
         total' \in Nat, total <= total'
  PROVE  /\ \A s \in Scrapers : \A r \in scrape[s] : Underway(r)'
         /\ shown' = shown => ShownHonest'
  <1>1. PICK more \in Tallies : more = ended'
    OBVIOUS
  <1>2. ended \in Tallies /\ total \in Nat
    BY DEF MetricsInv, MetricsTypes
  <1>3. \A b : Within(b, ended) <= Within(b, more) /\ Within(b, ended) \in Nat /\ Within(b, more) \in Nat
    BY <1>1, <1>2, TalliesMore, TalliesSum
  <1>4. ASSUME NEW s \in Scrapers, NEW r \in scrape[s] PROVE Underway(r)'
    <2>1. r \in Scrapes /\ Underway(r)
      BY DEF MetricsInv, MetricsTypes
    <2>2. r.lines \in Seq(Nat) /\ r.sum \in Int /\ r.endedBefore \in Tallies
      BY <2>1 DEF Scrapes
    <2>3. \A v \in Observable : r.endedBefore[v] <= more[v]
      <3>1. \A v \in Observable : r.endedBefore[v] \in Nat /\ ended[v] \in Nat /\ more[v] \in Nat
        BY <1>1, <1>2, <2>2 DEF Tallies
      <3>2. QED
        BY <1>1, <2>1, <3>1 DEF Underway
    <2>4. \A b \in 1..Len(r.lines) :
            Within(b, r.endedBefore) <= r.lines[b] /\ r.lines[b] <= Within(b, more)
      <3>1. ASSUME NEW b \in 1..Len(r.lines)
            PROVE  Within(b, r.endedBefore) <= r.lines[b] /\ r.lines[b] <= Within(b, more)
        <4>1. r.lines[b] \in Nat
          BY <2>2
        <4>2. Within(b, r.endedBefore) <= r.lines[b] /\ r.lines[b] <= Within(b, ended)
          BY <2>1 DEF Underway
        <4>3. QED
          BY <1>3, <4>1, <4>2
      <3>2. QED
        BY <3>1
    <2>5. Summed(r.endedBefore) \in Nat
      BY <2>2, TalliesSum
    <2>6. r.sum # -1 =>
            Len(r.lines) = Len(Edges) + 1 /\ Summed(r.endedBefore) <= r.sum /\ r.sum <= total'
      BY <1>2, <2>1, <2>2, <2>5 DEF Underway
    <2>7. QED
      BY <1>1, <2>1, <2>3, <2>4, <2>6 DEF Underway, Within, Summed, BucketOf, Buckets
  <1>5. ASSUME shown' = shown PROVE ShownHonest'
    <2>1. ShownHonest /\ shown.lines \in [Buckets -> Nat]
      BY DEF MetricsInv, MetricsTypes
    <2>2. \A b \in Buckets : shown.lines[b] <= Within(b, more)
      BY <1>3, <2>1 DEF ShownHonest
    <2>3. ScrapesHonest'
      BY <1>5, <2>1 DEF ShownHonest, ScrapesHonest, Within, Summed, BucketOf, Buckets
    <2>4. QED
      BY <1>1, <1>5, <2>2, <2>3 DEF ShownHonest, Within, BucketOf, Buckets
  <1>6. QED
    BY <1>4, <1>5

LEMMA PlacersFinite == ASSUME NEW v PROVE IsFiniteSet(Placers(v)) /\ Cardinality(Placers(v)) \in Nat
  <1>1. IsFiniteSet(Placers(v))
    BY MetricsAssumption, FS_Subset DEF Placers
  <1>2. QED
    BY <1>1, FS_CardinalityType

LEMMA EndedBegun == MetricsInv => \A v \in Observable : ended[v] <= begun[v]
  <1>1. SUFFICES ASSUME MetricsInv, NEW v \in Observable PROVE ended[v] <= begun[v]
    OBVIOUS
  <1>2. ended[v] \in Nat /\ begun[v] \in Nat /\ begun[v] = ended[v] + Cardinality(Placers(v))
    BY <1>1 DEF MetricsInv, MetricsTypes, Held, Tallies
  <1>3. PICK n \in Nat : n = Cardinality(Placers(v))
    BY PlacersFinite
  <1>4. QED
    BY <1>2, <1>3

LEMMA ObserveKeeps ==
  ASSUME MetricsInv, NEW o \in Observers, NEW value \in Observable, Observe(o, value)
  PROVE  MetricsInv'
  <1>1. /\ MetricsTypes /\ Held /\ Tallied
        /\ placing[o] = {} /\ placing' = [placing EXCEPT ![o] = {value}]
        /\ total' = total + value /\ count' = count + 1
        /\ begun' = [begun EXCEPT ![value] = @ + 1]
        /\ counts' = counts /\ ended' = ended /\ scrape' = scrape /\ shown' = shown
    BY DEF MetricsInv, Observe
  <1>2. value \in Nat /\ begun \in Tallies /\ ended \in Tallies /\ total \in Nat /\ count \in Nat
    BY <1>1, MetricsAssumption DEF MetricsTypes
  <1>3. PICK more : more = begun'
    OBVIOUS
  <1>4. /\ more \in Tallies
        /\ Within(Len(Edges) + 1, more) = Within(Len(Edges) + 1, begun) + 1
        /\ Summed(more) = Summed(begun) + value
    <2>1. PICK few \in Tallies : few = begun
      BY <1>2
    <2>2. more = [few EXCEPT ![value] = @ + 1]
      BY <1>1, <1>3, <2>1
    <2>3. QED
      BY <2>1, <2>2, OneMore
  <1>5. MetricsTypes'
    <2>1. placing' \in [Observers -> SUBSET Observable]
      BY <1>1 DEF MetricsTypes
    <2>2. total' \in Nat /\ count' \in Nat /\ begun' \in Tallies
      BY <1>1, <1>2, <1>3, <1>4
    <2>3. QED
      BY <1>1, <2>1, <2>2 DEF MetricsTypes, Scrapes, Tallies, Buckets
  <1>6. Held'
    <2>1. \A q \in Observers : \A v, w \in placing'[q] : v = w
      BY <1>1 DEF Held, MetricsTypes
    <2>2. ASSUME NEW v \in Observable PROVE begun'[v] = ended'[v] + Cardinality(Placers(v)')
      <3>1. begun[v] \in Nat /\ ended[v] \in Nat /\ begun[v] = ended[v] + Cardinality(Placers(v))
        BY <1>1, <1>2 DEF Held, Tallies
      <3>2. PICK n \in Nat : n = Cardinality(Placers(v))
        BY PlacersFinite
      <3>3. CASE v = value
        <4>1. Placers(v)' = Placers(v) \cup {o} /\ o \notin Placers(v)
          BY <1>1, <3>3 DEF Placers, MetricsTypes
        <4>2. Cardinality(Placers(v)') = n + 1
          BY <3>2, <4>1, PlacersFinite, FS_AddElement
        <4>3. begun'[v] = begun[v] + 1
          BY <1>1, <1>2, <3>3 DEF Tallies
        <4>4. QED
          BY <1>1, <3>1, <3>2, <4>2, <4>3
      <3>4. CASE v # value
        <4>1. Placers(v)' = Placers(v)
          BY <1>1, <3>4 DEF Placers, MetricsTypes
        <4>2. begun'[v] = begun[v]
          BY <1>1, <1>2, <3>4 DEF Tallies
        <4>3. QED
          BY <1>1, <3>1, <4>1, <4>2
      <3>5. QED
        BY <3>3, <3>4
    <2>3. QED
      BY <2>1, <2>2 DEF Held
  <1>7. Tallied'
    BY <1>1, <1>3, <1>4 DEF Tallied, Alone, Within, Summed, BucketOf, Buckets
  <1>8. /\ ended' \in Tallies /\ total' \in Nat /\ total <= total'
        /\ \A v \in Observable : ended[v] <= ended'[v]
    BY <1>1, <1>2 DEF Tallies
  <1>9. (\A s \in Scrapers : \A r \in scrape[s] : Underway(r)') /\ ShownHonest'
    BY <1>1, <1>8, ScrapesGrowOn
  <1>10. QED
    BY <1>1, <1>5, <1>6, <1>7, <1>9 DEF MetricsInv

LEMMA PlaceKeeps ==
  ASSUME MetricsInv, NEW o \in Observers, NEW value \in placing[o], Place(o, value)
  PROVE  MetricsInv'
  <1>1. /\ MetricsTypes /\ Held /\ Tallied
        /\ placing' = [placing EXCEPT ![o] = {}]
        /\ counts' = [counts EXCEPT ![BucketOf(value)] = @ + 1]
        /\ ended' = [ended EXCEPT ![value] = @ + 1]
        /\ total' = total /\ count' = count /\ begun' = begun /\ scrape' = scrape /\ shown' = shown
    BY DEF MetricsInv, Place, Placed
  <1>2. /\ value \in Observable /\ begun \in Tallies /\ ended \in Tallies /\ total \in Nat
        /\ BucketOf(value) \in Buckets
    BY <1>1, BucketFound DEF MetricsTypes
  <1>3. PICK more : more = ended'
    OBVIOUS
  <1>4. /\ more \in Tallies
        /\ \A x \in Observable : ended[x] <= more[x]
        /\ \A b \in Buckets : Alone(b, more) = Alone(b, ended) + One(b, value)
    <2>1. PICK few \in Tallies : few = ended
      BY <1>2
    <2>2. PICK v \in Observable : v = value
      BY <1>2
    <2>3. more = [few EXCEPT ![v] = @ + 1]
      BY <1>1, <1>3, <2>1, <2>2
    <2>4. more \in Tallies /\ \A x \in Observable : few[x] <= more[x]
      BY <2>3 DEF Tallies
    <2>5. \A b \in Buckets : Alone(b, more) = Alone(b, few) + One(b, v)
      BY <2>3, OneMore
    <2>6. QED
      BY <2>1, <2>2, <2>4, <2>5
  <1>5. counts' \in [Buckets -> Nat]
    BY <1>1, <1>2 DEF MetricsTypes
  <1>6. MetricsTypes'
    BY <1>1, <1>2, <1>3, <1>4, <1>5 DEF MetricsTypes, Scrapes, Tallies, Buckets
  <1>7. Held'
    <2>1. \A q \in Observers : \A v, w \in placing'[q] : v = w
      BY <1>1 DEF Held, MetricsTypes
    <2>2. ASSUME NEW v \in Observable PROVE begun'[v] = ended'[v] + Cardinality(Placers(v)')
      <3>1. begun[v] \in Nat /\ ended[v] \in Nat /\ begun[v] = ended[v] + Cardinality(Placers(v))
        BY <1>1, <1>2 DEF Held, Tallies
      <3>2. PICK n \in Nat : n = Cardinality(Placers(v))
        BY PlacersFinite
      <3>3. CASE v = value
        <4>1. Placers(v)' = Placers(v) \ {o} /\ o \in Placers(v)
          BY <1>1, <3>3 DEF Placers, MetricsTypes
        <4>2. Cardinality(Placers(v)') = n - 1
          BY <3>2, <4>1, PlacersFinite, FS_RemoveElement
        <4>3. ended'[v] = ended[v] + 1
          BY <1>1, <1>2, <3>3 DEF Tallies
        <4>4. QED
          BY <1>1, <3>1, <3>2, <4>2, <4>3
      <3>4. CASE v # value
        <4>1. v \notin placing[o]
          BY <1>1, <3>4 DEF Held
        <4>2. Placers(v)' = Placers(v)
          BY <1>1, <4>1 DEF Placers, MetricsTypes
        <4>3. ended'[v] = ended[v]
          BY <1>1, <1>2, <3>4 DEF Tallies
        <4>4. QED
          BY <1>1, <3>1, <4>2, <4>3
      <3>5. QED
        BY <3>3, <3>4
    <2>3. QED
      BY <2>1, <2>2 DEF Held
  <1>8. Tallied'
    <2>1. ASSUME NEW b \in Buckets PROVE counts'[b] = Alone(b, more)
      <3>1. counts[b] = Alone(b, ended) /\ counts[b] \in Nat
        BY <1>1 DEF Tallied, MetricsTypes
      <3>2. counts'[b] = counts[b] + One(b, value)
        BY <1>1, <1>2, <3>1 DEF MetricsTypes, One
      <3>3. QED
        BY <1>4, <3>1, <3>2
    <2>2. QED
      BY <1>1, <1>3, <2>1 DEF Tallied, Alone, Within, Summed, BucketOf, Buckets
  <1>9. /\ ended' \in Tallies /\ total' \in Nat /\ total <= total'
        /\ \A v \in Observable : ended[v] <= ended'[v]
    BY <1>1, <1>2, <1>3, <1>4
  <1>10. (\A s \in Scrapers : \A r \in scrape[s] : Underway(r)') /\ ShownHonest'
    BY <1>1, <1>9, ScrapesGrowOn
  <1>11. QED
    BY <1>1, <1>6, <1>7, <1>8, <1>10 DEF MetricsInv

(* A scrape that reads what has been observed stays within it.             *)
LEMMA ScrapeGoesOn ==
  ASSUME MetricsInv, NEW s \in Scrapers, NEW next \in Scrapes, Underway(next),
         scrape' = [scrape EXCEPT ![s] = {next}],
         UNCHANGED <<counts, total, count, placing, begun, ended, shown>>
  PROVE  MetricsInv'
  <1>1. MetricsTypes'
    <2>1. scrape' \in [Scrapers -> SUBSET Scrapes]
      BY DEF MetricsInv, MetricsTypes
    <2>2. QED
      BY <2>1 DEF MetricsInv, MetricsTypes, Scrapes, Tallies, Buckets
  <1>2. Held' /\ Tallied'
    BY DEF MetricsInv, Held, Placers, Tallied, Alone, Within, Summed, BucketOf, Buckets
  <1>3. ShownHonest'
    BY DEF MetricsInv, ShownHonest, ScrapesHonest, Within, Summed, BucketOf, Buckets
  <1>4. ASSUME NEW q \in Scrapers, NEW r \in scrape'[q] PROVE Underway(r)'
    <2>1. Underway(r)
      <3>1. CASE q = s
        BY <3>1 DEF MetricsInv, MetricsTypes
      <3>2. CASE q # s
        BY <3>2 DEF MetricsInv, MetricsTypes
      <3>3. QED
        BY <3>1, <3>2
    <2>2. QED
      BY <2>1 DEF Underway, Within, Summed, BucketOf, Buckets
  <1>5. QED
    BY <1>1, <1>2, <1>3, <1>4 DEF MetricsInv

LEMMA BeginScrapeKeeps ==
  ASSUME MetricsInv, NEW s \in Scrapers, BeginScrape(s)
  PROVE  MetricsInv'
  <1>1. PICK r : r = [lines |-> <<>>, sum |-> -1, endedBefore |-> ended, since |-> shown.lines]
    OBVIOUS
  <1>2. r \in Scrapes
    <2>1. ended \in Tallies /\ shown.lines \in [Buckets -> Nat] /\ <<>> \in Seq(Nat)
      BY DEF MetricsInv, MetricsTypes
    <2>2. QED
      BY <1>1, <2>1 DEF Scrapes
  <1>3. Underway(r)
    <2>1. /\ r.lines = <<>> /\ r.sum = -1 /\ r.endedBefore = ended /\ r.since = shown.lines
          /\ \A v \in Observable : ended[v] \in Nat
      BY <1>1 DEF MetricsInv, MetricsTypes, Tallies
    <2>2. Len(<<>>) = 0 /\ Len(r.lines) <= Len(Edges) + 1
      BY <2>1, BucketsCounted
    <2>3. \A v \in Observable : r.endedBefore[v] <= ended[v]
      BY <2>1
    <2>4. \A b \in Buckets : r.since[b] <= Within(b, r.endedBefore)
      BY <2>1 DEF MetricsInv, ShownHonest
    <2>5. QED
      BY <2>1, <2>2, <2>3, <2>4 DEF Underway
  <1>4. QED
    BY <1>1, <1>2, <1>3, ScrapeGoesOn DEF BeginScrape

LEMMA RenderBucketKeeps ==
  ASSUME MetricsInv, NEW s \in Scrapers, NEW r \in scrape[s], RenderBucket(s, r)
  PROVE  MetricsInv'
  <1>1. r \in Scrapes /\ Underway(r) /\ ended \in Tallies
    BY DEF MetricsInv, MetricsTypes
  <1>2. PICK b : b = Len(r.lines) + 1
    OBVIOUS
  <1>3. PICK line : line = (IF b = 1 THEN 0 ELSE r.lines[b - 1]) + counts[b]
    OBVIOUS
  <1>4. PICK next : next = [r EXCEPT !.lines = Append(@, line)]
    OBVIOUS
  <1>5. /\ b \in Buckets /\ scrape' = [scrape EXCEPT ![s] = {next}]
        /\ UNCHANGED <<counts, total, count, placing, begun, ended, shown>>
    BY <1>2, <1>3, <1>4 DEF RenderBucket
  <1>6. /\ r.lines \in Seq(Nat) /\ Len(r.lines) \in Nat /\ b \in Nat /\ r.endedBefore \in Tallies
        /\ b <= Len(Edges) + 1 /\ \A i \in 1..Len(r.lines) : r.lines[i] \in Nat
    BY <1>1, <1>2, <1>5, BucketsCounted DEF Scrapes
  <1>7. PICK c \in Nat : c = counts[b]
    BY <1>5 DEF MetricsInv, MetricsTypes
  <1>8. c = Alone(b, ended)
    BY <1>5, <1>7 DEF MetricsInv, Tallied
  <1>9. \A v \in Observable : r.endedBefore[v] <= ended[v]
    BY <1>1 DEF Underway
  <1>10. PICK a \in Nat : a = Alone(b, r.endedBefore)
    BY <1>6, TalliesSum
  <1>11. a <= c
    BY <1>1, <1>6, <1>8, <1>9, <1>10, TalliesMore
  <1>12. line \in Nat /\ Within(b, r.endedBefore) <= line /\ line <= Within(b, ended)
    <2>1. CASE b = 1
      <3>1. Within(b, ended) = 0 + c /\ Within(b, r.endedBefore) = 0 + a
        BY <1>1, <1>5, <1>6, <1>8, <1>10, <2>1, WithinNext
      <3>2. line = 0 + c
        BY <1>3, <1>7, <2>1
      <3>3. QED
        BY <1>11, <3>1, <3>2
    <2>2. CASE b # 1
      <3>1. b - 1 \in 1..Len(r.lines)
        BY <1>2, <1>6, <2>2
      <3>2. PICK l \in Nat : l = r.lines[b - 1]
        BY <1>6, <3>1
      <3>3. PICK m \in Nat : m = Within(b - 1, ended)
        BY <1>1, TalliesSum
      <3>4. PICK k \in Nat : k = Within(b - 1, r.endedBefore)
        BY <1>6, TalliesSum
      <3>5. k <= l /\ l <= m
        BY <1>1, <3>1, <3>2, <3>3, <3>4 DEF Underway
      <3>6. Within(b, ended) = m + c /\ Within(b, r.endedBefore) = k + a
        BY <1>1, <1>5, <1>6, <1>8, <1>10, <2>2, <3>3, <3>4, WithinNext
      <3>7. line = l + c
        BY <1>3, <1>7, <2>2, <3>2
      <3>8. QED
        BY <1>11, <3>5, <3>6, <3>7
    <2>3. QED
      BY <2>1, <2>2
  <1>13. /\ next \in Scrapes /\ next.lines = Append(r.lines, line) /\ next.sum = r.sum
         /\ next.endedBefore = r.endedBefore /\ next.since = r.since
    <2>1. Append(r.lines, line) \in Seq(Nat)
      BY <1>6, <1>12
    <2>2. QED
      BY <1>1, <1>4, <2>1 DEF Scrapes
  <1>14. Len(next.lines) = b /\ next.lines[b] = line /\ \A i \in 1..Len(r.lines) : next.lines[i] = r.lines[i]
    BY <1>2, <1>6, <1>12, <1>13
  <1>15. r.sum = -1
    BY <1>1, <1>2, <1>6 DEF Underway
  <1>16. Underway(next)
    <2>1. ASSUME NEW i \in 1..Len(next.lines)
          PROVE  Within(i, next.endedBefore) <= next.lines[i] /\ next.lines[i] <= Within(i, ended)
      <3>1. CASE i = b
        BY <1>12, <1>13, <1>14, <3>1
      <3>2. CASE i # b
        <4>1. i \in 1..Len(r.lines)
          BY <1>2, <1>6, <1>14, <3>2
        <4>2. QED
          BY <1>1, <1>13, <1>14, <4>1 DEF Underway
      <3>3. QED
        BY <3>1, <3>2
    <2>2. QED
      BY <1>1, <1>6, <1>13, <1>14, <1>15, <2>1 DEF Underway
  <1>17. QED
    BY <1>5, <1>13, <1>16, ScrapeGoesOn

LEMMA RenderSumKeeps ==
  ASSUME MetricsInv, NEW s \in Scrapers, NEW r \in scrape[s], RenderSum(s, r)
  PROVE  MetricsInv'
  <1>1. r \in Scrapes /\ Underway(r) /\ ended \in Tallies /\ begun \in Tallies /\ total \in Nat
    BY DEF MetricsInv, MetricsTypes
  <1>2. PICK next : next = [r EXCEPT !.sum = total]
    OBVIOUS
  <1>3. /\ scrape' = [scrape EXCEPT ![s] = {next}] /\ Len(r.lines) = Len(Edges) + 1
        /\ UNCHANGED <<counts, total, count, placing, begun, ended, shown>>
    BY <1>2, BucketsCounted DEF RenderSum
  <1>4. /\ next \in Scrapes /\ next.lines = r.lines /\ next.sum = total
        /\ next.endedBefore = r.endedBefore /\ next.since = r.since
    BY <1>1, <1>2 DEF Scrapes
  <1>5. r.endedBefore \in Tallies /\ \A v \in Observable : r.endedBefore[v] <= ended[v]
    BY <1>1 DEF Underway, Scrapes
  <1>6. \A v \in Observable : ended[v] <= begun[v]
    BY EndedBegun
  <1>7. PICK a \in Nat : a = Summed(r.endedBefore)
    BY <1>5, TalliesSum
  <1>8. PICK b \in Nat : b = Summed(ended)
    BY <1>1, TalliesSum
  <1>9. PICK c \in Nat : c = Summed(begun)
    BY <1>1, TalliesSum
  <1>10. a <= b /\ b <= c
    BY <1>1, <1>5, <1>6, <1>7, <1>8, <1>9, TalliesMore
  <1>11. total = c
    BY <1>9 DEF MetricsInv, Tallied
  <1>12. Summed(next.endedBefore) <= total /\ total <= total
    BY <1>4, <1>7, <1>10, <1>11
  <1>13. Underway(next)
    BY <1>1, <1>3, <1>4, <1>12 DEF Underway
  <1>14. QED
    BY <1>3, <1>4, <1>13, ScrapeGoesOn

LEMMA RenderCountKeeps ==
  ASSUME MetricsInv, NEW s \in Scrapers, NEW r \in scrape[s], RenderCount(s, r)
  PROVE  MetricsInv'
  <1>1. /\ r \in Scrapes /\ Underway(r) /\ ended \in Tallies /\ begun \in Tallies
        /\ total \in Nat /\ count \in Nat
    BY DEF MetricsInv, MetricsTypes
  <1>2. PICK page : page = [lines |-> r.lines, sum |-> r.sum, count |-> count,
                            endedBefore |-> r.endedBefore, begunAfter |-> begun, since |-> r.since]
    OBVIOUS
  <1>3. /\ r.sum # -1 /\ shown' = page /\ scrape' = [scrape EXCEPT ![s] = {}]
        /\ UNCHANGED <<counts, total, count, placing, begun, ended>>
    BY <1>2 DEF RenderCount
  <1>4. /\ r.lines \in Seq(Nat) /\ r.sum \in Nat /\ r.endedBefore \in Tallies /\ r.since \in [Buckets -> Nat]
        /\ Len(r.lines) = Len(Edges) + 1 /\ Summed(r.endedBefore) <= r.sum /\ r.sum <= total
        /\ \A v \in Observable : r.endedBefore[v] <= ended[v]
    BY <1>1, <1>3 DEF Scrapes, Underway
  <1>5. r.lines \in [Buckets -> Nat] /\ 1..Len(r.lines) = Buckets
    BY <1>4, BucketsCounted
  <1>6. /\ page.lines = r.lines /\ page.sum = r.sum /\ page.count = count
        /\ page.endedBefore = r.endedBefore /\ page.begunAfter = begun /\ page.since = r.since
    BY <1>2
  <1>7. MetricsTypes'
    <2>1. scrape' \in [Scrapers -> SUBSET Scrapes]
      BY <1>3 DEF MetricsInv, MetricsTypes
    <2>2. page \in [lines : [Buckets -> Nat], sum : Nat, count : Nat, endedBefore : Tallies,
                    begunAfter : Tallies, since : [Buckets -> Nat]]
      BY <1>1, <1>2, <1>4, <1>5
    <2>3. QED
      BY <1>3, <2>1, <2>2 DEF MetricsInv, MetricsTypes, Scrapes, Tallies, Buckets
  <1>8. Held' /\ Tallied'
    BY <1>3 DEF MetricsInv, Held, Placers, Tallied, Alone, Within, Summed, BucketOf, Buckets
  <1>9. ASSUME NEW q \in Scrapers, NEW t \in scrape'[q] PROVE Underway(t)'
    <2>1. q # s /\ t \in scrape[q]
      BY <1>3, <1>9 DEF MetricsInv, MetricsTypes
    <2>2. Underway(t)
      BY <2>1 DEF MetricsInv
    <2>3. QED
      BY <1>3, <2>2 DEF Underway, Within, Summed, BucketOf, Buckets
  <1>10. \A v \in Observable : ended[v] <= begun[v]
    BY EndedBegun
  <1>11. ASSUME NEW b \in Buckets
         PROVE  /\ Within(b, r.endedBefore) \in Nat /\ Within(b, begun) \in Nat
                /\ Within(b, r.endedBefore) <= r.lines[b] /\ r.lines[b] <= Within(b, ended)
                /\ r.lines[b] <= Within(b, begun) /\ r.since[b] <= r.lines[b]
    <2>1. PICK l \in Nat : l = r.lines[b]
      BY <1>5
    <2>2. PICK k \in Nat : k = r.since[b]
      BY <1>4
    <2>3. PICK x \in Nat : x = Within(b, r.endedBefore)
      BY <1>4, TalliesSum
    <2>4. PICK y \in Nat : y = Within(b, ended)
      BY <1>1, TalliesSum
    <2>5. PICK z \in Nat : z = Within(b, begun)
      BY <1>1, TalliesSum
    <2>6. k <= x /\ x <= l /\ l <= y
      BY <1>1, <1>5, <2>1, <2>2, <2>3, <2>4 DEF Underway
    <2>7. y <= z
      BY <1>1, <1>10, <2>4, <2>5, TalliesMore
    <2>8. QED
      BY <2>1, <2>2, <2>3, <2>4, <2>5, <2>6, <2>7
  <1>12. Len(Edges) + 1 \in Buckets /\ Cardinality(Buckets) = Len(Edges) + 1
    BY BucketsCounted
  <1>13. count = Within(Len(Edges) + 1, begun) /\ total = Summed(begun)
    BY DEF MetricsInv, Tallied
  <1>14. Summed(r.endedBefore) \in Nat
    BY <1>4, TalliesSum
  <1>15. r.sum \in Summed(r.endedBefore)..Summed(begun)
    BY <1>1, <1>4, <1>13, <1>14
  <1>16. /\ count \in Within(Len(Edges) + 1, r.endedBefore)..Within(Len(Edges) + 1, begun)
         /\ r.lines[Len(Edges) + 1] <= count
    <2>1. PICK n \in Buckets : n = Len(Edges) + 1
      BY <1>12
    <2>2. /\ Within(n, r.endedBefore) \in Nat /\ Within(n, begun) \in Nat /\ r.lines[n] \in Nat
          /\ Within(n, r.endedBefore) <= r.lines[n] /\ r.lines[n] <= Within(n, begun)
      BY <1>5, <1>11
    <2>3. count = Within(n, begun)
      BY <1>13, <2>1
    <2>4. count \in Within(n, r.endedBefore)..Within(n, begun) /\ r.lines[n] <= count
      BY <2>2, <2>3
    <2>5. QED
      BY <2>1, <2>4
  <1>17. ScrapesHonest'
    <2>1. \A b \in Buckets :
            r.lines[b] \in Within(b, r.endedBefore)..Within(b, begun) /\ r.lines[b] >= r.since[b]
      BY <1>4, <1>5, <1>11
    <2>2. QED
      BY <1>3, <1>6, <1>12, <1>15, <1>16, <2>1 DEF ScrapesHonest, Within, Summed, BucketOf, Buckets
  <1>18. ShownHonest'
    <2>1. \A b \in Buckets : page.lines[b] <= Within(b, ended)
      BY <1>6, <1>11
    <2>2. QED
      BY <1>3, <1>17, <2>1 DEF ShownHonest, Within, BucketOf, Buckets
  <1>19. QED
    BY <1>7, <1>8, <1>9, <1>18 DEF MetricsInv

LEMMA MetricsKeeps == MetricsInv /\ [MetricsNext]_metricsVars => MetricsInv'
  <1>1. SUFFICES ASSUME MetricsInv, [MetricsNext]_metricsVars PROVE MetricsInv'
    OBVIOUS
  <1>2. CASE UNCHANGED metricsVars
    <2>1. UNCHANGED <<counts, total, count, placing, begun, ended, scrape, shown>>
      BY <1>2 DEF metricsVars
    <2>2. MetricsTypes'
      BY <1>1, <2>1 DEF MetricsInv, MetricsTypes, Scrapes, Tallies, Buckets
    <2>3. Held' /\ Tallied'
      BY <1>1, <2>1 DEF MetricsInv, Held, Placers, Tallied, Alone, Within, Summed, BucketOf, Buckets
    <2>4. \A s \in Scrapers : \A r \in scrape'[s] : Underway(r)'
      BY <1>1, <2>1 DEF MetricsInv, Underway, Within, Summed, BucketOf, Buckets
    <2>5. ShownHonest'
      BY <1>1, <2>1 DEF MetricsInv, ShownHonest, ScrapesHonest, Within, Summed, BucketOf, Buckets
    <2>6. QED
      BY <2>2, <2>3, <2>4, <2>5 DEF MetricsInv
  <1>3. ASSUME NEW o \in Observers, NEW value \in Observable, Observe(o, value) PROVE MetricsInv'
    BY <1>1, <1>3, ObserveKeeps
  <1>4. ASSUME NEW o \in Observers, NEW value \in placing[o], Place(o, value) PROVE MetricsInv'
    BY <1>1, <1>4, PlaceKeeps
  <1>5. ASSUME NEW s \in Scrapers, BeginScrape(s) PROVE MetricsInv'
    BY <1>1, <1>5, BeginScrapeKeeps
  <1>6. ASSUME NEW s \in Scrapers, NEW r \in scrape[s], RenderBucket(s, r) PROVE MetricsInv'
    BY <1>1, <1>6, RenderBucketKeeps
  <1>7. ASSUME NEW s \in Scrapers, NEW r \in scrape[s], RenderSum(s, r) PROVE MetricsInv'
    BY <1>1, <1>7, RenderSumKeeps
  <1>8. ASSUME NEW s \in Scrapers, NEW r \in scrape[s], RenderCount(s, r) PROVE MetricsInv'
    BY <1>1, <1>8, RenderCountKeeps
  <1>9. QED
    BY <1>1, <1>2, <1>3, <1>4, <1>5, <1>6, <1>7, <1>8 DEF MetricsNext

(* What a histogram and the scrapes of it have counted is what has been    *)
(* observed, however observe() and render() interleave.                    *)
THEOREM MetricsInvariance == MetricsSpec => []MetricsInv
  <1>1. MetricsInit => MetricsInv
    BY MetricsBegins
  <1>2. MetricsInv /\ [MetricsNext]_metricsVars => MetricsInv'
    BY MetricsKeeps
  <1>3. QED
    BY <1>1, <1>2, PTL DEF MetricsSpec

(* A scrape of /metrics, which no lock protects, shows in every line no    *)
(* less than what had been observed when it began and no more than what    *)
(* had begun to be observed when it ended, and nothing goes back.          *)
THEOREM HonestScrapes == MetricsSpec => []ScrapesHonest
  <1>1. MetricsInv => ScrapesHonest
    BY DEF MetricsInv, ShownHonest
  <1>2. QED
    BY <1>1, MetricsInvariance, PTL

-----------------------------------------------------------------------------
(***************************************************************************)
(* Loading a configuration.                                                *)
(***************************************************************************)
(* One path is below or above the other, or the same.                      *)
Related(p, q) == IsPrefix(p, q) \/ IsPrefix(q, p)

(* A layer says something of a path.                                       *)
Speaks(layer, p) == Below(layer, p) \cup Above(layer, p) # {}

Paths == Seq(STRING)

LEMMA Reflexive == ASSUME NEW p \in Paths PROVE IsPrefix(p, p)
  <1>1. Len(p) \in Nat
    BY DEF Paths
  <1>2. QED
    BY <1>1 DEF IsPrefix

LEMMA SpeaksOf ==
  ASSUME NEW layer, NEW p, DOMAIN layer \subseteq Paths
  PROVE  Speaks(layer, p) <=> \E q \in DOMAIN layer : Related(p, q)
  <1>1. ASSUME NEW q \in DOMAIN layer, Related(p, q) PROVE Speaks(layer, p)
    <2>1. CASE IsPrefix(p, q)
      BY <2>1 DEF Speaks, Below
    <2>2. CASE ~IsPrefix(p, q)
      <3>1. IsPrefix(q, p) /\ q # p
        BY <1>1, <2>2, Reflexive DEF Related
      <3>2. QED
        BY <3>1 DEF Speaks, Above, IsStrictPrefix
    <2>3. QED
      BY <2>1, <2>2
  <1>2. ASSUME Speaks(layer, p) PROVE \E q \in DOMAIN layer : Related(p, q)
    BY <1>2 DEF Speaks, Below, Above, Related, IsStrictPrefix
  <1>3. QED
    BY <1>1, <1>2

(* deep_merge(): what the new layer says, and what it says nothing of.     *)
LEMMA Merged ==
  ASSUME NEW base, NEW layer, DOMAIN layer \subseteq Paths, NEW merged, merged = DeepMerge(base, layer)
  PROVE  /\ DOMAIN merged = DOMAIN layer \cup {p \in DOMAIN base : ~Speaks(layer, p)}
         /\ \A p \in DOMAIN layer : merged[p] = layer[p]
         /\ \A p \in DOMAIN base : ~Speaks(layer, p) => merged[p] = base[p]
  <1> DEFINE gone == UNION {Below(base, q) \cup Above(base, q) : q \in DOMAIN layer}
  <1>1. \A p \in DOMAIN base \ DOMAIN layer : p \in gone <=> Speaks(layer, p)
    <2>1. ASSUME NEW p \in DOMAIN base, p \notin DOMAIN layer, NEW q \in DOMAIN layer
          PROVE  p \in Below(base, q) \cup Above(base, q) <=> Related(p, q)
      BY <2>1 DEF Below, Above, IsStrictPrefix, Related
    <2>2. QED
      BY <2>1, SpeaksOf
  <1>2. \A p \in DOMAIN layer : Speaks(layer, p)
    BY SpeaksOf, Reflexive DEF Related
  <1>3. PICK rest : rest = Without(base, gone)
    OBVIOUS
  <1>4. DOMAIN rest = DOMAIN base \ gone /\ \A p \in DOMAIN base \ gone : rest[p] = base[p]
    BY <1>3 DEF Without
  <1>5. merged = Over(layer, rest)
    BY <1>3 DEF DeepMerge
  <1> HIDE DEF gone
  <1>6. /\ DOMAIN merged = DOMAIN layer \cup DOMAIN rest
        /\ \A p \in DOMAIN layer : merged[p] = layer[p]
        /\ \A p \in DOMAIN rest \ DOMAIN layer : merged[p] = rest[p]
    BY <1>5 DEF Over
  <1>7. DOMAIN merged = DOMAIN layer \cup {p \in DOMAIN base : ~Speaks(layer, p)}
    <2>1. ASSUME NEW p, p \notin DOMAIN layer PROVE p \in DOMAIN rest <=> p \in DOMAIN base /\ ~Speaks(layer, p)
      BY <2>1, <1>1, <1>4
    <2>2. QED
      BY <2>1, <1>2, <1>6
  <1>8. ASSUME NEW p \in DOMAIN base, ~Speaks(layer, p) PROVE merged[p] = base[p]
    <2>1. p \notin DOMAIN layer
      BY <1>2, <1>8
    <2>2. p \notin gone
      BY <1>1, <1>8, <2>1
    <2>3. QED
      BY <1>4, <1>6, <2>1, <2>2
  <1>9. QED
    BY <1>6, <1>7, <1>8

(* set() is a merge with one path, unless it raises.                       *)
LEMMA SetMerges ==
  ASSUME NEW tree, NEW path \in Paths, NEW value, ~Raises(tree, path),
         NEW layer, layer = [p \in {path} |-> value]
  PROVE  Set(tree, path, value) = DeepMerge(tree, layer)
  <1>1. Above(tree, path) = {}
    BY DEF Raises
  <1>2. layer = [p \in {path} |-> value]
    OBVIOUS
  <1>3. DOMAIN layer = {path}
    BY <1>2
  <1>4. UNION {Below(tree, p) \cup Above(tree, p) : p \in DOMAIN layer} = Below(tree, path)
    BY <1>1, <1>3
  <1>5. QED
    BY <1>2, <1>4 DEF Set, DeepMerge

-----------------------------------------------------------------------------
(* Layers: the words of one of them, and of no later one.                  *)
Layered(layers, n) ==
  DOMAIN layers = 1..n /\ \A i \in 1..n : DOMAIN layers[i] \subseteq Paths

Quiet(layers, n, i, p) == \A j \in 1..n : j > i => ~Speaks(layers[j], p)

(* LastWords, path by path                                                 *)
Won(tree, layers, n) ==
  /\ \A p \in DOMAIN tree : \E i \in 1..n : p \in DOMAIN layers[i] /\ Quiet(layers, n, i, p)
  /\ \A i \in 1..n : \A p \in DOMAIN layers[i] :
       Quiet(layers, n, i, p) => p \in DOMAIN tree /\ tree[p] = layers[i][p]

LEMMA WonIsLastWords ==
  ASSUME NEW tree, NEW layers, NEW n \in Nat, Layered(layers, n), Won(tree, layers, n)
  PROVE  LastWords(tree, layers)
  <1>1. DOMAIN layers = 1..n
    BY DEF Layered
  <1>2. \A i \in 1..n : \A p : Settled(layers, i, p) <=> Quiet(layers, n, i, p)
    BY <1>1 DEF Settled, Quiet, Speaks
  <1>3. \A i \in 1..n : \A p : <<i, p>> \in Heeded(layers) <=> p \in DOMAIN layers[i] /\ Quiet(layers, n, i, p)
    BY <1>1, <1>2 DEF Heeded
  <1>4. \A w \in Heeded(layers) : w = <<w[1], w[2]>> /\ w[1] \in 1..n
    BY <1>1 DEF Heeded
  <1>5. DOMAIN tree = {w[2] : w \in Heeded(layers)}
    <2>1. ASSUME NEW p \in DOMAIN tree PROVE \E w \in Heeded(layers) : p = w[2]
      <3>1. PICK i \in 1..n : p \in DOMAIN layers[i] /\ Quiet(layers, n, i, p)
        BY DEF Won
      <3>2. <<i, p>> \in Heeded(layers) /\ <<i, p>>[2] = p
        BY <1>3, <3>1
      <3>3. QED
        BY <3>2
    <2>2. ASSUME NEW w \in Heeded(layers) PROVE w[2] \in DOMAIN tree
      BY <1>3, <1>4 DEF Won
    <2>3. QED
      BY <2>1, <2>2
  <1>6. \A w \in Heeded(layers) : tree[w[2]] = layers[w[1]][w[2]]
    BY <1>3, <1>4 DEF Won
  <1>7. QED
    BY <1>5, <1>6 DEF LastWords

(* The next layer is merged over the others.                               *)
LEMMA WonNext ==
  ASSUME NEW tree, NEW layers, NEW n \in Nat, Layered(layers, n + 1),
         Won(tree, layers, n)
  PROVE  Won(DeepMerge(tree, layers[n + 1]), layers, n + 1)
  <1>1. PICK m \in Nat : m = n + 1
    OBVIOUS
  <1>2. PICK layer : layer = layers[m]
    OBVIOUS
  <1>3. m \in 1..m /\ DOMAIN layer \subseteq Paths /\ \A i \in 1..m : i \in 1..n \/ i = m
    BY <1>1, <1>2 DEF Layered
  <1>4. PICK merged : merged = DeepMerge(tree, layer)
    OBVIOUS
  <1>5. /\ DOMAIN merged = DOMAIN layer \cup {p \in DOMAIN tree : ~Speaks(layer, p)}
        /\ \A p \in DOMAIN layer : merged[p] = layer[p]
        /\ \A p \in DOMAIN tree : ~Speaks(layer, p) => merged[p] = tree[p]
    <2>1. DOMAIN layer \subseteq Paths
      BY <1>3
    <2>2. QED
      BY ONLY <1>4, <2>1, Merged
  <1>6. \A i \in 1..n : i \in 1..m /\ \A p : Quiet(layers, m, i, p) <=> Quiet(layers, n, i, p) /\ ~Speaks(layer, p)
    <2>1. \A j : j \in 1..m <=> j \in 1..n \/ j = m
      BY <1>1
    <2>2. \A i \in 1..n : m > i
      BY <1>1
    <2>3. QED
      BY <2>1, <2>2, <1>2 DEF Quiet
  <1>7. \A p : Quiet(layers, m, m, p)
    BY DEF Quiet
  <1>8. ASSUME NEW p \in DOMAIN merged
        PROVE  \E i \in 1..m : p \in DOMAIN layers[i] /\ Quiet(layers, m, i, p)
    <2>1. CASE p \in DOMAIN layer
      BY <1>2, <1>3, <1>7, <2>1
    <2>2. CASE p \notin DOMAIN layer
      <3>1. p \in DOMAIN tree /\ ~Speaks(layer, p)
        BY <1>5, <2>2
      <3>2. PICK i \in 1..n : p \in DOMAIN layers[i] /\ Quiet(layers, n, i, p)
        BY <3>1 DEF Won
      <3>3. QED
        BY <1>6, <3>1, <3>2
    <2>3. QED
      BY <2>1, <2>2
  <1>9. ASSUME NEW i \in 1..m, NEW p \in DOMAIN layers[i], Quiet(layers, m, i, p)
        PROVE  p \in DOMAIN merged /\ merged[p] = layers[i][p]
    <2>1. CASE i = m
      BY <1>2, <1>5, <2>1
    <2>2. CASE i \in 1..n
      <3>1. Quiet(layers, n, i, p) /\ ~Speaks(layer, p)
        BY <1>6, <1>9, <2>2
      <3>2. p \in DOMAIN tree /\ tree[p] = layers[i][p]
        BY <2>2, <3>1 DEF Won
      <3>3. QED
        BY <1>5, <3>1, <3>2
    <2>3. QED
      BY <1>3, <2>1, <2>2
  <1>10. QED
    BY <1>1, <1>2, <1>4, <1>8, <1>9 DEF Won

(* A layer that says nothing changes nothing.                              *)
LEMMA WonSilent ==
  ASSUME NEW tree, NEW layers, NEW n \in Nat, Layered(layers, n + 1),
         Won(tree, layers, n), DOMAIN layers[n + 1] = {}
  PROVE  Won(tree, layers, n + 1)
  <1>1. PICK m \in Nat : m = n + 1
    OBVIOUS
  <1>2. \A p : ~Speaks(layers[m], p)
    BY <1>1 DEF Speaks, Below, Above
  <1>3. \A j : j \in 1..m <=> j \in 1..n \/ j = m
    BY <1>1
  <1>4. \A i, p : Quiet(layers, m, i, p) <=> Quiet(layers, n, i, p)
    BY <1>2, <1>3 DEF Quiet
  <1>5. QED
    BY <1>1, <1>3, <1>4 DEF Won

(* Some layers are kept, in their order, and the others come again later,  *)
(* as far as their paths go.                                               *)
Covers(kept, m, layers, n, place) ==
  /\ place \in [1..m -> 1..n]
  /\ \A i, j \in 1..m : i < j => place[i] < place[j]
  /\ \A i \in 1..m : kept[i] = layers[place[i]]
  /\ \A k \in 1..n : \E i \in 1..m : k <= place[i] /\ DOMAIN kept[i] = DOMAIN layers[k]

(* Layers whose paths a later layer repeats can be left out.               *)
LEMMA Superseded ==
  ASSUME NEW tree, NEW layers, NEW n \in Nat, Layered(layers, n), Won(tree, layers, n),
         NEW kept, NEW m \in Nat, Layered(kept, m),
         NEW place, Covers(kept, m, layers, n, place)
  PROVE  Won(tree, kept, m)
  <1>1. /\ place \in [1..m -> 1..n]
        /\ \A i, j \in 1..m : i < j => place[i] < place[j]
        /\ \A i \in 1..m : kept[i] = layers[place[i]]
        /\ \A k \in 1..n : \E i \in 1..m : k <= place[i] /\ DOMAIN kept[i] = DOMAIN layers[k]
    BY DEF Covers
  <1>2. ASSUME NEW k \in 1..n, NEW p \in DOMAIN layers[k], Quiet(layers, n, k, p)
        PROVE  \E i \in 1..m : place[i] = k
    <2>1. PICK i \in 1..m : k <= place[i] /\ DOMAIN kept[i] = DOMAIN layers[k]
      BY <1>1
    <2>2. PICK l \in 1..n : l = place[i]
      BY <1>1
    <2>3. DOMAIN layers[l] = DOMAIN layers[k] /\ DOMAIN layers[l] \subseteq Paths
      <3>1. kept[i] = layers[l]
        BY <1>1, <2>2
      <3>2. QED
        BY <2>1, <3>1 DEF Layered
    <2>4. Speaks(layers[l], p)
      BY <2>3, <1>2, SpeaksOf, Reflexive DEF Related
    <2>5. ~(l > k)
      BY <1>2, <2>4 DEF Quiet
    <2>6. l = k
      BY <2>1, <2>2, <2>5
    <2>7. QED
      BY <2>2, <2>6
  <1>3. ASSUME NEW i \in 1..m, NEW p PROVE Quiet(kept, m, i, p) <=> Quiet(layers, n, place[i], p)
    <2>1. ASSUME Quiet(kept, m, i, p) PROVE Quiet(layers, n, place[i], p)
      <3>1. SUFFICES ASSUME NEW k \in 1..n, k > place[i], Speaks(layers[k], p) PROVE FALSE
        BY DEF Quiet
      <3>2. PICK j \in 1..m : k <= place[j] /\ DOMAIN kept[j] = DOMAIN layers[k]
        BY <1>1
      <3>3. DOMAIN kept[j] \subseteq Paths /\ DOMAIN layers[k] \subseteq Paths
        BY DEF Layered
      <3>4. Speaks(kept[j], p)
        BY <3>1, <3>2, <3>3, SpeaksOf
      <3>5. j > i
        <4>1. PICK a \in 1..n : a = place[i]
          BY <1>1
        <4>2. PICK b \in 1..n : b = place[j]
          BY <1>1
        <4>3. a < b
          BY <3>1, <3>2, <4>1, <4>2
        <4>4. ~(j < i) /\ j # i
          BY <1>1, <4>1, <4>2, <4>3
        <4>5. QED
          BY <4>4
      <3>6. QED
        BY <2>1, <3>4, <3>5 DEF Quiet
    <2>2. ASSUME Quiet(layers, n, place[i], p) PROVE Quiet(kept, m, i, p)
      <3>1. SUFFICES ASSUME NEW j \in 1..m, j > i, Speaks(kept[j], p) PROVE FALSE
        BY DEF Quiet
      <3>2. place[j] \in 1..n /\ place[i] \in 1..n /\ place[i] < place[j]
        BY <1>1, <3>1
      <3>3. QED
        BY <1>1, <2>2, <3>1, <3>2 DEF Quiet
    <2>3. QED
      BY <2>1, <2>2
  <1>4. ASSUME NEW p \in DOMAIN tree PROVE \E i \in 1..m : p \in DOMAIN kept[i] /\ Quiet(kept, m, i, p)
    <2>1. PICK k \in 1..n : p \in DOMAIN layers[k] /\ Quiet(layers, n, k, p)
      BY DEF Won
    <2>2. PICK i \in 1..m : place[i] = k
      BY <1>2, <2>1
    <2>3. QED
      BY <1>1, <1>3, <2>1, <2>2
  <1>5. ASSUME NEW i \in 1..m, NEW p \in DOMAIN kept[i], Quiet(kept, m, i, p)
        PROVE  p \in DOMAIN tree /\ tree[p] = kept[i][p]
    <2>1. place[i] \in 1..n /\ Quiet(layers, n, place[i], p) /\ kept[i] = layers[place[i]]
      BY <1>1, <1>3, <1>5
    <2>2. QED
      BY <2>1 DEF Won
  <1>6. QED
    BY <1>4, <1>5 DEF Won

-----------------------------------------------------------------------------
(* A sequence of assignments, one after the other.                         *)
Steps(start, assignments, n, after) ==
  after = [k \in 0..n |->
             IF k = 0 THEN [tree |-> start, ok |-> TRUE] ELSE SetNext(after[k - 1], assignments[k])]

LEMMA StepsExist ==
  ASSUME NEW start, NEW assignments, NEW n \in Nat
  PROVE  \E after : Steps(start, assignments, n, after)
  <1> DEFINE N == {m \in Nat : \E after : Steps(start, assignments, m, after)}
  <1>1. 0 \in N
    <2>1. PICK after : after = [k \in 0..0 |-> [tree |-> start, ok |-> TRUE]]
      OBVIOUS
    <2>2. Steps(start, assignments, 0, after)
      <3>1. \A k \in 0..0 : k = 0
        OBVIOUS
      <3>2. QED
        BY <2>1, <3>1 DEF Steps
    <2>3. QED
      BY <2>2
  <1>2. ASSUME NEW m \in Nat, m \in N PROVE m + 1 \in N
    <2>1. PICK w : Steps(start, assignments, m, w)
      BY <1>2
    <2>2. PICK last : last = SetNext(w[m], assignments[m + 1])
      OBVIOUS
    <2>3. PICK v : v = [k \in 0..(m + 1) |-> IF k = m + 1 THEN last ELSE w[k]]
      OBVIOUS
    <2>4. PICK first : first = [tree |-> start, ok |-> TRUE]
      OBVIOUS
    <2>5. \A k \in 0..m : w[k] = IF k = 0 THEN first ELSE SetNext(w[k - 1], assignments[k])
      BY <2>1, <2>4 DEF Steps
    <2>6. ASSUME NEW k \in 0..(m + 1)
          PROVE  v[k] = IF k = 0 THEN first ELSE SetNext(v[k - 1], assignments[k])
      <3>1. CASE k = m + 1
        <4>1. k - 1 = m /\ m \in 0..(m + 1) /\ m # m + 1 /\ k # 0
          BY <3>1
        <4>2. v[k] = last /\ v[m] = w[m]
          BY <2>3, <3>1, <4>1
        <4>3. QED
          BY <2>2, <3>1, <4>1, <4>2
      <3>2. CASE k # m + 1 /\ k # 0
        <4>1. k \in 0..m /\ k - 1 \in 0..(m + 1) /\ k - 1 # m + 1
          BY <3>2
        <4>2. v[k] = w[k] /\ v[k - 1] = w[k - 1]
          BY <2>3, <3>2, <4>1
        <4>3. QED
          BY <2>5, <3>2, <4>1, <4>2
      <3>3. CASE k = 0
        <4>1. 0 \in 0..m /\ 0 # m + 1
          OBVIOUS
        <4>2. v[k] = w[0] /\ w[0] = first
          BY <2>3, <2>5, <3>3, <4>1
        <4>3. QED
          BY <3>3, <4>2
      <3>4. QED
        BY <3>1, <3>2, <3>3
    <2>7. v = [k \in 0..(m + 1) |-> v[k]]
      BY <2>3
    <2>8. Steps(start, assignments, m + 1, v)
      BY <2>4, <2>6, <2>7 DEF Steps
    <2>9. QED
      BY <2>8
  <1>3. n \in N
    <2> HIDE DEF N
    <2>1. QED
      BY <1>1, <1>2, Induction
  <1>4. QED
    BY <1>3

Stepped(after, start, assignments, n) ==
  /\ after[0] = [tree |-> start, ok |-> TRUE]
  /\ \A k \in 1..n : after[k] = SetNext(after[k - 1], assignments[k])

LEMMA AssigningSteps ==
  ASSUME NEW start, NEW assignments, Len(assignments) \in Nat
  PROVE  Stepped(Assigning(start, assignments), start, assignments, Len(assignments))
  <1>1. PICK n \in Nat : n = Len(assignments)
    OBVIOUS
  <1>2. PICK after : Steps(start, assignments, n, after)
    BY StepsExist
  <1>3. PICK a : a = Assigning(start, assignments)
    OBVIOUS
  <1>4. Steps(start, assignments, n, a)
    BY <1>1, <1>2, <1>3 DEF Assigning, Steps
  <1>5. PICK first : first = [tree |-> start, ok |-> TRUE]
    OBVIOUS
  <1>6. \A k \in 0..n : a[k] = IF k = 0 THEN first ELSE SetNext(a[k - 1], assignments[k])
    BY <1>4, <1>5 DEF Steps
  <1>7. 0 \in 0..n /\ \A k \in 1..n : k \in 0..n /\ k # 0
    OBVIOUS
  <1>8. QED
    BY <1>1, <1>3, <1>5, <1>6, <1>7 DEF Stepped

IsAssignments(as) == as \in Seq(ToSet(as)) /\ \A a \in ToSet(as) : a.path \in Paths

(* What has a word after the first k assignments over some layers          *)
Followed(base, n, as, k) == [i \in 1..(n + k) |-> IF i <= n THEN base[i] ELSE Said(as)[i - n]]

LEMMA SaidLayered ==
  ASSUME NEW as, IsAssignments(as)
  PROVE  /\ Len(as) \in Nat /\ DOMAIN as = 1..Len(as) /\ Layered(Said(as), Len(as))
         /\ \A i \in 1..Len(as) : Said(as)[i] = IF as[i].value = Unset THEN NoPaths
                                                ELSE [p \in {as[i].path} |-> as[i].value]
  <1>1. Len(as) \in Nat /\ DOMAIN as = 1..Len(as)
    <2>1. PICK S : as \in Seq(S)
      BY DEF IsAssignments
    <2>2. QED
      BY <2>1, LenProperties
  <1>2. \A i \in 1..Len(as) : as[i].path \in Paths
    BY <1>1 DEF IsAssignments, ToSet
  <1>3. PICK s : s = Said(as)
    OBVIOUS
  <1>4. DOMAIN s = 1..Len(as)
        /\ \A i \in 1..Len(as) : s[i] = IF as[i].value = Unset THEN NoPaths
                                        ELSE [p \in {as[i].path} |-> as[i].value]
    BY <1>1, <1>3 DEF Said
  <1>5. DOMAIN NoPaths = {}
    BY DEF NoPaths
  <1>6. ASSUME NEW i \in 1..Len(as) PROVE DOMAIN s[i] \subseteq Paths
    <2>1. CASE as[i].value = Unset
      BY <1>4, <1>5, <2>1
    <2>2. CASE as[i].value # Unset
      <3>1. s[i] = [p \in {as[i].path} |-> as[i].value]
        BY <1>4, <2>2
      <3>2. DOMAIN s[i] = {as[i].path}
        BY <3>1
      <3>3. QED
        BY <1>2, <3>2
    <2>3. QED
      BY <2>1, <2>2
  <1>7. QED
    BY <1>1, <1>3, <1>4, <1>6 DEF Layered

LEMMA FollowedLayered ==
  ASSUME NEW base, NEW n \in Nat, Layered(base, n), NEW as, IsAssignments(as), NEW k \in 0..Len(as)
  PROVE  Layered(Followed(base, n, as, k), n + k)
  <1>1. Len(as) \in Nat /\ Layered(Said(as), Len(as))
    BY SaidLayered
  <1>2. PICK l : l = Followed(base, n, as, k)
    OBVIOUS
  <1>3. DOMAIN l = 1..(n + k) /\ \A i \in 1..(n + k) : l[i] = IF i <= n THEN base[i] ELSE Said(as)[i - n]
    BY <1>2 DEF Followed
  <1>4. PICK m \in Nat : m = Len(as) /\ k \in 0..m
    BY <1>1
  <1> DEFINE s == Said(as)
  <1>5. Layered(s, m)
    BY <1>1, <1>4
  <1> HIDE DEF s
  <1>6. \A i \in 1..(n + k) : l[i] = IF i <= n THEN base[i] ELSE s[i - n]
    BY <1>3 DEF s
  <1>7. ASSUME NEW i \in 1..(n + k) PROVE DOMAIN l[i] \subseteq Paths
    <2>1. i <= n => i \in 1..n
      OBVIOUS
    <2>2. ~(i <= n) => i - n \in 1..m
      <3>1. PICK d \in 0..m : d = k
        BY <1>4
      <3>2. i \in 1..(n + d)
        BY <3>1
      <3>3. QED
        BY <3>2
    <2>3. l[i] = IF i <= n THEN base[i] ELSE s[i - n]
      BY <1>6
    <2>4. QED
      BY <1>5, <2>1, <2>2, <2>3 DEF Layered
  <1>8. QED
    BY <1>2, <1>3, <1>7 DEF Layered

(* An assignment goes through a value that some layer has                  *)
Through(base, n, as) ==
  \E a \in ToSet(as) :
    \/ \E i \in 1..n : Above(base[i], a.path) # {}
    \/ \E i \in 1..Len(as) : Above(Said(as)[i], a.path) # {}

LEMMA AssignedWins ==
  ASSUME NEW base, NEW n \in Nat, Layered(base, n), NEW as, IsAssignments(as),
         NEW start, Won(start, base, n), NEW after, after = Assigned(start, as)
  PROVE  /\ after.ok \in BOOLEAN
         /\ after.ok => Won(after.tree, Followed(base, n, as, Len(as)), n + Len(as))
         /\ ~after.ok => Through(base, n, as)
  <1>1. Len(as) \in Nat /\ DOMAIN as = 1..Len(as) /\ Layered(Said(as), Len(as))
         /\ \A i \in 1..Len(as) : Said(as)[i] = IF as[i].value = Unset THEN NoPaths
                                                ELSE [p \in {as[i].path} |-> as[i].value]
    BY SaidLayered
  <1>2. PICK m \in Nat : m = Len(as)
    BY <1>1
  <1>3. PICK a : a = Assigning(start, as)
    OBVIOUS
  <1>4. a[0] = [tree |-> start, ok |-> TRUE] /\ \A k \in 1..m : a[k] = SetNext(a[k - 1], as[k])
    <2>1. Stepped(Assigning(start, as), start, as, Len(as))
      BY <1>1, AssigningSteps
    <2>2. Stepped(a, start, as, m)
      BY <1>2, <1>3, <2>1
    <2>3. QED
      BY <2>2 DEF Stepped
  <1> DEFINE Good(k) == /\ a[k].ok \in BOOLEAN
                        /\ a[k].ok => Won(a[k].tree, Followed(base, n, as, k), n + k)
                        /\ ~a[k].ok => Through(base, n, as)
             K == {k \in Nat : k <= m => Good(k)}
  <1>5. 0 \in K
    <2>1. a[0].ok = TRUE /\ a[0].tree = start
      BY <1>4
    <2>2. PICK l : l = Followed(base, n, as, 0)
      OBVIOUS
    <2>3. \A i \in 1..n : l[i] = base[i]
      BY <2>2 DEF Followed
    <2>4. \A i, p : Quiet(l, n, i, p) <=> Quiet(base, n, i, p)
      BY <2>3 DEF Quiet
    <2>5. Won(start, l, n)
      BY <2>3, <2>4 DEF Won
    <2>6. n + 0 = n
      OBVIOUS
    <2>7. Good(0)
      BY <2>1, <2>2, <2>5, <2>6
    <2>8. QED
      BY <2>7
  <1>6. ASSUME NEW k \in Nat, k \in K PROVE k + 1 \in K
    <2>1. SUFFICES ASSUME k + 1 <= m PROVE Good(k + 1)
      <3> HIDE DEF Good
      <3>1. QED
        OBVIOUS
    <2>2. PICK j \in 1..m : j = k + 1
      BY <2>1
    <2>3. k <= m /\ j - 1 = k /\ n + j = (n + k) + 1 /\ n + k \in Nat /\ j \in 0..m /\ k \in 0..m
      BY <2>2
    <2>4. Good(k)
      BY <1>6, <2>3
    <2>5. a[j] = SetNext(a[k], as[j])
      BY <1>4, <2>2, <2>3
    <2>6. PICK l : l = Followed(base, n, as, j)
      OBVIOUS
    <2>7. Layered(l, n + j)
      BY <1>2, <2>3, <2>6, FollowedLayered
    <2>8. Won(a[k].tree, Followed(base, n, as, k), n + k) => Won(a[k].tree, l, n + k)
      <3>1. PICK o : o = Followed(base, n, as, k)
        OBVIOUS
      <3>2. \A i \in 1..(n + k) : o[i] = l[i]
        <4>1. \A i \in 1..(n + k) : i \in 1..(n + j)
          BY <2>3
        <4>2. QED
          BY <2>6, <3>1, <4>1 DEF Followed
      <3>3. \A i, p : Quiet(l, n + k, i, p) <=> Quiet(o, n + k, i, p)
        BY <3>2 DEF Quiet
      <3>4. PICK tree : tree = a[k].tree
        OBVIOUS
      <3>5. Won(tree, o, n + k) => Won(tree, l, n + k)
        BY <3>2, <3>3 DEF Won
      <3>6. QED
        BY <3>1, <3>4, <3>5
    <2>9. l[n + j] = Said(as)[j]
      <3>1. n + j \in 1..(n + j) /\ ~(n + j <= n) /\ (n + j) - n = j
        BY <2>3
      <3>2. QED
        BY <2>6, <3>1 DEF Followed
    <2>10. Said(as)[j] = IF as[j].value = Unset THEN NoPaths ELSE [p \in {as[j].path} |-> as[j].value]
      BY <1>1, <1>2, <2>2
    <2>11. as[j].path \in Paths /\ as[j] \in ToSet(as)
      BY <1>1, <1>2, <2>2 DEF IsAssignments, ToSet
    <2>12. CASE ~a[k].ok
      BY <2>2, <2>4, <2>5, <2>12 DEF SetNext
    <2>13. CASE a[k].ok /\ as[j].value = Unset
      <3>1. a[j] = a[k]
        BY <2>5, <2>13 DEF SetNext
      <3>2. DOMAIN l[n + j] = {}
        BY <2>9, <2>10, <2>13 DEF NoPaths
      <3>3. Won(a[k].tree, l, n + k)
        BY <2>4, <2>8, <2>13
      <3>4. Won(a[k].tree, l, n + j)
        BY <2>3, <2>7, <3>2, <3>3, WonSilent
      <3>5. QED
        BY <2>2, <2>6, <2>13, <3>1, <3>4
    <2>14. CASE a[k].ok /\ as[j].value # Unset /\ Raises(a[k].tree, as[j].path)
      <3>1. a[j] = [tree |-> a[k].tree, ok |-> FALSE]
        BY <2>5, <2>14 DEF SetNext
      <3>2. PICK q \in DOMAIN a[k].tree : IsStrictPrefix(q, as[j].path)
        BY <2>14 DEF Raises, Above
      <3>3. Won(a[k].tree, l, n + k)
        BY <2>4, <2>8, <2>14
      <3>4. PICK i \in 1..(n + k) : q \in DOMAIN l[i]
        BY <3>3 DEF Won
      <3>5. Above(l[i], as[j].path) # {}
        BY <3>2, <3>4 DEF Above
      <3>6. i \in 1..(n + j)
        BY <2>2, <3>4
      <3>7. l[i] = IF i <= n THEN base[i] ELSE Said(as)[i - n]
        BY <2>6, <3>6 DEF Followed
      <3>8. i \in 1..n \/ (~(i <= n) /\ i - n \in 1..m)
        BY <2>3, <3>4
      <3>9. (\E h \in 1..n : Above(base[h], as[j].path) # {}) \/ (\E h \in 1..m : Above(Said(as)[h], as[j].path) # {})
        <4>1. CASE i \in 1..n
          <5>1. i <= n
            BY <4>1
          <5>2. l[i] = base[i]
            BY <3>7, <5>1
          <5>3. QED
            BY <3>5, <4>1, <5>2
        <4>2. CASE ~(i <= n) /\ i - n \in 1..m
          <5>1. l[i] = Said(as)[i - n]
            BY <3>7, <4>2
          <5>2. QED
            BY <3>5, <4>2, <5>1
        <4>3. QED
          BY <3>8, <4>1, <4>2
      <3>10. Through(base, n, as)
        BY <1>2, <2>11, <3>9 DEF Through
      <3>11. QED
        BY <2>2, <3>1, <3>10
    <2>15. CASE a[k].ok /\ as[j].value # Unset /\ ~Raises(a[k].tree, as[j].path)
      <3>1. a[j] = [tree |-> Set(a[k].tree, as[j].path, as[j].value), ok |-> TRUE]
        BY <2>5, <2>15 DEF SetNext
      <3>2. Set(a[k].tree, as[j].path, as[j].value) = DeepMerge(a[k].tree, l[n + j])
        <4>1. PICK path \in Paths : path = as[j].path
          BY <2>11
        <4>2. PICK value : path = as[j].path /\ value = as[j].value
          BY <4>1
        <4>3. l[n + j] = [p \in {path} |-> value]
          BY <2>9, <2>10, <2>15, <4>2
        <4>4. PICK layer : layer = l[n + j]
          OBVIOUS
        <4>5. PICK tree : tree = a[k].tree
          OBVIOUS
        <4>6. ~Raises(tree, path)
          BY <2>15, <4>1, <4>5
        <4>7. layer = [p \in {path} |-> value]
          BY <4>3, <4>4
        <4>8. Set(tree, path, value) = DeepMerge(tree, layer)
          BY <4>6, <4>7, SetMerges
        <4>9. QED
          BY <4>2, <4>4, <4>5, <4>8
      <3>3. Won(a[k].tree, l, n + k)
        BY <2>4, <2>8, <2>15
      <3>4. Won(DeepMerge(a[k].tree, l[n + j]), l, n + j)
        BY <2>3, <2>7, <3>3, WonNext
      <3>5. a[j].ok = TRUE /\ a[j].tree = DeepMerge(a[k].tree, l[n + j])
        BY <3>1, <3>2
      <3>6. QED
        BY <2>2, <2>6, <3>4, <3>5
    <2>16. QED
      BY <2>4, <2>12, <2>13, <2>14, <2>15
  <1>7. m \in K
    <2> HIDE DEF K
    <2>1. QED
      BY <1>5, <1>6, Induction
  <1>8. Good(m)
    <2> HIDE DEF Good
    <2>1. m <= m
      OBVIOUS
    <2>2. QED
      BY <1>7, <2>1
  <1>9. after = a[m]
    BY <1>2, <1>3 DEF Assigned
  <1>10. QED
    BY <1>2, <1>8, <1>9

-----------------------------------------------------------------------------
(* Layers that agree have the same last words.                             *)
LEMMA WonAgrees ==
  ASSUME NEW tree, NEW layers, NEW others, NEW n \in Nat, Won(tree, layers, n),
         \A i \in 1..n : others[i] = layers[i]
  PROVE  Won(tree, others, n)
  <1>1. \A i, p : Quiet(layers, n, i, p) <=> Quiet(others, n, i, p)
    BY DEF Quiet
  <1>2. QED
    BY <1>1 DEF Won

LEMMA LayeredAgrees ==
  ASSUME NEW layers, NEW others, NEW n \in Nat, Layered(layers, n), DOMAIN others = 1..n,
         \A i \in 1..n : others[i] = layers[i]
  PROVE  Layered(others, n)
  BY DEF Layered

(* The number of files merged when those from a level on have been, and    *)
(* what has a say then.                                                    *)
Merges(level) == Len(seen) + 1 - level

Total(level) == IF level > Len(seen) THEN 0 ELSE Merges(level) + Len(env)

SoFar(level) ==
  [i \in 1..Total(level) |->
     IF i <= Merges(level) THEN Files[seen[Len(seen) + 1 - i]].data ELSE Said(env)[i - Merges(level)]]

All == Followed(SoFar(1), Total(1), Overrides, Len(Overrides))

(* An assignment found a value where it needed a map.                      *)
Blocked ==
  \E a \in ToSet(env) \cup ToSet(Overrides) :
    \/ \E k \in DOMAIN seen : Above(Files[seen[k]].data, a.path) # {}
    \/ \E i \in 1..Len(env) : Above(Said(env)[i], a.path) # {}
    \/ \E i \in 1..Len(Overrides) : Above(Said(Overrides)[i], a.path) # {}

Chain ==
  /\ env \in Environments /\ options \in CommandLines
  /\ seen \in Seq(DOMAIN Files)
  /\ \A i, j \in DOMAIN seen : seen[i] = seen[j] => i = j

ConfigInv ==
  /\ Chain
  /\ phase = "reading" => config = NoPaths
  /\ phase = "merging" =>
       \E level \in DOMAIN seen : file = seen[level] /\ Won(config, SoFar(level + 1), Total(level + 1))
  /\ phase = "overriding" => Won(config, SoFar(1), Total(1))
  /\ phase \in {"validating", "ready", "invalid"} => Won(config, All, Total(1) + Len(Overrides))
  /\ phase \in {"merging", "overriding", "validating", "ready", "invalid"} =>
       seen # <<>> /\ Files[Last(seen)].extends = Unset
  /\ phase = "through a value" => Blocked /\ Len(seen) # 0

(* The options that are passed on are assignments as those given are.      *)
LEMMA OverridesAssign == ASSUME options \in CommandLines PROVE IsAssignments(Overrides)
  <1>1. options \in Seq(ToSet(options)) /\ \A a \in ToSet(options) : a.path \in Paths
    BY ConfigAssumption DEF Paths
  <1>2. PICK n \in Nat : n = Len(options) /\ DOMAIN options = 1..n
    BY <1>1, LenProperties
  <1>3. PICK g : g = Overrides
    OBVIOUS
  <1>4. g = [i \in 1..n |-> Heard(options[i])]
    BY <1>2, <1>3 DEF Overrides
  <1>5. ToSet(g) = {Heard(options[i]) : i \in 1..n}
    BY <1>4 DEF ToSet
  <1>6. g \in Seq(ToSet(g))
    BY <1>4, <1>5, SeqDef
  <1>7. ASSUME NEW a \in ToSet(g) PROVE a.path \in Paths
    <2>1. PICK i \in 1..n : a = Heard(options[i])
      BY <1>5
    <2>2. options[i] \in ToSet(options)
      BY <1>2 DEF ToSet
    <2>3. QED
      BY <1>1, <2>1, <2>2 DEF Heard
  <1>8. QED
    BY <1>3, <1>6, <1>7 DEF IsAssignments

LEMMA ChainTypes ==
  ASSUME Chain
  PROVE  /\ Len(seen) \in Nat /\ DOMAIN seen = 1..Len(seen)
         /\ Len(env) \in Nat /\ Len(Overrides) \in Nat
         /\ IsAssignments(env) /\ IsAssignments(Overrides)
         /\ \A k \in 1..Len(seen) : seen[k] \in DOMAIN Files /\ DOMAIN Files[seen[k]].data \subseteq Paths
  <1>1. Len(seen) \in Nat /\ DOMAIN seen = 1..Len(seen) /\ \A k \in 1..Len(seen) : seen[k] \in DOMAIN Files
    <2>1. seen \in Seq(DOMAIN Files)
      BY DEF Chain
    <2>2. QED
      BY <2>1, LenProperties, ElementOfSeq
  <1>2. IsAssignments(env) /\ IsAssignments(Overrides)
    BY ConfigAssumption, OverridesAssign DEF Chain, IsAssignments, Paths
  <1>3. Len(env) \in Nat /\ Len(Overrides) \in Nat
    BY <1>2, SaidLayered
  <1>4. \A k \in 1..Len(seen) : DOMAIN Files[seen[k]].data \subseteq Paths
    BY <1>1, ConfigAssumption DEF Paths
  <1>5. QED
    BY <1>1, <1>2, <1>3, <1>4

LEMMA TotalType ==
  ASSUME Chain, NEW level \in Nat, 1 <= level, level <= Len(seen) + 1
  PROVE  Merges(level) \in Nat /\ Total(level) \in Nat /\ Merges(level) <= Total(level)
  <1>1. PICK n \in Nat : n = Len(seen)
    BY ChainTypes
  <1>2. PICK e \in Nat : e = Len(env)
    BY ChainTypes
  <1>3. Merges(level) = n + 1 - level /\ Total(level) = IF level > n THEN 0 ELSE (n + 1 - level) + e
    BY <1>1, <1>2 DEF Merges, Total
  <1>4. n + 1 - level \in Nat /\ (level > n => n + 1 - level = 0)
    BY <1>1
  <1>5. QED
    BY <1>3, <1>4

LEMMA SoFarLayered ==
  ASSUME Chain, NEW level \in Nat, 1 <= level, level <= Len(seen) + 1
  PROVE  Layered(SoFar(level), Total(level))
  <1>1. PICK n \in Nat : n = Len(seen)
    BY ChainTypes
  <1>2. PICK e \in Nat : e = Len(env) /\ Layered(Said(env), e)
    BY ChainTypes, SaidLayered
  <1>3. PICK f \in Nat, t \in Nat : f = Merges(level) /\ t = Total(level)
    BY TotalType
  <1>4. f = n + 1 - level /\ t = IF level > n THEN 0 ELSE f + e
    BY <1>1, <1>2, <1>3 DEF Merges, Total
  <1>5. PICK l : l = SoFar(level)
    OBVIOUS
  <1>6. DOMAIN l = 1..t /\ \A i \in 1..t : l[i] = IF i <= f THEN Files[seen[n + 1 - i]].data ELSE Said(env)[i - f]
    BY <1>1, <1>3, <1>5 DEF SoFar
  <1>7. \A k \in 1..n : DOMAIN Files[seen[k]].data \subseteq Paths
    BY <1>1, ChainTypes
  <1>8. ASSUME NEW i \in 1..t PROVE DOMAIN l[i] \subseteq Paths
    <2>1. level <= n /\ t = f + e
      BY <1>4
    <2>2. CASE i <= f
      <3>1. n + 1 - i \in 1..n
        BY <1>4, <2>1, <2>2
      <3>2. QED
        BY <1>6, <1>7, <2>2, <3>1
    <2>3. CASE ~(i <= f)
      <3>1. i - f \in 1..e
        BY <2>1, <2>3
      <3>2. DOMAIN Said(env)[i - f] \subseteq Paths
        BY <1>2, <3>1 DEF Layered
      <3>3. QED
        BY <1>6, <2>3, <3>2
    <2>4. QED
      BY <2>2, <2>3
  <1>9. QED
    BY <1>3, <1>5, <1>6, <1>8 DEF Layered

LEMMA NotEmpty == ASSUME Chain, seen # <<>> PROVE Len(seen) # 0
  <1>1. seen \in Seq(DOMAIN Files)
    BY DEF Chain
  <1>2. QED
    BY <1>1, EmptySeq

(* Nothing has been said to begin with.                                    *)
LEMMA NothingSaid == ASSUME NEW layers PROVE Won(NoPaths, layers, 0)
  <1>1. DOMAIN NoPaths = {}
    BY DEF NoPaths
  <1>2. \A i \in 1..0 : FALSE
    OBVIOUS
  <1>3. QED
    BY <1>1, <1>2 DEF Won

(* What an assignment runs into is a file's or another assignment's.       *)
LEMMA FileOrVariable ==
  ASSUME Chain, NEW level \in Nat, 1 <= level, level <= Len(seen) + 1, NEW i \in 1..Total(level)
  PROVE  \/ \E k \in DOMAIN seen : SoFar(level)[i] = Files[seen[k]].data
         \/ \E k \in 1..Len(env) : SoFar(level)[i] = Said(env)[k]
  <1>1. PICK n \in Nat : n = Len(seen) /\ DOMAIN seen = 1..n
    BY ChainTypes
  <1>2. PICK e \in Nat : e = Len(env)
    BY ChainTypes
  <1>3. PICK f \in Nat, t \in Nat : f = Merges(level) /\ t = Total(level)
    BY TotalType
  <1>4. f = n + 1 - level /\ t = IF level > n THEN 0 ELSE f + e
    BY <1>1, <1>2, <1>3 DEF Merges, Total
  <1>5. SoFar(level)[i] = IF i <= f THEN Files[seen[n + 1 - i]].data ELSE Said(env)[i - f]
    BY <1>1, <1>3 DEF SoFar
  <1>6. i \in 1..t /\ level <= n /\ t = f + e
    BY <1>3, <1>4
  <1>7. CASE i <= f
    <2>1. n + 1 - i \in 1..n
      BY <1>4, <1>6, <1>7
    <2>2. QED
      BY <1>1, <1>5, <1>7, <2>1
  <1>8. CASE ~(i <= f)
    <2>1. i - f \in 1..e
      BY <1>6, <1>8
    <2>2. QED
      BY <1>2, <1>5, <1>8, <2>1
  <1>9. QED
    BY <1>7, <1>8

LEMMA ThroughBlocks == ASSUME Chain, Through(SoFar(1), Total(1), Overrides) PROVE Blocked
  <1>1. PICK a \in ToSet(Overrides) : \/ \E i \in 1..Total(1) : Above(SoFar(1)[i], a.path) # {}
                                     \/ \E i \in 1..Len(Overrides) : Above(Said(Overrides)[i], a.path) # {}
    BY DEF Through
  <1>2. 1 \in Nat /\ 1 <= 1 /\ 1 <= Len(seen) + 1
    BY ChainTypes
  <1>3. ASSUME NEW i \in 1..Total(1), Above(SoFar(1)[i], a.path) # {}
        PROVE  \/ \E k \in DOMAIN seen : Above(Files[seen[k]].data, a.path) # {}
               \/ \E k \in 1..Len(env) : Above(Said(env)[k], a.path) # {}
    BY <1>2, <1>3, FileOrVariable
  <1>4. QED
    BY <1>1, <1>3 DEF Blocked

-----------------------------------------------------------------------------
(* load() on its way back: a file is merged over the ones it extends, and  *)
(* the environment over it, which makes up for the environment before.     *)
LEMMA LevelMerged ==
  ASSUME Chain, NEW level \in DOMAIN seen, Won(config, SoFar(level + 1), Total(level + 1)),
         NEW merged, merged = Assigned(DeepMerge(config, Files[seen[level]].data), env)
  PROVE  /\ merged.ok \in BOOLEAN
         /\ merged.ok => Won(merged.tree, SoFar(level), Total(level))
         /\ ~merged.ok => Blocked
  <1>1. PICK n \in Nat : n = Len(seen) /\ DOMAIN seen = 1..n
    BY ChainTypes
  <1>2. PICK e \in Nat : e = Len(env) /\ IsAssignments(env) /\ Layered(Said(env), e)
    BY ChainTypes, SaidLayered
  <1>3. PICK v \in Nat : v = level /\ 1 <= v /\ v <= n
    BY <1>1
  <1>4. PICK f \in Nat : f = n - v
    BY <1>3
  <1>5. PICK t \in Nat : t = Total(v + 1) /\ t = IF f = 0 THEN 0 ELSE f + e
    <2>1. Merges(v + 1) = f
      BY <1>1, <1>3, <1>4 DEF Merges
    <2>2. Total(v + 1) = IF f = 0 THEN 0 ELSE f + e
      BY <1>1, <1>2, <1>3, <1>4, <2>1 DEF Total
    <2>3. QED
      BY <2>2
  <1>6. PICK m \in Nat : m = f + 1 + e /\ m = Total(v)
    BY <1>1, <1>2, <1>3, <1>4 DEF Merges, Total
  <1>7. PICK base : base = SoFar(v + 1)
    OBVIOUS
  <1>8. PICK kept : kept = SoFar(v)
    OBVIOUS
  <1>9. Layered(base, t) /\ Layered(kept, m)
    <2>1. v \in Nat /\ v + 1 \in Nat /\ 1 <= v + 1 /\ v + 1 <= n + 1 /\ v <= n + 1
      BY <1>3
    <2>2. QED
      BY <1>1, <1>3, <1>5, <1>6, <1>7, <1>8, <2>1, SoFarLayered
  <1>10. PICK F : F = Files[seen[v]].data
    OBVIOUS
  <1>11. DOMAIN F \subseteq Paths
    BY <1>1, <1>3, <1>10, ChainTypes
  <1>12. \A i \in 1..t : base[i] = IF i <= f THEN Files[seen[n + 1 - i]].data ELSE Said(env)[i - f]
    <2>1. Merges(v + 1) = f
      BY <1>1, <1>3, <1>4 DEF Merges
    <2>2. QED
      BY <1>1, <1>5, <1>7, <2>1 DEF SoFar
  <1>13. \A i \in 1..m : kept[i] = IF i <= f + 1 THEN Files[seen[n + 1 - i]].data ELSE Said(env)[i - (f + 1)]
    <2>1. Merges(v) = f + 1
      BY <1>1, <1>3, <1>4 DEF Merges
    <2>2. QED
      BY <1>1, <1>6, <1>8, <2>1 DEF SoFar
  <1>14. PICK t1 \in Nat : t1 = t + 1
    OBVIOUS
  <1>15. PICK next : next = [i \in 1..t1 |-> IF i <= t THEN base[i] ELSE F]
    OBVIOUS
  <1>16. next[t1] = F /\ DOMAIN next = 1..t1 /\ \A i \in 1..t : next[i] = base[i]
    BY <1>14, <1>15
  <1>17. Layered(next, t1)
    <2>1. \A i \in 1..t1 : i \in 1..t \/ i = t1
      BY <1>14
    <2>2. QED
      BY <1>9, <1>11, <1>16, <2>1 DEF Layered
  <1>18. Won(config, next, t)
    <2>1. Won(config, base, t)
      BY <1>3, <1>5, <1>7
    <2>2. QED
      BY <1>16, <2>1, WonAgrees
  <1>19. Won(DeepMerge(config, F), next, t1)
    BY <1>14, <1>16, <1>17, <1>18, WonNext
  <1>20. merged = Assigned(DeepMerge(config, F), env)
    BY <1>3, <1>10
  <1>21. /\ merged.ok \in BOOLEAN
         /\ merged.ok => Won(merged.tree, Followed(next, t1, env, e), t1 + e)
         /\ ~merged.ok => Through(next, t1, env)
    BY <1>2, <1>17, <1>19, <1>20, AssignedWins
  <1>22. ASSUME Through(next, t1, env) PROVE Blocked
    <2>1. PICK a \in ToSet(env) : \/ \E i \in 1..t1 : Above(next[i], a.path) # {}
                                  \/ \E i \in 1..e : Above(Said(env)[i], a.path) # {}
      BY <1>2, <1>22 DEF Through
    <2>2. ASSUME NEW i \in 1..t1, Above(next[i], a.path) # {}
          PROVE  \/ \E k \in DOMAIN seen : Above(Files[seen[k]].data, a.path) # {}
                 \/ \E k \in 1..Len(env) : Above(Said(env)[k], a.path) # {}
      <3>1. CASE i = t1
        BY <1>1, <1>3, <1>10, <1>16, <2>2, <3>1
      <3>2. CASE i \in 1..t /\ i <= f
        <4>1. n + 1 - i \in 1..n
          BY <1>4, <3>2
        <4>2. next[i] = Files[seen[n + 1 - i]].data
          BY <1>12, <1>16, <3>2
        <4>3. QED
          BY <1>1, <2>2, <4>1, <4>2
      <3>3. CASE i \in 1..t /\ ~(i <= f)
        <4>1. i - f \in 1..e
          BY <1>5, <3>3
        <4>2. next[i] = Said(env)[i - f]
          BY <1>12, <1>16, <3>3
        <4>3. QED
          BY <1>2, <2>2, <4>1, <4>2
      <3>4. i = t1 \/ i \in 1..t
        BY <1>14
      <3>5. QED
        BY <3>1, <3>2, <3>3, <3>4
    <2>3. QED
      BY <1>2, <2>1, <2>2 DEF Blocked
  <1>23. ASSUME merged.ok PROVE Won(merged.tree, kept, m)
    <2>1. PICK layers : layers = Followed(next, t1, env, e)
      OBVIOUS
    <2>2. PICK l \in Nat : l = t1 + e
      OBVIOUS
    <2>3. PICK tree : tree = merged.tree
      OBVIOUS
    <2>4. Won(tree, layers, l)
      BY <1>21, <1>23, <2>1, <2>2, <2>3
    <2>5. Layered(layers, l)
      <3>1. e \in 0..e
        OBVIOUS
      <3>2. QED
        BY <1>2, <1>17, <2>1, <2>2, <3>1, FollowedLayered
    <2>6. \A i \in 1..l : layers[i] = IF i <= t1 THEN next[i] ELSE Said(env)[i - t1]
      BY <2>1, <2>2 DEF Followed
    <2>7. PICK d \in Nat : d = t - f /\ (d = 0 \/ d = e)
      BY <1>5
    <2>8. t = f + d /\ t1 = f + d + 1 /\ l = f + d + 1 + e
      BY <1>14, <2>2, <2>7
    <2>9. PICK place : place = [i \in 1..m |-> IF i <= f THEN i ELSE i + d]
      OBVIOUS
    <2>10. place \in [1..m -> 1..l] /\ \A i \in 1..m : place[i] = IF i <= f THEN i ELSE i + d
      <3>1. \A i \in 1..m : (IF i <= f THEN i ELSE i + d) \in 1..l
        BY <1>6, <2>8
      <3>2. QED
        BY <2>9, <3>1
    <2>11. \A i, j \in 1..m : i < j => place[i] < place[j]
      <3>1. ASSUME NEW i \in 1..m, NEW j \in 1..m, i < j PROVE place[i] < place[j]
        <4>1. PICK a \in Int : a = place[i] /\ a = IF i <= f THEN i ELSE i + d
          BY <2>10
        <4>2. PICK b \in Int : b = place[j] /\ b = IF j <= f THEN j ELSE j + d
          BY <2>10
        <4>3. a < b
          BY <3>1, <4>1, <4>2
        <4>4. QED
          BY <4>1, <4>2, <4>3
      <3>2. QED
        BY <3>1
    <2>12. ASSUME NEW i \in 1..m PROVE kept[i] = layers[place[i]]
      <3>1. CASE i <= f
        <4>1. place[i] = i /\ i \in 1..l /\ i <= t1 /\ i \in 1..t /\ i <= f + 1
          BY <2>8, <2>10, <3>1
        <4>2. layers[i] = base[i]
          BY <1>16, <2>6, <4>1
        <4>3. QED
          BY <1>12, <1>13, <3>1, <4>1, <4>2
      <3>2. CASE i = f + 1
        <4>1. place[i] = t1 /\ t1 \in 1..l /\ t1 <= t1 /\ n + 1 - i = v
          BY <1>4, <1>14, <2>8, <2>10, <3>2
        <4>2. layers[t1] = F
          BY <1>16, <2>6, <4>1
        <4>3. kept[i] = Files[seen[n + 1 - i]].data
          BY <1>13, <3>2
        <4>4. QED
          BY <1>10, <4>1, <4>2, <4>3
      <3>3. CASE i > f + 1
        <4>1. place[i] = i + d /\ i + d \in 1..l /\ ~(i + d <= t1) /\ (i + d) - t1 = i - (f + 1)
          BY <1>6, <2>8, <2>10, <3>3
        <4>2. layers[i + d] = Said(env)[(i + d) - t1]
          BY <2>6, <4>1
        <4>3. kept[i] = Said(env)[i - (f + 1)]
          BY <1>13, <3>3
        <4>4. QED
          BY <4>1, <4>2, <4>3
      <3>4. QED
        BY <3>1, <3>2, <3>3
    <2>13. ASSUME NEW k \in 1..l PROVE \E i \in 1..m : k <= place[i] /\ DOMAIN kept[i] = DOMAIN layers[k]
      <3>1. CASE k <= f
        <4>1. k \in 1..m /\ place[k] = k
          BY <1>6, <2>10, <3>1
        <4>2. QED
          BY <2>12, <4>1
      <3>2. CASE k > f /\ k <= t
        <4>1. d = e /\ k - f \in 1..e
          BY <2>7, <2>8, <3>2
        <4>2. PICK i \in 1..m : i = k + 1
          BY <1>6, <2>8, <3>2, <4>1
        <4>3. kept[i] = Said(env)[k - f]
          <5>1. ~(i <= f + 1) /\ i - (f + 1) = k - f
            BY <3>2, <4>2
          <5>2. QED
            BY <1>13, <5>1
        <4>4. layers[k] = Said(env)[k - f]
          <5>1. k \in 1..t /\ k <= t1 /\ ~(k <= f)
            BY <1>14, <3>2
          <5>2. QED
            BY <1>12, <1>16, <2>6, <5>1
        <4>5. place[i] = i + d /\ k <= i + d
          BY <2>10, <3>2, <4>2
        <4>6. QED
          BY <4>3, <4>4, <4>5
      <3>3. CASE k > t
        <4>1. PICK i \in 1..m : i = k - d
          BY <1>6, <2>8, <3>3
        <4>2. ~(i <= f) /\ place[i] = k
          BY <2>8, <2>10, <3>3, <4>1
        <4>3. QED
          BY <2>12, <4>2
      <3>4. QED
        BY <3>1, <3>2, <3>3
    <2>14. Covers(kept, m, layers, l, place)
      BY <2>10, <2>11, <2>12, <2>13 DEF Covers
    <2>15. Won(tree, kept, m)
      BY <1>9, <2>4, <2>5, <2>14, Superseded
    <2>16. QED
      BY <2>3, <2>15
  <1>24. QED
    BY <1>3, <1>6, <1>8, <1>21, <1>22, <1>23

-----------------------------------------------------------------------------
LEMMA ConfigInitial == ASSUME ConfigInit PROVE ConfigInv
  <1>1. seen \in Seq(DOMAIN Files) /\ Len(seen) = 0 /\ DOMAIN seen = {}
    BY DEF ConfigInit
  <1>2. Chain
    BY <1>1 DEF ConfigInit, Chain
  <1>3. QED
    BY <1>2 DEF ConfigInit, ConfigInv

(* Layers depend on the files read, the environment and the options.       *)
LEMMA SameLayers ==
  ASSUME UNCHANGED <<env, options, seen>>
  PROVE  /\ Chain' = Chain /\ Blocked' = Blocked /\ All' = All /\ SoFar(1)' = SoFar(1) /\ Total(1)' = Total(1)
         /\ \A level : SoFar(level)' = SoFar(level) /\ Total(level)' = Total(level)
         /\ Overrides' = Overrides
  <1> USE DEF Overrides
  <1>1. \A level : Merges(level)' = Merges(level)
    BY DEF Merges
  <1>2. \A level : Total(level)' = Total(level)
    BY <1>1 DEF Total
  <1>3. \A level : SoFar(level)' = SoFar(level)
    BY <1>1, <1>2 DEF SoFar, Said
  <1>4. SoFar(1)' = SoFar(1) /\ Total(1)' = Total(1)
    BY <1>2, <1>3
  <1>5. All' = All
    BY <1>4 DEF All, Followed, Said
  <1>6. Chain' = Chain /\ Blocked' = Blocked
    BY DEF Chain, Blocked, Said
  <1>7. QED
    BY <1>2, <1>3, <1>4, <1>5, <1>6

LEMMA ReadKeeps == ASSUME ConfigInv, Read PROVE ConfigInv'
  <1>1. Chain /\ phase = "reading" /\ config = NoPaths /\ UNCHANGED <<env, options, config>>
    BY DEF ConfigInv, Read
  <1>2. PICK n \in Nat : n = Len(seen) /\ DOMAIN seen = 1..n
    BY <1>1, ChainTypes
  <1>3. CASE seen' = seen
    <2>1. phase' \in {"not found", "circular"} \/ (\E x \in DOMAIN Files : seen' = Append(seen, x))
      BY DEF Read
    <2>2. ASSUME NEW x \in DOMAIN Files, seen' = Append(seen, x) PROVE FALSE
      <3>1. seen \in Seq(DOMAIN Files)
        BY <1>1 DEF Chain
      <3>2. Len(Append(seen, x)) = n + 1
        BY <1>2, <3>1
      <3>3. QED
        BY <1>2, <1>3, <2>2, <3>2
    <2>3. phase' \in {"not found", "circular"}
      BY <2>1, <2>2
    <2>4. Chain'
      BY <1>1, <1>3, SameLayers
    <2>5. QED
      BY <2>3, <2>4 DEF ConfigInv
  <1>4. CASE seen' # seen
    <2>1. /\ file \in DOMAIN Files /\ file \notin ToSet(seen) /\ seen' = Append(seen, file)
          /\ phase' = IF Files[file].extends = Unset THEN "merging" ELSE "reading"
          /\ Files[file].extends = Unset => file' = file
      BY <1>4 DEF Read
    <2>2. seen \in Seq(DOMAIN Files)
      BY <1>1 DEF Chain
    <2>3. /\ seen' \in Seq(DOMAIN Files) /\ Len(seen') = n + 1 /\ DOMAIN seen' = 1..(n + 1)
          /\ seen'[n + 1] = file /\ \A i \in 1..n : seen'[i] = seen[i]
      BY <1>2, <2>1, <2>2
    <2>4. \A i \in 1..n : seen[i] # file
      BY <1>2, <2>1 DEF ToSet
    <2>5. Chain'
      <3>1. ASSUME NEW i \in 1..(n + 1), NEW j \in 1..(n + 1), seen'[i] = seen'[j] PROVE i = j
        <4>1. (i \in 1..n \/ i = n + 1) /\ (j \in 1..n \/ j = n + 1)
          OBVIOUS
        <4>2. CASE i \in 1..n /\ j \in 1..n
          BY <1>1, <1>2, <2>3, <3>1, <4>2 DEF Chain
        <4>3. CASE i = n + 1 \/ j = n + 1
          BY <2>3, <2>4, <3>1, <4>1, <4>3
        <4>4. QED
          BY <4>1, <4>2, <4>3
      <3>2. env' \in Environments /\ options' \in CommandLines
        BY <1>1 DEF Chain
      <3>3. QED
        BY <2>3, <3>1, <3>2 DEF Chain
    <2>6. CASE Files[file].extends # Unset
      <3>1. phase' = "reading" /\ config' = NoPaths
        BY <1>1, <2>1, <2>6
      <3>2. QED
        BY <2>5, <3>1 DEF ConfigInv
    <2>7. CASE Files[file].extends = Unset
      <3>1. phase' = "merging" /\ config' = NoPaths /\ file' = seen'[n + 1]
        BY <1>1, <2>1, <2>3, <2>7
      <3>2. seen' # <<>> /\ Last(seen') = file
        BY <2>3 DEF Last
      <3>3. Total(n + 2)' = 0
        BY <2>3 DEF Total
      <3>4. Won(config', SoFar(n + 2)', Total(n + 2)')
        BY <3>1, <3>3, NothingSaid
      <3>5. PICK level \in DOMAIN seen' : level = n + 1 /\ level + 1 = n + 2
        BY <2>3
      <3>6. file' = seen'[level] /\ Won(config', SoFar(level + 1)', Total(level + 1)')
        BY <3>1, <3>4, <3>5
      <3>7. \E l \in DOMAIN seen' : file' = seen'[l] /\ Won(config', SoFar(l + 1)', Total(l + 1)')
        BY <3>6
      <3>8. QED
        BY <2>5, <2>7, <3>1, <3>2, <3>7 DEF ConfigInv
    <2>8. QED
      BY <2>6, <2>7
  <1>5. QED
    BY <1>3, <1>4

LEMMA ReturnKeeps == ASSUME ConfigInv, Return PROVE ConfigInv'
  <1>1. /\ Chain /\ phase = "merging" /\ seen # <<>> /\ Files[Last(seen)].extends = Unset
        /\ UNCHANGED <<env, options, seen>>
    BY DEF ConfigInv, Return, Merge
  <1>2. PICK level \in DOMAIN seen : seen[level] = file /\ Merge(level)
    BY DEF Return
  <1>3. Won(config, SoFar(level + 1), Total(level + 1))
    <2>1. PICK l \in DOMAIN seen : file = seen[l] /\ Won(config, SoFar(l + 1), Total(l + 1))
      BY <1>1 DEF ConfigInv
    <2>2. l = level
      BY <1>1, <1>2, <2>1 DEF Chain
    <2>3. QED
      BY <2>1, <2>2
  <1>4. PICK merged : merged = Assigned(DeepMerge(config, Files[seen[level]].data), env)
    OBVIOUS
  <1>5. /\ config' = merged.tree
        /\ file' = seen[IF level = 1 THEN 1 ELSE level - 1]
        /\ phase' = IF ~merged.ok THEN "through a value" ELSE IF level = 1 THEN "overriding" ELSE "merging"
    BY <1>2, <1>4 DEF Merge
  <1>6. /\ merged.ok \in BOOLEAN
        /\ merged.ok => Won(merged.tree, SoFar(level), Total(level))
        /\ ~merged.ok => Blocked
    BY <1>1, <1>3, <1>4, LevelMerged
  <1>7. Chain' /\ seen' # <<>> /\ Files[Last(seen')].extends = Unset
    BY <1>1, SameLayers
  <1>8. CASE ~merged.ok
    <2>1. phase' = "through a value" /\ Blocked'
      BY <1>1, <1>5, <1>6, <1>8, SameLayers
    <2>2. Len(seen') # 0
      BY <1>1, NotEmpty
    <2>3. QED
      BY <1>7, <2>1, <2>2 DEF ConfigInv
  <1>9. CASE merged.ok /\ level = 1
    <2>1. phase' = "overriding" /\ Won(config', SoFar(1), Total(1))
      BY <1>5, <1>6, <1>9
    <2>2. Won(config', SoFar(1)', Total(1)')
      BY <1>1, <2>1, SameLayers
    <2>3. QED
      BY <1>7, <2>1, <2>2 DEF ConfigInv
  <1>10. CASE merged.ok /\ level # 1
    <2>1. PICK l \in DOMAIN seen : l = level - 1 /\ l + 1 = level
      <3>1. PICK n \in Nat : n = Len(seen) /\ DOMAIN seen = 1..n
        BY <1>1, ChainTypes
      <3>2. level - 1 \in 1..n /\ (level - 1) + 1 = level
        BY <1>10, <3>1
      <3>3. QED
        BY <3>1, <3>2
    <2>2. phase' = "merging" /\ file' = seen'[l]
      BY <1>1, <1>5, <1>10, <2>1
    <2>3. Won(config', SoFar(l + 1), Total(l + 1))
      BY <1>5, <1>6, <1>10, <2>1
    <2>4. Won(config', SoFar(l + 1)', Total(l + 1)')
      <3>1. SoFar(l + 1)' = SoFar(l + 1) /\ Total(l + 1)' = Total(l + 1)
        BY <1>1, SameLayers
      <3>2. QED
        BY <2>3, <3>1
    <2>5. \E k \in DOMAIN seen' : file' = seen'[k] /\ Won(config', SoFar(k + 1)', Total(k + 1)')
      BY <1>1, <2>2, <2>4
    <2>6. QED
      BY <1>7, <2>2, <2>5 DEF ConfigInv
  <1>11. QED
    BY <1>6, <1>8, <1>9, <1>10

LEMMA OverrideKeeps == ASSUME ConfigInv, Override PROVE ConfigInv'
  <1>1. /\ Chain /\ phase = "overriding" /\ seen # <<>> /\ Files[Last(seen)].extends = Unset
        /\ Won(config, SoFar(1), Total(1)) /\ UNCHANGED <<env, options, seen>>
    BY DEF ConfigInv, Override
  <1>2. PICK after : after = Assigned(config, Overrides)
    OBVIOUS
  <1>3. config' = after.tree /\ phase' = IF after.ok THEN "validating" ELSE "through a value"
    BY <1>2 DEF Override
  <1>4. PICK base : base = SoFar(1)
    OBVIOUS
  <1>5. PICK t \in Nat : t = Total(1) /\ Layered(base, t)
    <2>1. 1 \in Nat /\ 1 <= 1 /\ 1 <= Len(seen) + 1
      BY <1>1, ChainTypes
    <2>2. QED
      BY <1>1, <1>4, <2>1, SoFarLayered, TotalType
  <1>6. IsAssignments(Overrides)
    BY <1>1, ChainTypes
  <1>7. /\ after.ok \in BOOLEAN
        /\ after.ok => Won(after.tree, Followed(base, t, Overrides, Len(Overrides)), t + Len(Overrides))
        /\ ~after.ok => Through(base, t, Overrides)
    BY <1>1, <1>2, <1>4, <1>5, <1>6, AssignedWins
  <1>8. Chain' /\ seen' # <<>> /\ Files[Last(seen')].extends = Unset
    BY <1>1, SameLayers
  <1>9. CASE after.ok
    <2>1. phase' = "validating" /\ Won(config', All, Total(1) + Len(Overrides))
      BY <1>3, <1>4, <1>5, <1>7, <1>9 DEF All
    <2>2. Won(config', All', Total(1)' + Len(Overrides'))
      BY <1>1, <2>1, SameLayers
    <2>3. QED
      BY <1>8, <2>1, <2>2 DEF ConfigInv
  <1>10. CASE ~after.ok
    <2>1. Through(base, t, Overrides) => Blocked
      BY <1>1, <1>4, <1>5, ThroughBlocks
    <2>2. phase' = "through a value" /\ Blocked'
      BY <1>1, <1>3, <1>7, <1>10, <2>1, SameLayers
    <2>3. Len(seen') # 0
      BY <1>1, NotEmpty
    <2>4. QED
      BY <1>8, <2>2, <2>3 DEF ConfigInv
  <1>11. QED
    BY <1>7, <1>9, <1>10

LEMMA ValidateKeeps == ASSUME ConfigInv, Validate PROVE ConfigInv'
  <1>1. /\ Chain /\ phase = "validating" /\ seen # <<>> /\ Files[Last(seen)].extends = Unset
        /\ Won(config, All, Total(1) + Len(Overrides)) /\ UNCHANGED <<env, options, seen, config>>
        /\ phase' \in {"invalid", "ready"}
    BY DEF ConfigInv, Validate
  <1>2. Chain' /\ Won(config', All', Total(1)' + Len(Overrides'))
    BY <1>1, SameLayers
  <1>3. QED
    BY <1>1, <1>2 DEF ConfigInv

LEMMA ConfigKeeps == ASSUME ConfigInv, [ConfigNext]_configVars PROVE ConfigInv'
  <1>1. CASE UNCHANGED configVars
    <2>1. UNCHANGED <<env, options, seen>> /\ UNCHANGED <<phase, file, config>>
      BY <1>1 DEF configVars
    <2>2. /\ Chain' = Chain /\ Blocked' = Blocked /\ All' = All /\ SoFar(1)' = SoFar(1) /\ Total(1)' = Total(1)
          /\ \A level : SoFar(level)' = SoFar(level) /\ Total(level)' = Total(level)
          /\ Overrides' = Overrides
      BY <2>1, SameLayers
    <2>3. phase' = "merging" =>
            \E level \in DOMAIN seen' : file' = seen'[level] /\ Won(config', SoFar(level + 1)', Total(level + 1)')
      <3>1. SUFFICES ASSUME phase = "merging"
            PROVE  \E level \in DOMAIN seen' : file' = seen'[level] /\ Won(config', SoFar(level + 1)', Total(level + 1)')
        BY <2>1
      <3>2. PICK level \in DOMAIN seen : file = seen[level] /\ Won(config, SoFar(level + 1), Total(level + 1))
        BY <3>1 DEF ConfigInv
      <3>3. SoFar(level + 1)' = SoFar(level + 1) /\ Total(level + 1)' = Total(level + 1)
        BY <2>2
      <3>4. QED
        BY <2>1, <3>2, <3>3
    <2>4. QED
      BY <2>1, <2>2, <2>3 DEF ConfigInv
  <1>2. CASE Read
    BY <1>2, ReadKeeps
  <1>3. CASE Return
    BY <1>3, ReturnKeeps
  <1>4. CASE Override
    BY <1>4, OverrideKeeps
  <1>5. CASE Validate
    BY <1>5, ValidateKeeps
  <1>6. QED
    BY <1>1, <1>2, <1>3, <1>4, <1>5 DEF ConfigNext

(* The layers of the property, one by one.                                 *)
LEMMA LayersAre ==
  ASSUME Chain, NEW n, n = Total(1) + Len(Overrides), Len(seen) # 0
  PROVE  n \in Nat /\ DOMAIN Layers = 1..n /\ DOMAIN All = 1..n /\ \A i \in 1..n : Layers[i] = All[i]
  <1>1. PICK k \in Nat : k = Len(seen) /\ DOMAIN seen = 1..k
    BY ChainTypes
  <1>2. PICK e \in Nat : e = Len(env) /\ DOMAIN Said(env) = 1..e
    BY ChainTypes, SaidLayered DEF Layered
  <1>3. PICK o \in Nat : o = Len(Overrides) /\ DOMAIN Said(Overrides) = 1..o
    BY ChainTypes, SaidLayered DEF Layered
  <1>4. Merges(1) = k /\ Total(1) = k + e /\ k + e \in Nat
    BY <1>1, <1>2 DEF Merges, Total
  <1>5. PICK A : A = [i \in DOMAIN seen |-> Files[seen[Len(seen) + 1 - i]].data]
    OBVIOUS
  <1>6. PICK B : B = Said(env)
    OBVIOUS
  <1>7. PICK C : C = Said(Overrides)
    OBVIOUS
  <1>8. DOMAIN A = 1..k /\ \A i \in 1..k : A[i] = Files[seen[k + 1 - i]].data
    BY <1>1, <1>5
  <1>9. PICK S : S = {A[i] : i \in 1..k} \cup {B[i] : i \in 1..e} \cup {C[i] : i \in 1..o}
    OBVIOUS
  <1>10. A \in [1..k -> S] /\ B \in [1..e -> S] /\ C \in [1..o -> S]
    <2>1. A = [i \in 1..k |-> A[i]]
      BY <1>5, <1>8
    <2>2. B = [i \in 1..e |-> B[i]]
      BY <1>2, <1>6 DEF Said
    <2>3. C = [i \in 1..o |-> C[i]]
      BY <1>3, <1>7 DEF Said
    <2>4. /\ \A i \in 1..k : A[i] \in S
          /\ \A i \in 1..e : B[i] \in S
          /\ \A i \in 1..o : C[i] \in S
      BY <1>9
    <2>5. QED
      BY <2>1, <2>2, <2>3, <2>4
  <1> HIDE <1>9
  <1>11. A \in Seq(S) /\ Len(A) = k /\ B \in Seq(S) /\ Len(B) = e /\ C \in Seq(S) /\ Len(C) = o
    BY <1>10
  <1>12. PICK D : D = A \o B
    OBVIOUS
  <1>13. D \in Seq(S) /\ Len(D) = k + e /\ \A i \in 1..(k + e) : D[i] = IF i <= k THEN A[i] ELSE B[i - k]
    BY <1>11, <1>12, ConcatProperties
  <1>14. PICK L : L = D \o C
    OBVIOUS
  <1>15. L \in Seq(S) /\ Len(L) = k + e + o
         /\ \A i \in 1..(k + e + o) : L[i] = IF i <= k + e THEN D[i] ELSE C[i - (k + e)]
    <2>1. PICK d \in Nat : d = k + e
      OBVIOUS
    <2>2. Len(D) = d
      BY <1>13, <2>1
    <2>3. L \in Seq(S) /\ Len(L) = d + o /\ \A i \in 1..(d + o) : L[i] = IF i <= d THEN D[i] ELSE C[i - d]
      BY <1>11, <1>13, <1>14, <2>2, ConcatProperties
    <2>4. QED
      BY <2>1, <2>3
  <1>16. Layers = L
    BY <1>5, <1>6, <1>7, <1>12, <1>14 DEF Layers
  <1>17. PICK base : base = SoFar(1)
    OBVIOUS
  <1>18. \A i \in 1..(k + e) : base[i] = IF i <= k THEN Files[seen[k + 1 - i]].data ELSE B[i - k]
    BY <1>1, <1>4, <1>6, <1>17 DEF SoFar
  <1>19. DOMAIN All = 1..(k + e + o) /\ \A i \in 1..(k + e + o) : All[i] = IF i <= k + e THEN base[i] ELSE C[i - (k + e)]
    BY <1>3, <1>4, <1>7, <1>17 DEF All, Followed
  <1>20. ASSUME NEW i \in 1..(k + e) PROVE D[i] = base[i]
    <2>1. CASE i <= k
      BY <1>8, <1>13, <1>18, <2>1
    <2>2. CASE ~(i <= k)
      BY <1>13, <1>18, <2>2
    <2>3. QED
      BY <2>1, <2>2
  <1>21. ASSUME NEW i \in 1..(k + e + o) PROVE L[i] = All[i]
    <2>1. CASE i <= k + e
      <3>1. i \in 1..(k + e)
        BY <2>1
      <3>2. QED
        BY <1>15, <1>19, <1>20, <2>1, <3>1
    <2>2. CASE ~(i <= k + e)
      BY <1>15, <1>19, <2>2
    <2>3. QED
      BY <2>1, <2>2
  <1>22. n = k + e + o /\ k + e + o \in Nat
    BY <1>3, <1>4
  <1>23. DOMAIN L = 1..(k + e + o)
    BY <1>15
  <1>24. QED
    BY <1>16, <1>19, <1>21, <1>22, <1>23

(* What it runs into is in some layer.                                     *)
LEMMA BlockedByLayer ==
  ASSUME Chain, Blocked, Len(seen) # 0
  PROVE  \E a \in ToSet(env \o Overrides), i \in DOMAIN Layers : Above(Layers[i], a.path) # {}
  <1>1. PICK k \in Nat : k = Len(seen) /\ DOMAIN seen = 1..k
    BY ChainTypes
  <1>2. PICK e \in Nat : e = Len(env)
    BY ChainTypes
  <1>3. PICK o \in Nat : o = Len(Overrides)
    BY ChainTypes
  <1>4. Merges(1) = k /\ Total(1) = k + e
    BY <1>1, <1>2 DEF Merges, Total
  <1>5. /\ DOMAIN Layers = 1..(k + e + o) /\ DOMAIN All = 1..(k + e + o)
        /\ \A i \in 1..(k + e + o) : Layers[i] = All[i]
    BY <1>1, <1>3, <1>4, LayersAre
  <1>6. \A i \in 1..(k + e + o) :
          All[i] = IF i <= k + e THEN SoFar(1)[i] ELSE Said(Overrides)[i - (k + e)]
    BY <1>3, <1>4 DEF All, Followed
  <1>7. \A i \in 1..(k + e) : SoFar(1)[i] = IF i <= k THEN Files[seen[k + 1 - i]].data ELSE Said(env)[i - k]
    BY <1>1, <1>4 DEF SoFar
  <1>8. PICK a \in ToSet(env) \cup ToSet(Overrides) :
          \/ \E j \in 1..k : Above(Files[seen[j]].data, a.path) # {}
          \/ \E i \in 1..e : Above(Said(env)[i], a.path) # {}
          \/ \E i \in 1..o : Above(Said(Overrides)[i], a.path) # {}
    BY <1>1, <1>2, <1>3 DEF Blocked
  <1>9. a \in ToSet(env \o Overrides)
    <2>1. PICK S : S = ToSet(env) \cup ToSet(Overrides)
      OBVIOUS
    <2>2. env \in Seq(S) /\ Overrides \in Seq(S)
      <3>1. env \in Seq(ToSet(env)) /\ Overrides \in Seq(ToSet(Overrides))
        BY ChainTypes DEF IsAssignments
      <3>2. QED
        BY <2>1, <3>1
    <2>3. PICK both : both = env \o Overrides
      OBVIOUS
    <2>4. both \in Seq(S) /\ Len(both) = e + o /\ \A i \in 1..(e + o) : both[i] = IF i <= e THEN env[i] ELSE Overrides[i - e]
      BY <1>2, <1>3, <2>2, <2>3, ConcatProperties
    <2>5. DOMAIN both = 1..(e + o) /\ DOMAIN env = 1..e /\ DOMAIN Overrides = 1..o
      BY <1>2, <1>3, <2>2, <2>4, LenProperties
    <2>6. CASE a \in ToSet(env)
      <3>1. PICK i \in 1..e : a = env[i]
        BY <2>5, <2>6 DEF ToSet
      <3>2. i \in 1..(e + o) /\ i <= e
        OBVIOUS
      <3>3. both[i] = a
        BY <2>4, <3>1, <3>2
      <3>4. QED
        BY <2>3, <2>5, <3>2, <3>3 DEF ToSet
    <2>7. CASE a \in ToSet(Overrides)
      <3>1. PICK i \in 1..o : a = Overrides[i]
        BY <2>5, <2>7 DEF ToSet
      <3>2. PICK j \in 1..(e + o) : j = i + e /\ ~(j <= e) /\ j - e = i
        OBVIOUS
      <3>3. both[j] = a
        BY <2>4, <3>1, <3>2
      <3>4. QED
        BY <2>3, <2>5, <3>2, <3>3 DEF ToSet
    <2>8. QED
      BY <2>6, <2>7
  <1>10. \E i \in 1..(k + e + o) : Above(Layers[i], a.path) # {}
    <2>1. ASSUME NEW j \in 1..k, Above(Files[seen[j]].data, a.path) # {}
          PROVE  \E i \in 1..(k + e + o) : Above(Layers[i], a.path) # {}
      <3>1. PICK i \in 1..(k + e + o) : i = k + 1 - j /\ i <= k /\ i \in 1..(k + e) /\ i <= k + e /\ k + 1 - i = j
        OBVIOUS
      <3>2. Layers[i] = SoFar(1)[i]
        BY <1>5, <1>6, <3>1
      <3>3. SoFar(1)[i] = Files[seen[j]].data
        BY <1>7, <3>1
      <3>4. QED
        BY <2>1, <3>2, <3>3
    <2>2. ASSUME NEW j \in 1..e, Above(Said(env)[j], a.path) # {}
          PROVE  \E i \in 1..(k + e + o) : Above(Layers[i], a.path) # {}
      <3>1. PICK i \in 1..(k + e + o) : i = k + j /\ ~(i <= k) /\ i \in 1..(k + e) /\ i <= k + e /\ i - k = j
        OBVIOUS
      <3>2. Layers[i] = SoFar(1)[i]
        BY <1>5, <1>6, <3>1
      <3>3. SoFar(1)[i] = Said(env)[j]
        BY <1>7, <3>1
      <3>4. QED
        BY <2>2, <3>2, <3>3
    <2>3. ASSUME NEW j \in 1..o, Above(Said(Overrides)[j], a.path) # {}
          PROVE  \E i \in 1..(k + e + o) : Above(Layers[i], a.path) # {}
      <3>1. PICK i \in 1..(k + e + o) : i = k + e + j /\ ~(i <= k + e) /\ i - (k + e) = j
        OBVIOUS
      <3>2. Layers[i] = Said(Overrides)[j]
        BY <1>5, <1>6, <3>1
      <3>3. QED
        BY <2>3, <3>2
    <2>4. QED
      BY <1>8, <2>1, <2>2, <2>3
  <1>11. QED
    BY <1>5, <1>9, <1>10

(* Loading keeps count of what every layer has said.                       *)
THEOREM ConfigInvariance == ConfigSpec => []ConfigInv
  <1>1. ConfigInit => ConfigInv
    BY ConfigInitial
  <1>2. ConfigInv /\ [ConfigNext]_configVars => ConfigInv'
    BY ConfigKeeps
  <1>3. QED
    BY <1>1, <1>2, PTL DEF ConfigSpec

(* The last word wins, at every path on its own, whatever files extend     *)
(* whatever, and though the environment is applied to every one of them,   *)
(* among those _load() lets speak: an option that is falsy, the seed apart,*)
(* is not one of them (cli.py:46-51).                                      *)
THEOREM LastWordHeeded == ConfigSpec => []LastWordWins
  <1>1. ConfigInv => LastWordWins
    <2>1. SUFFICES ASSUME ConfigInv PROVE LastWordWins
      OBVIOUS
    <2>2. Chain
      BY <2>1 DEF ConfigInv
    <2>3. PICK n \in Nat : n = Len(seen) /\ DOMAIN seen = 1..n
      BY <2>2, ChainTypes
    <2>4. Cardinality(ToSet(seen)) = Len(seen)
      <3>1. PICK S : S = ToSet(seen)
        OBVIOUS
      <3>2. seen \in [1..n -> S] /\ \A x \in S : \E i \in 1..n : seen[i] = x
        <4>1. seen \in Seq(DOMAIN Files)
          BY <2>2 DEF Chain
        <4>2. \A i \in 1..n : seen[i] \in S
          BY <2>3, <3>1 DEF ToSet
        <4>3. seen \in [1..n -> S]
          BY <2>3, <4>1, <4>2
        <4>4. QED
          BY <2>3, <3>1, <4>3 DEF ToSet
      <3>3. seen \in Injection(1..n, S) /\ seen \in Surjection(1..n, S)
        BY <2>2, <2>3, <3>2 DEF Injection, IsInjective, Surjection, Chain
      <3>4. IsFiniteSet(1..n) /\ Cardinality(1..n) = n
        BY FS_Interval
      <3>5. Cardinality(S) = n
        BY <3>3, <3>4, FS_Surjection
      <3>6. QED
        BY <2>3, <3>1, <3>5
    <2>5. ASSUME phase \in {"ready", "validating", "invalid"}
          PROVE  LastWords(config, Layers) /\ Files[Last(seen)].extends = Unset
      <3>1. seen # <<>> /\ Files[Last(seen)].extends = Unset /\ Won(config, All, Total(1) + Len(Overrides))
        BY <2>1, <2>5 DEF ConfigInv
      <3>2. Len(seen) # 0
        BY <2>2, <3>1, NotEmpty
      <3>3. PICK m : m = Total(1) + Len(Overrides)
        OBVIOUS
      <3>4. m \in Nat /\ DOMAIN Layers = 1..m /\ DOMAIN All = 1..m /\ \A i \in 1..m : Layers[i] = All[i]
        BY <2>2, <3>2, <3>3, LayersAre
      <3>5. Won(config, Layers, m)
        BY <3>1, <3>3, <3>4, WonAgrees
      <3>6. Layered(All, m)
        <4>1. 1 \in Nat /\ 1 <= 1 /\ 1 <= Len(seen) + 1
          BY <2>3
        <4>2. Layered(SoFar(1), Total(1)) /\ Total(1) \in Nat
          BY <2>2, <4>1, SoFarLayered, TotalType
        <4>3. IsAssignments(Overrides) /\ Len(Overrides) \in 0..Len(Overrides)
          BY <2>2, ChainTypes
        <4>4. Layered(Followed(SoFar(1), Total(1), Overrides, Len(Overrides)), Total(1) + Len(Overrides))
          BY <4>2, <4>3, FollowedLayered
        <4>5. QED
          BY <3>3, <4>4 DEF All
      <3>7. Layered(Layers, m)
        BY <3>4, <3>6, LayeredAgrees
      <3>8. LastWords(config, Layers)
        BY <3>4, <3>5, <3>7, WonIsLastWords
      <3>9. QED
        BY <3>1, <3>8
    <2>6. ASSUME phase = "through a value"
          PROVE  \E a \in ToSet(env \o Overrides), i \in DOMAIN Layers : Above(Layers[i], a.path) # {}
      <3>1. Blocked /\ Len(seen) # 0
        BY <2>1, <2>6 DEF ConfigInv
      <3>2. QED
        BY <2>2, <3>1, BlockedByLayer
    <2>7. QED
      BY <2>4, <2>5, <2>6 DEF LastWordWins
  <1>2. QED
    BY <1>1, ConfigInvariance, PTL

-----------------------------------------------------------------------------
(***************************************************************************)
(* Routing.                                                                *)
(***************************************************************************)

(* Of some experts one is better than all the others, and one worse.       *)
LEMMA BestThere ==
  ASSUME NEW S, IsFiniteSet(S), S \subseteq Int, S # {}, NEW f, \A x \in S : f[x] \in Int
  PROVE  \E m \in S : \A x \in S : x # m => Better(f, m, x)
  <1>1. PICK g : g = [x \in S |-> 0 - f[x]]
    OBVIOUS
  <1>2. PICK m \in S : \A x \in S : g[m] <= g[x]
    <2>1. \A x \in S : g[x] \in Int
      BY <1>1
    <2>2. QED
      BY <2>1, LeastOf
  <1>3. \A x \in S : f[x] <= f[m]
    BY <1>1, <1>2
  <1>4. PICK T : T = {x \in S : f[x] = f[m]}
    OBVIOUS
  <1>5. PICK first \in T : \A x \in T : first <= x
    <2>1. PICK id : id = [x \in T |-> x]
      OBVIOUS
    <2>2. IsFiniteSet(T) /\ T # {} /\ \A x \in T : id[x] \in Int /\ id[x] = x
      BY <1>4, <2>1, FS_Subset
    <2>3. PICK first \in T : \A x \in T : id[first] <= id[x]
      BY <2>2, LeastOf
    <2>4. QED
      BY <2>2, <2>3
  <1>6. ASSUME NEW x \in S, x # first PROVE Better(f, first, x)
    <2>1. first \in S /\ f[first] = f[m] /\ f[x] \in Int /\ f[m] \in Int /\ first \in Int /\ x \in Int
      BY <1>4, <1>5
    <2>2. f[x] = f[m] => first <= x
      BY <1>4, <1>5
    <2>3. QED
      BY <1>3, <1>6, <2>1, <2>2 DEF Better
  <1>7. QED
    BY <1>4, <1>5, <1>6

LEMMA WorstThere ==
  ASSUME NEW S, IsFiniteSet(S), S \subseteq Int, S # {}, NEW f, \A x \in S : f[x] \in Int
  PROVE  \E m \in S : \A x \in S : x # m => Better(f, x, m)
  <1>1. PICK m \in S : \A x \in S : f[m] <= f[x]
    BY LeastOf
  <1>2. PICK T : T = {x \in S : f[x] = f[m]}
    OBVIOUS
  <1>3. PICK last \in T : \A x \in T : x <= last
    <2>1. PICK minus : minus = [x \in T |-> 0 - x]
      OBVIOUS
    <2>2. IsFiniteSet(T) /\ T # {} /\ \A x \in T : x \in Int /\ minus[x] \in Int /\ minus[x] = 0 - x
      BY <1>2, <2>1, FS_Subset
    <2>3. PICK last \in T : \A x \in T : minus[last] <= minus[x]
      BY <2>2, LeastOf
    <2>4. QED
      BY <2>2, <2>3
  <1>4. ASSUME NEW x \in S, x # last PROVE Better(f, x, last)
    <2>1. last \in S /\ f[last] = f[m] /\ f[x] \in Int /\ f[m] \in Int /\ last \in Int /\ x \in Int
      BY <1>2, <1>3
    <2>2. f[x] = f[m] => x <= last
      BY <1>2, <1>3
    <2>3. QED
      BY <1>1, <1>4, <2>1, <2>2 DEF Better
  <1>5. QED
    BY <1>2, <1>3, <1>4

(* The best of some experts: at most as many as a token may have, all of   *)
(* them when they are fewer, and none without those better than it.        *)
LEMMA TopKChosen ==
  ASSUME NEW f \in [Experts -> Int], NEW free \in SUBSET Experts, NEW top, top = TopK(f, free)
  PROVE  /\ top \subseteq free /\ IsFiniteSet(top)
         /\ Cardinality(top) <= ExpertsPerToken
         /\ Cardinality(top) < ExpertsPerToken => top = free
         /\ \A e \in free : \A x \in top : Better(f, e, x) => e \in top
  <1>1. IsFiniteSet(free) /\ free \subseteq Int /\ \A x \in free : f[x] \in Int
    BY RoutingAssumption, FS_Subset
  <1>2. \A S \in SUBSET free : IsFiniteSet(S) /\ Cardinality(S) \in Nat
    BY <1>1, FS_Subset, FS_CardinalityType
  <1>3. ExpertsPerToken \in Nat /\ ExpertsPerToken >= 1
    BY RoutingAssumption, FS_CardinalityType
  <1> DEFINE Ahead(e) == {x \in free : Better(f, x, e)}
  <1>4. \A e : e \in top <=> e \in free /\ Cardinality(Ahead(e)) < ExpertsPerToken
    BY DEF TopK
  <1>5. \A e : Ahead(e) \in SUBSET free /\ IsFiniteSet(Ahead(e)) /\ Cardinality(Ahead(e)) \in Nat
    BY <1>2
  <1>6. top \in SUBSET free /\ IsFiniteSet(top) /\ Cardinality(top) \in Nat
    BY <1>2, <1>4
  <1>7. Cardinality(top) <= ExpertsPerToken
    <2>1. CASE top = {}
      BY <1>3, <2>1, FS_EmptySet
    <2>2. CASE top # {}
      <3>1. PICK w \in top : \A x \in top : x # w => Better(f, x, w)
        BY <1>1, <1>6, <2>2, WorstThere
      <3>2. top \ {w} \subseteq Ahead(w)
        BY <1>6, <3>1
      <3>3. Cardinality(top \ {w}) <= Cardinality(Ahead(w))
        BY <1>5, <3>2, FS_Subset
      <3>4. Cardinality(top \ {w}) = Cardinality(top) - 1
        BY <1>6, FS_RemoveElement
      <3>5. Cardinality(Ahead(w)) < ExpertsPerToken
        BY <1>4
      <3>6. PICK a \in Nat : a = Cardinality(Ahead(w))
        BY <1>5
      <3>7. PICK t \in Nat : t = Cardinality(top)
        BY <1>6
      <3>8. t - 1 <= a /\ a < ExpertsPerToken
        BY <3>3, <3>4, <3>5, <3>6, <3>7
      <3>9. QED
        BY <1>3, <3>7, <3>8
    <2>3. QED
      BY <2>1, <2>2
  <1>8. ASSUME Cardinality(top) < ExpertsPerToken PROVE top = free
    <2>1. SUFFICES ASSUME free \ top # {} PROVE FALSE
      BY <1>6
    <2>2. PICK b \in free \ top : \A x \in free \ top : x # b => Better(f, b, x)
      <3>1. IsFiniteSet(free \ top) /\ free \ top \subseteq Int /\ \A x \in free \ top : f[x] \in Int
        BY <1>1, <1>2
      <3>2. QED
        BY <2>1, <3>1, BestThere
    <2>3. Ahead(b) \subseteq top
      <3>1. SUFFICES ASSUME NEW x \in free, Better(f, x, b), x \notin top PROVE FALSE
        OBVIOUS
      <3>2. f[x] \in Int /\ f[b] \in Int /\ x \in Int /\ b \in Int
        BY <1>1, <2>2
      <3>3. x # b
        BY <3>1, <3>2 DEF Better
      <3>4. Better(f, b, x)
        BY <2>2, <3>1, <3>3
      <3>5. QED
        BY <3>1, <3>2, <3>4 DEF Better
    <2>4. Cardinality(Ahead(b)) <= Cardinality(top)
      BY <1>6, <2>3, FS_Subset
    <2>5. Cardinality(Ahead(b)) < ExpertsPerToken
      BY <1>3, <1>5, <1>6, <1>8, <2>4
    <2>6. QED
      BY <1>4, <2>2, <2>5
  <1>9. ASSUME NEW e \in free, NEW x \in top, Better(f, e, x) PROVE e \in top
    <2>1. Ahead(e) \subseteq Ahead(x)
      <3>1. SUFFICES ASSUME NEW y \in free, Better(f, y, e) PROVE Better(f, y, x)
        OBVIOUS
      <3>2. /\ f[x] \in Int /\ f[e] \in Int /\ f[y] \in Int
            /\ x \in Int /\ e \in Int /\ y \in Int
        BY <1>1, <1>6
      <3>3. QED
        BY <1>9, <3>1, <3>2 DEF Better
    <2>2. Cardinality(Ahead(e)) <= Cardinality(Ahead(x))
      BY <1>5, <2>1, FS_Subset
    <2>3. Cardinality(Ahead(x)) < ExpertsPerToken
      BY <1>4
    <2>4. PICK a \in Nat, b \in Nat : a = Cardinality(Ahead(e)) /\ b = Cardinality(Ahead(x))
      BY <1>5
    <2>5. a <= b /\ b < ExpertsPerToken
      BY <2>2, <2>3, <2>4
    <2>6. a < ExpertsPerToken
      BY <1>3, <2>5
    <2>7. QED
      BY <1>4, <2>4, <2>6
  <1>10. QED
    BY <1>6, <1>7, <1>8, <1>9

-----------------------------------------------------------------------------
(* The room a batch has                                                    *)

(* What rounding up leaves is enough.                                      *)
LEMMA RoundedUp ==
  ASSUME NEW y \in Nat, NEW b \in Nat \ {0}, NEW q, q = (y + b - 1) \div b
  PROVE  q \in Nat /\ y <= q * b
  <1>1. PICK x \in Nat : x = y + b - 1
    OBVIOUS
  <1>2. q = x \div b
    BY <1>1
  <1>3. q \in Nat /\ x < (q + 1) * b
    BY <1>2
  <1>4. (q + 1) * b = q * b + b /\ q * b \in Nat
    BY <1>3
  <1>5. QED
    BY <1>1, <1>3, <1>4

(* The capacity of a batch; at 100 per cent or more it has room for all.   *)
Room(cap, n) ==
  /\ cap \in Nat
  /\ dropPolicy = "none" => cap = n
  /\ CapacityFactor >= 100 => n * ExpertsPerToken <= cap * Cardinality(Experts)

LEMMA CapacityRoom == ASSUME NEW n \in Nat PROVE Room(Capacity(n), n)
  <1>1. PICK E \in Nat, K \in Nat, F \in Nat :
          E = Cardinality(Experts) /\ K = ExpertsPerToken /\ F = CapacityFactor
    BY RoutingAssumption, FS_CardinalityType
  <1>2. 1 <= K /\ K <= E
    BY <1>1, RoutingAssumption
  <1>3. CASE dropPolicy = "none"
    <2>1. Capacity(n) = n
      BY <1>3 DEF Capacity
    <2>2. \A a, b, c \in Nat : b <= c => a * b <= a * c
      OBVIOUS
    <2>3. n * K <= n * E
      BY <1>2, <2>2
    <2>4. QED
      BY <1>1, <1>3, <2>1, <2>3 DEF Room
  <1>4. CASE dropPolicy # "none"
    <2>1. PICK y \in Nat : y = n * K * F
      OBVIOUS
    <2>2. PICK b \in Nat \ {0} : b = 100 * E
      BY <1>2
    <2>3. PICK q : q = (y + b - 1) \div b
      OBVIOUS
    <2>4. q \in Nat /\ y <= q * b
      BY <2>3, RoundedUp
    <2>5. Capacity(n) = IF q < 1 THEN 1 ELSE q
      BY <1>1, <1>4, <2>1, <2>2, <2>3 DEF Capacity
    <2>6. PICK cap \in Nat : cap = Capacity(n) /\ q <= cap
      BY <2>4, <2>5
    <2>7. ASSUME F >= 100 PROVE n * K <= cap * E
      <3>1. PICK m \in Nat : m = n * K
        OBVIOUS
      <3>2. PICK p \in Nat : p = q * E
        BY <2>4
      <3>3. q * b = 100 * p
        BY <2>2, <2>4, <3>2
      <3>4. m * 100 <= m * F
        <4>1. \A x, z, u \in Nat : z <= u => x * z <= x * u
          OBVIOUS
        <4>2. QED
          BY <2>7, <4>1
      <3>5. y = m * F
        BY <2>1, <3>1
      <3>6. m <= p
        BY <2>4, <3>3, <3>4, <3>5
      <3>7. p <= cap * E
        <4>1. \A x, z, u \in Nat : z <= u => z * x <= u * x
          OBVIOUS
        <4>2. QED
          BY <2>4, <2>6, <3>2, <4>1
      <3>8. cap * E \in Nat
        OBVIOUS
      <3>9. QED
        BY <3>1, <3>6, <3>7, <3>8
    <2>8. QED
      BY <1>1, <1>4, <2>6, <2>7 DEF Room
  <1>5. QED
    BY <1>3, <1>4

(* An expert has room where the loads do not add up to the room of all.    *)
LEMMA RoomLeft ==
  ASSUME NEW cap \in Nat, NEW load, \A e \in Experts : load[e] \in Nat /\ load[e] <= cap,
         SumFunctionOnSet(load, Experts) < cap * Cardinality(Experts)
  PROVE  \E e \in Experts : load[e] < cap
  <1>1. SUFFICES ASSUME \A e \in Experts : load[e] = cap PROVE FALSE
    OBVIOUS
  <1>2. SumFunctionOnSet(load, Experts) = cap * Cardinality(Experts)
    <2>1. IsFiniteSet(Experts) /\ cap \in Int
      BY RoutingAssumption
    <2>2. QED
      BY <1>1, <2>1, SumOfSame
  <1>3. PICK E \in Nat : E = Cardinality(Experts)
    BY RoutingAssumption, FS_CardinalityType
  <1>4. PICK all \in Nat : all = cap * E
    OBVIOUS
  <1>5. all < all
    BY <1>2, <1>3, <1>4
  <1>6. QED
    BY <1>5

-----------------------------------------------------------------------------
(* The decision after a token                                              *)

(* The tokens, of the first n, that an expert has                          *)
Having(s, e, n) == {i \in 1..n : e \in s.experts[i]}

RoutedTypes(s, n) ==
  /\ s.experts \in Seq(SUBSET Experts) /\ Len(s.experts) = n
  /\ s.load \in [Experts -> Nat]
  /\ s.dropped \in SUBSET (1..n)

Loaded(s, cap, n) == \A e \in Experts : s.load[e] = Cardinality(Having(s, e, n)) /\ s.load[e] <= cap

(* A token without an expert it would rather have, or with too few         *)
Passed(s, logits, i) ==
  {e \in Experts : /\ e \notin s.experts[i]
                   /\ i \in s.dropped \/ \E f \in s.experts[i] : Better(logits[i], e, f)}

Served(s, logits, cap, n) ==
  \A i \in 1..n :
    /\ IsFiniteSet(s.experts[i]) /\ Cardinality(s.experts[i]) <= ExpertsPerToken
    /\ i \in s.dropped <=> Cardinality(s.experts[i]) < ExpertsPerToken
    /\ \A e \in Passed(s, logits, i) : Cardinality(Having(s, e, i - 1)) = cap

(* All loads together: short of what could be, if a token was              *)
Packed(s, n) ==
  /\ SumFunctionOnSet(s.load, Experts) \in Nat
  /\ SumFunctionOnSet(s.load, Experts) <= n * ExpertsPerToken
  /\ s.dropped # {} => SumFunctionOnSet(s.load, Experts) < n * ExpertsPerToken

Given(s, n) ==
  /\ CapacityFactor >= 100 => \A i \in 1..n : s.experts[i] # {}
  /\ dropPolicy = "none" => s.dropped = {}

Routed(s, logits, cap, n) ==
  RoutedTypes(s, n) /\ Loaded(s, cap, n) /\ Served(s, logits, cap, n) /\ Packed(s, n) /\ Given(s, n)

LEMMA NothingRouted ==
  ASSUME NEW logits, NEW cap \in Nat, NEW s, s = [experts |-> <<>>, dropped |-> {}, load |-> NoLoad]
  PROVE  Routed(s, logits, cap, 0)
  <1>1. s.experts = <<>> /\ s.dropped = {} /\ s.load = NoLoad
    OBVIOUS
  <1>2. NoLoad \in [Experts -> Nat] /\ \A e \in Experts : NoLoad[e] = 0
    BY DEF NoLoad
  <1>3. RoutedTypes(s, 0)
    BY <1>1, <1>2 DEF RoutedTypes
  <1>4. 1..0 = {}
    OBVIOUS
  <1>5. Loaded(s, cap, 0)
    <2>1. ASSUME NEW e \in Experts PROVE Having(s, e, 0) = {}
      BY <1>4 DEF Having
    <2>2. Cardinality({}) = 0
      BY FS_EmptySet
    <2>3. \A e \in Experts : s.load[e] = 0
      BY <1>1, <1>2
    <2>4. 0 <= cap
      OBVIOUS
    <2>5. ASSUME NEW e \in Experts PROVE s.load[e] = Cardinality(Having(s, e, 0)) /\ s.load[e] <= cap
      BY <2>1, <2>2, <2>3, <2>4
    <2>6. QED
      BY <2>5 DEF Loaded
  <1>6. Served(s, logits, cap, 0)
    BY <1>4 DEF Served
  <1>7. Packed(s, 0)
    <2>1. SumFunctionOnSet(NoLoad, Experts) = 0 * Cardinality(Experts)
      <3>1. IsFiniteSet(Experts)
        BY RoutingAssumption
      <3>2. QED
        BY <1>2, <3>1, SumOfSame
    <2>2. PICK E \in Nat, K \in Nat : E = Cardinality(Experts) /\ K = ExpertsPerToken
      BY RoutingAssumption, FS_CardinalityType
    <2>3. 0 * E = 0 /\ 0 * K = 0
      OBVIOUS
    <2>4. QED
      BY <1>1, <2>1, <2>2, <2>3 DEF Packed
  <1>8. Given(s, 0)
    BY <1>1, <1>4 DEF Given
  <1>9. QED
    BY <1>3, <1>5, <1>6, <1>7, <1>8 DEF Routed

(* The experts that are not full                                           *)
Vacant(s, cap) == {e \in Experts : s.load[e] < cap}

(* What the k-th token changes when it gets some experts                   *)
Gives(s, t, top, k) ==
  /\ t.experts = Append(s.experts, top)
  /\ t.dropped = s.dropped \cup (IF Cardinality(top) < ExpertsPerToken THEN {k} ELSE {})
  /\ t.load = [e \in Experts |-> s.load[e] + (IF e \in top THEN 1 ELSE 0)]

LEMMA AssignTaken ==
  ASSUME NEW cap \in Nat, NEW k \in Nat \ {0}, NEW s, RoutedTypes(s, k - 1), NEW f \in [Experts -> Int],
         NEW t, t = Assign(cap, s, f)
  PROVE  \E top \in SUBSET Experts : top = TopK(f, Vacant(s, cap)) /\ Gives(s, t, top, k)
  <1>1. PICK top : top = TopK(f, Vacant(s, cap))
    OBVIOUS
  <1>2. top \in SUBSET Experts
    BY <1>1 DEF TopK, Vacant
  <1>3. Len(s.experts) + 1 = k
    BY DEF RoutedTypes
  <1>4. Gives(s, t, top, k)
    BY <1>1, <1>3 DEF Assign, Vacant, Gives
  <1>5. QED
    BY <1>1, <1>2, <1>4

(* Another token, in the sequence and in the sets of those an expert has   *)
Another(s, t, top, k) ==
  /\ t.experts \in Seq(SUBSET Experts) /\ Len(t.experts) = k
  /\ t.experts[k] = top /\ \A i \in 1..(k - 1) : t.experts[i] = s.experts[i]
  /\ \A e : \A i \in 0..(k - 1) : Having(t, e, i) = Having(s, e, i)
  /\ \A e : Having(t, e, k) = Having(s, e, k - 1) \cup (IF e \in top THEN {k} ELSE {})

LEMMA AssignSame ==
  ASSUME NEW k \in Nat \ {0}, NEW s, RoutedTypes(s, k - 1), NEW top \in SUBSET Experts,
         NEW t, Gives(s, t, top, k)
  PROVE  Another(s, t, top, k)
  <1>1. s.experts \in Seq(SUBSET Experts) /\ Len(s.experts) = k - 1
    BY DEF RoutedTypes
  <1>2. t.experts \in Seq(SUBSET Experts) /\ Len(t.experts) = k
    BY <1>1, AppendProperties DEF Gives
  <1>3. t.experts[k] = top /\ \A i \in 1..(k - 1) : t.experts[i] = s.experts[i]
    BY <1>1, AppendProperties DEF Gives
  <1>4. ASSUME NEW e, NEW i \in 0..(k - 1) PROVE Having(t, e, i) = Having(s, e, i)
    <2>1. \A j \in 1..i : j \in 1..(k - 1)
      OBVIOUS
    <2>2. QED
      BY <1>3, <2>1 DEF Having
  <1>5. ASSUME NEW e PROVE Having(t, e, k) = Having(s, e, k - 1) \cup (IF e \in top THEN {k} ELSE {})
    <2>1. \A j : j \in 1..k <=> j \in 1..(k - 1) \/ j = k
      OBVIOUS
    <2>2. \A j : j \in Having(t, e, k) <=> (j \in 1..(k - 1) /\ e \in s.experts[j]) \/ (j = k /\ e \in top)
      BY <1>3, <2>1 DEF Having
    <2>3. \A j : j \in Having(s, e, k - 1) <=> j \in 1..(k - 1) /\ e \in s.experts[j]
      BY DEF Having
    <2>4. PICK more : more = IF e \in top THEN {k} ELSE {}
      OBVIOUS
    <2>5. \A j : j \in more <=> j = k /\ e \in top
      BY <2>4
    <2>6. \A j : j \in Having(t, e, k) <=> j \in Having(s, e, k - 1) \/ j \in more
      BY <2>2, <2>3, <2>5
    <2>7. Having(t, e, k) = Having(s, e, k - 1) \cup more
      BY <2>6
    <2>8. QED
      BY <2>4, <2>7
  <1>6. QED
    BY <1>2, <1>3, <1>4, <1>5 DEF Another

LEMMA AssignLoaded ==
  ASSUME NEW cap \in Nat, NEW k \in Nat \ {0}, NEW s, RoutedTypes(s, k - 1), Loaded(s, cap, k - 1),
         NEW top \in SUBSET Vacant(s, cap), NEW t, Gives(s, t, top, k)
  PROVE  Loaded(t, cap, k) /\ t.load \in [Experts -> Nat]
  <1>1. \A e \in Experts : s.load[e] \in Nat /\ s.load[e] <= cap /\ s.load[e] = Cardinality(Having(s, e, k - 1))
    BY DEF RoutedTypes, Loaded
  <1>2. \A e \in Experts : t.load[e] = s.load[e] + (IF e \in top THEN 1 ELSE 0)
    BY DEF Gives
  <1>3. \A e : Having(t, e, k) = Having(s, e, k - 1) \cup (IF e \in top THEN {k} ELSE {})
    <2>1. top \in SUBSET Experts
      BY DEF Vacant
    <2>2. Another(s, t, top, k)
      BY <2>1, AssignSame
    <2>3. QED
      BY <2>2 DEF Another
  <1>4. ASSUME NEW e \in Experts PROVE t.load[e] \in Nat /\ t.load[e] = Cardinality(Having(t, e, k)) /\ t.load[e] <= cap
    <2>1. PICK l \in Nat : l = s.load[e] /\ l <= cap /\ l = Cardinality(Having(s, e, k - 1))
      BY <1>1
    <2>2. CASE e \in top
      <3>1. t.load[e] = l + 1
        BY <1>2, <2>1, <2>2
      <3>2. l < cap
        BY <2>1, <2>2 DEF Vacant
      <3>3. Having(t, e, k) = Having(s, e, k - 1) \cup {k}
        BY <1>3, <2>2
      <3>4. k \notin 1..(k - 1) /\ IsFiniteSet(1..(k - 1))
        BY FS_Interval
      <3>5. k \notin Having(s, e, k - 1) /\ IsFiniteSet(Having(s, e, k - 1))
        BY <3>4, FS_Subset DEF Having
      <3>6. Cardinality(Having(t, e, k)) = l + 1
        <4>1. PICK h : h = Having(s, e, k - 1)
          OBVIOUS
        <4>2. Cardinality(h \cup {k}) = Cardinality(h) + 1
          BY <3>5, <4>1, FS_AddElement
        <4>3. QED
          BY <2>1, <3>3, <4>1, <4>2
      <3>7. l + 1 \in Nat /\ l + 1 <= cap
        BY <3>2
      <3>8. QED
        BY <3>1, <3>6, <3>7
    <2>3. CASE e \notin top
      <3>1. t.load[e] = l
        <4>1. t.load[e] = s.load[e] + 0
          BY <1>2, <2>3
        <4>2. t.load[e] = l + 0
          BY ONLY <2>1, <4>1
        <4>3. l + 0 = l
          OBVIOUS
        <4>4. QED
          BY ONLY <4>2, <4>3
      <3>2. Having(t, e, k) = Having(s, e, k - 1)
        BY <1>3, <2>3
      <3>3. QED
        BY <2>1, <3>1, <3>2
    <2>4. QED
      BY <2>2, <2>3
  <1>5. t.load \in [Experts -> Nat]
    <2>1. PICK l : l = [e \in Experts |-> s.load[e] + (IF e \in top THEN 1 ELSE 0)]
      OBVIOUS
    <2>2. t.load = l
      BY <2>1 DEF Gives
    <2>3. \A e \in Experts : l[e] \in Nat
      BY <1>4, <2>2
    <2>4. QED
      BY <2>1, <2>2, <2>3
  <1>6. QED
    BY <1>4, <1>5 DEF Loaded

LEMMA AssignServed ==
  ASSUME NEW logits, NEW cap \in Nat, NEW k \in Nat \ {0}, NEW s, RoutedTypes(s, k - 1),
         Loaded(s, cap, k - 1), Served(s, logits, cap, k - 1), logits[k] \in [Experts -> Int],
         NEW top, top = TopK(logits[k], Vacant(s, cap)), NEW t, Gives(s, t, top, k)
  PROVE  Served(t, logits, cap, k) /\ t.dropped \in SUBSET (1..k)
  <1>1. PICK free : free = Vacant(s, cap) /\ free = {e \in Experts : s.load[e] < cap}
    BY DEF Vacant
  <1>2. /\ top \subseteq free /\ IsFiniteSet(top) /\ Cardinality(top) <= ExpertsPerToken
        /\ Cardinality(top) < ExpertsPerToken => top = free
        /\ \A e \in free : \A x \in top : Better(logits[k], e, x) => e \in top
    <2>1. free \in SUBSET Experts
      BY <1>1
    <2>2. top = TopK(logits[k], free) /\ logits[k] \in [Experts -> Int]
      BY <1>1
    <2>3. QED
      BY <2>1, <2>2, TopKChosen
  <1>3. /\ t.experts[k] = top /\ \A i \in 1..(k - 1) : t.experts[i] = s.experts[i]
        /\ \A e : \A i \in 0..(k - 1) : Having(t, e, i) = Having(s, e, i)
    <2>1. top \in SUBSET Experts
      BY <1>1, <1>2
    <2>2. k \in Nat \ {0} /\ Gives(s, t, top, k) /\ RoutedTypes(s, k - 1)
      OBVIOUS
    <2>3. Another(s, t, top, k)
      BY ONLY <2>1, <2>2, AssignSame
    <2>4. QED
      BY ONLY <2>3 DEF Another
  <1>4. s.dropped \subseteq 1..(k - 1)
    BY DEF RoutedTypes
  <1>5. k \in t.dropped <=> Cardinality(top) < ExpertsPerToken
    <2>1. k \notin 1..(k - 1)
      OBVIOUS
    <2>2. QED
      BY <1>4, <2>1 DEF Gives
  <1>6. \A i \in 1..(k - 1) : i \in t.dropped <=> i \in s.dropped
    <2>1. \A i \in 1..(k - 1) : i # k
      OBVIOUS
    <2>2. QED
      BY <2>1 DEF Gives
  <1>7. t.dropped \in SUBSET (1..k)
    <2>1. 1..(k - 1) \subseteq 1..k /\ k \in 1..k
      OBVIOUS
    <2>2. QED
      BY <1>4, <2>1 DEF Gives
  <1>8. ASSUME NEW i \in 1..(k - 1)
        PROVE  /\ IsFiniteSet(t.experts[i]) /\ Cardinality(t.experts[i]) <= ExpertsPerToken
               /\ i \in t.dropped <=> Cardinality(t.experts[i]) < ExpertsPerToken
               /\ \A e \in Passed(t, logits, i) : Cardinality(Having(t, e, i - 1)) = cap
    <2>1. Passed(t, logits, i) = Passed(s, logits, i)
      BY <1>3, <1>6 DEF Passed
    <2>2. i - 1 \in 0..(k - 1)
      OBVIOUS
    <2>3. \A e : Having(t, e, i - 1) = Having(s, e, i - 1)
      BY <1>3, <2>2
    <2>4. QED
      BY <1>3, <1>6, <2>1, <2>3 DEF Served
  <1>9. ASSUME NEW e \in Passed(t, logits, k) PROVE Cardinality(Having(t, e, k - 1)) = cap
    <2>1. e \in Experts /\ e \notin top
      BY <1>3 DEF Passed
    <2>2. e \notin free
      <3>1. CASE k \in t.dropped
        BY <1>2, <1>5, <2>1, <3>1
      <3>2. CASE \E x \in t.experts[k] : Better(logits[k], e, x)
        BY <1>2, <1>3, <2>1, <3>2
      <3>3. QED
        BY <3>1, <3>2 DEF Passed
    <2>3. PICK l \in Nat : l = s.load[e] /\ l <= cap /\ l = Cardinality(Having(s, e, k - 1))
      BY <2>1 DEF Loaded, RoutedTypes
    <2>4. ~(l < cap)
      BY <1>1, <2>1, <2>2, <2>3
    <2>5. k - 1 \in 0..(k - 1)
      OBVIOUS
    <2>6. Having(t, e, k - 1) = Having(s, e, k - 1)
      BY <1>3, <2>5
    <2>7. l = cap
      BY <2>3, <2>4
    <2>8. QED
      BY <2>3, <2>6, <2>7
  <1>10. ASSUME NEW i \in 1..k
         PROVE  /\ IsFiniteSet(t.experts[i]) /\ Cardinality(t.experts[i]) <= ExpertsPerToken
                /\ i \in t.dropped <=> Cardinality(t.experts[i]) < ExpertsPerToken
                /\ \A e \in Passed(t, logits, i) : Cardinality(Having(t, e, i - 1)) = cap
    <2>1. CASE i = k
      BY <1>2, <1>3, <1>5, <1>9, <2>1
    <2>2. CASE i # k
      <3>1. i \in 1..(k - 1)
        BY <2>2
      <3>2. QED
        BY <1>8, <3>1
    <2>3. QED
      BY <2>1, <2>2
  <1>11. QED
    BY <1>7, <1>10 DEF Served

LEMMA AssignPacked ==
  ASSUME NEW cap \in Nat, NEW k \in Nat \ {0}, NEW s, RoutedTypes(s, k - 1), Packed(s, k - 1),
         NEW top \in SUBSET Experts, IsFiniteSet(top), Cardinality(top) <= ExpertsPerToken,
         NEW t, Gives(s, t, top, k)
  PROVE  Packed(t, k)
  <1>1. PICK one : one = [e \in Experts |-> IF e \in top THEN 1 ELSE 0]
    OBVIOUS
  <1>2. IsFiniteSet(Experts)
    BY RoutingAssumption
  <1>3. PICK load : load = s.load
    OBVIOUS
  <1>4. PICK more : more = t.load
    OBVIOUS
  <1>5. \A e \in Experts : load[e] \in Int /\ one[e] \in Int /\ more[e] = load[e] + one[e]
    <2>1. load \in [Experts -> Nat]
      BY <1>3 DEF RoutedTypes
    <2>2. more = [e \in Experts |-> load[e] + (IF e \in top THEN 1 ELSE 0)]
      BY <1>3, <1>4 DEF Gives
    <2>3. QED
      BY <1>1, <2>1, <2>2
  <1>6. SumFunctionOnSet(one, Experts) = Cardinality(top)
    BY <1>1, <1>2, SumOfOnes
  <1>7. SumFunctionOnSet(more, Experts) = SumFunctionOnSet(load, Experts) + Cardinality(top)
    <2>1. SumFunctionOnSet(more, Experts) = SumFunctionOnSet(load, Experts) + SumFunctionOnSet(one, Experts)
      BY <1>2, <1>5, SumBoth
    <2>2. QED
      BY <1>6, <2>1
  <1>8. PICK K \in Nat, c \in Nat : K = ExpertsPerToken /\ c = Cardinality(top) /\ c <= K
    <2>1. ExpertsPerToken \in Nat
      BY RoutingAssumption, FS_CardinalityType
    <2>2. Cardinality(top) \in Nat
      BY FS_CardinalityType
    <2>3. QED
      BY <2>1, <2>2
  <1>9. PICK u \in Nat : u = SumFunctionOnSet(load, Experts) /\ u <= (k - 1) * K /\ (s.dropped # {} => u < (k - 1) * K)
    <2>1. /\ SumFunctionOnSet(load, Experts) \in Nat
          /\ SumFunctionOnSet(load, Experts) <= (k - 1) * ExpertsPerToken
          /\ s.dropped # {} => SumFunctionOnSet(load, Experts) < (k - 1) * ExpertsPerToken
      BY <1>3 DEF Packed
    <2>2. PICK u \in Nat : u = SumFunctionOnSet(load, Experts)
      BY <2>1
    <2>3. (k - 1) * ExpertsPerToken = (k - 1) * K
      BY <1>8
    <2>4. PICK m \in Int : m = (k - 1) * K
      OBVIOUS
    <2>5. u <= m /\ (s.dropped # {} => u < m)
      BY <2>1, <2>2, <2>3, <2>4
    <2>6. u <= (k - 1) * K
      BY <2>4, <2>5
    <2>7. s.dropped # {} => u < (k - 1) * K
      BY <2>4, <2>5
    <2>8. QED
      BY ONLY <2>2, <2>6, <2>7
  <1>10. (k - 1) * K + K = k * K /\ (k - 1) * K \in Nat
    <2>1. \A x, y \in Int : (x - 1) * y + y = x * y
      OBVIOUS
    <2>2. \A x, y \in Nat : x * y \in Nat
      OBVIOUS
    <2>3. k \in Int /\ K \in Int /\ k - 1 \in Nat
      OBVIOUS
    <2>4. QED
      BY ONLY <2>1, <2>2, <2>3, K \in Nat
  <1>11. u + c \in Nat /\ u + c <= k * K
    BY <1>8, <1>9, <1>10
  <1>12. SumFunctionOnSet(t.load, Experts) = u + c
    BY <1>4, <1>7, <1>8, <1>9
  <1>13. ASSUME t.dropped # {} PROVE u + c < k * K
    <2>1. s.dropped # {} \/ c < K
      BY <1>8, <1>13 DEF Gives
    <2>2. QED
      BY <1>8, <1>9, <1>10, <2>1
  <1>14. QED
    BY <1>8, <1>11, <1>12, <1>13 DEF Packed

LEMMA AssignGiven ==
  ASSUME NEW n \in Nat, NEW cap, Room(cap, n), NEW k \in 1..n, NEW s, NEW logits,
         Routed(s, logits, cap, k - 1), logits[k] \in [Experts -> Int],
         NEW top, top = TopK(logits[k], Vacant(s, cap)), NEW t, Gives(s, t, top, k)
  PROVE  Given(t, k)
  <1>1. PICK free \in SUBSET Experts : free = Vacant(s, cap) /\ free = {e \in Experts : s.load[e] < cap}
    BY DEF Vacant
  <1>2. /\ top \subseteq free /\ IsFiniteSet(top)
        /\ Cardinality(top) < ExpertsPerToken => top = free
    <2>1. top = TopK(logits[k], free) /\ logits[k] \in [Experts -> Int]
      BY <1>1
    <2>2. QED
      BY <2>1, TopKChosen
  <1>3. PICK E \in Nat, K \in Nat : E = Cardinality(Experts) /\ K = ExpertsPerToken /\ 1 <= K /\ K <= E
    BY RoutingAssumption, FS_CardinalityType
  <1>4. cap \in Nat /\ (dropPolicy = "none" => cap = n) /\ (CapacityFactor >= 100 => n * K <= cap * E)
    BY <1>3 DEF Room
  <1>5. \A e \in Experts : s.load[e] \in Nat /\ s.load[e] <= cap /\ s.load[e] = Cardinality(Having(s, e, k - 1))
    BY DEF Routed, RoutedTypes, Loaded
  <1>6. Another(s, t, top, k)
    <2>1. k \in Nat \ {0} /\ RoutedTypes(s, k - 1) /\ top \in SUBSET Experts /\ Gives(s, t, top, k)
      BY <1>1, <1>2 DEF Routed
    <2>2. QED
      BY ONLY <2>1, AssignSame
  <1>7. t.experts[k] = top /\ \A i \in 1..(k - 1) : t.experts[i] = s.experts[i]
    BY ONLY <1>6 DEF Another
  <1>8. ASSUME CapacityFactor >= 100 PROVE \A i \in 1..k : t.experts[i] # {}
    <2>1. top # {}
      <3>1. SUFFICES ASSUME top = {} PROVE FALSE
        OBVIOUS
      <3>2. Cardinality(top) < ExpertsPerToken
        <4>1. Cardinality(top) = 0
          BY <3>1, FS_EmptySet
        <4>2. QED
          BY <1>3, <4>1
      <3>3. free = {}
        BY <1>2, <3>1, <3>2
      <3>4. PICK u \in Nat : u = SumFunctionOnSet(s.load, Experts)
        BY DEF Routed, Packed
      <3>5. u <= (k - 1) * K
        BY <1>3, <3>4 DEF Routed, Packed
      <3>6. (k - 1) * K < n * K
        <4>1. \A x, y, z \in Nat : x < y /\ 1 <= z => x * z < y * z
          OBVIOUS
        <4>2. k - 1 \in Nat /\ k - 1 < n
          OBVIOUS
        <4>3. QED
          BY ONLY <1>3, <4>1, <4>2, n \in Nat, K \in Nat
      <3>7. PICK a \in Int, b \in Int, c \in Int : a = (k - 1) * K /\ b = n * K /\ c = cap * E
        BY <1>4
      <3>8. u <= a /\ a < b /\ b <= c
        BY <1>4, <1>8, <3>5, <3>6, <3>7
      <3>9. u < c
        BY <3>8
      <3>10. SumFunctionOnSet(s.load, Experts) < cap * Cardinality(Experts)
        BY <1>3, <3>4, <3>7, <3>9
      <3>11. \E e \in Experts : s.load[e] < cap
        BY <1>4, <1>5, <3>10, RoomLeft
      <3>12. QED
        BY <1>1, <3>3, <3>11
    <2>2. \A i \in 1..(k - 1) : s.experts[i] # {}
      BY <1>8 DEF Routed, Given
    <2>3. ASSUME NEW i \in 1..k PROVE t.experts[i] # {}
      <3>1. i = k \/ i \in 1..(k - 1)
        OBVIOUS
      <3>2. QED
        BY <1>7, <2>1, <2>2, <3>1
    <2>4. QED
      BY <2>3
  <1>9. ASSUME dropPolicy = "none" PROVE t.dropped = {}
    <2>1. s.dropped = {}
      BY <1>9 DEF Routed, Given
    <2>2. ASSUME NEW e \in Experts PROVE s.load[e] < cap
      <3>1. Having(s, e, k - 1) \subseteq 1..(k - 1)
        BY DEF Having
      <3>2. IsFiniteSet(1..(k - 1)) /\ Cardinality(1..(k - 1)) = k - 1
        <4>1. k - 1 \in Int /\ 1 \in Int /\ (k - 1) - 1 + 1 = k - 1 /\ (k - 1 < 1 => k - 1 = 0)
          OBVIOUS
        <4>2. QED
          BY <4>1, FS_Interval
      <3>3. Cardinality(Having(s, e, k - 1)) <= k - 1
        BY <3>1, <3>2, FS_Subset
      <3>4. PICK l \in Nat : l = s.load[e] /\ l <= k - 1
        BY <1>5, <3>3
      <3>5. l < n
        BY <3>4
      <3>6. QED
        BY <1>4, <1>9, <3>4, <3>5
    <2>3. free = Experts
      BY <1>1, <2>2
    <2>4. PICK c \in Nat : c = Cardinality(top)
      BY <1>2, FS_CardinalityType
    <2>5. ~(c < K)
      BY <1>2, <1>3, <2>3, <2>4
    <2>6. QED
      BY <1>3, <2>1, <2>4, <2>5 DEF Gives
  <1>10. QED
    BY <1>8, <1>9 DEF Given

LEMMA AssignRouted ==
  ASSUME NEW n \in Nat, NEW cap, Room(cap, n), NEW k \in 1..n, NEW s, NEW logits,
         Routed(s, logits, cap, k - 1), logits[k] \in [Experts -> Int],
         NEW t, t = Assign(cap, s, logits[k])
  PROVE  Routed(t, logits, cap, k)
  <1>1. cap \in Nat /\ k \in Nat \ {0}
    BY DEF Room
  <1>2. /\ RoutedTypes(s, k - 1) /\ Loaded(s, cap, k - 1) /\ Served(s, logits, cap, k - 1)
        /\ Packed(s, k - 1)
    BY DEF Routed
  <1>3. PICK top \in SUBSET Experts : top = TopK(logits[k], Vacant(s, cap)) /\ Gives(s, t, top, k)
    BY <1>1, <1>2, AssignTaken
  <1>4. PICK free \in SUBSET Experts : free = Vacant(s, cap)
    BY DEF Vacant
  <1>5. top \subseteq free /\ IsFiniteSet(top) /\ Cardinality(top) <= ExpertsPerToken
    <2>1. top = TopK(logits[k], free) /\ logits[k] \in [Experts -> Int]
      BY <1>3, <1>4
    <2>2. QED
      BY <2>1, TopKChosen
  <1>6. Another(s, t, top, k)
    BY <1>1, <1>2, <1>3, AssignSame
  <1>7. Loaded(t, cap, k) /\ t.load \in [Experts -> Nat]
    <2>1. top \in SUBSET Vacant(s, cap)
      BY <1>4, <1>5
    <2>2. QED
      BY <1>1, <1>2, <1>3, <2>1, AssignLoaded
  <1>8. Served(t, logits, cap, k) /\ t.dropped \in SUBSET (1..k)
    BY <1>1, <1>2, <1>3, AssignServed
  <1>9. Packed(t, k)
    BY <1>1, <1>2, <1>3, <1>5, AssignPacked
  <1>10. Given(t, k)
    BY <1>3, AssignGiven
  <1>11. RoutedTypes(t, k)
    <2>1. t.experts \in Seq(SUBSET Experts) /\ Len(t.experts) = k
      BY ONLY <1>6 DEF Another
    <2>2. QED
      BY <1>7, <1>8, <2>1 DEF RoutedTypes
  <1>12. QED
    BY <1>7, <1>8, <1>9, <1>10, <1>11 DEF Routed

-----------------------------------------------------------------------------
(* The decision of a batch                                                 *)

Undecided == [experts |-> <<>>, dropped |-> {}, load |-> NoLoad]

Decides(logits, cap, n, after) ==
  after = [k \in 0..n |-> IF k = 0 THEN Undecided ELSE Assign(cap, after[k - 1], logits[k])]

LEMMA DecidesExist ==
  ASSUME NEW logits, NEW cap, NEW n \in Nat
  PROVE  \E after : Decides(logits, cap, n, after)
  <1> DEFINE N == {m \in Nat : \E after : Decides(logits, cap, m, after)}
  <1>1. 0 \in N
    <2>1. PICK after : after = [k \in 0..0 |-> Undecided]
      OBVIOUS
    <2>2. \A k \in 0..0 : k = 0
      OBVIOUS
    <2>3. Decides(logits, cap, 0, after)
      BY <2>1, <2>2 DEF Decides
    <2>4. QED
      BY <2>3
  <1>2. ASSUME NEW m \in Nat, m \in N PROVE m + 1 \in N
    <2>1. PICK w : Decides(logits, cap, m, w)
      BY <1>2
    <2>2. PICK last : last = Assign(cap, w[m], logits[m + 1])
      OBVIOUS
    <2>3. PICK v : v = [k \in 0..(m + 1) |-> IF k = m + 1 THEN last ELSE w[k]]
      OBVIOUS
    <2>4. PICK first : first = Undecided
      OBVIOUS
    <2>5. \A k \in 0..m : w[k] = IF k = 0 THEN first ELSE Assign(cap, w[k - 1], logits[k])
      BY <2>1, <2>4 DEF Decides
    <2>6. ASSUME NEW k \in 0..(m + 1)
          PROVE  v[k] = IF k = 0 THEN first ELSE Assign(cap, v[k - 1], logits[k])
      <3>1. CASE k = m + 1
        <4>1. k - 1 = m /\ m \in 0..(m + 1) /\ m # m + 1 /\ k # 0
          BY <3>1
        <4>2. v[k] = last /\ v[m] = w[m]
          BY <2>3, <3>1, <4>1
        <4>3. QED
          BY <2>2, <3>1, <4>1, <4>2
      <3>2. CASE k # m + 1 /\ k # 0
        <4>1. k \in 0..m /\ k - 1 \in 0..(m + 1) /\ k - 1 # m + 1
          BY <3>2
        <4>2. v[k] = w[k] /\ v[k - 1] = w[k - 1]
          BY <2>3, <3>2, <4>1
        <4>3. QED
          BY <2>5, <3>2, <4>1, <4>2
      <3>3. CASE k = 0
        <4>1. 0 \in 0..m /\ 0 # m + 1
          OBVIOUS
        <4>2. v[k] = w[0] /\ w[0] = first
          BY <2>3, <2>5, <3>3, <4>1
        <4>3. QED
          BY <3>3, <4>2
      <3>4. QED
        BY <3>1, <3>2, <3>3
    <2>7. v = [k \in 0..(m + 1) |-> IF k = 0 THEN first ELSE Assign(cap, v[k - 1], logits[k])]
      BY <2>3, <2>6
    <2>8. Decides(logits, cap, m + 1, v)
      BY <2>4, <2>7 DEF Decides
    <2>9. QED
      BY <2>8
  <1>3. Nat \subseteq N
    <2> HIDE DEF N
    <2>1. QED
      BY <1>1, <1>2, Induction
  <1>4. QED
    BY <1>3

LEMMA DecisionRouted ==
  ASSUME NEW b \in Seq([Experts -> Int]), NEW d, d = Decision(b)
  PROVE  Routed(d, b, Capacity(Len(b)), Len(b))
  <1>1. PICK n \in Nat : n = Len(b) /\ DOMAIN b = 1..n
    BY LenProperties
  <1>2. PICK cap : cap = Capacity(n)
    OBVIOUS
  <1>3. Room(cap, n) /\ cap \in Nat
    BY <1>2, CapacityRoom DEF Room
  <1>4. PICK after : Decides(b, cap, n, after)
    BY DecidesExist
  <1>5. PICK a : a = Deciding(b)
    OBVIOUS
  <1>6. Decides(b, cap, n, a)
    BY <1>1, <1>2, <1>4, <1>5 DEF Deciding, Decides, Undecided
  <1>7. a[0] = Undecided
    <2>1. 0 \in 0..n
      OBVIOUS
    <2>2. QED
      BY <1>6, <2>1 DEF Decides
  <1>8. ASSUME NEW k \in 1..n PROVE a[k] = Assign(cap, a[k - 1], b[k])
    <2>1. k \in 0..n /\ k # 0
      OBVIOUS
    <2>2. QED
      BY <1>6, <2>1 DEF Decides
  <1> DEFINE N == {k \in Nat : k <= n => Routed(a[k], b, cap, k)}
  <1>9. 0 \in N
    BY <1>3, <1>7, NothingRouted DEF Undecided
  <1>10. ASSUME NEW m \in Nat, m \in N PROVE m + 1 \in N
    <2>1. SUFFICES ASSUME m + 1 <= n PROVE Routed(a[m + 1], b, cap, m + 1)
      OBVIOUS
    <2>2. PICK k \in 1..n : k = m + 1 /\ k - 1 = m
      BY <2>1
    <2>3. Routed(a[k - 1], b, cap, k - 1)
      BY <1>10, <2>1, <2>2
    <2>4. b[k] \in [Experts -> Int]
      BY <1>1, ElementOfSeq
    <2>5. PICK t : t = a[k]
      OBVIOUS
    <2>6. t = Assign(cap, a[k - 1], b[k])
      BY <1>8, <2>5
    <2>7. Routed(t, b, cap, k)
      BY <1>3, <2>3, <2>4, <2>6, AssignRouted
    <2>8. QED
      BY <2>2, <2>5, <2>7
  <1>11. Nat \subseteq N
    <2> HIDE DEF N
    <2>1. QED
      BY <1>9, <1>10, Induction
  <1>12. Routed(a[n], b, cap, n)
    BY <1>11
  <1>13. d = a[n]
    BY <1>1, <1>5 DEF Decision
  <1>14. QED
    BY <1>1, <1>2, <1>12, <1>13

(* What was decided of the last batch                                      *)
RoutingInv == batch \in Batches \cup {<<>>} /\ decision = Decision(batch)

LEMMA RoutingSplit == ASSUME RoutingInv PROVE RoutingFair
  <1>1. batch \in Seq([Experts -> Int])
    <2>1. CASE batch = <<>>
      BY <2>1
    <2>2. CASE batch \in Batches
      BY <2>2, RoutingAssumption
    <2>3. QED
      BY <2>1, <2>2 DEF RoutingInv
  <1>2. PICK n \in Nat : n = Len(batch) /\ DOMAIN batch = 1..n
    BY <1>1, LenProperties
  <1>3. PICK cap : cap = Capacity(n)
    OBVIOUS
  <1>4. Room(cap, n)
    BY <1>3, CapacityRoom
  <1>5. /\ RoutedTypes(decision, n) /\ Loaded(decision, cap, n) /\ Served(decision, batch, cap, n)
        /\ Packed(decision, n) /\ Given(decision, n)
    BY <1>1, <1>2, <1>3, DecisionRouted DEF RoutingInv, Routed
  <1>6. Len(decision.experts) = n
    BY <1>5 DEF RoutedTypes
  <1>7. \A e, i : Takers(e, i) = Having(decision, e, i)
    BY DEF Takers, Having, Took
  <1>8. \A e \in Experts : decision.load[e] = Cardinality(Takers(e, n)) /\ decision.load[e] <= cap
    BY <1>5, <1>7 DEF Loaded
  <1>9. ASSUME NEW i \in 1..n
        PROVE  /\ Cardinality(decision.experts[i]) <= ExpertsPerToken
               /\ i \in decision.dropped <=> Cardinality(decision.experts[i]) < ExpertsPerToken
               /\ \A e \in Experts :
                    ~Took(i, e) /\ (i \in decision.dropped \/ \E f \in Experts : Took(i, f) /\ Better(batch[i], e, f))
                      => Cardinality(Takers(e, i - 1)) = cap
               /\ CapacityFactor >= 100 => decision.experts[i] # {}
    <2>1. ASSUME NEW e \in Experts, ~Took(i, e),
                 i \in decision.dropped \/ \E f \in Experts : Took(i, f) /\ Better(batch[i], e, f)
          PROVE  Cardinality(Takers(e, i - 1)) = cap
      <3>1. e \in Passed(decision, batch, i)
        BY <2>1 DEF Passed, Took
      <3>2. QED
        BY <1>5, <1>7, <3>1 DEF Served
    <2>2. QED
      BY <1>5, <2>1 DEF Served, Given
  <1>10. ASSUME CapacityFactor >= 100, decision.dropped # {} PROVE \E e \in Experts : decision.load[e] < cap
    <2>1. PICK E \in Nat, K \in Nat : E = Cardinality(Experts) /\ K = ExpertsPerToken
      BY RoutingAssumption, FS_CardinalityType
    <2>2. cap \in Nat /\ n * K <= cap * E
      BY <1>4, <1>10, <2>1 DEF Room
    <2>3. PICK u \in Nat : u = SumFunctionOnSet(decision.load, Experts)
      BY <1>5 DEF Packed
    <2>4. u < n * K
      BY <1>5, <1>10, <2>1, <2>3 DEF Packed
    <2>5. PICK a \in Int, c \in Int : a = n * K /\ c = cap * E
      BY <2>2
    <2>6. u < c
      BY <2>2, <2>4, <2>5
    <2>7. SumFunctionOnSet(decision.load, Experts) < cap * Cardinality(Experts)
      BY <2>1, <2>3, <2>5, <2>6
    <2>8. \A e \in Experts : decision.load[e] \in Nat /\ decision.load[e] <= cap
      BY <1>5 DEF RoutedTypes, Loaded
    <2>9. QED
      BY <2>2, <2>7, <2>8, RoomLeft
  <1>11. dropPolicy = "none" => decision.dropped = {}
    BY <1>5 DEF Given
  <1>12. QED
    BY <1>2, <1>3, <1>6, <1>8, <1>9, <1>10, <1>11 DEF RoutingFair

LEMMA RoutingKeeps == ASSUME RoutingInv, [RoutingNext]_routingVars PROVE RoutingInv'
  <1>1. ASSUME NEW logits \in Batches, Route(logits) PROVE RoutingInv'
    BY <1>1 DEF Route, RoutingInv, Decision, Deciding, Capacity
  <1>2. CASE ResetStats
    BY <1>2 DEF ResetStats, RoutingInv, Decision, Deciding, Capacity
  <1>3. CASE UNCHANGED routingVars
    BY <1>3 DEF routingVars, RoutingInv, Decision, Deciding, Capacity
  <1>4. QED
    BY <1>1, <1>2, <1>3 DEF RoutingNext

(* Every batch is routed fairly, whatever its router logits: route.        *)
THEOREM FairRouting == RoutingSpec => []RoutingFair
  <1>1. RoutingInit => RoutingInv
    BY DEF RoutingInit, RoutingInv
  <1>2. RoutingInv /\ [RoutingNext]_routingVars => RoutingInv'
    BY RoutingKeeps
  <1>3. RoutingInv => RoutingFair
    BY RoutingSplit
  <1>4. QED
    BY <1>1, <1>2, <1>3, PTL DEF RoutingSpec

-----------------------------------------------------------------------------
(***************************************************************************)
(* Checkpoints: the sizes of tensors.                                      *)
(***************************************************************************)
(* So many parameters in finitely many tensors                             *)
Sized(tensors, n) ==
  /\ IsFiniteSet(DOMAIN tensors) /\ n \in Nat
  /\ \A name \in DOMAIN tensors : NumElements(tensors[name]) \in Nat
  /\ Elements(tensors) = n

LEMMA ShapeOfOne == ASSUME NEW a \in Nat PROVE NumElements(<<a>>) = a
  <1>1. PICK s : s = <<a>>
    OBVIOUS
  <1>2. Len(s) = 1 /\ s[1] = a
    BY <1>1
  <1>3. PICK p : p = [k \in 0..1 |-> IF k = 0 THEN 1 ELSE a]
    OBVIOUS
  <1>4. \A k \in 0..1 : k = 0 \/ (k = 1 /\ k - 1 = 0)
    OBVIOUS
  <1>5. p[0] = 1 /\ p[1] = a
    BY <1>3
  <1>6. \A k \in 0..1 : p[k] = IF k = 0 THEN 1 ELSE p[k - 1] * s[k]
    BY <1>2, <1>4, <1>5
  <1>7. p = [k \in 0..1 |-> IF k = 0 THEN 1 ELSE p[k - 1] * s[k]]
    BY <1>3, <1>6
  <1> DEFINE Is(q) == q = [k \in 0..Len(s) |-> IF k = 0 THEN 1 ELSE q[k - 1] * s[k]]
  <1>8. PICK q : q = CHOOSE r : Is(r)
    OBVIOUS
  <1>9. Is(q)
    BY <1>2, <1>7, <1>8
  <1>10. NumElements(s) = q[1]
    BY <1>2, <1>8 DEF NumElements
  <1>11. q[0] = 1 /\ q[1] = q[0] * s[1]
    BY <1>2, <1>9
  <1>12. QED
    BY <1>1, <1>2, <1>10, <1>11

LEMMA ShapeOfTwo == ASSUME NEW a \in Nat, NEW b \in Nat PROVE NumElements(<<a, b>>) = a * b
  <1>1. PICK s : s = <<a, b>>
    OBVIOUS
  <1>2. Len(s) = 2 /\ s[1] = a /\ s[2] = b
    BY <1>1
  <1>3. PICK p : p = [k \in 0..2 |-> IF k = 0 THEN 1 ELSE IF k = 1 THEN a ELSE a * b]
    OBVIOUS
  <1>4. \A k \in 0..2 : k = 0 \/ (k = 1 /\ k - 1 = 0) \/ (k = 2 /\ k - 1 = 1)
    OBVIOUS
  <1>5. p[0] = 1 /\ p[1] = a /\ p[2] = a * b
    BY <1>3
  <1>6. \A k \in 0..2 : p[k] = IF k = 0 THEN 1 ELSE p[k - 1] * s[k]
    BY <1>2, <1>4, <1>5
  <1>7. p = [k \in 0..2 |-> IF k = 0 THEN 1 ELSE p[k - 1] * s[k]]
    BY <1>3, <1>6
  <1> DEFINE Is(q) == q = [k \in 0..Len(s) |-> IF k = 0 THEN 1 ELSE q[k - 1] * s[k]]
  <1>8. PICK q : q = CHOOSE r : Is(r)
    OBVIOUS
  <1>9. Is(q)
    BY <1>2, <1>7, <1>8
  <1>10. NumElements(s) = q[2]
    BY <1>2, <1>8 DEF NumElements
  <1>11. q[0] = 1 /\ q[1] = q[0] * s[1] /\ q[2] = q[1] * s[2]
    BY <1>2, <1>9
  <1>12. QED
    BY <1>1, <1>2, <1>10, <1>11

(* The sum, name by name                                                   *)
LEMMA SizedIs ==
  ASSUME NEW t, IsFiniteSet(DOMAIN t), NEW f, \A x \in DOMAIN t : f[x] = NumElements(t[x]) /\ f[x] \in Nat
  PROVE  Sized(t, SumFunctionOnSet(f, DOMAIN t))
  <1>1. PICK g : g = [x \in DOMAIN t |-> NumElements(t[x])]
    OBVIOUS
  <1>2. Elements(t) = SumFunctionOnSet(g, DOMAIN t)
    BY <1>1 DEF Elements, SumFunction
  <1>3. SumFunctionOnSet(g, DOMAIN t) = SumFunctionOnSet(f, DOMAIN t)
    BY <1>1, SumSame
  <1>4. SumFunctionOnSet(f, DOMAIN t) \in Nat
    BY SumNat
  <1>5. QED
    BY <1>2, <1>3, <1>4 DEF Sized

LEMMA SumIs ==
  ASSUME NEW t, NEW n, Sized(t, n), NEW f, \A x \in DOMAIN t : f[x] = NumElements(t[x])
  PROVE  SumFunctionOnSet(f, DOMAIN t) = n
  <1>1. PICK g : g = [x \in DOMAIN t |-> NumElements(t[x])]
    OBVIOUS
  <1>2. Elements(t) = SumFunctionOnSet(g, DOMAIN t)
    BY <1>1 DEF Elements, SumFunction
  <1>3. SumFunctionOnSet(g, DOMAIN t) = SumFunctionOnSet(f, DOMAIN t)
    BY <1>1, SumSame DEF Sized
  <1>4. QED
    BY <1>2, <1>3 DEF Sized

LEMMA SizedNone == ASSUME NEW t, DOMAIN t = {} PROVE Sized(t, 0)
  <1>1. IsFiniteSet(DOMAIN t)
    BY FS_EmptySet
  <1>2. PICK f : f = [x \in {} |-> 0]
    OBVIOUS
  <1>3. Sized(t, SumFunctionOnSet(f, DOMAIN t))
    BY <1>1, SizedIs
  <1>4. QED
    BY <1>3, SumOfNone

LEMMA SizedOne ==
  ASSUME NEW name, NEW shape, NEW n \in Nat, NumElements(shape) = n, NEW t, t = OneTensor(name, shape)
  PROVE  Sized(t, n) /\ DOMAIN t = {name}
  <1>1. DOMAIN t = {name} /\ t[name] = shape
    BY DEF OneTensor
  <1>2. IsFiniteSet({name}) /\ Cardinality({name}) = 1
    BY FS_Singleton
  <1>3. PICK f : f = [x \in {name} |-> n]
    OBVIOUS
  <1>4. Sized(t, SumFunctionOnSet(f, DOMAIN t))
    BY <1>1, <1>2, <1>3, SizedIs
  <1>5. SumFunctionOnSet(f, {name}) = n * 1
    BY <1>2, <1>3, SumOfSame
  <1>6. n * 1 = n
    OBVIOUS
  <1>7. QED
    BY <1>1, <1>4, <1>5, <1>6

(* Families of tensors that have no name in common                         *)
Apart(F, n) == \A i, j \in 1..n : i # j => DOMAIN F[i] \cap DOMAIN F[j] = {}

AllNames(F, n) == UNION {DOMAIN F[i] : i \in 1..n}

LEMMA TogetherIs ==
  ASSUME NEW n \in Nat, NEW F, DOMAIN F = 1..n, Apart(F, n), NEW t, t = Together(F)
  PROVE  DOMAIN t = AllNames(F, n) /\ \A i \in 1..n : \A x \in DOMAIN F[i] : t[x] = F[i][x]
  <1>1. t = [x \in AllNames(F, n) |-> F[CHOOSE i \in 1..n : x \in DOMAIN F[i]][x]]
    BY DEF Together, AllNames
  <1>2. ASSUME NEW i \in 1..n, NEW x \in DOMAIN F[i] PROVE t[x] = F[i][x]
    <2>1. x \in AllNames(F, n)
      BY <1>2 DEF AllNames
    <2>2. PICK j : j = CHOOSE k \in 1..n : x \in DOMAIN F[k]
      OBVIOUS
    <2>3. j \in 1..n /\ x \in DOMAIN F[j]
      BY <1>2, <2>2
    <2>4. j = i
      BY <1>2, <2>3 DEF Apart
    <2>5. t[x] = F[j][x]
      BY <1>1, <2>1, <2>2
    <2>6. QED
      BY <2>4, <2>5
  <1>3. QED
    BY <1>1, <1>2

LEMMA SumNext ==
  ASSUME NEW c, NEW k \in Nat, \A i \in 1..(k + 1) : c[i] \in Nat
  PROVE  SumFunctionOnSet(c, 1..(k + 1)) = SumFunctionOnSet(c, 1..k) + c[k + 1]
  <1>1. PICK l : l = k + 1
    OBVIOUS
  <1>2. 1..l = (1..k) \cup {l} /\ l \notin 1..k
    BY <1>1
  <1>3. IsFiniteSet(1..k)
    BY FS_Interval
  <1>4. \A i \in 1..l : c[i] \in Nat
    BY <1>1
  <1>5. \A i \in 1..l : c[i] \in Int
    BY ONLY <1>4
  <1>6. \A i \in (1..k) \cup {l} : c[i] \in Int
    BY ONLY <1>2, <1>5
  <1>7. SumFunctionOnSet(c, (1..k) \cup {l}) = SumFunctionOnSet(c, 1..k) + c[l]
    BY <1>2, <1>3, <1>6, SumWith
  <1>8. QED
    BY <1>1, <1>2, <1>7

LEMMA SizedTogether ==
  ASSUME NEW n \in Nat, NEW F, DOMAIN F = 1..n, Apart(F, n), NEW c, \A i \in 1..n : Sized(F[i], c[i]),
         NEW t, t = Together(F)
  PROVE  Sized(t, SumFunctionOnSet(c, 1..n)) /\ DOMAIN t = AllNames(F, n)
  <1>1. DOMAIN t = AllNames(F, n) /\ \A i \in 1..n : \A x \in DOMAIN F[i] : t[x] = F[i][x]
    BY TogetherIs
  <1>2. PICK h : h = [x \in AllNames(F, n) |-> NumElements(t[x])]
    OBVIOUS
  <1>3. ASSUME NEW i \in 1..n, NEW x \in DOMAIN F[i] PROVE x \in AllNames(F, n) /\ h[x] = NumElements(F[i][x]) /\ h[x] \in Nat
    <2>1. x \in AllNames(F, n)
      BY <1>3 DEF AllNames
    <2>2. NumElements(F[i][x]) \in Nat
      <3>1. Sized(F[i], c[i])
        OBVIOUS
      <3>2. QED
        BY <1>3, <3>1 DEF Sized
    <2>3. QED
      BY <1>1, <1>2, <1>3, <2>1, <2>2
  <1>4. \A i \in 1..n : IsFiniteSet(DOMAIN F[i]) /\ SumFunctionOnSet(h, DOMAIN F[i]) = c[i] /\ c[i] \in Nat
    <2>1. SUFFICES ASSUME NEW i \in 1..n
                   PROVE  IsFiniteSet(DOMAIN F[i]) /\ SumFunctionOnSet(h, DOMAIN F[i]) = c[i] /\ c[i] \in Nat
      OBVIOUS
    <2>2. Sized(F[i], c[i])
      OBVIOUS
    <2>3. \A x \in DOMAIN F[i] : h[x] = NumElements(F[i][x])
      BY <1>3
    <2>4. QED
      BY <2>2, <2>3, SumIs DEF Sized
  <1> DEFINE Q == {k \in Nat : k <= n => /\ IsFiniteSet(AllNames(F, k))
                                       /\ SumFunctionOnSet(h, AllNames(F, k)) = SumFunctionOnSet(c, 1..k)}
  <1>5. 0 \in Q
    <2>1. 1..0 = {}
      OBVIOUS
    <2>2. AllNames(F, 0) = {}
      BY <2>1 DEF AllNames
    <2>3. QED
      BY <2>1, <2>2, SumOfNone, FS_EmptySet
  <1>6. ASSUME NEW k \in Nat, k \in Q PROVE k + 1 \in Q
    <2>1. SUFFICES ASSUME k + 1 <= n
                   PROVE  /\ IsFiniteSet(AllNames(F, k + 1))
                          /\ SumFunctionOnSet(h, AllNames(F, k + 1)) = SumFunctionOnSet(c, 1..(k + 1))
      OBVIOUS
    <2>2. /\ IsFiniteSet(AllNames(F, k)) /\ k <= n
          /\ SumFunctionOnSet(h, AllNames(F, k)) = SumFunctionOnSet(c, 1..k)
      BY <1>6, <2>1
    <2>3. PICK i \in 1..n : i = k + 1
      BY <2>1
    <2>4. PICK D : D = DOMAIN F[i]
      OBVIOUS
    <2>5. AllNames(F, k + 1) = AllNames(F, k) \cup D
      <3>1. 1..(k + 1) = (1..k) \cup {i}
        BY <2>3
      <3>2. QED
        BY <2>4, <3>1 DEF AllNames
    <2>6. AllNames(F, k) \cap D = {}
      <3>1. \A j \in 1..k : j \in 1..n /\ j # i
        BY <2>3
      <3>2. \A j \in 1..k : DOMAIN F[j] \cap D = {}
        BY <2>4, <3>1 DEF Apart
      <3>3. QED
        BY <3>2 DEF AllNames
    <2>7. IsFiniteSet(D) /\ SumFunctionOnSet(h, D) = c[i] /\ c[i] \in Nat
      BY <1>4, <2>4
    <2>8. \A x \in AllNames(F, k) \cup D : h[x] \in Int
      <3>1. \A j \in 1..k : j \in 1..n
        BY <2>2
      <3>2. \A x \in AllNames(F, k) : \E j \in 1..n : x \in DOMAIN F[j]
        BY <3>1 DEF AllNames
      <3>3. QED
        BY <1>3, <2>4, <3>2
    <2>9. SumFunctionOnSet(h, AllNames(F, k) \cup D) = SumFunctionOnSet(h, AllNames(F, k)) + SumFunctionOnSet(h, D)
      BY <2>2, <2>6, <2>7, <2>8, SumUnion
    <2>10. SumFunctionOnSet(c, 1..(k + 1)) = SumFunctionOnSet(c, 1..k) + c[k + 1]
      <3>1. \A j \in 1..(k + 1) : j \in 1..n
        BY <2>1
      <3>2. \A j \in 1..(k + 1) : c[j] \in Nat
        BY <1>4, <3>1
      <3>3. QED
        BY <3>2, SumNext
    <2>11. IsFiniteSet(AllNames(F, k) \cup D)
      BY <2>2, <2>7, FS_Union
    <2>12. QED
      BY <2>2, <2>3, <2>5, <2>7, <2>9, <2>10, <2>11
  <1>7. Nat \subseteq Q
    <2> HIDE DEF Q
    <2>1. QED
      BY <1>5, <1>6, Induction
  <1>8. /\ IsFiniteSet(DOMAIN t)
        /\ SumFunctionOnSet(h, DOMAIN t) = SumFunctionOnSet(c, 1..n)
    BY <1>1, <1>7
  <1>9. \A x \in DOMAIN t : h[x] = NumElements(t[x]) /\ h[x] \in Nat
    BY <1>1, <1>2, <1>3 DEF AllNames
  <1>10. QED
    BY <1>1, <1>8, <1>9, SizedIs

LEMMA SizedSame ==
  ASSUME NEW n \in Nat, NEW F, DOMAIN F = 1..n, Apart(F, n), NEW q \in Nat, \A i \in 1..n : Sized(F[i], q),
         NEW t, t = Together(F)
  PROVE  Sized(t, n * q) /\ DOMAIN t = AllNames(F, n)
  <1>1. PICK c : c = [i \in 1..n |-> q]
    OBVIOUS
  <1>2. \A i \in 1..n : Sized(F[i], c[i])
    BY <1>1
  <1>3. Sized(t, SumFunctionOnSet(c, 1..n)) /\ DOMAIN t = AllNames(F, n)
    BY <1>2, SizedTogether
  <1>4. IsFiniteSet(1..n) /\ Cardinality(1..n) = n
    <2>1. IsFiniteSet(1..n) /\ Cardinality(1..n) = IF 1 > n THEN 0 ELSE n - 1 + 1
      BY FS_Interval
    <2>2. QED
      BY <2>1
  <1>5. SumFunctionOnSet(c, 1..n) = q * Cardinality(1..n)
    BY <1>1, <1>4, SumOfSame
  <1>6. q * n = n * q
    OBVIOUS
  <1>7. QED
    BY <1>3, <1>4, <1>5, <1>6

LEMMA SizedTwo ==
  ASSUME NEW a, NEW b, NEW x, NEW y, Sized(a, x), Sized(b, y), DOMAIN a \cap DOMAIN b = {},
         NEW t, t = Together(<<a, b>>)
  PROVE  Sized(t, x + y) /\ DOMAIN t = DOMAIN a \cup DOMAIN b
  <1>1. PICK F : F = <<a, b>>
    OBVIOUS
  <1>2. PICK c : c = <<x, y>>
    OBVIOUS
  <1>3. DOMAIN F = 1..2 /\ F[1] = a /\ F[2] = b /\ c[1] = x /\ c[2] = y
    BY <1>1, <1>2
  <1>4. \A i \in 1..2 : i = 1 \/ i = 2
    OBVIOUS
  <1>5. Apart(F, 2)
    BY <1>3, <1>4 DEF Apart
  <1>6. \A i \in 1..2 : Sized(F[i], c[i])
    BY <1>3, <1>4
  <1>7. Sized(t, SumFunctionOnSet(c, 1..2)) /\ DOMAIN t = AllNames(F, 2)
    BY <1>1, <1>3, <1>5, <1>6, SizedTogether
  <1>8. x \in Nat /\ y \in Nat
    BY DEF Sized
  <1>9. SumFunctionOnSet(c, 1..2) = x + y
    <2>1. \A i \in 1..2 : c[i] \in Nat
      BY <1>3, <1>4, <1>8
    <2>2. \A i \in 1..1 : c[i] \in Nat
      BY <1>3, <1>8
    <2>3. SumFunctionOnSet(c, 1..2) = SumFunctionOnSet(c, 1..1) + c[2]
      BY <2>1, SumNext, 1 + 1 = 2
    <2>4. SumFunctionOnSet(c, 1..1) = SumFunctionOnSet(c, 1..0) + c[1]
      BY <2>2, SumNext, 0 + 1 = 1
    <2>5. SumFunctionOnSet(c, 1..0) = 0
      BY SumOfNone, 1..0 = {}
    <2>6. QED
      BY <1>3, <1>8, <2>3, <2>4, <2>5
  <1>10. AllNames(F, 2) = DOMAIN a \cup DOMAIN b
    <2>1. 1..2 = {1, 2}
      OBVIOUS
    <2>2. QED
      BY <1>3, <2>1 DEF AllNames
  <1>11. QED
    BY <1>7, <1>9, <1>10

LEMMA SizedThree ==
  ASSUME NEW a, NEW b, NEW c, NEW x, NEW y, NEW z,
         Sized(a, x), Sized(b, y), Sized(c, z),
         DOMAIN a \cap DOMAIN b = {}, DOMAIN a \cap DOMAIN c = {}, DOMAIN b \cap DOMAIN c = {},
         NEW t, t = Together(<<a, b, c>>)
  PROVE  Sized(t, x + y + z) /\ \A n \in DOMAIN t : n \in DOMAIN a \/ n \in DOMAIN b \/ n \in DOMAIN c
  <1>1. PICK F : F = <<a, b, c>>
    OBVIOUS
  <1>2. PICK s : s = <<x, y, z>>
    OBVIOUS
  <1>3. DOMAIN F = 1..3 /\ F[1] = a /\ F[2] = b /\ F[3] = c
    BY <1>1
  <1>4. s[1] = x /\ s[2] = y /\ s[3] = z
    BY <1>2
  <1>5. \A i \in 1..3 : i = 1 \/ i = 2 \/ i = 3
    OBVIOUS
  <1>6. Apart(F, 3)
    BY <1>3, <1>5 DEF Apart
  <1>7. \A i \in 1..3 : Sized(F[i], s[i])
    BY <1>3, <1>4, <1>5
  <1>8. Sized(t, SumFunctionOnSet(s, 1..3)) /\ DOMAIN t = AllNames(F, 3)
    BY <1>1, <1>3, <1>6, <1>7, SizedTogether
  <1>9. x \in Nat /\ y \in Nat /\ z \in Nat
    BY DEF Sized
  <1>10. \A i \in 1..3 : s[i] \in Nat
    BY <1>4, <1>5, <1>9
  <1>11. SumFunctionOnSet(s, 1..3) = x + y + z
    <2>1. \A k \in 0..2 : \A i \in 1..(k + 1) : i \in 1..3
      OBVIOUS
    <2>2. \A k \in 0..2 : SumFunctionOnSet(s, 1..(k + 1)) = SumFunctionOnSet(s, 1..k) + s[k + 1]
      <3>1. SUFFICES ASSUME NEW k \in 0..2
                     PROVE  SumFunctionOnSet(s, 1..(k + 1)) = SumFunctionOnSet(s, 1..k) + s[k + 1]
        OBVIOUS
      <3>2. k \in Nat
        OBVIOUS
      <3>3. \A i \in 1..(k + 1) : s[i] \in Nat
        BY <1>10, <2>1
      <3>4. QED
        BY <3>2, <3>3, SumNext
    <2>3. SumFunctionOnSet(s, 1..0) = 0
      BY SumOfNone, 1..0 = {}
    <2>4. SumFunctionOnSet(s, 1..1) = SumFunctionOnSet(s, 1..0) + s[1]
      BY <2>2, 0 \in 0..2, 0 + 1 = 1
    <2>5. SumFunctionOnSet(s, 1..2) = SumFunctionOnSet(s, 1..1) + s[2]
      BY <2>2, 1 \in 0..2, 1 + 1 = 2
    <2>6. SumFunctionOnSet(s, 1..3) = SumFunctionOnSet(s, 1..2) + s[3]
      BY <2>2, 2 \in 0..2, 2 + 1 = 3
    <2>7. QED
      BY <1>4, <1>9, <2>3, <2>4, <2>5, <2>6
  <1>12. AllNames(F, 3) = DOMAIN a \cup DOMAIN b \cup DOMAIN c
    <2>1. 1..3 = {1, 2, 3}
      OBVIOUS
    <2>2. QED
      BY <1>3, <2>1 DEF AllNames
  <1>13. QED
    BY <1>8, <1>11, <1>12

LEMMA SizedFour ==
  ASSUME NEW a, NEW b, NEW c, NEW d, NEW x, NEW y, NEW z, NEW w,
         Sized(a, x), Sized(b, y), Sized(c, z), Sized(d, w),
         DOMAIN a \cap DOMAIN b = {}, DOMAIN a \cap DOMAIN c = {}, DOMAIN a \cap DOMAIN d = {}, DOMAIN b \cap DOMAIN c = {}, DOMAIN b \cap DOMAIN d = {}, DOMAIN c \cap DOMAIN d = {},
         NEW t, t = Together(<<a, b, c, d>>)
  PROVE  Sized(t, x + y + z + w) /\ DOMAIN t = DOMAIN a \cup DOMAIN b \cup DOMAIN c \cup DOMAIN d
  <1>1. PICK F : F = <<a, b, c, d>>
    OBVIOUS
  <1>2. PICK s : s = <<x, y, z, w>>
    OBVIOUS
  <1>3. DOMAIN F = 1..4 /\ F[1] = a /\ F[2] = b /\ F[3] = c /\ F[4] = d
    BY <1>1
  <1>4. s[1] = x /\ s[2] = y /\ s[3] = z /\ s[4] = w
    BY <1>2
  <1>5. \A i \in 1..4 : i = 1 \/ i = 2 \/ i = 3 \/ i = 4
    OBVIOUS
  <1>6. Apart(F, 4)
    BY <1>3, <1>5 DEF Apart
  <1>7. \A i \in 1..4 : Sized(F[i], s[i])
    BY <1>3, <1>4, <1>5
  <1>8. Sized(t, SumFunctionOnSet(s, 1..4)) /\ DOMAIN t = AllNames(F, 4)
    BY <1>1, <1>3, <1>6, <1>7, SizedTogether
  <1>9. x \in Nat /\ y \in Nat /\ z \in Nat /\ w \in Nat
    BY DEF Sized
  <1>10. \A i \in 1..4 : s[i] \in Nat
    BY <1>4, <1>5, <1>9
  <1>11. SumFunctionOnSet(s, 1..4) = x + y + z + w
    <2>1. \A k \in 0..3 : \A i \in 1..(k + 1) : i \in 1..4
      OBVIOUS
    <2>2. \A k \in 0..3 : SumFunctionOnSet(s, 1..(k + 1)) = SumFunctionOnSet(s, 1..k) + s[k + 1]
      <3>1. SUFFICES ASSUME NEW k \in 0..3
                     PROVE  SumFunctionOnSet(s, 1..(k + 1)) = SumFunctionOnSet(s, 1..k) + s[k + 1]
        OBVIOUS
      <3>2. k \in Nat
        OBVIOUS
      <3>3. \A i \in 1..(k + 1) : s[i] \in Nat
        BY <1>10, <2>1
      <3>4. QED
        BY <3>2, <3>3, SumNext
    <2>3. SumFunctionOnSet(s, 1..0) = 0
      BY SumOfNone, 1..0 = {}
    <2>4. SumFunctionOnSet(s, 1..1) = SumFunctionOnSet(s, 1..0) + s[1]
      BY <2>2, 0 \in 0..3, 0 + 1 = 1
    <2>5. SumFunctionOnSet(s, 1..2) = SumFunctionOnSet(s, 1..1) + s[2]
      BY <2>2, 1 \in 0..3, 1 + 1 = 2
    <2>6. SumFunctionOnSet(s, 1..3) = SumFunctionOnSet(s, 1..2) + s[3]
      BY <2>2, 2 \in 0..3, 2 + 1 = 3
    <2>7. SumFunctionOnSet(s, 1..4) = SumFunctionOnSet(s, 1..3) + s[4]
      BY <2>2, 3 \in 0..3, 3 + 1 = 4
    <2>8. QED
      BY <1>4, <1>9, <2>3, <2>4, <2>5, <2>6, <2>7
  <1>12. AllNames(F, 4) = DOMAIN a \cup DOMAIN b \cup DOMAIN c \cup DOMAIN d
    <2>1. 1..4 = {1, 2, 3, 4}
      OBVIOUS
    <2>2. QED
      BY <1>3, <2>1 DEF AllNames
  <1>13. QED
    BY <1>8, <1>11, <1>12

-----------------------------------------------------------------------------
(* Tensors under a prefix have as many parameters as without, and the      *)
(* prefix begins their names                                               *)
LEMMA SizedNamed ==
  ASSUME NEW P, NEW prefix \in Seq(P), NEW t, DOMAIN t \subseteq P, NEW n, Sized(t, n),
         NEW u, u = Named(prefix, t)
  PROVE  /\ Sized(u, n)
         /\ \A x \in DOMAIN u : Len(x) = Len(prefix) + 1 /\ \A j \in 1..Len(prefix) : x[j] = prefix[j]
  <1>1. /\ DOMAIN u = {Append(prefix, part) : part \in DOMAIN t}
        /\ \A part \in DOMAIN t : u[Append(prefix, part)] = t[part]
        /\ \A p, q \in DOMAIN t : Append(prefix, p) = Append(prefix, q) => p = q
        /\ \A x \in DOMAIN u : Len(x) = Len(prefix) + 1 /\ \A j \in 1..Len(prefix) : x[j] = prefix[j]
    <2>1. \A part \in P : /\ Last(Append(prefix, part)) = part
                          /\ Len(Append(prefix, part)) = Len(prefix) + 1
                          /\ \A j \in 1..Len(prefix) : Append(prefix, part)[j] = prefix[j]
      <3>1. SUFFICES ASSUME NEW part \in P
                     PROVE  /\ Last(Append(prefix, part)) = part
                            /\ Len(Append(prefix, part)) = Len(prefix) + 1
                            /\ \A j \in 1..Len(prefix) : Append(prefix, part)[j] = prefix[j]
        OBVIOUS
      <3>2. PICK s : s = Append(prefix, part)
        OBVIOUS
      <3>3. Len(s) = Len(prefix) + 1 /\ s[Len(prefix) + 1] = part /\ \A j \in 1..Len(prefix) : s[j] = prefix[j]
        BY <3>2, AppendProperties
      <3>4. QED
        BY <3>2, <3>3 DEF Last
    <2>2. PICK N : N = {Append(prefix, part) : part \in DOMAIN t}
      OBVIOUS
    <2>3. u = [name \in N |-> t[Last(name)]]
      BY <2>2 DEF Named
    <2>4. \A part \in DOMAIN t : Append(prefix, part) \in N /\ part \in P
      BY <2>2
    <2>5. \A part \in DOMAIN t : u[Append(prefix, part)] = t[part]
      BY <2>1, <2>3, <2>4
    <2>6. \A p, q \in DOMAIN t : Append(prefix, p) = Append(prefix, q) => p = q
      BY <2>1, <2>4
    <2>7. \A x \in N : Len(x) = Len(prefix) + 1 /\ \A j \in 1..Len(prefix) : x[j] = prefix[j]
      BY <2>1, <2>2, <2>4
    <2>8. QED
      BY <2>2, <2>3, <2>5, <2>6, <2>7
  <1>2. PICK b : b = [part \in DOMAIN t |-> Append(prefix, part)]
    OBVIOUS
  <1>3. \A part \in DOMAIN t : b[part] = Append(prefix, part)
    BY <1>2
  <1>4. IsFiniteSet(DOMAIN t) /\ \A part \in DOMAIN t : NumElements(t[part]) \in Nat
    BY DEF Sized
  <1>5. PICK g : g = [part \in DOMAIN t |-> NumElements(t[part])]
    OBVIOUS
  <1>6. SumFunctionOnSet(g, DOMAIN t) = n
    BY <1>5, SumIs
  <1>7. PICK h : h = [x \in DOMAIN u |-> NumElements(u[x])]
    OBVIOUS
  <1>8. \A part \in DOMAIN t : b[part] \in DOMAIN u /\ u[b[part]] = t[part]
    BY <1>1, <1>3
  <1>9. \A part \in DOMAIN t : g[part] = h[b[part]] /\ g[part] \in Nat
    BY <1>4, <1>5, <1>7, <1>8
  <1>10. \A part \in DOMAIN t : g[part] = h[b[part]] /\ g[part] \in Int
    BY ONLY <1>9
  <1>11. SumFunctionOnSet(g, DOMAIN t) = SumFunctionOnSet(h, DOMAIN u)
    <2>1. \A p, q \in DOMAIN t : b[p] = b[q] => p = q
      BY <1>1, <1>3
    <2>2. PICK D : D = DOMAIN t
      OBVIOUS
    <2>3. IsFiniteSet(D)
      BY <1>4, <2>2
    <2>4. \A p, q \in D : b[p] = b[q] => p = q
      BY <2>1, <2>2
    <2>5. \A p \in D : g[p] = h[b[p]] /\ g[p] \in Int
      BY <1>10, <2>2
    <2>6. SumFunctionOnSet(g, D) = SumFunctionOnSet(h, {b[p] : p \in D})
      BY ONLY <2>3, <2>4, <2>5, SumRenamed
    <2>7. PICK N : N = {b[p] : p \in D}
      OBVIOUS
    <2>8. \A x \in N : x \in DOMAIN u
      BY <1>8, <2>2, <2>7
    <2>9. \A x \in DOMAIN u : \E p \in D : x = b[p]
      BY <1>1, <1>3, <2>2
    <2>10. \A x \in DOMAIN u : x \in N
      BY <2>7, <2>9
    <2>11. N = DOMAIN u
      BY ONLY <2>8, <2>10
    <2>12. QED
      BY ONLY <2>2, <2>6, <2>7, <2>11
  <1>12. IsFiniteSet(DOMAIN u)
    <2>1. PICK N : N = {Append(prefix, part) : part \in DOMAIN t}
      OBVIOUS
    <2>2. b \in [DOMAIN t -> N] /\ \A x \in N : \E part \in DOMAIN t : x = b[part]
      BY <1>2, <2>1
    <2>3. b \in Surjection(DOMAIN t, N)
      BY <2>2 DEF Surjection
    <2>4. IsFiniteSet(N)
      BY <1>4, <2>3, FS_Surjection
    <2>5. DOMAIN u = N
      BY ONLY <1>1, <2>1
    <2>6. QED
      BY <2>4, <2>5
  <1>13. \A x \in DOMAIN u : h[x] = NumElements(u[x]) /\ h[x] \in Nat
    <2>1. SUFFICES ASSUME NEW x \in DOMAIN u PROVE h[x] = NumElements(u[x]) /\ h[x] \in Nat
      OBVIOUS
    <2>2. PICK part \in DOMAIN t : x = Append(prefix, part)
      BY <1>1
    <2>3. QED
      BY <1>3, <1>7, <1>9, <2>2
  <1>14. Sized(u, SumFunctionOnSet(h, DOMAIN u))
    BY <1>12, <1>13, SizedIs
  <1>15. QED
    BY <1>1, <1>6, <1>11, <1>14

-----------------------------------------------------------------------------
(* The tensors of a model, part by part, and the parameters in them        *)
Models ==
  [hidden : Nat, intermediate : Nat, layers : Nat, heads : Nat, kvHeads : Nat,
   headDim : Nat, vocab : Nat, experts : Nat, expertIntermediate : Nat,
   shared : BOOLEAN, tied : BOOLEAN, activation : STRING]

Parts ==
  Int \cup {"mlp", "experts", "shared_expert", "gate_proj", "up_proj", "down_proj", "q_proj", "k_proj", "v_proj",
            "o_proj", "input_layernorm", "post_attention_layernorm"}

LEMMA TwoFinite == ASSUME NEW a, NEW b PROVE IsFiniteSet({a, b})
  <1>1. IsFiniteSet({a}) /\ IsFiniteSet({b})
    BY FS_Singleton
  <1>2. IsFiniteSet({a} \cup {b})
    BY <1>1, FS_Union
  <1>3. {a} \cup {b} = {a, b}
    OBVIOUS
  <1>4. QED
    BY <1>2, <1>3

LEMMA SumOfTwo ==
  ASSUME NEW f, NEW a, NEW b, a # b, f[a] \in Int, f[b] \in Int
  PROVE  SumFunctionOnSet(f, {a, b}) = f[a] + f[b]
  <1>1. SumFunctionOnSet(f, {}) = 0 /\ IsFiniteSet({}) /\ IsFiniteSet({a})
    BY SumOfNone, FS_EmptySet, FS_Singleton
  <1>2. \A y \in {} \cup {a} : f[y] \in Int
    OBVIOUS
  <1>3. SumFunctionOnSet(f, {} \cup {a}) = SumFunctionOnSet(f, {}) + f[a]
    BY <1>1, <1>2, SumWith
  <1>4. \A y \in {a} \cup {b} : f[y] \in Int
    OBVIOUS
  <1>5. SumFunctionOnSet(f, {a} \cup {b}) = SumFunctionOnSet(f, {a}) + f[b]
    BY <1>1, <1>4, SumWith
  <1>6. {} \cup {a} = {a} /\ {a} \cup {b} = {a, b}
    OBVIOUS
  <1>7. SumFunctionOnSet(f, {a}) = 0 + f[a]
    BY ONLY <1>1, <1>3, <1>6
  <1>8. SumFunctionOnSet(f, {a, b}) = (0 + f[a]) + f[b]
    BY ONLY <1>5, <1>6, <1>7
  <1>9. QED
    BY <1>8

LEMMA SizedMlp ==
  ASSUME NEW m \in Models, NEW k \in Nat, NEW t, t = Mlp(m, k)
  PROVE  Sized(t, 3 * m.hidden * k) /\ DOMAIN t \subseteq Parts
  <1>1. PICK h \in Nat : h = m.hidden
    BY DEF Models
  <1>2. /\ DOMAIN t = {"gate_proj", "up_proj", "down_proj"}
        /\ t["gate_proj"] = <<k, h>> /\ t["up_proj"] = <<k, h>> /\ t["down_proj"] = <<h, k>>
    BY <1>1 DEF Mlp
  <1>3. PICK n \in Nat : n = h * k
    OBVIOUS
  <1>4. k * h = n
    BY <1>3
  <1>5. \A x \in DOMAIN t : NumElements(t[x]) = n
    BY <1>2, <1>3, <1>4, ShapeOfTwo
  <1>6. PICK f : f = [x \in DOMAIN t |-> n]
    OBVIOUS
  <1>7. f["gate_proj"] = n /\ f["up_proj"] = n /\ f["down_proj"] = n
    BY <1>2, <1>6
  <1>8. PICK D : D = {"gate_proj", "up_proj"}
    OBVIOUS
  <1>9. IsFiniteSet(D)
    BY <1>8, TwoFinite
  <1>10. DOMAIN t = D \cup {"down_proj"} /\ "down_proj" \notin D
    BY <1>2, <1>8
  <1>11. SumFunctionOnSet(f, D) = n + n
    BY <1>7, <1>8, SumOfTwo
  <1>12. \A y \in D \cup {"down_proj"} : f[y] \in Int
    BY <1>7, <1>8
  <1>13. SumFunctionOnSet(f, D \cup {"down_proj"}) = SumFunctionOnSet(f, D) + f["down_proj"]
    BY <1>9, <1>10, <1>12, SumWith
  <1>14. IsFiniteSet(DOMAIN t)
    BY <1>9, <1>10, FS_AddElement
  <1>15. Sized(t, SumFunctionOnSet(f, DOMAIN t))
    BY <1>5, <1>6, <1>14, SizedIs
  <1>16. SumFunctionOnSet(f, DOMAIN t) = n + n + n
    BY <1>7, <1>10, <1>11, <1>13
  <1>17. n + n + n = 3 * h * k
    <2>1. h \in Nat /\ k \in Nat
      BY <1>1
    <2>2. \A c \in Nat : c = h * k => c + c + c = 3 * h * k
      BY ONLY <2>1
    <2>3. QED
      BY <1>3, <2>2
  <1>18. SumFunctionOnSet(f, DOMAIN t) = 3 * m.hidden * k
    BY <1>1, <1>16, <1>17
  <1>19. DOMAIN t \subseteq Parts
    BY ONLY <1>2 DEF Parts
  <1>20. QED
    BY ONLY <1>15, <1>18, <1>19

LEMMA SizedAttention ==
  ASSUME NEW m \in Models, NEW t, t = Attention(m)
  PROVE  Sized(t, AttentionParams(m) + 2 * m.hidden) /\ DOMAIN t \subseteq Parts
  <1>1. PICK h \in Nat : h = m.hidden
    BY DEF Models
  <1>2. PICK q \in Nat, v \in Nat : q = m.heads * m.headDim /\ v = m.kvHeads * m.headDim
    BY DEF Models
  <1>3. t = [q_proj |-> <<q, h>>, k_proj |-> <<v, h>>, v_proj |-> <<v, h>>, o_proj |-> <<h, q>>,
             input_layernorm |-> <<h>>, post_attention_layernorm |-> <<h>>]
    BY <1>1, <1>2 DEF Attention
  <1>4. PICK x \in Nat, y \in Nat : x = q * h /\ y = v * h
    OBVIOUS
  <1>5. PICK D, E, F : /\ D = {"q_proj", "o_proj"} /\ E = {"k_proj", "v_proj"}
                       /\ F = {"input_layernorm", "post_attention_layernorm"}
    OBVIOUS
  <1>6. DOMAIN t = (D \cup E) \cup F /\ D \cap E = {} /\ (D \cup E) \cap F = {}
    BY <1>3, <1>5
  <1>7. PICK f : f = [z \in DOMAIN t |-> IF z \in D THEN x ELSE IF z \in E THEN y ELSE h]
    OBVIOUS
  <1>8. \A z \in D : f[z] = x /\ f[z] = NumElements(t[z])
    <2>1. t["q_proj"] = <<q, h>> /\ t["o_proj"] = <<h, q>> /\ h * q = x
      BY <1>3, <1>4
    <2>2. NumElements(t["q_proj"]) = x /\ NumElements(t["o_proj"]) = x
      BY <1>4, <2>1, ShapeOfTwo
    <2>3. QED
      BY <1>5, <1>6, <1>7, <2>2
  <1>9. \A z \in E : f[z] = y /\ f[z] = NumElements(t[z])
    <2>1. t["k_proj"] = <<v, h>> /\ t["v_proj"] = <<v, h>>
      BY <1>3
    <2>2. NumElements(t["k_proj"]) = y /\ NumElements(t["v_proj"]) = y
      BY <1>4, <2>1, ShapeOfTwo
    <2>3. QED
      BY <1>5, <1>6, <1>7, <2>2
  <1>10. \A z \in F : f[z] = h /\ f[z] = NumElements(t[z])
    <2>1. t["input_layernorm"] = <<h>> /\ t["post_attention_layernorm"] = <<h>>
      BY <1>3
    <2>2. NumElements(t["input_layernorm"]) = h /\ NumElements(t["post_attention_layernorm"]) = h
      BY <2>1, ShapeOfOne
    <2>3. QED
      BY <1>5, <1>6, <1>7, <2>2
  <1>11. IsFiniteSet(D) /\ IsFiniteSet(E) /\ IsFiniteSet(F)
    BY <1>5, TwoFinite
  <1>12. SumFunctionOnSet(f, D) = x + x /\ SumFunctionOnSet(f, E) = y + y /\ SumFunctionOnSet(f, F) = h + h
    <2>1. SumFunctionOnSet(f, D) = x + x
      <3>1. f["q_proj"] = x /\ f["o_proj"] = x /\ x \in Int
        BY <1>4, <1>5, <1>8
      <3>2. SumFunctionOnSet(f, {"q_proj", "o_proj"}) = f["q_proj"] + f["o_proj"]
        BY <3>1, SumOfTwo
      <3>3. QED
        BY <1>5, <3>1, <3>2
    <2>2. SumFunctionOnSet(f, E) = y + y
      <3>1. f["k_proj"] = y /\ f["v_proj"] = y /\ y \in Int
        BY <1>4, <1>5, <1>9
      <3>2. SumFunctionOnSet(f, {"k_proj", "v_proj"}) = f["k_proj"] + f["v_proj"]
        BY <3>1, SumOfTwo
      <3>3. QED
        BY <1>5, <3>1, <3>2
    <2>3. SumFunctionOnSet(f, F) = h + h
      <3>1. f["input_layernorm"] = h /\ f["post_attention_layernorm"] = h /\ h \in Int
        BY <1>1, <1>5, <1>10
      <3>2. SumFunctionOnSet(f, {"input_layernorm", "post_attention_layernorm"}) = f["input_layernorm"] + f["post_attention_layernorm"]
        BY <3>1, SumOfTwo
      <3>3. QED
        BY <1>5, <3>1, <3>2
    <2>4. QED
      BY <2>1, <2>2, <2>3
  <1>13. \A z \in (D \cup E) \cup F : f[z] = NumElements(t[z]) /\ f[z] \in Nat
    BY <1>8, <1>9, <1>10
  <1>14. \A z \in (D \cup E) \cup F : f[z] \in Int
    BY ONLY <1>13
  <1>15. IsFiniteSet(D \cup E)
    BY <1>11, FS_Union
  <1>16. SumFunctionOnSet(f, D \cup E) = SumFunctionOnSet(f, D) + SumFunctionOnSet(f, E)
    BY <1>6, <1>11, <1>14, SumUnion
  <1>17. SumFunctionOnSet(f, (D \cup E) \cup F) = SumFunctionOnSet(f, D \cup E) + SumFunctionOnSet(f, F)
    BY <1>6, <1>11, <1>14, <1>15, SumUnion
  <1>18. IsFiniteSet(DOMAIN t)
    <2>1. IsFiniteSet((D \cup E) \cup F)
      BY ONLY <1>11, <1>15, FS_Union
    <2>2. QED
      BY ONLY <1>6, <2>1
  <1>19. Sized(t, SumFunctionOnSet(f, DOMAIN t))
    BY <1>6, <1>13, <1>18, SizedIs
  <1>20. AttentionParams(m) + 2 * m.hidden = (x + x) + (y + y) + (h + h)
    <2>1. PICK a \in Nat, b \in Nat, c \in Nat : a = m.heads /\ b = m.headDim /\ c = m.kvHeads
      BY DEF Models
    <2>2. q = a * b /\ v = c * b
      BY <1>2, <2>1
    <2>3. 2 * h * a * b = x + x /\ 2 * h * c * b = y + y
      BY <1>4, <2>2
    <2>4. AttentionParams(m) = 2 * h * a * b + 2 * h * c * b
      BY <1>1, <2>1 DEF AttentionParams
    <2>5. 2 * h = h + h
      BY <1>1
    <2>6. QED
      BY ONLY <1>1, <2>3, <2>4, <2>5
  <1>21. SumFunctionOnSet(f, DOMAIN t) = AttentionParams(m) + 2 * m.hidden
    BY <1>4, <1>6, <1>12, <1>16, <1>17, <1>20
  <1>22. DOMAIN t \subseteq Parts
    <2>1. D \subseteq Parts /\ E \subseteq Parts /\ F \subseteq Parts
      BY ONLY <1>5 DEF Parts
    <2>2. QED
      BY ONLY <1>6, <2>1
  <1>23. QED
    BY ONLY <1>19, <1>21, <1>22

LEMMA SizedFfn ==
  ASSUME NEW m \in Models, m.activation \in Gated, NEW k \in Nat, NEW prefix \in Seq(Parts),
         NEW u, u = Named(prefix, Mlp(m, k))
  PROVE  /\ Sized(u, DenseFfnParams(m, k))
         /\ \A x \in DOMAIN u : Len(x) = Len(prefix) + 1 /\ \A j \in 1..Len(prefix) : x[j] = prefix[j]
  <1>1. PICK t : t = Mlp(m, k)
    OBVIOUS
  <1>2. Sized(t, 3 * m.hidden * k) /\ DOMAIN t \subseteq Parts
    BY <1>1, SizedMlp
  <1>3. DenseFfnParams(m, k) = 3 * m.hidden * k
    BY DEF DenseFfnParams
  <1>4. Sized(t, DenseFfnParams(m, k))
    BY ONLY <1>2, <1>3
  <1>5. u = Named(prefix, t)
    BY <1>1
  <1>6. QED
    BY ONLY <1>2, <1>4, <1>5, prefix \in Seq(Parts), SizedNamed

(* What a layer's feed-forward block has been counted as                   *)
LEMMA SizedMoe ==
  ASSUME NEW m \in Models, m.activation \in Gated, NEW i \in Nat, NEW t, t = MoeTensors(m, i), m.experts # 0
  PROVE  Sized(t, FfnParams(m)) /\ \A x \in DOMAIN t : Len(x) \in 3..5 /\ x[1] = i
  <1>1. PICK h \in Nat, E \in Nat, k \in Nat, l \in Nat :
          h = m.hidden /\ E = m.experts /\ k = m.expertIntermediate /\ l = m.intermediate
    BY DEF Models
  <1>2. PICK q : q = DenseFfnParams(m, k)
    OBVIOUS
  <1>3. PICK r : r = IF m.shared THEN DenseFfnParams(m, l) ELSE 0
    OBVIOUS
  <1>4. PICK a : a = OneTensor(<<i, "mlp", "gate">>, <<E, h>>)
    OBVIOUS
  <1>5. PICK F : F = [e \in 1..E |-> Named(<<i, "mlp", "experts", e>>, Mlp(m, k))]
    OBVIOUS
  <1>6. PICK b : b = Together(F)
    OBVIOUS
  <1>7. PICK c : c = IF m.shared THEN Named(<<i, "mlp", "shared_expert">>, Mlp(m, l)) ELSE <<>>
    OBVIOUS
  <1>8. t = Together(<<a, b, c>>)
    BY <1>1, <1>4, <1>5, <1>6, <1>7 DEF MoeTensors
  <1>9. Sized(a, E * h) /\ \A x \in DOMAIN a : Len(x) = 3 /\ x[1] = i
    <2>1. NumElements(<<E, h>>) = E * h /\ E * h \in Nat
      BY ShapeOfTwo
    <2>2. PICK name : name = <<i, "mlp", "gate">>
      OBVIOUS
    <2>3. Sized(a, E * h) /\ DOMAIN a = {name}
      BY <1>4, <2>1, <2>2, SizedOne
    <2>4. Len(name) = 3 /\ name[1] = i
      BY <2>2
    <2>5. QED
      BY <2>3, <2>4
  <1>10. ASSUME NEW e \in 1..E
         PROVE  Sized(F[e], q) /\ \A x \in DOMAIN F[e] : Len(x) = 5 /\ x[1] = i /\ x[4] = e
    <2>1. PICK prefix : prefix = <<i, "mlp", "experts", e>>
      OBVIOUS
    <2>2. prefix \in Seq(Parts) /\ Len(prefix) = 4 /\ prefix[1] = i /\ prefix[4] = e
      BY <2>1 DEF Parts
    <2>3. PICK u : u = Named(prefix, Mlp(m, k))
      OBVIOUS
    <2>4. /\ Sized(u, q)
          /\ \A x \in DOMAIN u : Len(x) = Len(prefix) + 1 /\ \A j \in 1..Len(prefix) : x[j] = prefix[j]
      <3>1. m \in Models /\ m.activation \in Gated /\ k \in Nat
        OBVIOUS
      <3>2. prefix \in Seq(Parts)
        BY <2>2
      <3>3. /\ Sized(u, DenseFfnParams(m, k))
            /\ \A x \in DOMAIN u : Len(x) = Len(prefix) + 1 /\ \A j \in 1..Len(prefix) : x[j] = prefix[j]
        BY ONLY <2>3, <3>1, <3>2, SizedFfn
      <3>4. QED
        BY ONLY <1>2, <3>3
    <2>5. \A x \in DOMAIN u : Len(x) = 5 /\ x[1] = i /\ x[4] = e
      BY <2>2, <2>4
    <2>6. F[e] = u
      BY <1>5, <2>1, <2>3
    <2>7. QED
      BY <2>4, <2>5, <2>6
  <1>11. Apart(F, E)
    BY <1>10 DEF Apart
  <1>12. q \in Nat
    <2>1. m.activation \in Gated /\ h \in Nat /\ k \in Nat /\ q = 3 * h * k
      BY <1>1, <1>2 DEF DenseFfnParams
    <2>2. QED
      BY ONLY <2>1
  <1>13. Sized(b, E * q) /\ \A x \in DOMAIN b : Len(x) = 5 /\ x[1] = i
    <2>1. DOMAIN F = 1..E /\ E \in Nat
      BY <1>5
    <2>2. \A e \in 1..E : Sized(F[e], q)
      BY <1>10
    <2>3. Sized(b, E * q) /\ DOMAIN b = AllNames(F, E)
      BY <1>6, <1>11, <1>12, <2>1, <2>2, SizedSame
    <2>4. QED
      BY <1>10, <2>3 DEF AllNames
  <1>14. Sized(c, r) /\ \A x \in DOMAIN c : Len(x) = 4 /\ x[1] = i
    <2>1. CASE m.shared
      <3>1. PICK prefix : prefix = <<i, "mlp", "shared_expert">>
        OBVIOUS
      <3>2. prefix \in Seq(Parts) /\ Len(prefix) = 3 /\ prefix[1] = i
        BY <3>1 DEF Parts
      <3>3. c = Named(prefix, Mlp(m, l)) /\ r = DenseFfnParams(m, l)
        BY <1>3, <1>7, <2>1, <3>1
      <3>4. /\ Sized(c, r)
            /\ \A x \in DOMAIN c : Len(x) = Len(prefix) + 1 /\ \A j \in 1..Len(prefix) : x[j] = prefix[j]
        <4>1. m \in Models /\ m.activation \in Gated /\ l \in Nat
          OBVIOUS
        <4>2. prefix \in Seq(Parts)
          BY <3>2
        <4>3. /\ Sized(c, DenseFfnParams(m, l))
              /\ \A x \in DOMAIN c : Len(x) = Len(prefix) + 1 /\ \A j \in 1..Len(prefix) : x[j] = prefix[j]
          BY ONLY <3>3, <4>1, <4>2, SizedFfn
        <4>4. QED
          BY ONLY <3>3, <4>3
      <3>5. QED
        BY <3>2, <3>4
    <2>2. CASE ~m.shared
      <3>1. DOMAIN c = {} /\ r = 0
        BY <1>3, <1>7, <2>2
      <3>2. QED
        BY <3>1, SizedNone
    <2>3. QED
      BY <2>1, <2>2
  <1>15. DOMAIN a \cap DOMAIN b = {} /\ DOMAIN a \cap DOMAIN c = {} /\ DOMAIN b \cap DOMAIN c = {}
    BY <1>9, <1>13, <1>14
  <1>16. Sized(t, E * h + E * q + r) /\ \A n \in DOMAIN t : n \in DOMAIN a \/ n \in DOMAIN b \/ n \in DOMAIN c
    <2>1. PICK x, y : x = E * h /\ y = E * q
      OBVIOUS
    <2>2. Sized(a, x) /\ Sized(b, y) /\ Sized(c, r)
      BY <1>9, <1>13, <1>14, <2>1
    <2>3. Sized(t, x + y + r)
      BY ONLY <1>8, <1>15, <2>2, SizedThree
    <2>4. \A n \in DOMAIN t : n \in DOMAIN a \/ n \in DOMAIN b \/ n \in DOMAIN c
      BY ONLY <1>8, <1>15, <2>2, SizedThree
    <2>5. QED
      BY ONLY <2>1, <2>3, <2>4
  <1>17. FfnParams(m) = E * h + E * q + r
    <2>1. FfnParams(m) = q * E + h * E + r
      BY <1>1, <1>2, <1>3 DEF FfnParams
    <2>2. r \in Nat
      BY <1>14 DEF Sized
    <2>3. q * E = E * q /\ h * E = E * h
      BY <1>12
    <2>4. E * q \in Nat /\ E * h \in Nat
      BY <1>12
    <2>5. QED
      BY <2>1, <2>2, <2>3, <2>4
  <1>18. \A x \in DOMAIN t : Len(x) \in 3..5 /\ x[1] = i
    BY <1>9, <1>13, <1>14, <1>16
  <1>19. QED
    BY <1>16, <1>17, <1>18

LEMMA SizedLayer ==
  ASSUME NEW m \in Models, m.activation \in Gated, NEW i \in Nat, NEW t, t = Layer(m, i)
  PROVE  /\ Sized(t, AttentionParams(m) + FfnParams(m) + 2 * m.hidden)
         /\ \A x \in DOMAIN t : Len(x) \in 2..5 /\ x[1] = i
  <1>1. PICK n : n = AttentionParams(m) + 2 * m.hidden
    OBVIOUS
  <1>2. PICK a : a = Named(<<i>>, Attention(m))
    OBVIOUS
  <1>3. PICK b : b = IF m.experts = 0 THEN Named(<<i, "mlp">>, Mlp(m, m.intermediate)) ELSE MoeTensors(m, i)
    OBVIOUS
  <1>4. t = Together(<<a, b>>)
    BY <1>2, <1>3 DEF Layer
  <1>5. Sized(a, n) /\ \A x \in DOMAIN a : Len(x) = 2 /\ x[1] = i
    <2>1. PICK prefix : prefix = <<i>>
      OBVIOUS
    <2>2. prefix \in Seq(Parts) /\ Len(prefix) = 1 /\ prefix[1] = i
      BY <2>1 DEF Parts
    <2>3. PICK u : u = Attention(m)
      OBVIOUS
    <2>4. Sized(u, n) /\ DOMAIN u \subseteq Parts
      BY <1>1, <2>3, SizedAttention
    <2>5. a = Named(prefix, u) /\ prefix \in Seq(Parts)
      BY <1>2, <2>1, <2>2, <2>3
    <2>6. /\ Sized(a, n)
          /\ \A x \in DOMAIN a : Len(x) = Len(prefix) + 1 /\ \A j \in 1..Len(prefix) : x[j] = prefix[j]
      BY ONLY <2>4, <2>5, SizedNamed
    <2>7. QED
      BY <2>2, <2>6
  <1>6. Sized(b, FfnParams(m)) /\ \A x \in DOMAIN b : Len(x) \in 3..5 /\ x[1] = i
    <2>1. CASE m.experts = 0
      <3>1. PICK prefix : prefix = <<i, "mlp">>
        OBVIOUS
      <3>2. prefix \in Seq(Parts) /\ Len(prefix) = 2 /\ prefix[1] = i
        BY <3>1 DEF Parts
      <3>3. PICK l \in Nat : l = m.intermediate
        BY DEF Models
      <3>4. m \in Models /\ m.activation \in Gated /\ l \in Nat /\ prefix \in Seq(Parts)
        BY <3>2
      <3>5. b = Named(prefix, Mlp(m, l))
        BY <1>3, <2>1, <3>1, <3>3
      <3>6. /\ Sized(b, DenseFfnParams(m, l))
            /\ \A x \in DOMAIN b : Len(x) = Len(prefix) + 1 /\ \A j \in 1..Len(prefix) : x[j] = prefix[j]
        BY ONLY <3>4, <3>5, SizedFfn
      <3>7. FfnParams(m) = DenseFfnParams(m, l)
        BY <2>1, <3>3 DEF FfnParams
      <3>8. \A x \in DOMAIN b : Len(x) \in 3..5 /\ x[1] = i
        BY <3>2, <3>6
      <3>9. QED
        BY ONLY <3>6, <3>7, <3>8
    <2>2. CASE m.experts # 0
      <3>1. b = MoeTensors(m, i)
        BY <1>3, <2>2
      <3>2. QED
        BY <2>2, <3>1, SizedMoe
    <2>3. QED
      BY <2>1, <2>2
  <1>7. DOMAIN a \cap DOMAIN b = {}
    BY <1>5, <1>6
  <1>8. PICK f : f = FfnParams(m)
    OBVIOUS
  <1>9. Sized(b, f) /\ Sized(a, n)
    BY ONLY <1>5, <1>6, <1>8
  <1>10. Sized(t, n + f) /\ DOMAIN t = DOMAIN a \cup DOMAIN b
    BY ONLY <1>4, <1>7, <1>9, SizedTwo
  <1>11. n + f = AttentionParams(m) + FfnParams(m) + 2 * m.hidden
    <2>1. PICK p \in Nat, h \in Nat : p = AttentionParams(m) /\ h = m.hidden
      BY DEF AttentionParams, Models
    <2>2. f \in Nat
      BY <1>9 DEF Sized
    <2>3. n = p + 2 * h
      BY <1>1, <2>1
    <2>4. (p + 2 * h) + f = p + f + 2 * h
      BY <2>1, <2>2
    <2>5. QED
      BY ONLY <1>8, <2>1, <2>3, <2>4
  <1>12. \A x \in DOMAIN t : Len(x) \in 2..5 /\ x[1] = i
    BY <1>5, <1>6, <1>10
  <1>13. QED
    BY ONLY <1>10, <1>11, <1>12

(* The two lists of a gated model's matrices agree.                        *)
LEMMA SizedModel ==
  ASSUME NEW m \in Models, m.activation \in Gated, NEW t, t = ExpectedTensors(m)
  PROVE  Sized(t, ParamCount(m))
  <1>1. PICK h \in Nat, v \in Nat, n \in Nat : h = m.hidden /\ v = m.vocab /\ n = m.layers
    BY DEF Models
  <1>2. PICK q : q = AttentionParams(m) + FfnParams(m) + 2 * m.hidden
    OBVIOUS
  <1>3. PICK p \in Nat : p = v * h
    OBVIOUS
  <1>4. PICK a : a = OneTensor(<<"embed_tokens">>, <<v, h>>)
    OBVIOUS
  <1>5. PICK b : b = OneTensor(<<"norm">>, <<h>>)
    OBVIOUS
  <1>6. PICK c : c = IF m.tied THEN <<>> ELSE OneTensor(<<"lm_head">>, <<v, h>>)
    OBVIOUS
  <1>7. PICK F : F = [i \in 1..n |-> Layer(m, i)]
    OBVIOUS
  <1>8. PICK d : d = Together(F)
    OBVIOUS
  <1>9. t = Together(<<a, b, c, d>>)
    BY <1>1, <1>4, <1>5, <1>6, <1>7, <1>8 DEF ExpectedTensors
  <1>10. PICK r : r = IF m.tied THEN 0 ELSE p
    OBVIOUS
  <1>11. PICK e, f, g : e = <<"embed_tokens">> /\ f = <<"norm">> /\ g = <<"lm_head">>
    OBVIOUS
  <1>12. /\ Len(e) = 1 /\ e[1] = "embed_tokens" /\ Len(f) = 1 /\ f[1] = "norm" /\ Len(g) = 1 /\ g[1] = "lm_head"
         /\ e # f /\ e # g /\ f # g
    BY <1>11
  <1>13. NumElements(<<v, h>>) = p /\ NumElements(<<h>>) = h
    BY <1>3, ShapeOfOne, ShapeOfTwo
  <1>14. Sized(a, p) /\ DOMAIN a = {e}
    BY <1>4, <1>11, <1>13, SizedOne
  <1>15. Sized(b, h) /\ DOMAIN b = {f}
    BY <1>5, <1>11, <1>13, SizedOne
  <1>16. Sized(c, r) /\ DOMAIN c \subseteq {g}
    <2>1. CASE m.tied
      <3>1. DOMAIN c = {} /\ r = 0
        BY <1>6, <1>10, <2>1
      <3>2. QED
        BY <3>1, SizedNone
    <2>2. CASE ~m.tied
      <3>1. c = OneTensor(g, <<v, h>>) /\ r = p
        BY <1>6, <1>10, <1>11, <2>2
      <3>2. QED
        BY <1>13, <3>1, SizedOne
    <2>3. QED
      BY <2>1, <2>2
  <1>17. ASSUME NEW i \in 1..n PROVE Sized(F[i], q) /\ \A x \in DOMAIN F[i] : Len(x) \in 2..5 /\ x[1] = i
    <2>1. m \in Models /\ m.activation \in Gated /\ i \in Nat /\ F[i] = Layer(m, i)
      BY <1>7
    <2>2. QED
      BY ONLY <1>2, <2>1, SizedLayer
  <1>18. Apart(F, n)
    BY <1>17 DEF Apart
  <1>19. q \in Nat
    <2>1. AttentionParams(m) \in Nat
      BY DEF AttentionParams, Models
    <2>2. FfnParams(m) \in Nat
      BY DEF FfnParams, DenseFfnParams, Models
    <2>3. QED
      BY <1>1, <1>2, <2>1, <2>2
  <1>20. Sized(d, n * q) /\ \A x \in DOMAIN d : Len(x) \in 2..5
    <2>1. DOMAIN F = 1..n
      BY <1>7
    <2>2. \A i \in 1..n : Sized(F[i], q)
      BY <1>17
    <2>3. n \in Nat /\ Sized(d, n * q) /\ DOMAIN d = AllNames(F, n)
      BY <1>8, <1>18, <1>19, <2>1, <2>2, SizedSame
    <2>4. QED
      BY <1>17, <2>3 DEF AllNames
  <1>21. /\ DOMAIN a \cap DOMAIN b = {} /\ DOMAIN a \cap DOMAIN c = {} /\ DOMAIN a \cap DOMAIN d = {}
         /\ DOMAIN b \cap DOMAIN c = {} /\ DOMAIN b \cap DOMAIN d = {} /\ DOMAIN c \cap DOMAIN d = {}
    BY <1>12, <1>14, <1>15, <1>16, <1>20
  <1>22. PICK s : s = n * q
    OBVIOUS
  <1>23. Sized(a, p) /\ Sized(b, h) /\ Sized(c, r) /\ Sized(d, s)
    BY ONLY <1>14, <1>15, <1>16, <1>20, <1>22
  <1>24. Sized(t, p + h + r + s)
    BY ONLY <1>9, <1>21, <1>23, SizedFour
  <1>25. ParamCount(m) = p + h + r + s
    <2>1. ParamCount(m) = n * q + (IF m.tied THEN 1 ELSE 2) * v * h + h
      BY <1>1, <1>2 DEF ParamCount
    <2>2. s \in Nat
      BY <1>23 DEF Sized
    <2>3. CASE m.tied
      <3>1. ParamCount(m) = n * q + 1 * v * h + h
        BY <2>1, <2>3
      <3>2. 1 * v * h = p /\ r = 0
        BY <1>3, <1>10, <2>3
      <3>3. QED
        BY <1>22, <2>2, <3>1, <3>2
    <2>4. CASE ~m.tied
      <3>1. ParamCount(m) = n * q + 2 * v * h + h
        BY <2>1, <2>4
      <3>2. 2 * v * h = p + p /\ r = p
        BY <1>3, <1>10, <2>4
      <3>3. QED
        BY <1>22, <2>2, <3>1, <3>2
    <2>5. QED
      BY <2>3, <2>4
  <1>26. QED
    BY ONLY <1>24, <1>25

-----------------------------------------------------------------------------
(* Reading the shards                                                      *)
(* The last of the first n shards that has a tensor                        *)
Latest(name, i, n) ==
  /\ name \in DOMAIN shards[i].tensors
  /\ \A j \in 1..n : name \in DOMAIN shards[j].tensors => j <= i

(* The headers of the first n shards make up the manifest                  *)
ReadTo(n) ==
  /\ n \in 0..Len(shards)
  /\ unread \in Seq(ToSet(shards)) /\ Len(unread) = Len(shards) - n
  /\ \A i \in 1..Len(unread) : unread[i] = shards[n + i]
  /\ \A i \in 1..n : shards[i].sound /\ DOMAIN shards[i].tensors \subseteq DOMAIN manifest
  /\ \A name \in DOMAIN manifest :
       \E i \in 1..n : Latest(name, i, n) /\ manifest[name] = shards[i].tensors[name]

CheckpointInv ==
  /\ strict \in BOOLEAN /\ model \in Models /\ shards \in Checkpoints \cup {NoPath}
  /\ loading = "discover" => manifest = <<>>
  /\ loading = "reading" => shards \in Checkpoints /\ shards # <<>> /\ \E n \in 0..Len(shards) : ReadTo(n)
  /\ loading = "refused" /\ shards # NoPath =>
       \/ shards = <<>> \/ \E i \in 1..Len(shards) : ~shards[i].sound
       \/ strict /\ ReadTo(Len(shards)) /\ Problems(manifest, model) # {}
  /\ loading = "loaded" =>
       /\ shards \in Checkpoints /\ shards # <<>> /\ ReadTo(Len(shards))
       /\ strict => Problems(manifest, model) = {}
       /\ drift = Elements(manifest) - ParamCount(model)

LEMMA CheckpointInitInv == CheckpointInit => CheckpointInv
  <1>1. SUFFICES ASSUME CheckpointInit PROVE CheckpointInv
    OBVIOUS
  <1>2. PICK s \in Sections : model = FromConfig(s)
    BY <1>1 DEF CheckpointInit
  <1>3. /\ s.hidden \in Nat /\ s.intermediate \in Nat /\ s.layers \in Nat /\ s.heads \in Nat /\ s.heads > 0
        /\ s.kvHeads \in Nat /\ s.headDim \in Nat /\ s.vocab \in Nat /\ s.experts \in Nat
        /\ s.expertIntermediate \in Nat /\ s.shared \in BOOLEAN /\ s.tied \in BOOLEAN /\ s.activation \in STRING
    BY CheckpointAssumption
  <1>4. PICK k : k = IF s.kvHeads = 0 THEN s.heads ELSE s.kvHeads
    OBVIOUS
  <1>5. PICK d : d = IF s.headDim = 0 THEN s.hidden \div s.heads ELSE s.headDim
    OBVIOUS
  <1>6. s.hidden \div s.heads \in Nat
    <2>1. \A a, b \in Nat : b > 0 => a \div b \in Nat
      OBVIOUS
    <2>2. QED
      BY <1>3, <2>1
  <1>7. k \in Nat /\ d \in Nat
    BY <1>3, <1>4, <1>5, <1>6
  <1>8. s \in [hidden : Nat, intermediate : Nat, layers : Nat, heads : Nat \ {0}, kvHeads : Nat,
               headDim : Nat, vocab : Nat, experts : Nat, expertIntermediate : Nat,
               shared : BOOLEAN, tied : BOOLEAN, activation : STRING]
    BY CheckpointAssumption
  <1>9. model = [s EXCEPT !.kvHeads = k, !.headDim = d]
    BY <1>2, <1>4, <1>5 DEF FromConfig
  <1>10. model \in Models
    BY <1>7, <1>8, <1>9 DEF Models
  <1>11. QED
    BY <1>1, <1>10 DEF CheckpointInit, CheckpointInv

LEMMA ShardsType ==
  ASSUME CheckpointInv, shards \in Checkpoints
  PROVE  shards \in Seq(ToSet(shards)) /\ Len(shards) \in Nat /\ DOMAIN shards = 1..Len(shards)
  <1>1. shards \in Seq(ToSet(shards))
    BY CheckpointAssumption
  <1>2. QED
    BY <1>1, LenProperties

LEMMA DiscoverInv == ASSUME CheckpointInv, Discover PROVE CheckpointInv'
  <1>1. loading = "discover" /\ UNCHANGED <<strict, model, shards, manifest, drift>>
    BY DEF Discover
  <1>2. manifest = <<>> /\ strict \in BOOLEAN /\ model \in Models /\ shards \in Checkpoints \cup {NoPath}
    BY <1>1 DEF CheckpointInv
  <1>3. CASE shards = NoPath
    <2>1. loading' \in {"refused", "synthetic"}
      BY <1>3 DEF Discover
    <2>2. QED
      BY <1>1, <1>2, <1>3, <2>1 DEF CheckpointInv
  <1>4. CASE shards # NoPath /\ shards = <<>>
    <2>1. loading' = "refused"
      BY <1>4 DEF Discover
    <2>2. QED
      BY <1>1, <1>2, <1>4, <2>1 DEF CheckpointInv
  <1>5. CASE shards # NoPath /\ shards # <<>>
    <2>1. loading' = "reading" /\ unread' = shards
      BY <1>5 DEF Discover
    <2>2. shards \in Checkpoints
      BY <1>2, <1>5
    <2>3. shards \in Seq(ToSet(shards)) /\ Len(shards) \in Nat
      BY <2>2, ShardsType
    <2>4. ReadTo(0)'
      <3>1. shards' = shards /\ unread' = shards /\ DOMAIN manifest' = {}
        BY <1>1, <1>2, <2>1
      <3>2. 0 \in 0..Len(shards) /\ Len(shards) = Len(shards) - 0 /\ 1..0 = {}
        BY <2>3
      <3>3. \A i \in 1..Len(shards) : i = 0 + i
        BY <2>3
      <3>4. QED
        BY <2>3, <3>1, <3>2, <3>3 DEF ReadTo
    <2>5. 0 \in 0..Len(shards')
      BY <1>1, <2>3
    <2>6. QED
      BY <1>1, <1>2, <1>5, <2>1, <2>2, <2>4, <2>5 DEF CheckpointInv
  <1>6. QED
    BY <1>3, <1>4, <1>5

LEMMA ReadHeaderInv == ASSUME CheckpointInv, ReadHeader PROVE CheckpointInv'
  <1>1. /\ loading = "reading" /\ unread # <<>> /\ unread' = Tail(unread)
        /\ UNCHANGED <<strict, model, shards, drift>>
    BY DEF ReadHeader
  <1>2. /\ strict \in BOOLEAN /\ model \in Models /\ shards \in Checkpoints \cup {NoPath}
        /\ shards \in Checkpoints /\ shards # <<>> /\ \E n \in 0..Len(shards) : ReadTo(n)
    BY <1>1 DEF CheckpointInv
  <1>3. PICK n \in 0..Len(shards) : ReadTo(n)
    BY <1>2
  <1>4. shards \in Seq(ToSet(shards)) /\ Len(shards) \in Nat
    BY <1>2, ShardsType
  <1>5. PICK m : m = n + 1
    OBVIOUS
  <1>6. unread \in Seq(ToSet(shards)) /\ Len(unread) = Len(shards) - n /\ \A i \in 1..Len(unread) : unread[i] = shards[n + i]
    BY <1>3 DEF ReadTo
  <1>7. Len(unread) \in Nat /\ Len(unread) > 0
    BY <1>1, <1>6, EmptySeq, LenProperties
  <1>8. n \in Nat /\ m \in 1..Len(shards) /\ Head(unread) = shards[m]
    <2>1. Head(unread) = unread[1]
      BY <1>1, <1>6
    <2>2. unread[1] = shards[n + 1]
      BY <1>6, <1>7
    <2>3. QED
      BY <1>4, <1>5, <1>6, <1>7, <2>1, <2>2
  <1>9. CASE ~Head(unread).sound
    <2>1. loading' = "refused"
      BY <1>9 DEF ReadHeader
    <2>2. m \in 1..Len(shards') /\ ~shards'[m].sound
      BY <1>1, <1>8, <1>9
    <2>3. QED
      BY <1>1, <1>2, <2>1, <2>2 DEF CheckpointInv
  <1>10. CASE Head(unread).sound
    <2>1. loading' = "reading" /\ manifest' = Updated(manifest, shards[m].tensors)
      BY <1>1, <1>8, <1>10 DEF ReadHeader
    <2>2. PICK T : T = shards[m].tensors
      OBVIOUS
    <2>3. /\ DOMAIN manifest' = DOMAIN manifest \cup DOMAIN T
          /\ \A name \in DOMAIN T : manifest'[name] = T[name]
          /\ \A name \in DOMAIN manifest \ DOMAIN T : manifest'[name] = manifest[name]
      BY <2>1, <2>2 DEF Updated
    <2>4. shards[m].sound
      BY <1>8, <1>10
    <2>5. unread' \in Seq(ToSet(shards)) /\ Len(unread') = Len(shards) - m
      <3>1. Tail(unread) \in Seq(ToSet(shards)) /\ Len(Tail(unread)) = Len(unread) - 1
        BY <1>1, <1>6, HeadTailProperties
      <3>2. QED
        BY <1>1, <1>4, <1>5, <1>6, <1>8, <3>1
    <2>6. \A i \in 1..Len(unread') : unread'[i] = shards[m + i]
      <3>1. SUFFICES ASSUME NEW i \in 1..Len(unread') PROVE unread'[i] = shards[m + i]
        OBVIOUS
      <3>2. Len(Tail(unread)) = Len(unread) - 1 /\ i \in 1..Len(Tail(unread)) /\ i + 1 \in 1..Len(unread)
        BY <1>1, <1>6, <1>7, HeadTailProperties
      <3>3. unread'[i] = unread[i + 1]
        BY <1>1, <1>6, <3>2, HeadTailProperties
      <3>4. unread[i + 1] = shards[n + (i + 1)] /\ n + (i + 1) = m + i
        BY <1>5, <1>6, <1>8, <3>2
      <3>5. QED
        BY <3>3, <3>4
    <2>7. \A i \in 1..m : i = m \/ i \in 1..n
      BY <1>5, <1>8
    <2>8. \A i \in 1..m : shards[i].sound /\ DOMAIN shards[i].tensors \subseteq DOMAIN manifest'
      <3>1. \A i \in 1..n : shards[i].sound /\ DOMAIN shards[i].tensors \subseteq DOMAIN manifest
        BY <1>3 DEF ReadTo
      <3>2. QED
        BY <2>2, <2>3, <2>4, <2>7, <3>1
    <2>9. ASSUME NEW name \in DOMAIN manifest'
          PROVE  \E i \in 1..m : Latest(name, i, m) /\ manifest'[name] = shards[i].tensors[name]
      <3>1. CASE name \in DOMAIN T
        <4>1. \A j \in 1..m : j <= m
          BY <1>8
        <4>2. Latest(name, m, m)
          BY <2>2, <3>1, <4>1 DEF Latest
        <4>3. m \in 1..m
          BY <1>8
        <4>4. QED
          BY <2>2, <2>3, <3>1, <4>2, <4>3
      <3>2. CASE name \notin DOMAIN T
        <4>1. name \in DOMAIN manifest
          BY <2>3, <3>2
        <4>2. PICK i \in 1..n : Latest(name, i, n) /\ manifest[name] = shards[i].tensors[name]
          BY <1>3, <4>1 DEF ReadTo
        <4>3. Latest(name, i, m)
          BY <2>2, <2>7, <3>2, <4>2 DEF Latest
        <4>4. i \in 1..m
          BY <1>5, <1>8
        <4>5. manifest'[name] = shards[i].tensors[name]
          BY <2>3, <3>2, <4>1, <4>2
        <4>6. QED
          BY <4>3, <4>4, <4>5
      <3>3. QED
        BY <3>1, <3>2
    <2>10. ReadTo(m)'
      <3>1. shards' = shards /\ m \in 0..Len(shards)
        BY <1>1, <1>8
      <3>2. QED
        BY <2>5, <2>6, <2>8, <2>9, <3>1 DEF ReadTo, Latest
    <2>11. m \in 0..Len(shards')
      BY <1>1, <1>8
    <2>12. QED
      BY <1>1, <1>2, <2>1, <2>10, <2>11 DEF CheckpointInv
  <1>11. QED
    BY <1>9, <1>10

LEMMA ValidateInv == ASSUME CheckpointInv, ValidateManifest PROVE CheckpointInv'
  <1>1. loading = "reading" /\ unread = <<>> /\ UNCHANGED <<strict, model, shards, manifest, unread>>
    BY DEF ValidateManifest
  <1>2. /\ strict \in BOOLEAN /\ model \in Models /\ shards \in Checkpoints \cup {NoPath}
        /\ shards \in Checkpoints /\ shards # <<>> /\ \E n \in 0..Len(shards) : ReadTo(n)
    BY <1>1 DEF CheckpointInv
  <1>3. PICK n \in 0..Len(shards) : ReadTo(n)
    BY <1>2
  <1>4. shards \in Seq(ToSet(shards)) /\ Len(shards) \in Nat
    BY <1>2, ShardsType
  <1>5. n = Len(shards)
    <2>1. Len(unread) = Len(shards) - n /\ Len(unread) = 0
      BY <1>1, <1>3 DEF ReadTo
    <2>2. QED
      BY <1>4, <2>1
  <1>6. ReadTo(Len(shards))'
    BY <1>1, <1>3, <1>5 DEF ReadTo, Latest
  <1>7. Problems(manifest, model)' = Problems(manifest, model) /\ Elements(manifest)' = Elements(manifest)
    BY <1>1 DEF Problems
  <1>8. CASE strict /\ Problems(manifest, model) # {}
    <2>1. loading' = "refused"
      BY <1>8 DEF ValidateManifest
    <2>2. QED
      BY <1>1, <1>2, <1>6, <1>7, <1>8, <2>1 DEF CheckpointInv
  <1>9. CASE ~(strict /\ Problems(manifest, model) # {})
    <2>1. loading' = "loaded" /\ drift' = Elements(manifest) - ParamCount(model)
      BY <1>9 DEF ValidateManifest
    <2>2. QED
      BY <1>1, <1>2, <1>6, <1>7, <1>9, <2>1 DEF CheckpointInv
  <1>10. QED
    BY <1>8, <1>9

(* The names in the shards, and the shards having what the model calls for *)
Present == UNION {DOMAIN shards[i].tensors : i \in DOMAIN shards}

Exact ==
  /\ Present = DOMAIN ExpectedTensors(model)
  /\ \A name \in Present : shards[LastWith(name)].tensors[name] = ExpectedTensors(model)[name]

LEMMA AllRead ==
  ASSUME CheckpointInv, shards \in Checkpoints, ReadTo(Len(shards))
  PROVE  /\ DOMAIN manifest = Present
         /\ \A name \in Present : manifest[name] = shards[LastWith(name)].tensors[name]
  <1>1. Len(shards) \in Nat /\ DOMAIN shards = 1..Len(shards)
    BY ShardsType
  <1>2. \A name \in DOMAIN manifest :
          \E i \in DOMAIN shards : Latest(name, i, Len(shards)) /\ manifest[name] = shards[i].tensors[name]
    BY <1>1 DEF ReadTo
  <1>3. \A i \in DOMAIN shards : DOMAIN shards[i].tensors \subseteq DOMAIN manifest
    BY <1>1 DEF ReadTo
  <1>4. DOMAIN manifest = Present
    <2>1. DOMAIN manifest \subseteq Present
      BY <1>2 DEF Present, Latest
    <2>2. Present \subseteq DOMAIN manifest
      BY <1>3 DEF Present
    <2>3. QED
      BY <2>1, <2>2
  <1>5. ASSUME NEW name \in Present PROVE manifest[name] = shards[LastWith(name)].tensors[name]
    <2>1. PICK i \in DOMAIN shards : Latest(name, i, Len(shards)) /\ manifest[name] = shards[i].tensors[name]
      BY <1>2, <1>4
    <2> DEFINE Last1(k) == /\ name \in DOMAIN shards[k].tensors
                           /\ \A j \in DOMAIN shards : name \in DOMAIN shards[j].tensors => j <= k
    <2>2. Last1(i)
      BY <1>1, <2>1 DEF Latest
    <2>3. PICK l : l = CHOOSE k \in DOMAIN shards : Last1(k)
      OBVIOUS
    <2>4. l \in DOMAIN shards /\ Last1(l)
      BY <2>2, <2>3
    <2>5. LastWith(name) = l
      BY <2>3 DEF LastWith
    <2>6. l <= i /\ i <= l /\ l \in Nat /\ i \in Nat
      BY <1>1, <2>2, <2>4
    <2>7. l = i
      BY <2>6
    <2>8. QED
      BY <2>1, <2>5, <2>7
  <1>6. QED
    BY <1>4, <1>5

LEMMA NoProblems ==
  ASSUME CheckpointInv, shards \in Checkpoints, ReadTo(Len(shards)), strict
  PROVE  Problems(manifest, model) = {} <=> Exact
  <1>1. PICK e : e = ExpectedTensors(model)
    OBVIOUS
  <1>2. Exact <=> DOMAIN manifest = DOMAIN e /\ \A name \in DOMAIN manifest : manifest[name] = e[name]
    BY <1>1, AllRead DEF Exact
  <1>3. Problems(manifest, model) =
          (DOMAIN e \ DOMAIN manifest) \cup (DOMAIN manifest \ DOMAIN e)
            \cup {name \in DOMAIN e \cap DOMAIN manifest : manifest[name] # e[name]}
    BY <1>1 DEF Problems
  <1>4. QED
    BY <1>2, <1>3

LEMMA ExactSize ==
  ASSUME CheckpointInv, shards \in Checkpoints, ReadTo(Len(shards)), Exact, model.activation \in Gated
  PROVE  Elements(manifest) - ParamCount(model) = 0
  <1>1. PICK e : e = ExpectedTensors(model)
    OBVIOUS
  <1>2. DOMAIN manifest = DOMAIN e /\ \A name \in DOMAIN e : manifest[name] = e[name]
    BY <1>1, AllRead DEF Exact
  <1>3. [name \in DOMAIN manifest |-> NumElements(manifest[name])] = [name \in DOMAIN e |-> NumElements(e[name])]
    BY <1>2
  <1>4. Elements(manifest) = Elements(e)
    BY <1>3 DEF Elements
  <1>5. model \in Models
    BY DEF CheckpointInv
  <1>6. Sized(e, ParamCount(model))
    BY <1>1, <1>5, SizedModel
  <1>7. Elements(e) = ParamCount(model) /\ ParamCount(model) \in Nat
    BY <1>6 DEF Sized
  <1>8. QED
    BY <1>4, <1>7

LEMMA ExactFromInv == ASSUME CheckpointInv PROVE CheckpointExact
  <1> DEFINE Sound == shards # <<>> /\ \A i \in DOMAIN shards : shards[i].sound
  <1>1. SUFFICES ASSUME shards # NoPath
                 PROVE  /\ loading = "loaded" => Sound /\ (strict => Exact)
                        /\ loading = "refused" => ~Sound \/ (strict /\ ~Exact)
                        /\ loading = "loaded" /\ Exact /\ model.activation \in Gated => drift = 0
    BY DEF CheckpointExact, Exact, Present
  <1>2. shards \in Checkpoints /\ Len(shards) \in Nat /\ DOMAIN shards = 1..Len(shards)
    <2>1. shards \in Checkpoints
      BY <1>1 DEF CheckpointInv
    <2>2. QED
      BY <2>1, ShardsType
  <1>3. CASE loading = "loaded"
    <2>1. /\ shards # <<>> /\ ReadTo(Len(shards)) /\ (strict => Problems(manifest, model) = {})
          /\ drift = Elements(manifest) - ParamCount(model)
      BY <1>3 DEF CheckpointInv
    <2>2. Sound
      BY <1>2, <2>1 DEF ReadTo
    <2>3. strict => Exact
      BY <1>2, <2>1, NoProblems
    <2>4. Exact /\ model.activation \in Gated => drift = 0
      BY <1>2, <2>1, ExactSize
    <2>5. QED
      BY <1>3, <2>2, <2>3, <2>4
  <1>4. CASE loading = "refused"
    <2>1. \/ shards = <<>> \/ \E i \in 1..Len(shards) : ~shards[i].sound
          \/ strict /\ ReadTo(Len(shards)) /\ Problems(manifest, model) # {}
      BY <1>1, <1>4 DEF CheckpointInv
    <2>2. strict /\ ReadTo(Len(shards)) /\ Problems(manifest, model) # {} => strict /\ ~Exact
      BY <1>2, NoProblems
    <2>3. ~Sound \/ (strict /\ ~Exact)
      BY <1>2, <2>1, <2>2
    <2>4. QED
      BY <1>4, <2>3
  <1>5. QED
    BY <1>3, <1>4

(* For every configuration and every set of shards, a strict load succeeds *)
(* with just the checkpoints that have what the model calls for, and what  *)
(* is complete has as many parameters as memory is planned for: the list   *)
(* of matrices in param_count() and the list in expected_tensors() come to *)
(* the same number, whatever the widths, the heads and the experts.        *)
THEOREM ExactCheckpoint == CheckpointSpec => []CheckpointExact
  <1>1. CheckpointInv /\ [CheckpointNext]_checkpointVars => CheckpointInv'
    <2>1. SUFFICES ASSUME CheckpointInv, [CheckpointNext]_checkpointVars PROVE CheckpointInv'
      OBVIOUS
    <2>2. CASE CheckpointNext
      BY <2>1, <2>2, DiscoverInv, ReadHeaderInv, ValidateInv DEF CheckpointNext
    <2>3. CASE UNCHANGED checkpointVars
      BY <2>1, <2>3 DEF checkpointVars, CheckpointInv, ReadTo, Latest, Problems
    <2>4. QED
      BY <2>1, <2>2, <2>3
  <1>2. QED
    BY <1>1, CheckpointInitInv, ExactFromInv, PTL DEF CheckpointSpec

-----------------------------------------------------------------------------
(***************************************************************************)
(* Streams: decoding.                                                      *)
(***************************************************************************)
(* What may be in a text                                                   *)
Characters == {"?", "wide"} \cup UNION {ToSet(Vocabulary[t]) : t \in DOMAIN Vocabulary}

Decodings == [text : Seq(Characters), open : 0..3]

(* The text goes on from the other                                         *)
Extends(t, s) == Len(s) <= Len(t) /\ \A i \in 1..Len(s) : t[i] = s[i]

LEMMA ExtendsTransitive ==
  ASSUME NEW C, NEW s \in Seq(C), NEW t \in Seq(C), NEW u \in Seq(C), Extends(t, s), Extends(u, t)
  PROVE  Extends(u, s)
  <1>1. Len(s) \in Nat /\ Len(t) \in Nat /\ Len(u) \in Nat
    BY LenProperties
  <1>2. QED
    BY <1>1 DEF Extends

(* What a byte does, case by case                                          *)
Replaced(d) == IF d.open > 0 THEN Append(d.text, "?") ELSE d.text

LEMMA ByteCases ==
  ASSUME NEW d \in Decodings, NEW b, NEW e, e = DecodeByte(d, b)
  PROVE  \/ b \in DOMAIN Missing /\ e.text = Replaced(d) /\ e.open = Missing[b] /\ Missing[b] \in 1..3
         \/ b = "cont" /\ d.open > 1 /\ e.text = d.text /\ e.open = d.open - 1
         \/ b = "cont" /\ d.open = 1 /\ e.text = Append(d.text, "wide") /\ e.open = 0
         \/ b = "cont" /\ d.open = 0 /\ e.text = Append(d.text, "?") /\ e.open = 0
         \/ b = "special" /\ e.text = Replaced(d) /\ e.open = 0
         \/ /\ b \notin DOMAIN Missing \cup {"cont", "special"}
            /\ e.text = Append(Replaced(d), b) /\ e.open = 0
  <1>1. PICK s \in Seq(Characters), o \in 0..3 : s = d.text /\ o = d.open /\ d = [text |-> s, open |-> o]
    BY DEF Decodings
  <1>2. DOMAIN Missing = {"lead2", "lead3", "lead4"}
        /\ Missing["lead2"] = 1 /\ Missing["lead3"] = 2 /\ Missing["lead4"] = 3
    BY DEF Missing
  <1>3. PICK before : before = Replaced(d) /\ before = IF d.open > 0 THEN Append(d.text, "?") ELSE d.text
    BY DEF Replaced
  <1>4. CASE b \in DOMAIN Missing
    <2>1. e = [text |-> before, open |-> Missing[b]]
      BY <1>2, <1>3, <1>4 DEF DecodeByte
    <2>2. e.text = before /\ e.open = Missing[b]
      BY ONLY <2>1
    <2>3. Missing[b] \in 1..3
      BY <1>2, <1>4
    <2>4. QED
      BY <1>3, <1>4, <2>2, <2>3
  <1>5. CASE b = "cont" /\ o > 1
    <2>1. e = [d EXCEPT !.open = @ - 1]
      BY <1>1, <1>2, <1>5 DEF DecodeByte
    <2>2. e = [text |-> s, open |-> o - 1]
      BY <1>1, <2>1
    <2>3. e.text = s /\ e.open = o - 1
      BY ONLY <2>2
    <2>4. QED
      BY <1>1, <1>5, <2>3
  <1>6. CASE b = "cont" /\ o = 1
    <2>1. e = [text |-> Append(d.text, "wide"), open |-> 0]
      BY <1>1, <1>2, <1>6 DEF DecodeByte
    <2>2. e.text = Append(d.text, "wide") /\ e.open = 0
      BY ONLY <2>1
    <2>3. QED
      BY <1>1, <1>6, <2>2
  <1>7. CASE b = "cont" /\ o = 0
    <2>1. before = d.text
      BY <1>1, <1>3, <1>7
    <2>2. e = [text |-> Append(before, "?"), open |-> 0]
      <3>1. b \notin DOMAIN Missing /\ b # "special" /\ b = "cont" /\ ~(d.open > 1) /\ d.open # 1
        BY <1>1, <1>2, <1>7
      <3>2. e = [text |-> Append(before, IF b = "cont" THEN "?" ELSE b), open |-> 0]
        BY <1>3, <3>1 DEF DecodeByte
      <3>3. QED
        BY <3>1, <3>2
    <2>3. e.text = Append(before, "?") /\ e.open = 0
      BY ONLY <2>2
    <2>4. QED
      BY <1>1, <1>7, <2>1, <2>3
  <1>8. CASE b = "special"
    <2>1. e = [text |-> before, open |-> 0]
      BY <1>2, <1>3, <1>8 DEF DecodeByte
    <2>2. e.text = before /\ e.open = 0
      BY ONLY <2>1
    <2>3. QED
      BY <1>3, <1>8, <2>2
  <1>9. CASE b \notin DOMAIN Missing \cup {"cont", "special"}
    <2>1. e = [text |-> Append(before, b), open |-> 0]
      BY <1>3, <1>9 DEF DecodeByte
    <2>2. e.text = Append(before, b) /\ e.open = 0
      BY ONLY <2>1
    <2>3. QED
      BY <1>3, <1>9, <2>2
  <1>10. o > 1 \/ o = 1 \/ o = 0
    BY <1>1
  <1>11. QED
    BY Zenon, <1>4, <1>5, <1>6, <1>7, <1>8, <1>9, <1>10

(* A byte leaves the text as it is, or adds a character or two             *)
LEMMA DecodeByteType ==
  ASSUME NEW d \in Decodings, NEW b \in Characters
  PROVE  /\ DecodeByte(d, b) \in Decodings /\ Extends(DecodeByte(d, b).text, d.text)
         /\ \/ Len(DecodeByte(d, b).text) > Len(d.text)
            \/ DecodeByte(d, b).open > 0 /\ (d.open > 0 => DecodeByte(d, b).open < d.open)
            \/ d.open = 0 /\ b = "special"
  <1>1. PICK s \in Seq(Characters), o \in 0..3 : s = d.text /\ o = d.open
    BY DEF Decodings
  <1>2. PICK e : e = DecodeByte(d, b)
    OBVIOUS
  <1>3. PICK l \in Nat : l = Len(s)
    BY LenProperties
  <1>4. ASSUME NEW r \in Seq(Characters), NEW x \in Characters
        PROVE  /\ Append(r, x) \in Seq(Characters) /\ Len(Append(r, x)) = Len(r) + 1
               /\ \A i \in 1..Len(r) : Append(r, x)[i] = r[i]
    BY AppendProperties
  <1>5. "?" \in Characters /\ "wide" \in Characters
    BY DEF Characters
  <1>6. PICK before \in Seq(Characters) :
          /\ before = Replaced(d) /\ Len(before) = (IF o > 0 THEN l + 1 ELSE l)
          /\ \A i \in 1..l : before[i] = s[i]
    BY <1>1, <1>3, <1>4, <1>5 DEF Replaced
  <1>7. e.open \in 0..3
    BY <1>1, <1>2, ByteCases
  <1>8. \/ e.text = before \/ e.text = s \/ e.text = Append(before, b)
        \/ e.text = Append(s, "wide") \/ e.text = Append(s, "?")
    BY <1>1, <1>2, <1>6, ByteCases
  <1>9. e.text \in Seq(Characters) /\ Len(e.text) >= l /\ \A i \in 1..l : e.text[i] = s[i]
    <2>1. CASE e.text = before \/ e.text = s
      BY <1>3, <1>6, <2>1
    <2>2. CASE e.text = Append(before, b)
      BY <1>3, <1>4, <1>6, <2>2
    <2>3. CASE e.text = Append(s, "wide") \/ e.text = Append(s, "?")
      <3>1. PICK x \in Characters : e.text = Append(s, x)
        BY <1>5, <2>3
      <3>2. QED
        BY <1>3, <1>4, <3>1
    <2>4. QED
      BY <1>8, <2>1, <2>2, <2>3
  <1>10. e \in Decodings
    <2>1. e = [text |-> e.text, open |-> e.open]
      BY <1>1, <1>2 DEF DecodeByte, Decodings
    <2>2. QED
      BY <1>7, <1>9, <2>1 DEF Decodings
  <1>11. \/ Len(e.text) > l
         \/ e.open > 0 /\ (o > 0 => e.open < o)
         \/ o = 0 /\ b = "special"
    <2>1. Len(Append(s, "wide")) = l + 1 /\ Len(Append(s, "?")) = l + 1 /\ Len(Append(before, b)) = Len(before) + 1
      BY <1>3, <1>4, <1>5, <1>6
    <2>2. CASE e.text = before
      BY <1>1, <1>2, <1>6, <2>1, <2>2, ByteCases
    <2>3. CASE e.text # before
      BY <1>1, <1>2, <1>3, <1>6, <2>1, <2>3, ByteCases
    <2>4. QED
      BY <2>2, <2>3
  <1>12. QED
    BY <1>1, <1>2, <1>3, <1>9, <1>10, <1>11 DEF Extends

(* The bytes of a token                                                    *)
LEMMA VocabularyFacts ==
  ASSUME NEW t \in DOMAIN Vocabulary
  PROVE  \E n \in Nat \ {0} :
           /\ n = Len(Vocabulary[t])
           /\ \A i \in 1..n : Vocabulary[t][i] \in Characters /\ Vocabulary[t][i] # "?"
           /\ \A i \in 1..n : Vocabulary[t][i] = "special" => Vocabulary[t] = <<"special">>
  <1>1. PICK v : v = Vocabulary[t]
    OBVIOUS
  <1>2. /\ v \in Seq(ToSet(v)) \ {<<>>}
        /\ "?" \notin ToSet(v)
        /\ "special" \in ToSet(v) => v = <<"special">>
    BY <1>1, StreamAssumption
  <1>3. Len(v) \in Nat \ {0}
    BY <1>2, EmptySeq
  <1>4. ASSUME NEW i \in 1..Len(v) PROVE v[i] \in ToSet(v)
    BY <1>2, <1>3, ElementOfSeq
  <1>5. ToSet(v) \subseteq Characters
    BY <1>1 DEF Characters
  <1>6. QED
    BY <1>1, <1>2, <1>3, <1>4, <1>5

(* A token's bytes, one after the other                                    *)
ByteByByte(f, d, bytes) ==
  /\ f \in [0..Len(bytes) -> Decodings]
  /\ f[0] = d /\ f[Len(bytes)] = DecodeToken(d, bytes)
  /\ \A i \in 1..Len(bytes) : f[i] = DecodeByte(f[i - 1], bytes[i])

LEMMA TokenSteps ==
  ASSUME NEW d \in Decodings, NEW t \in DOMAIN Vocabulary
  PROVE  \E f : ByteByByte(f, d, Vocabulary[t])
  <1>1. PICK v : v = Vocabulary[t]
    OBVIOUS
  <1>2. PICK n \in Nat \ {0} : n = Len(v) /\ \A i \in 1..n : v[i] \in Characters
    BY <1>1, VocabularyFacts
  <1> DEFINE Runs(f) == f = [i \in 0..n |-> IF i = 0 THEN d ELSE DecodeByte(f[i - 1], v[i])]
  <1>3. \E f : Runs(f)
    <2>1. PICK F : F = [k \in 1..n |-> [s \in Decodings |-> DecodeByte(s, v[k])]]
      OBVIOUS
    <2>2. ASSUME NEW k \in 1..n, NEW s \in Decodings
          PROVE  F[k][s] = DecodeByte(s, v[k]) /\ F[k][s] \in Decodings
      <3>1. v[k] \in Characters
        BY <1>2
      <3>2. F[k][s] = DecodeByte(s, v[k])
        BY <2>1
      <3>3. QED
        BY <3>1, <3>2, DecodeByteType
    <2>3. PICK f \in [0..n -> Decodings] : Goes(f, n, d, F)
      BY <2>2, StatesExist DEF StaysIn
    <2>4. ASSUME NEW k \in 0..n PROVE f[k] = IF k = 0 THEN d ELSE DecodeByte(f[k - 1], v[k])
      <3>1. CASE k = 0
        BY <2>3, <3>1 DEF Goes
      <3>2. CASE k # 0
        <4>1. k \in 1..n /\ k - 1 \in 0..n
          BY <3>2
        <4>2. f[k - 1] \in Decodings
          BY <2>3, <4>1
        <4>3. QED
          BY <2>2, <2>3, <3>2, <4>1, <4>2 DEF Goes
      <3>3. QED
        BY <3>1, <3>2
    <2>5. f = [i \in 0..n |-> IF i = 0 THEN d ELSE DecodeByte(f[i - 1], v[i])]
      BY <2>3, <2>4
    <2>6. QED
      BY <2>5
  <1>4. PICK f : f = CHOOSE g : Runs(g)
    OBVIOUS
  <1>5. Runs(f)
    BY <1>3, <1>4
  <1>6. DecodeToken(d, v) = f[n]
    BY <1>2, <1>4 DEF DecodeToken
  <1>7. f[0] = d /\ \A i \in 1..n : f[i] = DecodeByte(f[i - 1], v[i])
    <2>1. 0 \in 0..n /\ \A i \in 1..n : i \in 0..n /\ i # 0
      BY <1>2
    <2>2. QED
      BY <1>5, <2>1
  <1>8. \A k \in 0..n : f[k] \in Decodings
    <2> DEFINE S == {k \in 0..n : f[k] \in Decodings}
    <2>1. 0 \in S
      BY <1>2, <1>7
    <2>2. ASSUME NEW k \in 1..n, k - 1 \in S PROVE k \in S
      <3>1. f[k] = DecodeByte(f[k - 1], v[k]) /\ v[k] \in Characters /\ f[k - 1] \in Decodings
        BY <1>2, <1>7, <2>2
      <3>2. f[k] \in Decodings
        BY <3>1, DecodeByteType
      <3>3. QED
        BY <3>2
    <2>3. n \in Nat
      BY <1>2
    <2> HIDE DEF S
    <2>4. \A k \in 0..n : k \in S
      BY <2>1, <2>2, <2>3, UpToInduction
    <2>5. QED
      BY <2>4 DEF S
  <1>9. f \in [0..n -> Decodings]
    BY <1>5, <1>8
  <1>10. ByteByByte(f, d, v)
    BY <1>2, <1>6, <1>7, <1>9 DEF ByteByByte
  <1>11. QED
    BY <1>1, <1>10

LEMMA DecodeTokenType ==
  ASSUME NEW d \in Decodings, NEW t \in DOMAIN Vocabulary
  PROVE  LET e == DecodeToken(d, Vocabulary[t])
         IN /\ e \in Decodings /\ Extends(e.text, d.text)
            /\ d.open > 0 => Len(e.text) > Len(d.text) \/ (e.open > 0 /\ e.open < d.open)
            /\ Vocabulary[t] # <<"special">> => e.open > 0 \/ Len(e.text) > Len(d.text)
  <1>1. PICK v : v = Vocabulary[t]
    OBVIOUS
  <1>2. PICK n \in Nat \ {0} :
          /\ n = Len(v) /\ \A i \in 1..n : v[i] \in Characters /\ v[i] # "?"
          /\ \A i \in 1..n : v[i] = "special" => v = <<"special">>
    BY <1>1, VocabularyFacts
  <1>3. PICK f : ByteByByte(f, d, v)
    BY <1>1, TokenSteps
  <1>4. /\ f \in [0..n -> Decodings]
        /\ f[0] = d /\ f[n] = DecodeToken(d, v)
        /\ \A i \in 1..n : f[i] = DecodeByte(f[i - 1], v[i])
    BY <1>2, <1>3 DEF ByteByByte
  <1>5. \A i \in 0..n : f[i] \in Decodings /\ f[i].text \in Seq(Characters) /\ Len(f[i].text) \in Nat /\ f[i].open \in 0..3
    BY <1>4, LenProperties DEF Decodings
  <1>6. ASSUME NEW i \in 1..n
        PROVE  /\ f[i] \in Decodings /\ Extends(f[i].text, f[i - 1].text)
               /\ \/ Len(f[i].text) > Len(f[i - 1].text)
                  \/ f[i].open > 0 /\ (f[i - 1].open > 0 => f[i].open < f[i - 1].open)
                  \/ f[i - 1].open = 0 /\ v[i] = "special"
    <2>1. i - 1 \in 0..n
      OBVIOUS
    <2>2. f[i] = DecodeByte(f[i - 1], v[i]) /\ f[i - 1] \in Decodings /\ v[i] \in Characters
      BY <1>2, <1>4, <1>5, <2>1
    <2>3. QED
      BY <2>2, DecodeByteType
  <1>7. \A i \in 0..n :
           /\ Extends(f[i].text, d.text)
           /\ d.open > 0 => Len(f[i].text) > Len(d.text) \/ (f[i].open > 0 /\ f[i].open <= d.open)
           /\ d.open > 0 /\ i > 0 => Len(f[i].text) > Len(d.text) \/ (f[i].open > 0 /\ f[i].open < d.open)
    <2> DEFINE Short(i) ==
           /\ Extends(f[i].text, d.text)
           /\ d.open > 0 => Len(f[i].text) > Len(d.text) \/ (f[i].open > 0 /\ f[i].open <= d.open)
           /\ d.open > 0 /\ i > 0 => Len(f[i].text) > Len(d.text) \/ (f[i].open > 0 /\ f[i].open < d.open)
    <2> DEFINE S == {i \in 0..n : Short(i)}
    <2>1. 0 \in S
      <3>1. Extends(d.text, d.text) /\ d.open <= d.open /\ 0 \in 0..n
        <4>1. d.text \in Seq(Characters) /\ d.open \in 0..3 /\ Len(d.text) \in Nat
          BY LenProperties DEF Decodings
        <4>2. QED
          BY <1>2, <4>1 DEF Extends
      <3>2. QED
        BY <1>4, <3>1
    <2>2. ASSUME NEW i \in 1..n, i - 1 \in S PROVE i \in S
      <3>1. i - 1 \in 0..n /\ i \in 0..n
        OBVIOUS
      <3>2. PICK l \in Nat, l0 \in Nat, l1 \in Nat, o \in 0..3, o0 \in 0..3, o1 \in 0..3 :
              /\ l = Len(d.text) /\ l0 = Len(f[i - 1].text) /\ l1 = Len(f[i].text)
              /\ o = d.open /\ o0 = f[i - 1].open /\ o1 = f[i].open
        BY <1>4, <1>5, <3>1, LenProperties DEF Decodings
      <3>3. l <= l0 /\ l0 <= l1 /\ Extends(f[i].text, d.text)
        <4>1. Extends(f[i - 1].text, d.text) /\ Extends(f[i].text, f[i - 1].text)
          BY <1>6, <2>2
        <4>2. /\ f[i].text \in Seq(Characters) /\ f[i - 1].text \in Seq(Characters)
              /\ d.text \in Seq(Characters)
          BY <1>5, <3>1 DEF Decodings
        <4>3. Extends(f[i].text, d.text)
          BY <4>1, <4>2, ExtendsTransitive
        <4>4. QED
          BY <3>2, <4>1, <4>3 DEF Extends
      <3>4. l1 > l0 \/ (o1 > 0 /\ (o0 > 0 => o1 < o0)) \/ o0 = 0
        BY <1>6, <3>2
      <3>5. o > 0 => l0 > l \/ (o0 > 0 /\ o0 <= o)
        BY <2>2, <3>2
      <3>6. o > 0 => l1 > l \/ (o1 > 0 /\ o1 < o)
        BY ONLY <3>3, <3>4, <3>5, l \in Nat, l0 \in Nat, l1 \in Nat, o \in 0..3, o0 \in 0..3, o1 \in 0..3
      <3>7. Short(i)
        BY <3>2, <3>3, <3>6
      <3>8. QED
        BY <3>1, <3>7
    <2>3. n \in Nat
      BY <1>2
    <2> HIDE DEF S
    <2>4. \A i \in 0..n : i \in S
      BY <2>1, <2>2, <2>3, UpToInduction
    <2>5. QED
      BY <2>4 DEF S
  <1>8. n \in 0..n /\ n \in 1..n /\ n > 0 /\ n - 1 \in 0..n
    BY <1>2
  <1>9. PICK e : e = f[n]
    OBVIOUS
  <1>10. /\ e \in Decodings /\ Extends(e.text, d.text)
         /\ d.open > 0 => Len(e.text) > Len(d.text) \/ (e.open > 0 /\ e.open < d.open)
    BY <1>5, <1>7, <1>8, <1>9
  <1>11. ASSUME v # <<"special">> PROVE e.open > 0 \/ Len(e.text) > Len(d.text)
    <2>1. v[n] # "special"
      BY <1>2, <1>8, <1>11
    <2>2. Len(f[n].text) > Len(f[n - 1].text) \/ f[n].open > 0
      BY <1>6, <1>8, <2>1
    <2>3. Len(d.text) <= Len(f[n - 1].text)
      BY <1>7, <1>8 DEF Extends
    <2>4. PICK l \in Nat, l0 \in Nat, l1 \in Nat :
            l = Len(d.text) /\ l0 = Len(f[n - 1].text) /\ l1 = Len(f[n].text)
      BY <1>4, <1>5, <1>8, LenProperties DEF Decodings
    <2>5. l1 > l0 => l1 > l
      <3>1. l <= l0
        BY <2>3, <2>4
      <3>2. QED
        BY ONLY <3>1, l \in Nat, l0 \in Nat, l1 \in Nat
    <2>6. QED
      BY <1>9, <2>2, <2>4, <2>5
  <1>12. QED
    BY <1>1, <1>4, <1>9, <1>10, <1>11

(* Tokens, one after the other                                             *)
Nothing == [text |-> <<>>, open |-> 0]

LEMMA DecodedSteps ==
  ASSUME NEW ids \in Seq(DOMAIN Vocabulary)
  PROVE  \E f \in [0..Len(ids) -> Decodings] :
           /\ f[0] = Nothing /\ f[Len(ids)] = Decoded(ids)
           /\ \A i \in 1..Len(ids) : f[i] = DecodeToken(f[i - 1], Vocabulary[ids[i]])
  <1>1. PICK n \in Nat : n = Len(ids) /\ \A i \in 1..n : ids[i] \in DOMAIN Vocabulary
    BY LenProperties, ElementOfSeq
  <1>2. PICK d \in Decodings : d = Nothing
    <2>1. <<>> \in Seq(Characters) /\ 0 \in 0..3
      BY EmptySeq
    <2>2. Nothing \in Decodings
      BY <2>1 DEF Nothing, Decodings
    <2>3. QED
      BY <2>2
  <1> DEFINE Runs(f) == f = [i \in 0..n |-> IF i = 0 THEN d ELSE DecodeToken(f[i - 1], Vocabulary[ids[i]])]
  <1>3. \E f : Runs(f)
    <2>1. PICK F : F = [k \in 1..n |-> [s \in Decodings |-> DecodeToken(s, Vocabulary[ids[k]])]]
      OBVIOUS
    <2>2. ASSUME NEW k \in 1..n, NEW s \in Decodings
          PROVE  F[k][s] = DecodeToken(s, Vocabulary[ids[k]]) /\ F[k][s] \in Decodings
      <3>1. ids[k] \in DOMAIN Vocabulary
        BY <1>1
      <3>2. F[k][s] = DecodeToken(s, Vocabulary[ids[k]])
        BY <2>1
      <3>3. QED
        BY <3>1, <3>2, DecodeTokenType
    <2>3. PICK f \in [0..n -> Decodings] : Goes(f, n, d, F)
      BY <2>2, StatesExist DEF StaysIn
    <2>4. ASSUME NEW k \in 0..n PROVE f[k] = IF k = 0 THEN d ELSE DecodeToken(f[k - 1], Vocabulary[ids[k]])
      <3>1. CASE k = 0
        BY <2>3, <3>1 DEF Goes
      <3>2. CASE k # 0
        <4>1. k \in 1..n /\ k - 1 \in 0..n
          BY <3>2
        <4>2. f[k - 1] \in Decodings
          BY <2>3, <4>1
        <4>3. QED
          BY <2>2, <2>3, <3>2, <4>1, <4>2 DEF Goes
      <3>3. QED
        BY <3>1, <3>2
    <2>5. f = [i \in 0..n |-> IF i = 0 THEN d ELSE DecodeToken(f[i - 1], Vocabulary[ids[i]])]
      BY <2>3, <2>4
    <2>6. QED
      BY <2>5
  <1>4. PICK f : f = CHOOSE g : Runs(g)
    OBVIOUS
  <1>5. Runs(f)
    BY <1>3, <1>4
  <1>6. Decoded(ids) = f[n]
    BY <1>1, <1>2, <1>4 DEF Decoded, Nothing
  <1>7. f[0] = d /\ \A i \in 1..n : f[i] = DecodeToken(f[i - 1], Vocabulary[ids[i]])
    <2>1. 0 \in 0..n /\ \A i \in 1..n : i \in 0..n /\ i # 0
      BY <1>1
    <2>2. QED
      BY <1>5, <2>1
  <1>8. \A k \in 0..n : f[k] \in Decodings
    <2> DEFINE S == {k \in 0..n : f[k] \in Decodings}
    <2>1. 0 \in S
      BY <1>2, <1>7
    <2>2. ASSUME NEW k \in 1..n, k - 1 \in S PROVE k \in S
      <3>1. f[k] = DecodeToken(f[k - 1], Vocabulary[ids[k]]) /\ ids[k] \in DOMAIN Vocabulary /\ f[k - 1] \in Decodings
        BY <1>1, <1>7, <2>2
      <3>2. f[k] \in Decodings
        BY <3>1, DecodeTokenType
      <3>3. QED
        BY <3>2
    <2> HIDE DEF S
    <2>3. \A k \in 0..n : k \in S
      BY <2>1, <2>2, UpToInduction
    <2>4. QED
      BY <2>3 DEF S
  <1>9. f \in [0..n -> Decodings]
    BY <1>5, <1>8
  <1>10. QED
    BY <1>1, <1>2, <1>6, <1>7, <1>9

LEMMA DecodedAppend ==
  ASSUME NEW ids \in Seq(DOMAIN Vocabulary), NEW t \in DOMAIN Vocabulary
  PROVE  /\ Decoded(ids) \in Decodings
         /\ Decoded(Append(ids, t)) = DecodeToken(Decoded(ids), Vocabulary[t])
  <1>1. PICK n \in Nat : n = Len(ids)
    BY LenProperties
  <1>2. PICK more \in Seq(DOMAIN Vocabulary) :
          /\ more = Append(ids, t) /\ Len(more) = n + 1
          /\ \A i \in 1..n : more[i] = ids[i]
          /\ more[n + 1] = t
    BY <1>1, AppendProperties
  <1>3. PICK f \in [0..n -> Decodings] :
           /\ f[0] = Nothing /\ f[n] = Decoded(ids)
           /\ \A i \in 1..n : f[i] = DecodeToken(f[i - 1], Vocabulary[ids[i]])
    BY <1>1, DecodedSteps
  <1>4. PICK g \in [0..(n + 1) -> Decodings] :
           /\ g[0] = Nothing /\ g[n + 1] = Decoded(more)
           /\ \A i \in 1..(n + 1) : g[i] = DecodeToken(g[i - 1], Vocabulary[more[i]])
    BY <1>2, DecodedSteps
  <1>5. \A i \in 0..n : g[i] = f[i]
    <2> DEFINE S == {i \in 0..n : g[i] = f[i]}
    <2>1. 0 \in S
      BY <1>3, <1>4
    <2>2. ASSUME NEW i \in 1..n, i - 1 \in S PROVE i \in S
      <3>1. i \in 1..(n + 1) /\ more[i] = ids[i] /\ g[i - 1] = f[i - 1]
        BY <1>2, <2>2
      <3>2. g[i] = f[i]
        BY <1>3, <1>4, <3>1
      <3>3. QED
        BY <3>2
    <2> HIDE DEF S
    <2>3. \A i \in 0..n : i \in S
      BY <2>1, <2>2, UpToInduction
    <2>4. QED
      BY <2>3 DEF S
  <1>6. n \in 0..n /\ n + 1 \in 1..(n + 1) /\ (n + 1) - 1 = n
    OBVIOUS
  <1>7. g[n + 1] = DecodeToken(f[n], Vocabulary[t])
    BY <1>2, <1>4, <1>5, <1>6
  <1>8. QED
    BY <1>2, <1>3, <1>4, <1>6, <1>7

(* Decoding what comes after w                                             *)
Between(ids, w, j) == Decoded(SubSeq(ids, w + 1, j))

LEMMA BetweenSteps ==
  ASSUME NEW ids \in Seq(DOMAIN Vocabulary), NEW w \in 0..Len(ids)
  PROVE  /\ Between(ids, w, w) = Nothing
         /\ \A j \in w..Len(ids) : Between(ids, w, j) \in Decodings
         /\ \A j \in w..(Len(ids) - 1) :
              /\ ids[j + 1] \in DOMAIN Vocabulary
              /\ Between(ids, w, j + 1) = DecodeToken(Between(ids, w, j), Vocabulary[ids[j + 1]])
  <1>1. PICK n \in Nat : n = Len(ids) /\ \A i \in 1..n : ids[i] \in DOMAIN Vocabulary
    BY LenProperties, ElementOfSeq
  <1>2. ASSUME NEW j \in w..n PROVE SubSeq(ids, w + 1, j) \in Seq(DOMAIN Vocabulary)
    <2>1. \A i \in (w + 1)..j : ids[i] \in DOMAIN Vocabulary
      BY <1>1
    <2>2. QED
      BY <1>1, <2>1, SubSeqProperties
  <1>3. Between(ids, w, w) = Nothing
    <2>1. SubSeq(ids, w + 1, w) = <<>>
      BY <1>1, SubSeqEmpty
    <2>2. PICK none \in Seq(DOMAIN Vocabulary) : none = <<>> /\ Len(none) = 0
      BY EmptySeq
    <2>3. Decoded(none) = Nothing
      BY <2>2, DecodedSteps
    <2>4. QED
      BY <2>1, <2>2, <2>3 DEF Between
  <1>4. ASSUME NEW j \in w..n PROVE Between(ids, w, j) \in Decodings
    <2>1. PICK part \in Seq(DOMAIN Vocabulary) : part = SubSeq(ids, w + 1, j)
      BY <1>2
    <2>2. PICK f \in [0..Len(part) -> Decodings] : f[Len(part)] = Decoded(part)
      BY DecodedSteps
    <2>3. Len(part) \in 0..Len(part)
      BY LenProperties
    <2>4. QED
      BY <2>1, <2>2, <2>3 DEF Between
  <1>5. ASSUME NEW j \in w..(n - 1)
        PROVE  /\ ids[j + 1] \in DOMAIN Vocabulary
               /\ Between(ids, w, j + 1) = DecodeToken(Between(ids, w, j), Vocabulary[ids[j + 1]])
    <2>1. j \in w..n /\ j + 1 \in 1..n /\ w + 1 \in 1..n /\ j + 1 \in (w + 1)..n /\ (j + 1) - 1 = j
      BY <1>1
    <2>2. PICK part \in Seq(DOMAIN Vocabulary) : part = SubSeq(ids, w + 1, j)
      BY <1>2, <2>1
    <2>3. PICK t \in DOMAIN Vocabulary : t = ids[j + 1]
      BY <1>1, <2>1
    <2>4. SubSeq(ids, w + 1, j + 1) = part \o <<t>>
      BY <1>1, <2>1, <2>2, <2>3, SubSeqRecursiveSecond
    <2>5. Append(part, t) = part \o <<t>>
      BY AppendIsConcat
    <2>6. Decoded(Append(part, t)) = DecodeToken(Decoded(part), Vocabulary[t])
      BY DecodedAppend
    <2>7. QED
      BY <2>2, <2>3, <2>4, <2>5, <2>6 DEF Between
  <1>6. QED
    BY <1>1, <1>3, <1>4, <1>5

(* Two decodings of the same bytes, the first begun later than the second  *)
(* and with m bytes to come of the character that it began within: it shows*)
(* them as m characters, and from then on k characters less                *)
Aligned(u, v, k, m) ==
  /\ Len(v) = k + Len(u) /\ Len(u) >= m
  /\ \A i \in 1..Len(u) : IF i <= m THEN u[i] = "?" ELSE k + i \in 1..Len(v) /\ u[i] = v[k + i]

Straying(x, y, k, m) ==
  /\ x.open = 0 /\ y.open > 0 /\ y.open <= m
  /\ Len(x.text) = m - y.open /\ Len(y.text) = k + m - 1
  /\ \A i \in 1..Len(x.text) : x.text[i] = "?"

Matches(x, y, k, m) ==
  \/ Aligned(x.text, y.text, k, m) /\ x.open = y.open
  \/ Straying(x, y, k, m)

Clean(d) == \A i \in 1..Len(d.text) : d.text[i] # "?"

LEMMA AppendAligned ==
  ASSUME NEW u \in Seq(Characters), NEW v \in Seq(Characters), NEW k \in Int, NEW m \in 0..3,
         Aligned(u, v, k, m), NEW c \in Characters
  PROVE  Aligned(Append(u, c), Append(v, c), k, m)
  <1>1. PICK uc : /\ uc = Append(u, c) /\ uc \in Seq(Characters) /\ Len(uc) = Len(u) + 1
                  /\ \A i \in 1..Len(u) : uc[i] = u[i]
                  /\ uc[Len(u) + 1] = c
    BY AppendProperties
  <1>2. PICK vc : /\ vc = Append(v, c) /\ vc \in Seq(Characters) /\ Len(vc) = Len(v) + 1
                  /\ \A i \in 1..Len(v) : vc[i] = v[i]
                  /\ vc[Len(v) + 1] = c
    BY AppendProperties
  <1>3. PICK lu \in Nat, lv \in Nat : lu = Len(u) /\ lv = Len(v) /\ lv = k + lu /\ lu >= m
    BY LenProperties DEF Aligned
  <1>4. ASSUME NEW i \in 1..(lu + 1)
        PROVE  IF i <= m THEN uc[i] = "?" ELSE k + i \in 1..(lv + 1) /\ uc[i] = vc[k + i]
    <2>1. CASE i = lu + 1
      <3>1. k + i = lv + 1 /\ ~(i <= m)
        BY <1>3, <2>1
      <3>2. QED
        BY <1>1, <1>2, <1>3, <2>1, <3>1
    <2>2. CASE i # lu + 1
      <3>1. i \in 1..lu
        BY <2>2
      <3>2. uc[i] = u[i]
        BY <1>1, <1>3, <3>1
      <3>3. IF i <= m THEN u[i] = "?" ELSE k + i \in 1..lv /\ u[i] = v[k + i]
        BY <1>3, <3>1 DEF Aligned
      <3>4. CASE i <= m
        BY <3>2, <3>3, <3>4
      <3>5. CASE ~(i <= m)
        <4>1. k + i \in 1..lv /\ uc[i] = v[k + i]
          BY <3>2, <3>3, <3>5
        <4>2. vc[k + i] = v[k + i] /\ k + i \in 1..(lv + 1)
          BY <1>2, <1>3, <4>1
        <4>3. QED
          BY <3>5, <4>1, <4>2
      <3>6. QED
        BY <3>4, <3>5
    <2>3. QED
      BY <2>1, <2>2
  <1>5. Len(vc) = k + Len(uc) /\ Len(uc) >= m /\ Len(uc) = lu + 1 /\ Len(vc) = lv + 1
    BY <1>1, <1>2, <1>3
  <1>6. Aligned(uc, vc, k, m)
    BY <1>4, <1>5 DEF Aligned
  <1>7. QED
    BY <1>1, <1>2, <1>6

LEMMA ByteMatches ==
  ASSUME NEW x \in Decodings, NEW y \in Decodings, NEW k \in Int, NEW m \in 0..3,
         Matches(x, y, k, m), NEW b \in Characters, Clean(DecodeByte(y, b))
  PROVE  Matches(DecodeByte(x, b), DecodeByte(y, b), k, m)
  <1>1. PICK s \in Seq(Characters), r \in Seq(Characters), ox \in 0..3, oy \in 0..3 :
          s = x.text /\ r = y.text /\ ox = x.open /\ oy = y.open
    BY DEF Decodings
  <1>2. PICK ls \in Nat, lr \in Nat : ls = Len(s) /\ lr = Len(r)
    BY LenProperties
  <1>3. "?" \in Characters /\ "wide" \in Characters
    BY DEF Characters
  <1>4. PICK p, q : p = DecodeByte(x, b) /\ q = DecodeByte(y, b)
    OBVIOUS
  <1>5. CASE Aligned(s, r, k, m) /\ ox = oy
    <2>1. PICK u \in Seq(Characters), v \in Seq(Characters) :
            u = Replaced(x) /\ v = Replaced(y) /\ Aligned(u, v, k, m)
      <3>1. CASE ox > 0
        <4>1. PICK c \in Characters : c = "?"
          BY <1>3
        <4>2. Append(s, c) \in Seq(Characters) /\ Append(r, c) \in Seq(Characters)
          BY AppendProperties
        <4>3. Aligned(Append(s, c), Append(r, c), k, m)
          BY <1>5, AppendAligned
        <4>4. Replaced(x) = Append(s, c) /\ Replaced(y) = Append(r, c)
          BY <1>1, <1>5, <3>1, <4>1 DEF Replaced
        <4>5. QED
          BY <4>2, <4>3, <4>4
      <3>2. CASE ~(ox > 0)
        <4>1. Replaced(x) = s /\ Replaced(y) = r
          BY <1>1, <1>5, <3>2 DEF Replaced
        <4>2. QED
          BY <1>5, <4>1
      <3>3. QED
        BY <3>1, <3>2
    <2>2. /\ Aligned(Append(s, "wide"), Append(r, "wide"), k, m)
          /\ Aligned(Append(s, "?"), Append(r, "?"), k, m)
          /\ Aligned(Append(u, b), Append(v, b), k, m)
      <3>1. \A c \in Characters : Aligned(Append(s, c), Append(r, c), k, m)
        BY <1>5, AppendAligned
      <3>2. \A c \in Characters : Aligned(Append(u, c), Append(v, c), k, m)
        BY <2>1, AppendAligned
      <3>3. QED
        BY <1>3, <3>1, <3>2
    <2>3. Aligned(p.text, q.text, k, m) /\ p.open = q.open
      <3>1. CASE b \in DOMAIN Missing
        <4>1. "cont" \notin DOMAIN Missing /\ "special" \notin DOMAIN Missing
          BY DEF Missing
        <4>2. p.text = u /\ q.text = v /\ p.open = q.open
          BY <1>4, <2>1, <3>1, <4>1, ByteCases
        <4>3. QED
          BY <2>1, <4>2
      <3>2. CASE b = "cont"
        <4>1. "cont" \notin DOMAIN Missing
          BY DEF Missing
        <4>2. \/ ox > 1 /\ p.text = s /\ p.open = ox - 1 /\ q.text = r /\ q.open = ox - 1
              \/ p.text = Append(s, "wide") /\ p.open = 0 /\ q.text = Append(r, "wide") /\ q.open = 0
              \/ p.text = Append(s, "?") /\ p.open = 0 /\ q.text = Append(r, "?") /\ q.open = 0
          <5>1. \/ ox > 1 /\ p.text = s /\ p.open = ox - 1
                \/ ox = 1 /\ p.text = Append(s, "wide") /\ p.open = 0
                \/ ox = 0 /\ p.text = Append(s, "?") /\ p.open = 0
            BY <1>1, <1>4, <3>2, <4>1, ByteCases
          <5>2. \/ ox > 1 /\ q.text = r /\ q.open = ox - 1
                \/ ox = 1 /\ q.text = Append(r, "wide") /\ q.open = 0
                \/ ox = 0 /\ q.text = Append(r, "?") /\ q.open = 0
            BY <1>1, <1>4, <1>5, <3>2, <4>1, ByteCases
          <5>3. ~(ox > 1 /\ ox = 1) /\ ~(ox > 1 /\ ox = 0) /\ ~(ox = 1 /\ ox = 0)
            OBVIOUS
          <5>4. QED
            BY <5>1, <5>2, <5>3
        <4>3. QED
          BY <1>5, <2>2, <4>2
      <3>3. CASE b = "special"
        <4>1. "special" \notin DOMAIN Missing
          BY DEF Missing
        <4>2. p.text = u /\ q.text = v /\ p.open = 0 /\ q.open = 0
          BY <1>4, <2>1, <3>3, <4>1, ByteCases
        <4>3. QED
          BY <2>1, <4>2
      <3>4. CASE b \notin DOMAIN Missing \cup {"cont", "special"}
        <4>1. p.text = Append(u, b) /\ q.text = Append(v, b) /\ p.open = 0 /\ q.open = 0
          BY <1>4, <2>1, <3>4, ByteCases
        <4>2. QED
          BY <2>2, <4>1
      <3>5. QED
        BY <3>1, <3>2, <3>3, <3>4
    <2>4. QED
      BY <1>4, <2>3 DEF Matches
  <1>6. CASE Straying(x, y, k, m)
    <2>1. /\ ox = 0 /\ oy > 0 /\ oy <= m /\ ls = m - oy /\ lr = k + m - 1
          /\ \A i \in 1..ls : s[i] = "?"
      BY <1>1, <1>2, <1>6 DEF Straying
    <2>2. b = "cont"
      <3>1. SUFFICES ASSUME b # "cont" PROVE FALSE
        OBVIOUS
      <3>2. PICK before \in Seq(Characters) :
              /\ before = Replaced(y) /\ Len(before) = lr + 1 /\ before[lr + 1] = "?"
        <4>1. PICK c \in Characters : c = "?"
          BY <1>3
        <4>2. Append(r, c) \in Seq(Characters) /\ Len(Append(r, c)) = lr + 1 /\ Append(r, c)[lr + 1] = c
          BY <1>2, AppendProperties
        <4>3. Replaced(y) = Append(r, c)
          BY <1>1, <2>1, <4>1 DEF Replaced
        <4>4. QED
          BY <4>1, <4>2, <4>3
      <3>3. q.text = before \/ q.text = Append(before, b)
        BY <1>4, <3>1, <3>2, ByteCases
      <3>4. /\ Append(before, b) \in Seq(Characters) /\ Len(Append(before, b)) = Len(before) + 1
            /\ \A i \in 1..Len(before) : Append(before, b)[i] = before[i]
        BY AppendProperties
      <3>5. lr + 1 \in 1..Len(before) /\ lr + 1 \in 1..(Len(before) + 1)
        BY <3>2
      <3>6. q.text[lr + 1] = "?" /\ lr + 1 \in 1..Len(q.text)
        BY <3>2, <3>3, <3>4, <3>5
      <3>7. QED
        BY <1>4, <3>6 DEF Clean
    <2>3. p.text = Append(s, "?") /\ p.open = 0
      <3>1. "cont" \notin DOMAIN Missing
        BY DEF Missing
      <3>2. \/ x.open > 1 /\ p.text = x.text
            \/ x.open = 1 /\ p.text = Append(x.text, "wide")
            \/ x.open = 0 /\ p.text = Append(x.text, "?") /\ p.open = 0
        BY <1>4, <2>2, <3>1, ByteCases
      <3>3. x.open = 0
        BY <1>1, <2>1
      <3>4. QED
        BY <1>1, <3>2, <3>3
    <2>4. PICK us \in Seq(Characters) : us = Append(s, "?") /\ Len(us) = ls + 1 /\ \A i \in 1..(ls + 1) : us[i] = "?"
      <3>1. PICK c \in Characters : c = "?"
        BY <1>3
      <3>2. /\ Append(s, c) \in Seq(Characters) /\ Len(Append(s, c)) = ls + 1 /\ Append(s, c)[ls + 1] = c
            /\ \A i \in 1..ls : Append(s, c)[i] = s[i]
        BY <1>2, AppendProperties
      <3>3. \A i \in 1..(ls + 1) : i \in 1..ls \/ i = ls + 1
        OBVIOUS
      <3>4. QED
        BY <2>1, <3>1, <3>2, <3>3
    <2>5. CASE oy = 1
      <3>1. q.text = Append(r, "wide") /\ q.open = 0
        <4>1. "cont" \notin DOMAIN Missing
          BY DEF Missing
        <4>2. \/ y.open > 1
              \/ y.open = 1 /\ q.text = Append(y.text, "wide") /\ q.open = 0
              \/ y.open = 0
          BY <1>4, <2>2, <4>1, ByteCases
        <4>3. y.open = 1
          BY <1>1, <2>5
        <4>4. QED
          BY <1>1, <4>2, <4>3
      <3>2. Len(Append(r, "wide")) = lr + 1
        BY <1>2, <1>3, AppendProperties
      <3>3. Len(us) = m /\ Len(q.text) = k + m
        BY <2>1, <2>4, <2>5, <3>1, <3>2
      <3>4. \A i \in 1..Len(us) : i <= m /\ us[i] = "?"
        BY <2>1, <2>4, <2>5
      <3>5. Aligned(us, q.text, k, m)
        BY <3>3, <3>4 DEF Aligned
      <3>6. QED
        BY <1>4, <2>3, <2>4, <3>1, <3>5 DEF Matches
    <2>6. CASE oy > 1
      <3>1. q.text = r /\ q.open = oy - 1
        <4>1. "cont" \notin DOMAIN Missing
          BY DEF Missing
        <4>2. \/ y.open > 1 /\ q.text = y.text /\ q.open = y.open - 1
              \/ y.open = 1
              \/ y.open = 0
          BY <1>4, <2>2, <4>1, ByteCases
        <4>3. y.open > 1
          BY <1>1, <2>6
        <4>4. QED
          BY <1>1, <4>2, <4>3
      <3>2. oy - 1 > 0 /\ oy - 1 <= m /\ ls + 1 = m - (oy - 1)
        BY <2>1, <2>6
      <3>3. Len(p.text) = m - q.open /\ Len(q.text) = k + m - 1 /\ q.open > 0 /\ q.open <= m
        BY <1>2, <2>1, <2>3, <2>4, <3>1, <3>2
      <3>4. \A i \in 1..Len(p.text) : p.text[i] = "?"
        BY <2>3, <2>4
      <3>5. Straying(p, q, k, m)
        BY <2>3, <3>3, <3>4 DEF Straying
      <3>6. QED
        BY <1>4, <3>5 DEF Matches
    <2>7. QED
      BY <2>1, <2>5, <2>6
  <1>7. QED
    BY <1>1, <1>5, <1>6 DEF Matches

(* What comes before is as clean                                           *)
LEMMA CleanBefore ==
  ASSUME NEW d \in Decodings, NEW e \in Decodings, Extends(e.text, d.text), Clean(e)
  PROVE  Clean(d)
  <1>1. Len(d.text) \in Nat /\ Len(e.text) \in Nat
    BY LenProperties DEF Decodings
  <1>2. QED
    BY <1>1 DEF Extends, Clean

LEMMA TokenMatches ==
  ASSUME NEW x \in Decodings, NEW y \in Decodings, NEW k \in Int, NEW m \in 0..3,
         Matches(x, y, k, m), NEW t \in DOMAIN Vocabulary, Clean(DecodeToken(y, Vocabulary[t]))
  PROVE  Matches(DecodeToken(x, Vocabulary[t]), DecodeToken(y, Vocabulary[t]), k, m)
  <1>1. PICK v : v = Vocabulary[t]
    OBVIOUS
  <1>2. PICK n \in Nat \ {0} : n = Len(v) /\ \A i \in 1..n : v[i] \in Characters
    BY <1>1, VocabularyFacts
  <1>3. PICK f : ByteByByte(f, x, v)
    BY <1>1, TokenSteps
  <1>4. /\ f \in [0..n -> Decodings]
        /\ f[0] = x /\ f[n] = DecodeToken(x, v)
        /\ \A i \in 1..n : f[i] = DecodeByte(f[i - 1], v[i])
    BY <1>2, <1>3 DEF ByteByByte
  <1>5. PICK g : ByteByByte(g, y, v)
    BY <1>1, TokenSteps
  <1>6. /\ g \in [0..n -> Decodings]
        /\ g[0] = y /\ g[n] = DecodeToken(y, v)
        /\ \A i \in 1..n : g[i] = DecodeByte(g[i - 1], v[i])
    BY <1>2, <1>5 DEF ByteByByte
  <1>7. n \in 0..n /\ 0 \in 0..n /\ n \in Nat
    BY <1>2
  <1>8. \A i \in 0..n : Clean(g[n - i])
    <2> DEFINE S == {i \in 0..n : Clean(g[n - i])}
    <2>1. 0 \in S
      <3>1. n - 0 = n
        BY <1>7
      <3>2. QED
        BY <1>1, <1>6, <1>7, <3>1
    <2>2. ASSUME NEW i \in 1..n, i - 1 \in S PROVE i \in S
      <3>1. PICK j \in 1..n : j = n - (i - 1) /\ j - 1 = n - i /\ j - 1 \in 0..n /\ j \in 0..n /\ i \in 0..n
        BY <1>7
      <3>2. g[j] = DecodeByte(g[j - 1], v[j]) /\ g[j - 1] \in Decodings /\ g[j] \in Decodings
        BY <1>6, <3>1
      <3>3. Clean(g[j])
        BY <2>2, <3>1
      <3>4. Extends(g[j].text, g[j - 1].text)
        BY <1>2, <3>1, <3>2, DecodeByteType
      <3>5. Clean(g[j - 1])
        BY <3>2, <3>3, <3>4, CleanBefore
      <3>6. QED
        BY <3>1, <3>5
    <2> HIDE DEF S
    <2>3. \A i \in 0..n : i \in S
      BY <1>7, <2>1, <2>2, UpToInduction
    <2>4. QED
      BY <2>3 DEF S
  <1>9. \A i \in 0..n : Matches(f[i], g[i], k, m)
    <2> DEFINE S == {i \in 0..n : Matches(f[i], g[i], k, m)}
    <2>1. 0 \in S
      BY <1>4, <1>6, <1>7
    <2>2. ASSUME NEW i \in 1..n, i - 1 \in S PROVE i \in S
      <3>1. i - 1 \in 0..n /\ i \in 0..n /\ n - i \in 0..n /\ n - (n - i) = i
        BY <1>7
      <3>2. Clean(DecodeByte(g[i - 1], v[i]))
        BY <1>6, <1>8, <3>1
      <3>3. f[i - 1] \in Decodings /\ g[i - 1] \in Decodings /\ v[i] \in Characters
        BY <1>2, <1>4, <1>6, <3>1
      <3>4. Matches(f[i - 1], g[i - 1], k, m)
        BY <2>2
      <3>5. Matches(DecodeByte(f[i - 1], v[i]), DecodeByte(g[i - 1], v[i]), k, m)
        BY <3>2, <3>3, <3>4, ByteMatches
      <3>6. QED
        BY <1>4, <1>6, <3>1, <3>5
    <2> HIDE DEF S
    <2>3. \A i \in 0..n : i \in S
      BY <1>7, <2>1, <2>2, UpToInduction
    <2>4. QED
      BY <2>3 DEF S
  <1>10. QED
    BY <1>1, <1>4, <1>6, <1>7, <1>9

(* The whole, before and after some tokens                                 *)
LEMMA WholeGrows ==
  ASSUME NEW ids \in Seq(DOMAIN Vocabulary), NEW i \in 0..Len(ids), NEW j \in 0..Len(ids), i <= j
  PROVE  Extends(Between(ids, 0, j).text, Between(ids, 0, i).text)
  <1>1. PICK n \in Nat : n = Len(ids)
    BY LenProperties
  <1>2. \A m \in 0..n : Between(ids, 0, m) \in Decodings
    BY <1>1, BetweenSteps
  <1> DEFINE S == {m \in 0..n : m >= i => Extends(Between(ids, 0, m).text, Between(ids, 0, i).text)}
  <1>3. Extends(Between(ids, 0, i).text, Between(ids, 0, i).text)
    <2>1. Len(Between(ids, 0, i).text) \in Nat
      BY <1>1, <1>2, LenProperties DEF Decodings
    <2>2. QED
      BY <2>1 DEF Extends
  <1>4. 0 \in S
    <2>1. i \in Int /\ 0 \in 0..n /\ (0 >= i => i = 0)
      BY <1>1
    <2>2. QED
      BY <1>3, <2>1
  <1>5. ASSUME NEW m \in 1..n, m - 1 \in S PROVE m \in S
    <2>1. CASE m <= i
      <3>1. m >= i => m = i
        BY <1>1, <2>1
      <3>2. QED
        BY <1>3, <3>1
    <2>2. CASE m > i
      <3>1. m - 1 \in 0..n /\ m - 1 >= i /\ m \in 0..n /\ m - 1 \in 0..(n - 1) /\ (m - 1) + 1 = m /\ 0 \in 0..n
        BY <1>1, <2>2
      <3>2. /\ ids[m] \in DOMAIN Vocabulary
            /\ Between(ids, 0, m) = DecodeToken(Between(ids, 0, m - 1), Vocabulary[ids[m]])
        BY <1>1, <3>1, BetweenSteps
      <3>3. Extends(Between(ids, 0, m).text, Between(ids, 0, m - 1).text)
        BY <1>2, <3>1, <3>2, DecodeTokenType
      <3>4. Extends(Between(ids, 0, m - 1).text, Between(ids, 0, i).text)
        BY <1>5, <3>1
      <3>5. /\ Between(ids, 0, m).text \in Seq(Characters) /\ Between(ids, 0, m - 1).text \in Seq(Characters)
            /\ Between(ids, 0, i).text \in Seq(Characters)
        BY <1>1, <1>2, <3>1 DEF Decodings
      <3>6. Extends(Between(ids, 0, m).text, Between(ids, 0, i).text)
        BY <3>3, <3>4, <3>5, ExtendsTransitive
      <3>7. QED
        BY <3>6
    <2>3. QED
      BY <1>1, <2>1, <2>2
  <1>6. \A m \in 0..n : m \in S
    <2> HIDE DEF S
    <2>1. QED
      BY <1>4, <1>5, UpToInduction
  <1>7. QED
    BY <1>1, <1>6

(* A decoding of what comes after w is the rest of the whole               *)
Shift(b) == IF b.open > 0 THEN Len(b.text) + 1 - b.open ELSE Len(b.text)

LEMMA WindowMatches ==
  ASSUME NEW ids \in Seq(DOMAIN Vocabulary), NEW w \in 0..Len(ids), NEW j \in w..Len(ids),
         Clean(Between(ids, 0, j))
  PROVE  LET b == Between(ids, 0, w) IN Matches(Between(ids, w, j), Between(ids, 0, j), Shift(b), b.open)
  <1>1. PICK n \in Nat : n = Len(ids) /\ 0 \in 0..n /\ w \in 0..n /\ j \in 0..n /\ j >= w
    BY LenProperties
  <1>2. \A m \in 0..n : Between(ids, 0, m) \in Decodings
    BY <1>1, BetweenSteps
  <1>3. \A m \in w..n : Between(ids, w, m) \in Decodings
    BY <1>1, BetweenSteps
  <1>4. PICK g \in Decodings, l \in Nat, o \in 0..3 : g = Between(ids, 0, w) /\ l = Len(g.text) /\ o = g.open
    BY <1>1, <1>2, LenProperties DEF Decodings
  <1>5. PICK k \in Int : k = Shift(g) /\ k = IF o > 0 THEN l + 1 - o ELSE l
    <2>1. (IF o > 0 THEN l + 1 - o ELSE l) \in Int
      BY <1>4
    <2>2. QED
      BY <1>4, <2>1 DEF Shift
  <1> DEFINE S == {m \in 0..(j - w) : Matches(Between(ids, w, w + m), Between(ids, 0, w + m), k, o)}
  <1>6. 0 \in S
    <2>1. Between(ids, w, w) = Nothing
      BY <1>1, BetweenSteps
    <2>2. Nothing.text = <<>> /\ Nothing.open = 0 /\ Len(<<>>) = 0
      BY EmptySeq DEF Nothing
    <2>3. Matches(Nothing, g, k, o)
      <3>1. CASE o = 0
        <4>1. Aligned(<<>>, g.text, k, o)
          BY <1>4, <1>5, <2>2, <3>1 DEF Aligned
        <4>2. QED
          BY <1>4, <2>2, <3>1, <4>1 DEF Matches
      <3>2. CASE o > 0
        <4>1. k = l + 1 - o
          BY <1>5, <3>2
        <4>2. l = k + o - 1 /\ 0 = o - o
          BY ONLY <4>1, l \in Nat, o \in 0..3
        <4>3. Straying(Nothing, g, k, o)
          BY <1>4, <2>2, <3>2, <4>2 DEF Straying
        <4>4. QED
          BY <4>3 DEF Matches
      <3>3. QED
        BY <1>4, <3>1, <3>2
    <2>4. w + 0 = w /\ 0 \in 0..(j - w)
      BY <1>1
    <2>5. QED
      BY <1>4, <2>1, <2>3, <2>4
  <1>7. ASSUME NEW m \in 1..(j - w), m - 1 \in S PROVE m \in S
    <2>1. PICK a \in w..(n - 1) : a = w + (m - 1) /\ a + 1 = w + m /\ a \in 0..(n - 1) /\ a + 1 \in 0..n /\ a + 1 <= j
                                  /\ a \in 0..n /\ a \in w..n /\ m \in 0..(j - w)
      BY <1>1
    <2>2. /\ ids[a + 1] \in DOMAIN Vocabulary
          /\ Between(ids, 0, a + 1) = DecodeToken(Between(ids, 0, a), Vocabulary[ids[a + 1]])
          /\ Between(ids, w, a + 1) = DecodeToken(Between(ids, w, a), Vocabulary[ids[a + 1]])
      BY <1>1, <2>1, BetweenSteps
    <2>3. Clean(Between(ids, 0, a + 1))
      BY <1>1, <1>2, <2>1, WholeGrows, CleanBefore
    <2>4. Matches(Between(ids, w, a), Between(ids, 0, a), k, o)
      BY <1>7, <2>1
    <2>5. Matches(Between(ids, w, a + 1), Between(ids, 0, a + 1), k, o)
      <3>1. PICK x \in Decodings, y \in Decodings, t \in DOMAIN Vocabulary :
              x = Between(ids, w, a) /\ y = Between(ids, 0, a) /\ t = ids[a + 1]
        BY <1>1, <2>1, <2>2, BetweenSteps
      <3>2. Matches(x, y, k, o) /\ Clean(DecodeToken(y, Vocabulary[t]))
        BY <2>2, <2>3, <2>4, <3>1
      <3>3. k \in Int /\ o \in 0..3
        BY <1>4, <1>5
      <3>4. Matches(DecodeToken(x, Vocabulary[t]), DecodeToken(y, Vocabulary[t]), k, o)
        BY ONLY <3>2, <3>3, TokenMatches
      <3>5. QED
        BY <2>2, <3>1, <3>4
    <2>6. QED
      BY <2>1, <2>5
  <1>8. j - w \in Nat
    BY <1>1
  <1>9. \A m \in 0..(j - w) : m \in S
    <2> HIDE DEF S
    <2>1. QED
      BY <1>6, <1>7, <1>8, UpToInduction
  <1>10. j - w \in 0..(j - w) /\ w + (j - w) = j
    BY <1>1, <1>8
  <1>11. QED
    BY <1>4, <1>5, <1>9, <1>10

(* A character that is open is finished within three tokens                *)
LEMMA OpenCloses ==
  ASSUME NEW ids \in Seq(DOMAIN Vocabulary), NEW i \in 0..Len(ids), i + 3 <= Len(ids),
         Between(ids, 0, i).open > 0
  PROVE  Len(Between(ids, 0, i + 3).text) > Len(Between(ids, 0, i).text)
  <1>1. PICK n \in Nat : n = Len(ids) /\ i \in 0..n /\ i + 3 <= n
    BY LenProperties
  <1>2. ASSUME NEW j \in 0..(n - 1)
        PROVE  /\ Len(Between(ids, 0, j).text) \in Nat /\ Len(Between(ids, 0, j + 1).text) \in Nat
               /\ Between(ids, 0, j).open \in 0..3 /\ Between(ids, 0, j + 1).open \in 0..3
               /\ Len(Between(ids, 0, j + 1).text) >= Len(Between(ids, 0, j).text)
               /\ Between(ids, 0, j).open > 0 =>
                    \/ Len(Between(ids, 0, j + 1).text) > Len(Between(ids, 0, j).text)
                    \/ /\ Between(ids, 0, j + 1).open > 0
                       /\ Between(ids, 0, j + 1).open < Between(ids, 0, j).open
    <2>1. /\ ids[j + 1] \in DOMAIN Vocabulary
          /\ Between(ids, 0, j + 1) = DecodeToken(Between(ids, 0, j), Vocabulary[ids[j + 1]])
          /\ Between(ids, 0, j) \in Decodings /\ Between(ids, 0, j + 1) \in Decodings
      <3>1. 0 \in 0..Len(ids) /\ j \in 0..Len(ids) /\ j + 1 \in 0..Len(ids) /\ j \in 0..(Len(ids) - 1)
        BY <1>1
      <3>2. QED
        BY <3>1, BetweenSteps
    <2>2. PICK d \in Decodings, e \in Decodings, t \in DOMAIN Vocabulary :
            d = Between(ids, 0, j) /\ e = Between(ids, 0, j + 1) /\ e = DecodeToken(d, Vocabulary[t])
      BY <2>1
    <2>3. /\ Extends(e.text, d.text)
          /\ d.open > 0 => Len(e.text) > Len(d.text) \/ (e.open > 0 /\ e.open < d.open)
      BY <2>2, DecodeTokenType
    <2>4. Len(d.text) \in Nat /\ Len(e.text) \in Nat /\ d.open \in 0..3 /\ e.open \in 0..3
      BY LenProperties DEF Decodings
    <2>5. Len(d.text) <= Len(e.text)
      BY <2>3 DEF Extends
    <2>6. QED
      BY <2>2, <2>3, <2>4, <2>5
  <1>3. i \in 0..(n - 1) /\ i + 1 \in 0..(n - 1) /\ i + 2 \in 0..(n - 1) /\ (i + 1) + 1 = i + 2 /\ (i + 2) + 1 = i + 3
    BY <1>1
  <1>4. PICK l0 \in Nat, l1 \in Nat, o0 \in 0..3, o1 \in 0..3 :
          /\ l0 = Len(Between(ids, 0, i).text) /\ l1 = Len(Between(ids, 0, i + 1).text)
          /\ o0 = Between(ids, 0, i).open /\ o1 = Between(ids, 0, i + 1).open
          /\ l1 >= l0 /\ (o0 > 0 => l1 > l0 \/ (o1 > 0 /\ o1 < o0))
    BY <1>2, <1>3
  <1>5. PICK l2 \in Nat, o2 \in 0..3 :
          /\ l2 = Len(Between(ids, 0, i + 2).text) /\ o2 = Between(ids, 0, i + 2).open
          /\ l2 >= l1 /\ (o1 > 0 => l2 > l1 \/ (o2 > 0 /\ o2 < o1))
    BY <1>2, <1>3, <1>4
  <1>6. PICK l3 \in Nat, o3 \in 0..3 :
          /\ l3 = Len(Between(ids, 0, i + 3).text)
          /\ l3 >= l2 /\ (o2 > 0 => l3 > l2 \/ (o3 > 0 /\ o3 < o2))
    BY <1>2, <1>3, <1>5
  <1>7. o0 > 0
    BY <1>4
  <1>8. l3 > l0
    <2>1. /\ l1 >= l0 /\ l2 >= l1 /\ l3 >= l2 /\ o0 > 0
          /\ l1 > l0 \/ (o1 > 0 /\ o1 < o0)
          /\ o1 > 0 => l2 > l1 \/ (o2 > 0 /\ o2 < o1)
          /\ o2 > 0 => l3 > l2 \/ (o3 > 0 /\ o3 < o2)
      BY <1>4, <1>5, <1>6, <1>7
    <2>2. QED
      BY ONLY <2>1, l0 \in Nat, l1 \in Nat, l2 \in Nat, l3 \in Nat,
              o0 \in 0..3, o1 \in 0..3, o2 \in 0..3, o3 \in 0..3
  <1>9. QED
    BY <1>4, <1>6, <1>8

(* A window that begins within a character shows the end of another, if    *)
(* there is a token that is not special three tokens before its end        *)
LEMMA WindowFull ==
  ASSUME NEW ids \in Seq(DOMAIN Vocabulary), NEW w \in 0..Len(ids), NEW n \in 0..Len(ids),
         NEW j \in (w + 4)..(n - 3), Vocabulary[ids[j]] # <<"special">>, Between(ids, 0, w).open > 0
  PROVE  Len(Between(ids, 0, n).text) >= Len(Between(ids, 0, w).text) + 2
  <1>1. PICK m \in Nat : m = Len(ids) /\ 0 \in 0..m /\ w \in 0..m /\ n \in 0..m
    BY LenProperties
  <1>2. /\ w + 3 \in 0..m /\ j - 1 \in 0..m /\ j - 1 \in 0..(m - 1) /\ j \in 0..m /\ j + 3 \in 0..m
        /\ (j - 1) + 1 = j /\ w + 3 <= j - 1 /\ j - 1 <= j /\ j <= n /\ j + 3 <= n /\ w + 3 <= m /\ j + 3 <= m
    BY <1>1
  <1>3. \A i \in 0..m : Between(ids, 0, i) \in Decodings /\ Len(Between(ids, 0, i).text) \in Nat
    <2>1. \A i \in 0..m : Between(ids, 0, i) \in Decodings
      BY <1>1, BetweenSteps
    <2>2. QED
      BY <2>1, LenProperties DEF Decodings
  <1>4. \A i \in 0..m : \A k \in 0..m : i <= k => Len(Between(ids, 0, i).text) <= Len(Between(ids, 0, k).text)
    BY <1>1, WholeGrows DEF Extends
  <1>5. Len(Between(ids, 0, w + 3).text) > Len(Between(ids, 0, w).text)
    BY <1>1, <1>2, OpenCloses
  <1>6. Between(ids, 0, j).open > 0 \/ Len(Between(ids, 0, j).text) > Len(Between(ids, 0, j - 1).text)
    <2>1. ids[j] \in DOMAIN Vocabulary /\ Between(ids, 0, j) = DecodeToken(Between(ids, 0, j - 1), Vocabulary[ids[j]])
      BY <1>1, <1>2, BetweenSteps
    <2>2. Between(ids, 0, j - 1) \in Decodings
      BY <1>2, <1>3
    <2>3. QED
      BY <2>1, <2>2, DecodeTokenType
  <1>7. Between(ids, 0, j).open > 0 => Len(Between(ids, 0, j + 3).text) > Len(Between(ids, 0, j).text)
    BY <1>1, <1>2, OpenCloses
  <1>8. PICK l0 \in Nat, l1 \in Nat, l2 \in Nat, l3 \in Nat, l4 \in Nat, l5 \in Nat :
          /\ l0 = Len(Between(ids, 0, w).text) /\ l1 = Len(Between(ids, 0, w + 3).text)
          /\ l2 = Len(Between(ids, 0, j - 1).text) /\ l3 = Len(Between(ids, 0, j).text)
          /\ l4 = Len(Between(ids, 0, j + 3).text) /\ l5 = Len(Between(ids, 0, n).text)
    BY <1>1, <1>2, <1>3
  <1>9. l1 > l0 /\ (l4 > l3 \/ l3 > l2)
    BY <1>5, <1>6, <1>7, <1>8
  <1>10. l1 <= l2 /\ l2 <= l3 /\ l3 <= l5 /\ l4 <= l5
    BY <1>1, <1>2, <1>4, <1>8
  <1>11. l5 >= l0 + 2
    BY <1>9, <1>10
  <1>12. QED
    BY <1>8, <1>11

LEMMA RStripIs ==
  ASSUME NEW C, NEW s \in Seq(C), NEW n \in 0..Len(s), n > 0 => s[n] # "?",
         \A i \in (n + 1)..Len(s) : s[i] = "?"
  PROVE  RStrip(s) = SubSeq(s, 1, n)
  <1>1. PICK ends : ends = {m \in 0..Len(s) : m > 0 => s[m] # "?"}
    OBVIOUS
  <1>2. PICK last : last = CHOOSE m \in ends : \A i \in ends : i <= m
    OBVIOUS
  <1>3. Len(s) \in Nat
    BY LenProperties
  <1>4. n \in ends /\ \A i \in ends : i <= n
    BY <1>1, <1>3
  <1>5. last \in ends /\ \A i \in ends : i <= last
    BY <1>2, <1>4
  <1>6. last = n
    BY <1>1, <1>3, <1>4, <1>5
  <1>7. QED
    BY <1>1, <1>2, <1>6 DEF RStrip

(* What is shown of a text that ends in a character                        *)
LEMMA RenderedText ==
  ASSUME NEW ids, Decoded(ids) \in Decodings, NEW s, s = Decoded(ids).text,
         Len(s) > 0 => s[Len(s)] # "?"
  PROVE  RStrip(Decode(ids)) = s
  <1>1. s \in Seq(Characters) /\ Len(s) \in Nat /\ "?" \in Characters
    BY LenProperties DEF Decodings, Characters
  <1>2. SubSeq(s, 1, Len(s)) = s
    BY <1>1, SubSeqFull
  <1>3. CASE ~(Decoded(ids).open > 0)
    <2>1. Decode(ids) = s
      BY <1>3 DEF Decode
    <2>2. Len(s) \in 0..Len(s) /\ \A i \in (Len(s) + 1)..Len(s) : s[i] = "?"
      BY <1>1
    <2>3. RStrip(s) = SubSeq(s, 1, Len(s))
      BY <1>1, <2>2, RStripIs
    <2>4. QED
      BY <1>2, <2>1, <2>3
  <1>4. CASE Decoded(ids).open > 0
    <2>1. PICK p : p = Append(s, "?")
      OBVIOUS
    <2>2. /\ p \in Seq(Characters) /\ Len(p) = Len(s) + 1 /\ p[Len(s) + 1] = "?"
          /\ \A i \in 1..Len(s) : p[i] = s[i]
      BY <1>1, <2>1, AppendProperties
    <2>3. Decode(ids) = p
      BY <1>4, <2>1 DEF Decode
    <2>4. Len(s) \in 0..Len(p) /\ (\A i \in (Len(s) + 1)..Len(p) : p[i] = "?") /\ (Len(s) > 0 => p[Len(s)] # "?")
      <3>1. \A i \in (Len(s) + 1)..Len(p) : i = Len(s) + 1
        BY <1>1, <2>2
      <3>2. Len(s) > 0 => Len(s) \in 1..Len(s)
        BY <1>1
      <3>3. QED
        BY <1>1, <2>2, <3>1, <3>2
    <2>5. RStrip(p) = SubSeq(p, 1, Len(s))
      BY <2>2, <2>4, RStripIs
    <2>6. SubSeq(p, 1, Len(s)) = s
      <3>1. \A i \in 1..Len(s) : p[i] \in Characters
        BY <1>1, <2>2, ElementOfSeq
      <3>2. PICK u : u = SubSeq(p, 1, Len(s))
        OBVIOUS
      <3>3. /\ u \in Seq(Characters)
            /\ Len(u) = IF 1 <= Len(s) THEN Len(s) - 1 + 1 ELSE 0
            /\ \A i \in 1..(Len(s) - 1 + 1) : u[i] = p[1 + i - 1]
        BY <1>1, <3>1, <3>2, SubSeqProperties
      <3>4. Len(u) = Len(s)
        BY <1>1, <3>3
      <3>5. \A i \in 1..Len(u) : u[i] = s[i]
        <4>1. TAKE i \in 1..Len(u)
        <4>2. i \in 1..(Len(s) - 1 + 1) /\ 1 + i - 1 = i /\ i \in 1..Len(s)
          BY <1>1, <3>4
        <4>3. QED
          BY <2>2, <3>3, <4>2
      <3>6. u = s
        BY <1>1, <3>3, <3>4, <3>5, SeqEqual
      <3>7. QED
        BY <3>2, <3>6
    <2>7. QED
      BY <2>3, <2>5, <2>6
  <1>5. QED
    BY <1>3, <1>4

(* Not so many special tokens in a row                                     *)
NotDrowned(ids) ==
  \A i \in 1..Len(ids) : \E j \in i..(i + Lookback - 7) : j \in 1..Len(ids) => Vocabulary[ids[j]] # <<"special">>

(* What the longer has after the shorter is what the whole gained          *)
Rest(p, q) == IF Len(q) <= Len(p) THEN <<>> ELSE SubSeq(q, Len(p) + 1, Len(q))

LEMMA AlignedRest ==
  ASSUME NEW p \in Seq(Characters), NEW q \in Seq(Characters), NEW y \in Seq(Characters), NEW z \in Seq(Characters),
         NEW k \in Int, NEW e \in 0..3, Aligned(p, y, k, e), Aligned(q, z, k, e), Extends(z, y)
  PROVE  Rest(p, q) \in Seq(Characters) /\ z = y \o Rest(p, q)
  <1>1. PICK lp \in Nat, lq \in Nat, ly \in Nat, lz \in Nat :
          lp = Len(p) /\ lq = Len(q) /\ ly = Len(y) /\ lz = Len(z)
    BY LenProperties
  <1>2. ly = k + lp /\ lz = k + lq /\ lp <= lq /\ lp >= e
    <2>1. ly = k + lp /\ lz = k + lq /\ ly <= lz /\ lp >= e
      BY <1>1 DEF Aligned, Extends
    <2>2. QED
      BY <1>1, <2>1
  <1>3. CASE lq <= lp
    <2>1. lz = ly
      BY <1>2, <1>3
    <2>2. \A i \in 1..Len(z) : z[i] = y[i]
      BY <1>1, <2>1 DEF Extends
    <2>3. z = y
      BY <1>1, <2>1, <2>2, SeqEqual
    <2>4. y \o <<>> = y /\ <<>> \in Seq(Characters)
      BY ConcatEmptySeq, EmptySeq
    <2>5. QED
      BY <1>1, <1>3, <2>3, <2>4 DEF Rest
  <1>4. CASE ~(lq <= lp)
    <2>1. PICK piece : piece = SubSeq(q, lp + 1, lq)
      OBVIOUS
    <2>2. \A i \in (lp + 1)..lq : q[i] \in Characters
      <3>1. \A i \in (lp + 1)..lq : i \in 1..lq
        BY <1>1
      <3>2. QED
        BY <1>1, <3>1, ElementOfSeq
    <2>3. /\ piece \in Seq(Characters)
          /\ Len(piece) = lq - lp
          /\ \A i \in 1..(lq - lp) : piece[i] = q[lp + i]
      <3>1. lp + 1 \in Int /\ lq \in Int /\ lp + 1 <= lq
        BY <1>4
      <3>2. /\ piece \in Seq(Characters)
            /\ Len(piece) = IF lp + 1 <= lq THEN lq - (lp + 1) + 1 ELSE 0
            /\ \A i \in 1..(lq - (lp + 1) + 1) : piece[i] = q[lp + 1 + i - 1]
        BY <2>1, <2>2, <3>1, SubSeqProperties
      <3>3. lq - (lp + 1) + 1 = lq - lp
        OBVIOUS
      <3>4. \A i \in 1..(lq - lp) : lp + 1 + i - 1 = lp + i
        OBVIOUS
      <3>5. QED
        BY <3>1, <3>2, <3>3, <3>4
    <2>4. PICK u : u = y \o piece
      OBVIOUS
    <2>5. /\ u \in Seq(Characters) /\ Len(u) = ly + (lq - lp)
          /\ \A i \in 1..(ly + (lq - lp)) : u[i] = IF i <= ly THEN y[i] ELSE piece[i - ly]
      <3>1. /\ y \o piece \in Seq(Characters) /\ Len(y \o piece) = Len(y) + Len(piece)
            /\ \A i \in 1..(Len(y) + Len(piece)) :
                 (y \o piece)[i] = IF i <= Len(y) THEN y[i] ELSE piece[i - Len(y)]
        BY <2>3, ConcatProperties
      <3>2. Len(y) = ly /\ Len(piece) = lq - lp
        BY <1>1, <2>3
      <3>3. QED
        BY ONLY <2>4, <3>1, <3>2
    <2>6. ly + (lq - lp) = lz
      BY <1>2
    <2>7. ASSUME NEW i \in 1..lz PROVE z[i] = u[i]
      <3>1. CASE i <= ly
        <4>1. i \in 1..ly
          BY <3>1
        <4>2. z[i] = y[i]
          BY <1>1, <4>1 DEF Extends
        <4>3. QED
          BY <2>5, <2>6, <3>1, <4>2
      <3>2. CASE ~(i <= ly)
        <4>1. PICK m \in 1..(lq - lp), l \in 1..lq : m = i - ly /\ l = lp + m /\ k + l = i
          <5>1. i - ly \in 1..(lq - lp) /\ lp + (i - ly) \in 1..lq /\ k + (lp + (i - ly)) = i
            BY <1>2, <3>2
          <5>2. QED
            BY <5>1
        <4>2. ~(l <= e)
          BY <1>2, <4>1
        <4>3. q[l] = z[i]
          BY <1>1, <4>1, <4>2 DEF Aligned
        <4>4. piece[m] = q[l]
          BY <2>3, <4>1
        <4>5. u[i] = piece[m]
          BY <2>5, <2>6, <3>2, <4>1
        <4>6. QED
          BY <4>3, <4>4, <4>5
      <3>3. QED
        BY <3>1, <3>2
    <2>8. z = u
      BY <1>1, <2>5, <2>6, <2>7, SeqEqual
    <2>9. QED
      BY <1>1, <1>4, <2>1, <2>3, <2>4, <2>8 DEF Rest
  <1>5. QED
    BY <1>3, <1>4

(* What decode_incremental() gives is what the whole gained                *)
LEMMA PieceExact ==
  ASSUME NEW ids \in Seq(DOMAIN Vocabulary), NEW n \in Nat, Len(ids) = n + 1,
         Clean(Between(ids, 0, n + 1)), NotDrowned(ids)
  PROVE  /\ DecodeIncremental(ids, n) \in Seq(Characters)
         /\ Between(ids, 0, n + 1).text = Between(ids, 0, n).text \o DecodeIncremental(ids, n)
  <1>1. Lookback \in Nat /\ Lookback > 6
    BY StreamAssumption
  <1>2. PICK w \in 0..n : w = IF n > Lookback THEN n - Lookback ELSE 0
    <2>1. (IF n > Lookback THEN n - Lookback ELSE 0) \in 0..n
      BY <1>1
    <2>2. QED
      BY <2>1
  <1>3. w \in 0..Len(ids) /\ n \in w..Len(ids) /\ n + 1 \in w..Len(ids) /\ 0 \in 0..Len(ids) /\ n \in 0..Len(ids)
        /\ n + 1 \in 0..Len(ids)
    BY <1>2
  <1>4. PICK y \in Decodings, z \in Decodings, b \in Decodings :
          y = Between(ids, 0, n) /\ z = Between(ids, 0, n + 1) /\ b = Between(ids, 0, w)
    BY <1>3, BetweenSteps
  <1>5. PICK p \in Decodings, q \in Decodings : p = Between(ids, w, n) /\ q = Between(ids, w, n + 1)
    BY <1>3, BetweenSteps
  <1>6. PICK k \in Int, e \in 0..3, lb \in Nat :
          lb = Len(b.text) /\ e = b.open /\ k = Shift(b) /\ k = IF e > 0 THEN lb + 1 - e ELSE lb
    <2>1. PICK e \in 0..3, lb \in Nat : lb = Len(b.text) /\ e = b.open
      BY LenProperties DEF Decodings
    <2>2. (IF e > 0 THEN lb + 1 - e ELSE lb) \in Int
      BY <2>1
    <2>3. QED
      BY <2>1, <2>2 DEF Shift
  <1>7. Extends(z.text, y.text) /\ Clean(y) /\ Clean(z)
    BY <1>3, <1>4, WholeGrows, CleanBefore
  <1>8. Matches(p, y, k, e) /\ Matches(q, z, k, e)
    BY <1>3, <1>4, <1>5, <1>6, <1>7, WindowMatches
  <1>9. /\ p.text \in Seq(Characters) /\ Len(p.text) \in Nat /\ q.text \in Seq(Characters) /\ Len(q.text) \in Nat
        /\ y.text \in Seq(Characters) /\ Len(y.text) \in Nat /\ z.text \in Seq(Characters) /\ Len(z.text) \in Nat
    BY LenProperties DEF Decodings
  <1>10. e > 0 => Len(y.text) >= lb + 2 /\ Len(z.text) >= lb + 2
    <2>1. SUFFICES ASSUME e > 0 PROVE Len(y.text) >= lb + 2 /\ Len(z.text) >= lb + 2
      OBVIOUS
    <2>2. w # 0
      <3>1. Between(ids, 0, 0) = Nothing
        BY <1>3, BetweenSteps
      <3>2. Nothing.open = 0
        BY DEF Nothing
      <3>3. QED
        BY <1>4, <1>6, <2>1, <3>1, <3>2
    <2>3. n > Lookback /\ w = n - Lookback
      BY <1>2, <2>2
    <2>4. PICK j \in (w + 4)..(w + 4 + Lookback - 7) : j \in 1..Len(ids) => Vocabulary[ids[j]] # <<"special">>
      <3>1. w + 4 \in 1..Len(ids)
        BY <1>1, <2>3
      <3>2. QED
        BY <3>1 DEF NotDrowned
    <2>5. j \in (w + 4)..(n - 3) /\ j \in 1..Len(ids)
      BY <1>1, <2>3
    <2>6. Len(y.text) >= lb + 2
      BY <1>3, <1>4, <1>6, <2>1, <2>4, <2>5, WindowFull
    <2>7. Len(y.text) <= Len(z.text)
      BY <1>7 DEF Extends
    <2>8. QED
      BY <1>9, <2>6, <2>7
  <1>11. /\ Aligned(p.text, y.text, k, e) /\ Aligned(q.text, z.text, k, e)
         /\ e > 0 => Len(p.text) > e /\ Len(q.text) > e
    <2>1. ASSUME NEW c \in Decodings, NEW d \in Decodings, Matches(c, d, k, e), e > 0 => Len(d.text) >= lb + 2
          PROVE  Aligned(c.text, d.text, k, e) /\ (e > 0 => Len(c.text) > e)
      <3>1. PICK lc \in Nat, ld \in Nat : lc = Len(c.text) /\ ld = Len(d.text)
        BY LenProperties DEF Decodings
      <3>2. CASE e = 0
        <4>1. ~Straying(c, d, k, e)
          <5>1. PICK o \in 0..3 : o = d.open
            BY DEF Decodings
          <5>2. ~(o > 0 /\ o <= e)
            BY <3>2
          <5>3. QED
            BY <5>1, <5>2 DEF Straying
        <4>2. QED
          BY <2>1, <3>2, <4>1 DEF Matches
      <3>3. CASE e > 0
        <4>1. k = lb + 1 - e /\ ld >= lb + 2
          BY <1>6, <2>1, <3>1, <3>3
        <4>2. k + e - 1 = lb
          BY ONLY <4>1, k \in Int, e \in 0..3, lb \in Nat
        <4>3. ~Straying(c, d, k, e)
          <5>1. ld # k + e - 1
            BY <4>1, <4>2
          <5>2. QED
            BY <3>1, <5>1 DEF Straying
        <4>4. Aligned(c.text, d.text, k, e)
          BY <2>1, <4>3 DEF Matches
        <4>5. ld = k + lc
          BY <3>1, <4>4 DEF Aligned
        <4>6. lc > e
          BY ONLY <4>1, <4>5, k \in Int, e \in 0..3, lb \in Nat, lc \in Nat, ld \in Nat
        <4>7. QED
          BY <3>1, <4>4, <4>6
      <3>4. e = 0 \/ e > 0
        BY <1>6
      <3>5. QED
        BY <3>2, <3>3, <3>4
    <2>2. QED
      BY <1>8, <1>10, <2>1
  <1>12. ASSUME NEW c \in Decodings, NEW d \in Decodings, Aligned(c.text, d.text, k, e),
                e > 0 => Len(c.text) > e, Clean(d), Len(c.text) > 0
         PROVE  c.text[Len(c.text)] # "?"
    <2>1. PICK lc \in Nat : lc = Len(c.text)
      BY LenProperties DEF Decodings
    <2>2. lc > 0 /\ (e > 0 => lc > e)
      BY <1>12, <2>1
    <2>3. lc \in 1..lc /\ ~(lc <= e)
      <3>1. e \in 0..3
        BY <1>6
      <3>2. QED
        BY ONLY <2>2, <3>1, lc \in Nat
    <2>4. k + lc \in 1..Len(d.text) /\ c.text[lc] = d.text[k + lc]
      BY <1>12, <2>1, <2>3 DEF Aligned
    <2>5. QED
      BY <1>12, <2>1, <2>4 DEF Clean
  <1>13. RStrip(Decode(SubSeq(ids, w + 1, n))) = p.text
    <2>1. Len(p.text) > 0 => p.text[Len(p.text)] # "?"
      BY <1>7, <1>11, <1>12
    <2>2. QED
      BY <1>5, <2>1, RenderedText DEF Between
  <1>14. RStrip(Decode(SubSeq(ids, w + 1, n + 1))) = q.text
    <2>1. Len(q.text) > 0 => q.text[Len(q.text)] # "?"
      BY <1>7, <1>11, <1>12
    <2>2. QED
      BY <1>5, <2>1, RenderedText DEF Between
  <1>15. DecodeIncremental(ids, n) =
           IF Len(q.text) <= Len(p.text) THEN <<>> ELSE SubSeq(q.text, Len(p.text) + 1, Len(q.text))
    BY <1>2, <1>13, <1>14 DEF DecodeIncremental
  <1>16. PICK piece \in Seq(Characters) :
           /\ piece = IF Len(q.text) <= Len(p.text) THEN <<>> ELSE SubSeq(q.text, Len(p.text) + 1, Len(q.text))
           /\ z.text = y.text \o piece
    <2>1. PICK u \in Seq(Characters), v \in Seq(Characters), s \in Seq(Characters), t \in Seq(Characters) :
            u = p.text /\ v = q.text /\ s = y.text /\ t = z.text
      BY <1>9
    <2>2. Aligned(u, s, k, e) /\ Aligned(v, t, k, e) /\ Extends(t, s)
      BY <1>7, <1>11, <2>1
    <2>3. Rest(u, v) \in Seq(Characters) /\ t = s \o Rest(u, v)
      <3>1. u \in Seq(Characters) /\ v \in Seq(Characters) /\ s \in Seq(Characters) /\ t \in Seq(Characters)
            /\ k \in Int /\ e \in 0..3
        BY <1>6, <2>1
      <3>2. QED
        BY ONLY <2>2, <3>1, AlignedRest
    <2>4. QED
      BY <2>1, <2>3 DEF Rest
  <1>17. QED
    BY <1>4, <1>15, <1>16

-----------------------------------------------------------------------------
(***************************************************************************)
(* Stop strings.                                                           *)
(***************************************************************************)
OccursAt(s, i, stop) ==
  /\ i >= 1 /\ i + Len(stop) - 1 <= Len(s)
  /\ \A m \in 1..Len(stop) : s[i + m - 1] = stop[m]

(* The last n characters begin the stop string                             *)
EndsIn(s, n, stop) ==
  /\ n <= Len(s) /\ n < Len(stop)
  /\ \A m \in 1..n : s[Len(s) - n + m] = stop[m]

LEMMA SubSeqIs ==
  ASSUME NEW C, NEW s \in Seq(C), NEW D, NEW t \in Seq(D), NEW a \in Nat \ {0}, NEW b \in Nat,
         b <= Len(s), a <= b + 1
  PROVE  SubSeq(s, a, b) = t <=> Len(t) = b - a + 1 /\ \A m \in 1..Len(t) : s[a + m - 1] = t[m]
  <1>1. PICK n \in Nat, l \in Nat : n = Len(s) /\ l = Len(t)
    BY LenProperties
  <1>2. PICK part : part = SubSeq(s, a, b)
    OBVIOUS
  <1>3. \A i \in a..b : s[i] \in C
    <2>1. \A i \in a..b : i \in 1..n
      BY <1>1
    <2>2. QED
      BY <1>1, <2>1, ElementOfSeq
  <1>4. part \in Seq(C) /\ Len(part) = b - a + 1 /\ \A m \in 1..(b - a + 1) : part[m] = s[a + m - 1]
    <2>1. /\ part \in Seq(C)
          /\ Len(part) = IF a <= b THEN b - a + 1 ELSE 0
          /\ \A m \in 1..(b - a + 1) : part[m] = s[a + m - 1]
      BY <1>1, <1>2, <1>3, SubSeqProperties
    <2>2. ~(a <= b) => b - a + 1 = 0
      OBVIOUS
    <2>3. QED
      BY <2>1, <2>2
  <1>5. ASSUME l = b - a + 1, \A m \in 1..l : s[a + m - 1] = t[m] PROVE part = t
    <2>1. part \in Seq(C \cup D) /\ t \in Seq(C \cup D)
      <3>1. C \subseteq C \cup D /\ D \subseteq C \cup D
        OBVIOUS
      <3>2. QED
        BY <1>4, <3>1, SeqMonotonic
    <2>2. Len(part) = Len(t) /\ \A m \in 1..Len(part) : part[m] = t[m]
      BY <1>1, <1>4, <1>5
    <2>3. QED
      BY <2>1, <2>2, SeqEqual
  <1>6. ASSUME part = t PROVE l = b - a + 1 /\ \A m \in 1..l : s[a + m - 1] = t[m]
    BY <1>1, <1>4, <1>6
  <1>7. QED
    BY <1>1, <1>2, <1>5, <1>6

LEMMA FindsIff ==
  ASSUME NEW C, NEW s \in Seq(C), NEW D, NEW stop \in Seq(D)
  PROVE  \A i : i \in Finds(s, stop) <=> i \in Nat /\ OccursAt(s, i, stop)
  <1>1. PICK n \in Nat, l \in Nat : n = Len(s) /\ l = Len(stop)
    BY LenProperties
  <1>2. ASSUME NEW i \in Nat, i >= 1, i + l - 1 <= n
        PROVE  SubSeq(s, i, i + l - 1) = stop <=> \A m \in 1..l : s[i + m - 1] = stop[m]
    <2>1. i \in Nat \ {0} /\ i + l - 1 \in Nat /\ i <= i + l - 1 + 1 /\ l = i + l - 1 - i + 1
      BY <1>2
    <2>2. QED
      BY <1>1, <1>2, <2>1, SubSeqIs
  <1>3. ASSUME NEW i PROVE i \in 1..(n - l + 1) <=> i \in Nat /\ i >= 1 /\ i + l - 1 <= n
    OBVIOUS
  <1>4. QED
    BY <1>1, <1>2, <1>3 DEF Finds, OccursAt

LEMMA PrefixIff ==
  ASSUME NEW C, NEW s \in Seq(C), NEW D, NEW t \in Seq(D)
  PROVE  IsPrefix(s, t) <=> Len(s) <= Len(t) /\ \A m \in 1..Len(s) : t[m] = s[m]
  <1>1. PICK n \in Nat, l \in Nat : n = Len(s) /\ l = Len(t)
    BY LenProperties
  <1>2. SubSeq(s, 1, n) = s
    BY <1>1, SubSeqFull
  <1>3. ASSUME n <= l PROVE SubSeq(t, 1, n) = s <=> \A m \in 1..n : t[m] = s[m]
    <2>1. 1 \in Nat \ {0} /\ 1 <= n + 1 /\ n = n - 1 + 1 /\ \A m \in 1..n : 1 + m - 1 = m
      OBVIOUS
    <2>2. SubSeq(t, 1, n) = s <=> n = n - 1 + 1 /\ \A m \in 1..n : t[1 + m - 1] = s[m]
      BY <1>1, <1>3, <2>1, SubSeqIs
    <2>3. QED
      BY <2>1, <2>2
  <1>4. QED
    BY <1>1, <1>2, <1>3 DEF IsPrefix

LEMMA SuffixIff ==
  ASSUME NEW C, NEW s \in Seq(C), NEW D, NEW stop \in Seq(D), NEW n \in 0..Len(s)
  PROVE  /\ SubSeq(s, Len(s) - n + 1, Len(s)) \in Seq(C)
         /\ Len(SubSeq(s, Len(s) - n + 1, Len(s))) = n
         /\ \A m \in 1..n : SubSeq(s, Len(s) - n + 1, Len(s))[m] = s[Len(s) - n + m]
         /\ n < Len(stop) /\ IsPrefix(SubSeq(s, Len(s) - n + 1, Len(s)), stop) <=> EndsIn(s, n, stop)
  <1>1. PICK ls \in Nat, l \in Nat : ls = Len(s) /\ l = Len(stop) /\ n \in 0..ls
    BY LenProperties
  <1>2. PICK part : part = SubSeq(s, ls - n + 1, ls)
    OBVIOUS
  <1>3. part \in Seq(C) /\ Len(part) = n /\ \A m \in 1..n : part[m] = s[ls - n + m]
    <2>1. \A i \in (ls - n + 1)..ls : s[i] \in C
      <3>1. \A i \in (ls - n + 1)..ls : i \in 1..ls
        BY <1>1
      <3>2. QED
        BY <1>1, <3>1, ElementOfSeq
    <2>2. ls - n + 1 \in Int /\ ls \in Int /\ ls - (ls - n + 1) + 1 = n /\ (~(ls - n + 1 <= ls) => n = 0)
          /\ \A m \in 1..n : ls - n + 1 + m - 1 = ls - n + m
      BY <1>1
    <2>3. /\ part \in Seq(C)
          /\ Len(part) = IF ls - n + 1 <= ls THEN ls - (ls - n + 1) + 1 ELSE 0
          /\ \A m \in 1..(ls - (ls - n + 1) + 1) : part[m] = s[ls - n + 1 + m - 1]
      BY <1>2, <2>1, <2>2, SubSeqProperties
    <2>4. QED
      BY <2>2, <2>3
  <1>4. IsPrefix(part, stop) <=> n <= l /\ \A m \in 1..n : stop[m] = part[m]
    <2>1. IsPrefix(part, stop) <=> Len(part) <= Len(stop) /\ \A m \in 1..Len(part) : stop[m] = part[m]
      <3>1. part \in Seq(C) /\ stop \in Seq(D)
        BY <1>3
      <3>2. QED
        BY ONLY <3>1, PrefixIff, ZenonT(60)
    <2>2. QED
      BY <1>1, <1>3, <2>1
  <1>5. n < l /\ IsPrefix(part, stop) <=> n < l /\ \A m \in 1..n : s[ls - n + m] = stop[m]
    <2>1. n < l => n <= l
      BY <1>1
    <2>2. ASSUME NEW m \in 1..n PROVE s[ls - n + m] = stop[m] <=> stop[m] = part[m]
      BY <1>3
    <2>3. (\A m \in 1..n : s[ls - n + m] = stop[m]) <=> \A m \in 1..n : stop[m] = part[m]
      BY ONLY <2>2, Zenon
    <2>4. QED
      BY ONLY <1>4, <2>1, <2>3
  <1>6. n <= ls
    BY <1>1
  <1>7. QED
    BY <1>1, <1>2, <1>3, <1>5, <1>6 DEF EndsIn

LEMMA StopFacts ==
  ASSUME NEW list \in StopLists
  PROVE  /\ Len(list) \in Nat /\ DOMAIN list = 1..Len(list)
         /\ \A k \in DOMAIN list : list[k] \in Seq(ToSet(list[k])) /\ Len(list[k]) \in Nat \ {0}
  <1>1. list \in Seq(ToSet(list)) /\ \A stop \in ToSet(list) : stop \in Seq(ToSet(stop)) \ {<<>>}
    BY StreamAssumption
  <1>2. \A k \in DOMAIN list : list[k] \in ToSet(list)
    BY DEF ToSet
  <1>3. QED
    BY <1>1, <1>2, LenProperties, EmptySeq

(* While streaming                                                         *)
Streaming(list, whole, sent, kept) ==
  /\ sent \in Seq(Characters) /\ kept \in Seq(Characters) /\ whole = sent \o kept
  /\ \A k \in DOMAIN list : \A i \in Nat : ~OccursAt(whole, i, list[k])
  /\ \A k \in DOMAIN list : \A n \in Nat : EndsIn(whole, n, list[k]) => n <= Len(kept)
  /\ kept = <<>> \/ \E k \in DOMAIN list : EndsIn(whole, Len(kept), list[k])

(* Once stopped                                                            *)
Stopped(list, whole, sent, stop) ==
  /\ sent \in Seq(Characters) /\ \E k \in DOMAIN list : stop = list[k]
  /\ IsPrefix(sent \o stop, whole)
  /\ \A k \in DOMAIN list : \A i \in Nat : ~OccursAt(sent, i, list[k])

(* Nothing is shown of a stop string before it is found                    *)
LEMMA NextOccurs ==
  ASSUME NEW list \in StopLists, NEW whole, NEW sent, NEW kept, Streaming(list, whole, sent, kept),
         NEW piece \in Seq(Characters), NEW k \in DOMAIN list
  PROVE  /\ \A i \in Nat : OccursAt(whole \o piece, i, list[k]) <=>
                             i - Len(sent) \in Nat /\ OccursAt(kept \o piece, i - Len(sent), list[k])
         /\ \A n \in Nat : EndsIn(whole \o piece, n, list[k]) => EndsIn(kept \o piece, n, list[k])
         /\ \A n \in Nat : EndsIn(kept \o piece, n, list[k]) => EndsIn(whole \o piece, n, list[k])
  <1>1. sent \in Seq(Characters) /\ kept \in Seq(Characters) /\ whole = sent \o kept /\ whole \in Seq(Characters)
    BY ConcatProperties DEF Streaming
  <1>2. PICK ls \in Nat, lk \in Nat, lw \in Nat, lp \in Nat :
          ls = Len(sent) /\ lk = Len(kept) /\ lw = Len(whole) /\ lp = Len(piece)
    BY <1>1, LenProperties
  <1>3. PICK stop : stop = list[k]
    OBVIOUS
  <1>4. PICK l \in Nat \ {0} : l = Len(stop)
    BY <1>3, StopFacts
  <1>5. lw = ls + lk
    BY <1>1, <1>2, ConcatProperties
  <1>6. PICK chars \in Seq(Characters), more \in Seq(Characters), lc \in Nat, lm \in Nat :
          chars = kept \o piece /\ more = whole \o piece /\ lc = Len(chars) /\ lm = Len(more)
    BY <1>1, ConcatProperties, LenProperties
  <1>7. lc = lk + lp /\ lm = lw + lp /\ \A i \in 1..lm : more[i] = IF i <= lw THEN whole[i] ELSE piece[i - lw]
    BY <1>1, <1>2, <1>6, ConcatProperties
  <1>8. more = sent \o chars
    <2>1. (sent \o kept) \o piece = sent \o (kept \o piece)
      BY <1>1, ConcatAssociative
    <2>2. QED
      BY <1>1, <1>6, <2>1
  <1>9. lm = ls + lc /\ \A i \in 1..lm : more[i] = IF i <= ls THEN sent[i] ELSE chars[i - ls]
    BY <1>1, <1>2, <1>6, <1>8, ConcatProperties
  <1>10. ASSUME NEW i \in Nat, i - ls \in Nat
         PROVE  OccursAt(more, i, stop) <=> OccursAt(chars, i - ls, stop) \/ (i = ls /\ OccursAt(more, i, stop))
    <2>1. CASE i = ls
      <3>1. ~(i - ls >= 1)
        BY <2>1
      <3>2. QED
        BY <2>1, <3>1 DEF OccursAt
    <2>2. CASE i > ls
      <3>1. i + l - 1 <= lm <=> i - ls + l - 1 <= lc
        BY <1>9
      <3>2. ASSUME i + l - 1 <= lm, NEW m \in 1..l PROVE more[i + m - 1] = chars[i - ls + m - 1]
        <4>1. PICK j \in 1..lm : j = i + m - 1 /\ ~(j <= ls) /\ j - ls = i - ls + m - 1
          <5>1. i + m - 1 \in 1..lm /\ ~(i + m - 1 <= ls) /\ i + m - 1 - ls = i - ls + m - 1
            BY <2>2, <3>2
          <5>2. QED
            BY <5>1
        <4>2. QED
          BY <1>9, <4>1
      <3>3. i >= 1 /\ i - ls >= 1 /\ i # ls
        BY <2>2
      <3>4. QED
        BY <1>4, <1>6, <3>1, <3>2, <3>3 DEF OccursAt
    <2>3. QED
      BY <1>10, <2>1, <2>2
  <1>11. ASSUME NEW i \in Nat, OccursAt(more, i, stop) PROVE i > ls
    <2>1. SUFFICES ASSUME i <= ls PROVE FALSE
      OBVIOUS
    <2>2. i >= 1 /\ i + l - 1 <= lm /\ \A m \in 1..l : more[i + m - 1] = stop[m]
      BY <1>4, <1>6, <1>11 DEF OccursAt
    <2>3. i + l - 1 > lw
      <3>1. SUFFICES ASSUME i + l - 1 <= lw PROVE FALSE
        OBVIOUS
      <3>2. ASSUME NEW m \in 1..l PROVE whole[i + m - 1] = stop[m]
        <4>1. i + m - 1 \in 1..lm /\ i + m - 1 <= lw
          BY <1>7, <2>2, <3>1
        <4>2. QED
          BY <1>7, <2>2, <4>1
      <3>3. OccursAt(whole, i, stop)
        BY <1>2, <1>4, <2>2, <3>1, <3>2 DEF OccursAt
      <3>4. QED
        BY <1>3, <1>4, <3>3 DEF Streaming
    <2>4. PICK n \in Nat : n = lw - i + 1 /\ n <= lw /\ n < l /\ n > lk
      <3>1. lw - i + 1 \in Nat /\ lw - i + 1 <= lw /\ lw - i + 1 < l /\ lw - i + 1 > lk
        BY <1>5, <2>1, <2>2, <2>3
      <3>2. QED
        BY <3>1
    <2>5. ASSUME NEW m \in 1..n PROVE whole[lw - n + m] = stop[m]
      <3>1. lw - n + m = i + m - 1 /\ i + m - 1 \in 1..lm /\ i + m - 1 <= lw /\ m \in 1..l
        BY <1>7, <2>2, <2>4
      <3>2. QED
        BY <1>7, <2>2, <3>1
    <2>6. EndsIn(whole, n, stop)
      BY <1>2, <1>4, <2>4, <2>5 DEF EndsIn
    <2>7. n <= lk
      BY <1>3, <1>2, <1>4, <2>6 DEF Streaming
    <2>8. QED
      BY <2>4, <2>7
  <1>12. ASSUME NEW i \in Nat
         PROVE  OccursAt(more, i, stop) <=> i - ls \in Nat /\ OccursAt(chars, i - ls, stop)
    <2>1. i > ls => i - ls \in Nat /\ i # ls
      BY <1>2
    <2>2. i = ls => ~OccursAt(more, i, stop)
      BY <1>11
    <2>3. QED
      BY <1>10, <1>11, <2>1, <2>2
  <1>13. ASSUME NEW n \in Nat, n <= lc
         PROVE  EndsIn(more, n, stop) <=> EndsIn(chars, n, stop)
    <2>1. n <= lm
      BY <1>9, <1>13
    <2>2. ASSUME NEW m \in 1..n PROVE more[lm - n + m] = chars[lc - n + m]
      <3>1. lm - n + m \in 1..lm /\ ~(lm - n + m <= ls) /\ lm - n + m - ls = lc - n + m
        BY <1>9, <1>13
      <3>2. QED
        BY <1>9, <3>1
    <2>3. QED
      BY <1>6, <1>13, <2>1, <2>2 DEF EndsIn
  <1>14. ASSUME NEW n \in Nat, EndsIn(more, n, stop) PROVE n <= lc
    <2>1. SUFFICES ASSUME n > lc PROVE FALSE
      BY <1>6
    <2>2. n <= lm /\ n < l /\ \A m \in 1..n : more[lm - n + m] = stop[m]
      BY <1>4, <1>6, <1>14 DEF EndsIn
    <2>3. PICK r \in Nat : r = n - lp /\ r > lk /\ r <= lw /\ r < l /\ lw - r = lm - n /\ r <= n
      <3>1. lc = lk + lp /\ lm = lw + lp /\ n > lc /\ n <= lm /\ n < l
        BY <1>7, <2>1, <2>2
      <3>2. PICK r \in Nat : r = n - lp
        BY <3>1
      <3>3. r > lk /\ r <= lw /\ r < l /\ lw - r = lm - n /\ r <= n
        BY ONLY <3>1, <3>2, n \in Nat, l \in Nat, lc \in Nat, lm \in Nat, lw \in Nat, lk \in Nat, lp \in Nat,
           r \in Nat
      <3>4. QED
        BY <3>2, <3>3
    <2>4. ASSUME NEW m \in 1..r PROVE whole[lw - r + m] = stop[m]
      <3>1. lw - r + m \in 1..lm /\ lw - r + m <= lw /\ lw - r + m = lm - n + m /\ m \in 1..n
        BY <1>7, <2>3
      <3>2. QED
        BY <1>7, <2>2, <3>1
    <2>5. EndsIn(whole, r, stop)
      BY <1>2, <1>4, <2>3, <2>4 DEF EndsIn
    <2>6. r <= lk
      BY <1>3, <1>2, <1>4, <2>5 DEF Streaming
    <2>7. QED
      BY <2>3, <2>6
  <1>15. \A n \in Nat : EndsIn(more, n, stop) => EndsIn(chars, n, stop)
    BY <1>13, <1>14
  <1>16. \A n \in Nat : EndsIn(chars, n, stop) => EndsIn(more, n, stop)
    <2>1. \A n \in Nat : EndsIn(chars, n, stop) => n <= lc
      BY <1>6 DEF EndsIn
    <2>2. QED
      BY <1>13, <2>1
  <1>17. QED
    BY <1>2, <1>3, <1>6, <1>12, <1>15, <1>16

LEMMA GreatestOf ==
  ASSUME NEW n \in Nat, NEW S \in SUBSET (0..n), S # {}
  PROVE  \E m \in S : \A i \in S : i <= m
  <1>1. IsFiniteSet(S)
    <2>1. 0 \in Int /\ n \in Int
      OBVIOUS
    <2>2. IsFiniteSet(0..n)
      BY <2>1, FS_Interval
    <2>3. QED
      BY <2>2, FS_Subset
  <1>2. PICK f : f = [i \in S |-> n - i]
    OBVIOUS
  <1>3. \A i \in S : f[i] = n - i /\ f[i] \in Int
    BY <1>2
  <1>4. PICK m \in S : \A i \in S : f[m] <= f[i]
    BY <1>1, <1>3, LeastOf
  <1>5. \A i \in S : n - m <= n - i => i <= m
    OBVIOUS
  <1>6. QED
    BY <1>3, <1>4, <1>5

LEMMA LeastNumber ==
  ASSUME NEW n \in Nat, NEW S \in SUBSET (0..n), S # {}
  PROVE  \E m \in S : \A i \in S : m <= i
  <1>1. IsFiniteSet(S)
    <2>1. 0 \in Int /\ n \in Int
      OBVIOUS
    <2>2. IsFiniteSet(0..n)
      BY <2>1, FS_Interval
    <2>3. QED
      BY <2>2, FS_Subset
  <1>2. PICK f : f = [i \in S |-> i]
    OBVIOUS
  <1>3. \A i \in S : f[i] = i /\ f[i] \in Int
    BY <1>2
  <1>4. PICK m \in S : \A i \in S : f[m] <= f[i]
    BY <1>1, <1>3, LeastOf
  <1>5. QED
    BY <1>3, <1>4

(* What is held is the longest that may become a stop string               *)
LEMMA HoldIs ==
  ASSUME stops \in StopLists, stops # <<>>, NEW chars \in Seq(Characters),
         NEW hold, hold = LongestPartialSuffix(chars)
  PROVE  /\ hold \in 0..Len(chars)
         /\ \E k \in DOMAIN stops : EndsIn(chars, hold, stops[k])
         /\ \A k \in DOMAIN stops : \A n \in Nat : EndsIn(chars, n, stops[k]) => n <= hold
  <1>1. PICK lc \in Nat : lc = Len(chars)
    BY LenProperties
  <1>2. PICK held : held = {n \in 0..Len(chars) :
                 \E k \in DOMAIN stops :
                   n < Len(stops[k]) /\ IsPrefix(SubSeq(chars, Len(chars) - n + 1, Len(chars)), stops[k])}
    OBVIOUS
  <1>3. hold = CHOOSE n \in held : \A m \in held : m <= n
    BY <1>2 DEF LongestPartialSuffix
  <1>4. \A k \in DOMAIN stops : stops[k] \in Seq(ToSet(stops[k])) /\ Len(stops[k]) \in Nat \ {0}
    BY StopFacts
  <1>5. ASSUME NEW n PROVE n \in held <=> n \in 0..lc /\ \E k \in DOMAIN stops : EndsIn(chars, n, stops[k])
    <2>1. ASSUME n \in 0..lc, NEW k \in DOMAIN stops
          PROVE  n < Len(stops[k]) /\ IsPrefix(SubSeq(chars, Len(chars) - n + 1, Len(chars)), stops[k])
                   <=> EndsIn(chars, n, stops[k])
      <3>1. n \in 0..Len(chars) /\ stops[k] \in Seq(ToSet(stops[k]))
        BY <1>1, <1>4, <2>1
      <3>2. QED
        BY <3>1, SuffixIff
    <2>2. QED
      BY <1>1, <1>2, <2>1
  <1>6. held # {}
    <2>1. 1 \in DOMAIN stops
      <3>1. stops \in Seq(ToSet(stops))
        BY StreamAssumption
      <3>2. Len(stops) \in Nat \ {0} /\ DOMAIN stops = 1..Len(stops)
        BY <3>1, EmptySeq, LenProperties
      <3>3. QED
        BY <3>2
    <2>2. EndsIn(chars, 0, stops[1])
      BY <1>1, <1>4, <2>1 DEF EndsIn
    <2>3. QED
      BY <1>1, <1>5, <2>1, <2>2
  <1>7. held \in SUBSET (0..lc)
    BY <1>5
  <1>8. \E n \in held : \A m \in held : m <= n
    BY <1>6, <1>7, GreatestOf
  <1>9. hold \in held /\ \A m \in held : m <= hold
    BY <1>3, <1>8
  <1>10. ASSUME NEW k \in DOMAIN stops, NEW n \in Nat, EndsIn(chars, n, stops[k]) PROVE n <= hold
    <2>1. n \in 0..lc
      BY <1>1, <1>10 DEF EndsIn
    <2>2. QED
      BY <1>5, <1>9, <1>10, <2>1
  <1>11. QED
    BY <1>1, <1>5, <1>9, <1>10

(* The stop string that begins first                                       *)
Begins(chars, f) ==
  /\ f[1] \in Nat /\ f[2] \in DOMAIN stops
  /\ OccursAt(chars, f[1], stops[f[2]])
  /\ \A k \in DOMAIN stops : \A i \in Nat : OccursAt(chars, i, stops[k]) => f[1] <= i

Foremost(found) == CHOOSE f \in found : \A g \in found : f[1] < g[1] \/ (f[1] = g[1] /\ f[2] <= g[2])

Found(chars) == {f \in (DOMAIN chars) \X (DOMAIN stops) : f[1] \in Finds(chars, stops[f[2]])}

LEMMA FoundIs ==
  ASSUME stops \in StopLists, NEW chars \in Seq(Characters)
  PROVE  /\ Found(chars) = {} => \A k \in DOMAIN stops : \A i \in Nat : ~OccursAt(chars, i, stops[k])
         /\ Found(chars) # {} => Begins(chars, Foremost(Found(chars)))
  <1>1. PICK lc \in Nat : lc = Len(chars) /\ DOMAIN chars = 1..lc
    BY LenProperties
  <1>2. PICK ll \in Nat : ll = Len(stops) /\ DOMAIN stops = 1..ll
    BY StopFacts
  <1>3. \A k \in DOMAIN stops : stops[k] \in Seq(ToSet(stops[k])) /\ Len(stops[k]) \in Nat \ {0}
    BY StopFacts
  <1>4. PICK found : found = Found(chars)
    OBVIOUS
  <1>5. ASSUME NEW i, NEW k \in DOMAIN stops
        PROVE  <<i, k>> \in found <=> i \in Nat /\ OccursAt(chars, i, stops[k])
    <2>1. i \in Finds(chars, stops[k]) <=> i \in Nat /\ OccursAt(chars, i, stops[k])
      <3>1. stops[k] \in Seq(ToSet(stops[k]))
        BY <1>3
      <3>2. QED
        BY <3>1, FindsIff
    <2>2. ASSUME i \in Nat, OccursAt(chars, i, stops[k]) PROVE i \in DOMAIN chars
      <3>1. PICK l \in Nat \ {0} : l = Len(stops[k])
        BY <1>3
      <3>2. i >= 1 /\ i + l - 1 <= lc
        BY <1>1, <2>2, <3>1 DEF OccursAt
      <3>3. i \in 1..lc
        BY <2>2, <3>2
      <3>4. QED
        BY <1>1, <3>3
    <2>3. <<i, k>> \in found <=> i \in DOMAIN chars /\ i \in Finds(chars, stops[k])
      BY <1>4 DEF Found
    <2>4. QED
      BY <2>1, <2>2, <2>3
  <1>6. \A f \in found : f = <<f[1], f[2]>> /\ f[1] \in 1..lc /\ f[2] \in 1..ll
    BY <1>1, <1>2, <1>4 DEF Found
  <1>7. ASSUME found = {} PROVE \A k \in DOMAIN stops : \A i \in Nat : ~OccursAt(chars, i, stops[k])
    BY <1>5, <1>7
  <1>8. ASSUME found # {} PROVE Begins(chars, Foremost(found))
    <2>1. PICK S : S = {i \in 0..lc : \E f \in found : f[1] = i}
      OBVIOUS
    <2>2. S # {}
      BY <1>6, <1>8, <2>1
    <2>3. PICK a \in S : \A i \in S : a <= i
      BY <2>1, <2>2, LeastNumber
    <2>4. PICK T : T = {k \in 0..ll : \E f \in found : f[1] = a /\ f[2] = k}
      OBVIOUS
    <2>5. T # {}
      BY <1>6, <2>1, <2>3, <2>4
    <2>6. PICK b \in T : \A k \in T : b <= k
      BY <2>4, <2>5, LeastNumber
    <2>7. PICK f \in found : f[1] = a /\ f[2] = b
      BY <2>4, <2>6
    <2>8. ASSUME NEW g \in found PROVE f[1] < g[1] \/ (f[1] = g[1] /\ f[2] <= g[2])
      <3>1. a \in Nat /\ g[1] \in Nat /\ a <= g[1]
        BY <1>6, <2>1, <2>3
      <3>2. g[1] = a => b <= g[2]
        BY <1>6, <2>4, <2>6
      <3>3. QED
        BY <2>7, <3>1, <3>2
    <2>9. PICK e : e = Foremost(found)
      OBVIOUS
    <2>10. e \in found /\ \A g \in found : e[1] < g[1] \/ (e[1] = g[1] /\ e[2] <= g[2])
      BY <2>8, <2>9 DEF Foremost
    <2>11. e[1] \in Nat /\ e[2] \in DOMAIN stops /\ OccursAt(chars, e[1], stops[e[2]])
      BY <1>2, <1>5, <1>6, <2>10
    <2>12. ASSUME NEW k \in DOMAIN stops, NEW i \in Nat, OccursAt(chars, i, stops[k]) PROVE e[1] <= i
      <3>1. PICK g : g = <<i, k>>
        OBVIOUS
      <3>2. g \in found /\ g[1] = i
        BY <1>5, <2>12, <3>1
      <3>3. e[1] < i \/ e[1] = i
        BY <2>10, <3>2
      <3>4. QED
        BY <2>11, <3>3
    <2>13. QED
      BY <2>9, <2>11, <2>12 DEF Begins
  <1>9. QED
    BY <1>4, <1>7, <1>8

LEMMA SplitAt ==
  ASSUME NEW C, NEW s \in Seq(C), NEW a \in 0..Len(s)
  PROVE  /\ SubSeq(s, 1, a) \in Seq(C) /\ SubSeq(s, a + 1, Len(s)) \in Seq(C)
         /\ Len(SubSeq(s, 1, a)) = a /\ Len(SubSeq(s, a + 1, Len(s))) = Len(s) - a
         /\ \A i \in 1..a : SubSeq(s, 1, a)[i] = s[i]
         /\ SubSeq(s, 1, a) \o SubSeq(s, a + 1, Len(s)) = s
  <1>1. PICK n \in Nat : n = Len(s) /\ a \in 0..n
    BY LenProperties
  <1>2. PICK p, q : p = SubSeq(s, 1, a) /\ q = SubSeq(s, a + 1, n)
    OBVIOUS
  <1>3. \A i \in 1..n : s[i] \in C
    BY <1>1, ElementOfSeq
  <1>4. p \in Seq(C) /\ Len(p) = a /\ \A i \in 1..a : p[i] = s[i]
    <2>1. \A i \in 1..a : s[i] \in C
      <3>1. \A i \in 1..a : i \in 1..n
        BY <1>1
      <3>2. QED
        BY <1>3, <3>1
    <2>2. /\ p \in Seq(C) /\ Len(p) = IF 1 <= a THEN a - 1 + 1 ELSE 0
          /\ \A i \in 1..(a - 1 + 1) : p[i] = s[1 + i - 1]
      BY <1>2, <2>1, SubSeqProperties
    <2>3. a - 1 + 1 = a /\ (~(1 <= a) => a = 0) /\ \A i \in 1..a : 1 + i - 1 = i
      BY <1>1
    <2>4. QED
      BY <2>2, <2>3
  <1>5. q \in Seq(C) /\ Len(q) = n - a /\ \A i \in 1..(n - a) : q[i] = s[a + i]
    <2>1. \A i \in (a + 1)..n : s[i] \in C
      <3>1. \A i \in (a + 1)..n : i \in 1..n
        BY <1>1
      <3>2. QED
        BY <1>3, <3>1
    <2>2. /\ q \in Seq(C) /\ Len(q) = IF a + 1 <= n THEN n - (a + 1) + 1 ELSE 0
          /\ \A i \in 1..(n - (a + 1) + 1) : q[i] = s[a + 1 + i - 1]
      BY <1>1, <1>2, <2>1, SubSeqProperties
    <2>3. n - (a + 1) + 1 = n - a /\ (~(a + 1 <= n) => n - a = 0) /\ \A i \in 1..(n - a) : a + 1 + i - 1 = a + i
      BY <1>1
    <2>4. QED
      BY <2>2, <2>3
  <1>6. PICK u : u = p \o q
    OBVIOUS
  <1>7. /\ u \in Seq(C) /\ Len(u) = a + (n - a)
        /\ \A i \in 1..(a + (n - a)) : u[i] = IF i <= a THEN p[i] ELSE q[i - a]
    <2>1. /\ p \o q \in Seq(C) /\ Len(p \o q) = Len(p) + Len(q)
          /\ \A i \in 1..(Len(p) + Len(q)) : (p \o q)[i] = IF i <= Len(p) THEN p[i] ELSE q[i - Len(p)]
      BY <1>4, <1>5, ConcatProperties
    <2>2. QED
      BY ONLY <1>4, <1>5, <1>6, <2>1
  <1>8. a + (n - a) = n
    BY <1>1
  <1>9. ASSUME NEW i \in 1..n PROVE u[i] = s[i]
    <2>1. CASE i <= a
      <3>1. i \in 1..a
        BY <2>1, <1>1
      <3>2. QED
        BY <1>4, <1>7, <1>8, <2>1, <3>1
    <2>2. CASE ~(i <= a)
      <3>1. i - a \in 1..(n - a) /\ a + (i - a) = i
        BY <1>1, <2>2
      <3>2. QED
        BY <1>5, <1>7, <1>8, <2>2, <3>1
    <2>3. QED
      BY <2>1, <2>2
  <1>10. u = s
    BY <1>1, <1>7, <1>8, <1>9, SeqEqual
  <1>11. QED
    BY <1>1, <1>2, <1>4, <1>5, <1>6, <1>10

(* feed() sends what no stop string can begin in, and holds the rest       *)
LEMMA FeedSends ==
  ASSUME stops \in StopLists, triggered = <<>>, NEW whole, Streaming(stops, whole, text, buffer),
         NEW piece \in Seq(Characters), FeedChecker(piece)
  PROVE  \/ triggered' = <<>> /\ Streaming(stops, whole \o piece, text', buffer')
         \/ triggered' # <<>> /\ buffer' = <<>> /\ Stopped(stops, whole \o piece, text', triggered')
  <1>1. /\ text \in Seq(Characters) /\ buffer \in Seq(Characters) /\ whole = text \o buffer
        /\ whole \in Seq(Characters)
    BY ConcatProperties DEF Streaming
  <1>2. PICK chars \in Seq(Characters), more \in Seq(Characters) :
          chars = buffer \o piece /\ more = whole \o piece
    BY <1>1, ConcatProperties
  <1>3. PICK lt \in Nat, lc \in Nat : lt = Len(text) /\ lc = Len(chars) /\ DOMAIN chars = 1..lc
    BY <1>1, <1>2, LenProperties
  <1>4. more = text \o chars
    <2>1. (text \o buffer) \o piece = text \o (buffer \o piece)
      BY <1>1, ConcatAssociative
    <2>2. QED
      BY <1>1, <1>2, <2>1
  <1>5. /\ Len(more) = lt + lc
        /\ \A i \in 1..(lt + lc) : more[i] = IF i <= lt THEN text[i] ELSE chars[i - lt]
    BY <1>1, <1>3, <1>4, ConcatProperties
  <1>6. ASSUME NEW k \in DOMAIN stops
        PROVE  /\ \A i \in Nat : OccursAt(more, i, stops[k]) <=> i - lt \in Nat /\ OccursAt(chars, i - lt, stops[k])
               /\ \A n \in Nat : EndsIn(more, n, stops[k]) <=> EndsIn(chars, n, stops[k])
    BY <1>2, <1>3, NextOccurs
  <1>7. \A k \in DOMAIN stops : stops[k] \in Seq(ToSet(stops[k])) /\ Len(stops[k]) \in Nat \ {0}
    BY StopFacts
  <1>8. ASSUME NEW a \in 0..lc
        PROVE  /\ SubSeq(chars, 1, a) \in Seq(Characters) /\ Len(SubSeq(chars, 1, a)) = a
               /\ \A i \in 1..a : SubSeq(chars, 1, a)[i] = chars[i]
    BY <1>3, SplitAt
  <1>9. CASE stops = <<>>
    <2>1. text' = text \o piece /\ buffer' = buffer /\ triggered' = triggered
      BY <1>9 DEF FeedChecker
    <2>2. DOMAIN stops = {}
      BY <1>9
    <2>3. buffer = <<>>
      BY <2>2 DEF Streaming
    <2>4. chars = piece /\ text \o piece \in Seq(Characters) /\ (text \o piece) \o <<>> = text \o piece
      BY <1>1, <1>2, <2>3, ConcatProperties, ConcatEmptySeq
    <2>5. Streaming(stops, more, text', buffer')
      BY <1>1, <1>4, <2>1, <2>2, <2>3, <2>4 DEF Streaming
    <2>6. QED
      BY <1>2, <2>1, <2>5
  <1>10. CASE stops # <<>> /\ Found(chars) # {}
    <2>1. PICK f : f = Foremost(Found(chars))
      OBVIOUS
    <2>2. Begins(chars, f)
      BY <1>10, <2>1, FoundIs
    <2>3. text' = text \o SubSeq(chars, 1, f[1] - 1) /\ buffer' = <<>> /\ triggered' = stops[f[2]]
      BY <1>2, <1>10, <2>1 DEF FeedChecker, Found, Foremost
    <2>4. PICK stop : stop = stops[f[2]]
      OBVIOUS
    <2>5. stop \in Seq(ToSet(stop)) /\ Len(stop) \in Nat \ {0}
      BY <1>7, <2>2, <2>4 DEF Begins
    <2>6. PICK l \in Nat : l = Len(stop) /\ l >= 1 /\ stop = stops[f[2]] /\ stop \in Seq(ToSet(stop))
      BY <2>4, <2>5
    <2>7. f[1] \in Nat /\ f[1] >= 1 /\ f[1] + l - 1 <= lc /\ \A m \in 1..l : chars[f[1] + m - 1] = stop[m]
      BY <1>3, <2>2, <2>6 DEF Begins, OccursAt
    <2>8. PICK a \in 0..lc : a = f[1] - 1 /\ f[1] = a + 1 /\ a + l <= lc
      <3>1. f[1] - 1 \in 0..lc /\ f[1] = f[1] - 1 + 1 /\ f[1] - 1 + l <= lc
        BY <2>7
      <3>2. QED
        BY <3>1
    <2>9. PICK sent \in Seq(Characters), part \in Seq(Characters) :
            sent = text \o part /\ part = SubSeq(chars, 1, a) /\ text' = sent /\ Len(part) = a
      BY <1>1, <1>8, <2>3, <2>8, ConcatProperties
    <2>10. /\ Len(sent) = lt + a
           /\ \A i \in 1..(lt + a) : sent[i] = IF i <= lt THEN text[i] ELSE part[i - lt]
      BY <1>1, <1>3, <2>9, ConcatProperties
    <2>11. ASSUME NEW i \in 1..(lt + a) PROVE sent[i] = more[i]
      <3>1. i \in 1..(lt + lc)
        BY <2>8
      <3>2. CASE i <= lt
        BY <1>5, <2>10, <3>1, <3>2
      <3>3. CASE ~(i <= lt)
        <4>1. i - lt \in 1..a
          BY <3>3
        <4>2. part[i - lt] = chars[i - lt]
          BY <1>8, <2>9, <4>1
        <4>3. QED
          BY <1>5, <2>10, <3>1, <3>3, <4>2
      <3>4. QED
        BY <3>2, <3>3
    <2>12. ASSUME NEW m \in 1..l PROVE more[lt + a + m] = stop[m]
      <3>1. lt + a + m \in 1..(lt + lc) /\ ~(lt + a + m <= lt) /\ lt + a + m - lt = a + m
        <4>1. a + l <= lc
          BY <2>8
        <4>2. QED
          BY ONLY <4>1, lt \in Nat, lc \in Nat, l \in Nat, a \in 0..lc, m \in 1..l
      <3>2. more[lt + a + m] = chars[a + m]
        BY <1>5, <3>1
      <3>3. chars[a + m] = stop[m]
        <4>1. f[1] + m - 1 = a + m
          BY <2>8
        <4>2. QED
          BY <2>7, <4>1
      <3>4. QED
        BY <3>2, <3>3
    <2>13. IsPrefix(sent \o stop, more)
      <3>1. PICK C : C = Characters \cup ToSet(stop)
        OBVIOUS
      <3>2. sent \in Seq(C) /\ stop \in Seq(C) /\ more \in Seq(C)
        <4>1. Characters \subseteq C /\ ToSet(stop) \subseteq C
          BY <3>1
        <4>2. QED
          BY <2>6, <4>1, SeqMonotonic
      <3>3. PICK u : u = sent \o stop
        OBVIOUS
      <3>4. /\ u \in Seq(C) /\ Len(u) = lt + a + l
            /\ \A i \in 1..(lt + a + l) : u[i] = IF i <= lt + a THEN sent[i] ELSE stop[i - (lt + a)]
        <4>1. /\ sent \o stop \in Seq(C) /\ Len(sent \o stop) = Len(sent) + Len(stop)
              /\ \A i \in 1..(Len(sent) + Len(stop)) :
                   (sent \o stop)[i] = IF i <= Len(sent) THEN sent[i] ELSE stop[i - Len(sent)]
          BY <3>2, ConcatProperties
        <4>2. Len(sent) = lt + a /\ Len(stop) = l
          BY <2>6, <2>10
        <4>3. QED
          BY ONLY <3>3, <4>1, <4>2
      <3>5. ASSUME NEW i \in 1..(lt + a + l) PROVE more[i] = u[i]
        <4>1. CASE i <= lt + a
          <5>1. i \in 1..(lt + a)
            BY <4>1
          <5>2. QED
            BY <2>11, <3>4, <4>1, <5>1
        <4>2. CASE ~(i <= lt + a)
          <5>1. PICK m \in 1..l : m = i - (lt + a) /\ lt + a + m = i
            <6>1. i - (lt + a) \in 1..l /\ lt + a + (i - (lt + a)) = i
              BY <4>2
            <6>2. QED
              BY <6>1
          <5>2. QED
            BY <2>12, <3>4, <4>2, <5>1
        <4>3. QED
          BY <4>1, <4>2
      <3>6. lt + a + l <= lt + lc
        BY <2>8
      <3>7. QED
        BY <1>5, <3>2, <3>3, <3>4, <3>5, <3>6, PrefixIff
    <2>14. ASSUME NEW k \in DOMAIN stops, NEW i \in Nat, OccursAt(sent, i, stops[k]) PROVE FALSE
      <3>1. PICK r \in Nat \ {0} : r = Len(stops[k])
        BY <1>7
      <3>2. i >= 1 /\ i + r - 1 <= lt + a /\ \A m \in 1..r : sent[i + m - 1] = stops[k][m]
        BY <2>10, <2>14, <3>1 DEF OccursAt
      <3>3. ASSUME NEW m \in 1..r PROVE more[i + m - 1] = stops[k][m]
        <4>1. i + m - 1 \in 1..(lt + a)
          BY <3>2
        <4>2. QED
          BY <2>11, <3>2, <4>1
      <3>4. i + r - 1 <= lt + lc
        <4>1. i + r - 1 <= lt + a
          BY <3>2
        <4>2. a <= lc
          BY <2>8
        <4>3. QED
          BY ONLY <4>1, <4>2, lt \in Nat, lc \in Nat, r \in Nat, a \in Nat, i \in Nat
      <3>5. OccursAt(more, i, stops[k])
        BY <1>5, <3>1, <3>2, <3>3, <3>4 DEF OccursAt
      <3>6. i - lt \in Nat /\ OccursAt(chars, i - lt, stops[k])
        BY <1>6, <3>5
      <3>7. f[1] <= i - lt
        BY <2>2, <3>6 DEF Begins
      <3>8. QED
        <4>1. a + 1 <= i - lt /\ i + r - 1 <= lt + a /\ r >= 1
          BY <2>8, <3>2, <3>7
        <4>2. QED
          BY ONLY <4>1, lt \in Nat, r \in Nat, a \in 0..lc, i \in Nat
    <2>15. stop # <<>>
      <3>1. Len(<<>>) = 0
        BY EmptySeq
      <3>2. QED
        BY <2>6, <3>1
    <2>16. f[2] \in DOMAIN stops
      BY <2>2 DEF Begins
    <2>17. Stopped(stops, more, text', triggered')
      BY <2>3, <2>6, <2>9, <2>13, <2>14, <2>16 DEF Stopped
    <2>18. QED
      BY <1>2, <2>3, <2>6, <2>15, <2>17
  <1>11. CASE stops # <<>> /\ Found(chars) = {}
    <2>1. PICK hold : hold = LongestPartialSuffix(chars)
      OBVIOUS
    <2>2. /\ hold \in 0..lc
          /\ \E k \in DOMAIN stops : EndsIn(chars, hold, stops[k])
          /\ \A k \in DOMAIN stops : \A n \in Nat : EndsIn(chars, n, stops[k]) => n <= hold
      BY <1>3, <1>11, <2>1, HoldIs
    <2>3. /\ text' = text \o SubSeq(chars, 1, Len(chars) - hold)
          /\ buffer' = SubSeq(chars, Len(chars) - hold + 1, Len(chars))
          /\ triggered' = triggered
      BY <1>2, <1>11, <2>1 DEF FeedChecker, Found
    <2>4. PICK a \in 0..lc : a = lc - hold /\ lc - a = hold
      <3>1. lc - hold \in 0..lc /\ lc - (lc - hold) = hold
        BY <2>2
      <3>2. QED
        BY <3>1
    <2>5. PICK part, kept : part = SubSeq(chars, 1, a) /\ kept = SubSeq(chars, a + 1, lc)
      OBVIOUS
    <2>6. text' = text \o part /\ buffer' = kept
      BY <1>3, <2>3, <2>4, <2>5
    <2>7. part \in Seq(Characters) /\ kept \in Seq(Characters) /\ part \o kept = chars /\ Len(kept) = hold
      BY <1>3, <2>4, <2>5, SplitAt
    <2>8. more = (text \o part) \o kept /\ text \o part \in Seq(Characters)
      <3>1. (text \o part) \o kept = text \o (part \o kept)
        <4>1. text \in Seq(Characters) /\ part \in Seq(Characters) /\ kept \in Seq(Characters)
          BY <1>1, <2>7
        <4>2. QED
          BY ONLY <4>1, ConcatAssociative
      <3>2. QED
        BY <1>1, <1>4, <2>7, <3>1, ConcatProperties
    <2>9. \A k \in DOMAIN stops : \A i \in Nat : ~OccursAt(more, i, stops[k])
      BY <1>6, <1>11, FoundIs
    <2>10. \A k \in DOMAIN stops : \A n \in Nat : EndsIn(more, n, stops[k]) => n <= hold
      BY <1>6, <2>2
    <2>11. \E k \in DOMAIN stops : EndsIn(more, hold, stops[k])
      <3>1. hold \in Nat
        BY <2>2
      <3>2. QED
        BY <1>6, <2>2, <3>1
    <2>12. Streaming(stops, more, text', buffer')
      BY <2>6, <2>7, <2>8, <2>9, <2>10, <2>11 DEF Streaming
    <2>13. QED
      BY <1>2, <2>3, <2>12
  <1>12. QED
    BY <1>9, <1>10, <1>11

-----------------------------------------------------------------------------
(***************************************************************************)
(* The stream.                                                             *)
(***************************************************************************)
Sound == Clean(Decoded(tokenIds)) /\ NotDrowned(tokenIds)

Sent(whole) ==
  /\ streaming => Streaming(stops, whole, text, buffer)
  /\ ~streaming /\ triggered = <<>> =>
       /\ text = whole /\ buffer = <<>>
       /\ \A k \in DOMAIN stops : \A i \in Nat : ~OccursAt(whole, i, stops[k])
  /\ ~streaming /\ triggered # <<>> => buffer = <<>> /\ Stopped(stops, whole, text, triggered)

StreamInv ==
  /\ stops \in StopLists /\ tokenIds \in Seq(DOMAIN Vocabulary) /\ decodedUpto = Len(tokenIds)
  /\ streaming \in BOOLEAN /\ (streaming => triggered = <<>>)
  /\ Sound => Sent(Decoded(tokenIds).text)

LEMMA DecodedIs ==
  ASSUME NEW ids \in Seq(DOMAIN Vocabulary)
  PROVE  Decoded(ids) = Between(ids, 0, Len(ids)) /\ Decoded(ids) \in Decodings
  <1>1. SubSeq(ids, 0 + 1, Len(ids)) = ids
    BY SubSeqFull
  <1>2. Decoded(ids) = Between(ids, 0, Len(ids))
    BY <1>1 DEF Between
  <1>3. 0 \in 0..Len(ids) /\ Len(ids) \in 0..Len(ids)
    BY LenProperties
  <1>4. QED
    BY <1>2, <1>3, BetweenSteps

LEMMA SoundIff ==
  ASSUME tokenIds \in Seq(DOMAIN Vocabulary)
  PROVE  Sound <=> WellFormed /\ Undrowned
  <1>1. PICK n \in Nat : n = Len(tokenIds) /\ DOMAIN tokenIds = 1..n
    BY LenProperties
  <1>2. PICK s \in Seq(Characters) : s = Decoded(tokenIds).text
    BY DecodedIs DEF Decodings
  <1>3. DOMAIN s = 1..Len(s)
    BY LenProperties
  <1>4. WellFormed <=> Clean(Decoded(tokenIds))
    BY <1>2, <1>3 DEF WellFormed, Clean, ToSet
  <1>5. Undrowned <=> NotDrowned(tokenIds)
    BY <1>1 DEF Undrowned, NotDrowned
  <1>6. QED
    BY <1>4, <1>5 DEF Sound

LEMMA StreamSplit == ASSUME StreamInv PROVE StreamExact
  <1>1. SUFFICES ASSUME WellFormed, Undrowned
        PROVE  LET whole == RStrip(Decode(tokenIds))
               IN /\ IF triggered = <<>> THEN text \o buffer = whole ELSE IsPrefix(text \o triggered, whole)
                  /\ triggered = <<>> => \A k \in DOMAIN stops : Finds(whole, stops[k]) = {}
                  /\ \A k \in DOMAIN stops : Finds(text, stops[k]) = {}
                  /\ streaming => \/ buffer = <<>>
                                  \/ \E k \in DOMAIN stops : buffer # stops[k] /\ IsPrefix(buffer, stops[k])
    BY DEF StreamExact
  <1>2. Sound /\ Sent(Decoded(tokenIds).text) /\ tokenIds \in Seq(DOMAIN Vocabulary) /\ stops \in StopLists
        /\ streaming \in BOOLEAN /\ (streaming => triggered = <<>>)
    BY <1>1, SoundIff DEF StreamInv
  <1>3. PICK d \in Decodings : d = Decoded(tokenIds)
    BY <1>2, DecodedIs
  <1>4. PICK whole \in Seq(Characters) : whole = d.text
    BY DEF Decodings
  <1>5. RStrip(Decode(tokenIds)) = whole
    <2>1. ASSUME Len(whole) > 0 PROVE whole[Len(whole)] # "?"
      <3>1. Len(whole) \in 1..Len(whole)
        BY <2>1, LenProperties
      <3>2. QED
        BY <1>2, <1>3, <1>4, <3>1 DEF Sound, Clean
    <2>2. QED
      BY <1>3, <1>4, <2>1, RenderedText
  <1>6. Sent(whole)
    BY <1>2, <1>3, <1>4
  <1>7. \A k \in DOMAIN stops : stops[k] \in Seq(ToSet(stops[k])) /\ Len(stops[k]) \in Nat \ {0}
    BY <1>2, StopFacts
  <1>8. ASSUME NEW s \in Seq(Characters), \A k \in DOMAIN stops : \A i \in Nat : ~OccursAt(s, i, stops[k])
        PROVE  \A k \in DOMAIN stops : Finds(s, stops[k]) = {}
    BY <1>7, <1>8, FindsIff
  <1>9. CASE streaming
    <2>1. Streaming(stops, whole, text, buffer) /\ triggered = <<>>
      BY <1>2, <1>6, <1>9 DEF Sent
    <2>2. /\ text \in Seq(Characters) /\ buffer \in Seq(Characters) /\ text \o buffer = whole
          /\ \A k \in DOMAIN stops : \A i \in Nat : ~OccursAt(whole, i, stops[k])
      BY <2>1 DEF Streaming
    <2>3. \A k \in DOMAIN stops : \A i \in Nat : ~OccursAt(text, i, stops[k])
      <3>1. SUFFICES ASSUME NEW k \in DOMAIN stops, NEW i \in Nat, OccursAt(text, i, stops[k]) PROVE FALSE
        OBVIOUS
      <3>2. PICK l \in Nat \ {0}, lt \in Nat, lb \in Nat :
              l = Len(stops[k]) /\ lt = Len(text) /\ lb = Len(buffer)
        BY <1>7, <2>2, LenProperties
      <3>3. /\ Len(whole) = lt + lb
            /\ \A m \in 1..(lt + lb) : whole[m] = IF m <= lt THEN text[m] ELSE buffer[m - lt]
        BY <2>2, <3>2, ConcatProperties
      <3>4. i >= 1 /\ i + l - 1 <= lt /\ \A m \in 1..l : text[i + m - 1] = stops[k][m]
        BY <3>1, <3>2 DEF OccursAt
      <3>5. ASSUME NEW m \in 1..l PROVE whole[i + m - 1] = stops[k][m]
        <4>1. i + m - 1 \in 1..(lt + lb) /\ i + m - 1 <= lt
          BY <3>4
        <4>2. QED
          BY <3>3, <3>4, <4>1
      <3>6. i + l - 1 <= lt + lb
        BY <3>4
      <3>7. OccursAt(whole, i, stops[k])
        BY <3>2, <3>3, <3>4, <3>5, <3>6 DEF OccursAt
      <3>8. QED
        BY <2>2, <3>7
    <2>4. buffer = <<>> \/ \E k \in DOMAIN stops : buffer # stops[k] /\ IsPrefix(buffer, stops[k])
      <3>1. ASSUME NEW k \in DOMAIN stops, EndsIn(whole, Len(buffer), stops[k])
            PROVE  buffer # stops[k] /\ IsPrefix(buffer, stops[k])
        <4>1. PICK lt \in Nat, lb \in Nat : lt = Len(text) /\ lb = Len(buffer)
          BY <2>2, LenProperties
        <4>2. /\ Len(whole) = lt + lb
              /\ \A m \in 1..(lt + lb) : whole[m] = IF m <= lt THEN text[m] ELSE buffer[m - lt]
          BY <2>2, <4>1, ConcatProperties
        <4>3. lb < Len(stops[k]) /\ \A m \in 1..lb : whole[lt + lb - lb + m] = stops[k][m]
          BY <3>1, <4>1, <4>2 DEF EndsIn
        <4>4. ASSUME NEW m \in 1..lb PROVE stops[k][m] = buffer[m]
          <5>1. lt + lb - lb + m = lt + m /\ lt + m \in 1..(lt + lb) /\ ~(lt + m <= lt) /\ lt + m - lt = m
            OBVIOUS
          <5>2. QED
            BY <4>2, <4>3, <5>1
        <4>5. PICK l \in Nat : l = Len(stops[k])
          BY <1>7
        <4>6. lb <= l /\ lb # l
          BY <4>3, <4>5
        <4>7. IsPrefix(buffer, stops[k])
          BY <1>7, <2>2, <4>1, <4>4, <4>5, <4>6, PrefixIff
        <4>8. QED
          BY <4>1, <4>5, <4>6, <4>7
      <3>2. QED
        BY <2>1, <3>1 DEF Streaming
    <2>5. QED
      BY <1>5, <1>8, <2>1, <2>2, <2>3, <2>4
  <1>10. CASE ~streaming /\ triggered = <<>>
    <2>1. /\ text = whole /\ buffer = <<>>
          /\ \A k \in DOMAIN stops : \A i \in Nat : ~OccursAt(whole, i, stops[k])
      BY <1>6, <1>10 DEF Sent
    <2>2. whole \o <<>> = whole
      BY ConcatEmptySeq
    <2>3. QED
      BY <1>5, <1>8, <1>10, <2>1, <2>2
  <1>11. CASE ~streaming /\ triggered # <<>>
    <2>1. Stopped(stops, whole, text, triggered)
      BY <1>6, <1>11 DEF Sent
    <2>2. QED
      BY <1>5, <1>8, <1>11, <2>1 DEF Stopped
  <1>12. QED
    BY <1>9, <1>10, <1>11

LEMMA StreamStart == ASSUME StreamInit PROVE StreamInv
  <1>1. <<>> \in Seq(DOMAIN Vocabulary) /\ Len(<<>>) = 0 /\ <<>> \in Seq(Characters)
    BY EmptySeq
  <1>2. /\ stops \in StopLists /\ tokenIds = <<>> /\ decodedUpto = 0 /\ text = <<>> /\ buffer = <<>>
        /\ triggered = <<>> /\ streaming = TRUE
    BY DEF StreamInit
  <1>3. Decoded(tokenIds).text = <<>>
    <2>1. PICK none \in Seq(DOMAIN Vocabulary) : none = <<>> /\ Len(none) = 0
      BY <1>1
    <2>2. Decoded(none) = Nothing
      BY <2>1, DecodedSteps
    <2>3. Nothing.text = <<>>
      BY DEF Nothing
    <2>4. QED
      BY <1>2, <2>1, <2>2, <2>3
  <1>4. \A k \in DOMAIN stops : Len(stops[k]) \in Nat \ {0}
    BY <1>2, StopFacts
  <1>5. ASSUME NEW k \in DOMAIN stops, NEW i \in Nat PROVE ~OccursAt(<<>>, i, stops[k])
    <2>1. PICK l \in Nat \ {0} : l = Len(stops[k])
      BY <1>4
    <2>2. ~(i >= 1 /\ i + l - 1 <= 0)
      OBVIOUS
    <2>3. QED
      BY <1>1, <2>1, <2>2 DEF OccursAt
  <1>6. ASSUME NEW k \in DOMAIN stops, NEW n \in Nat, EndsIn(<<>>, n, stops[k]) PROVE n <= 0
    BY <1>1, <1>6 DEF EndsIn
  <1>7. <<>> \o <<>> = <<>>
    BY <1>1, ConcatEmptySeq
  <1>8. Streaming(stops, <<>>, <<>>, <<>>)
    BY <1>1, <1>5, <1>6, <1>7 DEF Streaming
  <1>9. QED
    BY <1>1, <1>2, <1>3, <1>8 DEF StreamInv, Sent

LEMMA PushStreams == ASSUME StreamInv, NEW id \in DOMAIN Vocabulary, Push(id) PROVE StreamInv'
  <1>1. PICK n \in Nat, ids \in Seq(DOMAIN Vocabulary) :
          /\ n = Len(tokenIds) /\ ids = Append(tokenIds, id) /\ Len(ids) = n + 1
          /\ \A i \in 1..n : ids[i] = tokenIds[i]
    <2>1. tokenIds \in Seq(DOMAIN Vocabulary)
      BY DEF StreamInv
    <2>2. Len(tokenIds) \in Nat
      BY <2>1, LenProperties
    <2>3. /\ Append(tokenIds, id) \in Seq(DOMAIN Vocabulary)
          /\ Len(Append(tokenIds, id)) = Len(tokenIds) + 1
          /\ \A i \in 1..Len(tokenIds) : Append(tokenIds, id)[i] = tokenIds[i]
      BY <2>1, AppendProperties
    <2>4. QED
      BY <2>2, <2>3
  <1>2. PICK piece : piece = DecodeIncremental(ids, n)
    OBVIOUS
  <1>3. /\ streaming /\ tokenIds' = ids /\ decodedUpto' = Len(ids) /\ stops' = stops
        /\ IF piece = <<>> THEN UNCHANGED <<text, buffer, triggered>> ELSE FeedChecker(piece)
        /\ streaming' = (triggered' = <<>>)
    BY <1>1, <1>2 DEF Push, StreamInv
  <1>4. stops \in StopLists /\ tokenIds \in Seq(DOMAIN Vocabulary) /\ triggered = <<>>
    BY <1>3 DEF StreamInv
  <1>5. streaming' \in BOOLEAN /\ (streaming' => triggered' = <<>>) /\ (~streaming' => triggered' # <<>>)
    BY <1>3
  <1>6. ASSUME Sound' PROVE Sent(Decoded(tokenIds).text)'
    <2>1. Clean(Decoded(ids)) /\ NotDrowned(ids)
      BY <1>3, <1>6 DEF Sound
    <2>2. Decoded(ids) = Between(ids, 0, n + 1) /\ Decoded(ids) \in Decodings
      BY <1>1, DecodedIs
    <2>3. Decoded(tokenIds) = Between(ids, 0, n) /\ Decoded(tokenIds) \in Decodings
      <3>1. SubSeq(ids, 0 + 1, n) = tokenIds
        <4>1. 1 \in Nat \ {0} /\ n <= Len(ids) /\ 1 <= n + 1 /\ n = n - 1 + 1 /\ \A m \in 1..n : 1 + m - 1 = m
          BY <1>1
        <4>2. \A m \in 1..n : ids[1 + m - 1] = tokenIds[m]
          BY <1>1, <4>1
        <4>3. SubSeq(ids, 1, n) = tokenIds <=> n = n - 1 + 1 /\ \A m \in 1..n : ids[1 + m - 1] = tokenIds[m]
          BY <1>1, <1>4, <4>1, SubSeqIs
        <4>4. 0 + 1 = 1
          OBVIOUS
        <4>5. QED
          BY <4>1, <4>2, <4>3, <4>4
      <3>2. QED
        BY <1>4, <3>1, DecodedIs DEF Between
    <2>4. piece \in Seq(Characters) /\ Decoded(ids).text = Decoded(tokenIds).text \o piece
      BY <1>1, <1>2, <2>1, <2>2, <2>3, PieceExact
    <2>5. Sound
      <3>1. Clean(Decoded(tokenIds))
        <4>1. 0 <= n /\ n \in 0..Len(ids) /\ n + 1 \in 0..Len(ids) /\ n <= n + 1
          BY <1>1
        <4>2. Extends(Decoded(ids).text, Decoded(tokenIds).text)
          BY <2>2, <2>3, <4>1, WholeGrows
        <4>3. QED
          BY <2>1, <2>2, <2>3, <4>2, CleanBefore
      <3>2. NotDrowned(tokenIds)
        <4>1. ASSUME NEW i \in 1..n
              PROVE  \E j \in i..(i + Lookback - 7) : j \in 1..n => Vocabulary[tokenIds[j]] # <<"special">>
          <5>1. i \in 1..Len(ids)
            BY <1>1
          <5>2. PICK j \in i..(i + Lookback - 7) : j \in 1..Len(ids) => Vocabulary[ids[j]] # <<"special">>
            BY <2>1, <5>1 DEF NotDrowned
          <5>3. ASSUME j \in 1..n PROVE Vocabulary[tokenIds[j]] # <<"special">>
            <6>1. j \in 1..Len(ids) /\ ids[j] = tokenIds[j]
              BY <1>1, <5>3
            <6>2. QED
              BY <5>2, <6>1
          <5>4. QED
            BY <5>3
        <4>2. QED
          BY <1>1, <4>1 DEF NotDrowned
      <3>3. QED
        BY <3>1, <3>2 DEF Sound
    <2>6. PICK whole : whole = Decoded(tokenIds).text
      OBVIOUS
    <2>7. Streaming(stops, whole, text, buffer)
      BY <1>3, <2>5, <2>6 DEF StreamInv, Sent
    <2>8. whole \o piece = Decoded(ids).text
      BY <2>4, <2>6
    <2>9. \/ triggered' = <<>> /\ Streaming(stops, whole \o piece, text', buffer')
          \/ triggered' # <<>> /\ buffer' = <<>> /\ Stopped(stops, whole \o piece, text', triggered')
      <3>1. CASE piece = <<>>
        <4>1. whole \in Seq(Characters)
          BY <2>7, ConcatProperties DEF Streaming
        <4>2. whole \o piece = whole
          BY <3>1, <4>1, ConcatEmptySeq
        <4>3. text' = text /\ buffer' = buffer /\ triggered' = triggered
          BY <1>3, <3>1
        <4>4. QED
          BY <1>4, <2>7, <4>2, <4>3
      <3>2. CASE piece # <<>>
        <4>1. FeedChecker(piece)
          BY <1>3, <3>2
        <4>2. QED
          BY <1>4, <2>4, <2>7, <4>1, FeedSends
      <3>3. QED
        BY <3>1, <3>2
    <2>10. Sent(whole \o piece)'
      BY <1>3, <1>5, <2>9 DEF Sent
    <2>11. QED
      BY <1>3, <2>8, <2>10
  <1>7. QED
    BY <1>1, <1>3, <1>4, <1>5, <1>6 DEF StreamInv

LEMMA FinalizeStreams == ASSUME StreamInv, Finalize PROVE StreamInv'
  <1>1. /\ streaming /\ streaming' = FALSE /\ text' = text \o buffer /\ buffer' = <<>>
        /\ stops' = stops /\ tokenIds' = tokenIds /\ decodedUpto' = decodedUpto /\ triggered' = triggered
    BY DEF Finalize
  <1>2. Sound' <=> Sound
    BY <1>1 DEF Sound
  <1>3. ASSUME Sound PROVE Sent(Decoded(tokenIds).text)'
    <2>1. Streaming(stops, Decoded(tokenIds).text, text, buffer) /\ triggered = <<>>
      BY <1>1, <1>3 DEF StreamInv, Sent
    <2>2. QED
      BY <1>1, <2>1 DEF Streaming, Sent
  <1>4. QED
    BY <1>1, <1>2, <1>3 DEF StreamInv

LEMMA StreamRests == ASSUME StreamInv, UNCHANGED streamVars PROVE StreamInv'
  BY DEF StreamInv, streamVars, Sound, Sent

(* However the text is split into tokens, the client gets it whole: for    *)
(* every vocabulary of characters of one to four bytes, or parts of them,  *)
(* every list of stop strings and every lookback of seven tokens or more,  *)
(* as long as no character is cut short and there are not Lookback - 6     *)
(* special tokens in a row: two, for the lookback of eight.                *)
THEOREM StreamCorrect == StreamSpec => []StreamExact
  <1>1. StreamInit => StreamInv
    BY StreamStart
  <1>2. StreamInv /\ [StreamNext]_streamVars => StreamInv'
    BY PushStreams, FinalizeStreams, StreamRests DEF StreamNext
  <1>3. StreamInv => StreamExact
    BY StreamSplit
  <1>4. QED
    BY <1>1, <1>2, <1>3, PTL DEF StreamSpec
=============================================================================
