------------------------------- MODULE Metrics -------------------------------
(***************************************************************************)
(* A histogram of telemetry/metrics.py, observed by the handler threads of *)
(* serve/api.py and rendered by scrapes of /metrics.  Only the table of    *)
(* metrics has a lock: observations and scrapes interleave.                *)
(*                                                                         *)
(* Abstractions: values are integers.  Threads are switched where CPython  *)
(* does it, at a call or a turn of a loop: increments in a row, without a  *)
(* call between them, are one step.                                        *)
(***************************************************************************)
EXTENDS Integers, FiniteSetsExt, Functions, Sequences

CONSTANTS
  Observers,            (* threads of handlers                              *)
  Scrapers,             (* threads that serve /metrics                      *)
  Edges,                (* buckets, increasing                              *)
  Observable,           (* values                                           *)
  MaxObservations,      (* bound                                            *)
  MaxScrapes            (* bound                                            *)

ASSUME MetricsAssumption ==
  /\ Edges \in Seq(Int) /\ IsFiniteSet(Observable) /\ IsFiniteSet(Observers)
  /\ \A i, j \in DOMAIN Edges : i < j => Edges[i] < Edges[j]
  /\ Observable \subseteq Nat /\ {MaxObservations, MaxScrapes} \subseteq Nat

Buckets == 1..(Len(Edges) + 1)  (* the last is +Inf *)

VARIABLES
  counts, total, count, (* Histogram                                        *)
  placing,              (* observer |-> the value it has to place           *)
  begun, ended,         (* value |-> its observations begun, and ended      *)
  scrape,               (* scraper |-> the scrape it is rendering           *)
  shown,                (* the last scrape that ended                       *)
  scrapes               (* scrapes begun                                    *)

metricsVars == <<counts, total, count, placing, begun, ended, scrape, shown, scrapes>>

(* counts[i] of the first edge not below the value, or of +Inf             *)
BucketOf(value) == Min({b \in Buckets : b \in DOMAIN Edges => value <= Edges[b]})

(* mutant: every bucket that holds the value, though render() adds them up *)
PlacedInAll(value) == [b \in Buckets |-> counts[b] + (IF b >= BucketOf(value) THEN 1 ELSE 0)]

Placed(value) == [counts EXCEPT ![BucketOf(value)] = @ + 1]

MetricsInit ==
  /\ counts = [b \in Buckets |-> 0] /\ total = 0 /\ count = 0
  /\ placing = [o \in Observers |-> {}]
  /\ begun = [v \in Observable |-> 0] /\ ended = begun
  /\ scrape = [s \in Scrapers |-> {}]
  /\ shown = [lines |-> [b \in Buckets |-> 0], sum |-> 0, count |-> 0,
              endedBefore |-> begun, begunAfter |-> begun, since |-> [b \in Buckets |-> 0]]
  /\ scrapes = 0

(* observe(): what is summed up first                                      *)
Observe(o, value) ==
  /\ placing[o] = {}
  /\ SumFunctionOnSet(begun, Observable) < MaxObservations
  /\ total' = total + value /\ count' = count + 1
  /\ placing' = [placing EXCEPT ![o] = {value}]
  /\ begun' = [begun EXCEPT ![value] = @ + 1]
  /\ UNCHANGED <<counts, ended, scrape, shown, scrapes>>

(* and, after the search for it, the bucket                                *)
Place(o, value) ==
  /\ value \in placing[o]
  /\ counts' = Placed(value)
  /\ placing' = [placing EXCEPT ![o] = {}]
  /\ ended' = [ended EXCEPT ![value] = @ + 1]
  /\ UNCHANGED <<total, count, begun, scrape, shown, scrapes>>

(* render(): line by line, the buckets added up                            *)
BeginScrape(s) ==
  /\ scrape[s] = {} /\ scrapes < MaxScrapes
  /\ scrapes' = scrapes + 1
  /\ scrape' = [scrape EXCEPT ![s] =
                  {[lines |-> <<>>, sum |-> -1, endedBefore |-> ended, since |-> shown.lines]}]
  /\ UNCHANGED <<counts, total, count, placing, begun, ended, shown>>

RenderBucket(s, r) ==
  LET b == Len(r.lines) + 1
      cumulative == IF b = 1 THEN 0 ELSE r.lines[b - 1]
  IN /\ r \in scrape[s] /\ b \in Buckets
     /\ scrape' = [scrape EXCEPT ![s] = {[r EXCEPT !.lines = Append(@, cumulative + counts[b])]}]
     /\ UNCHANGED <<counts, total, count, placing, begun, ended, shown, scrapes>>

RenderSum(s, r) ==
  /\ r \in scrape[s] /\ Len(r.lines) = Cardinality(Buckets) /\ r.sum = -1
  /\ scrape' = [scrape EXCEPT ![s] = {[r EXCEPT !.sum = total]}]
  /\ UNCHANGED <<counts, total, count, placing, begun, ended, shown, scrapes>>

RenderCount(s, r) ==
  /\ r \in scrape[s] /\ r.sum # -1
  /\ scrape' = [scrape EXCEPT ![s] = {}]
  /\ shown' = [lines |-> r.lines, sum |-> r.sum, count |-> count,
               endedBefore |-> r.endedBefore, begunAfter |-> begun, since |-> r.since]
  /\ UNCHANGED <<counts, total, count, placing, begun, ended, scrapes>>

MetricsNext ==
  \/ \E o \in Observers, value \in Observable : Observe(o, value)
  \/ \E o \in Observers : \E value \in placing[o] : Place(o, value)
  \/ \E s \in Scrapers : BeginScrape(s)
  \/ \E s \in Scrapers : \E r \in scrape[s] : RenderBucket(s, r)
  \/ \E s \in Scrapers : \E r \in scrape[s] : RenderSum(s, r)
  \/ \E s \in Scrapers : \E r \in scrape[s] : RenderCount(s, r)

MetricsSpec == MetricsInit /\ [][MetricsNext]_metricsVars

-----------------------------------------------------------------------------
(* What a number of observations of each value puts into the buckets up to *)
(* b, and what they sum up to                                              *)
Within(b, observed) ==
  SumFunctionOnSet([v \in Observable |-> IF BucketOf(v) <= b THEN observed[v] ELSE 0], Observable)

Summed(observed) == SumFunctionOnSet([v \in Observable |-> v * observed[v]], Observable)

(* A scrape that no lock protects still tells no lies: whatever it shows   *)
(* lies between what had been observed in full when it began and what had  *)
(* begun to be observed when it ended, bucket by bucket, in the sum and in *)
(* the count; no bucket goes back from one scrape to a later one; and +Inf *)
(* counts no more than the count beside it.                                *)
ScrapesHonest ==
  LET infinity == Cardinality(Buckets)
  IN /\ \A b \in Buckets :
          /\ shown.lines[b] \in Within(b, shown.endedBefore)..Within(b, shown.begunAfter)
          /\ shown.lines[b] >= shown.since[b]
     /\ shown.sum \in Summed(shown.endedBefore)..Summed(shown.begunAfter)
     /\ shown.count \in Within(infinity, shown.endedBefore)..Within(infinity, shown.begunAfter)
     /\ shown.lines[infinity] <= shown.count
=============================================================================
