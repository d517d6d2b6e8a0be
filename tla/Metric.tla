------------------------------- MODULE Metric -------------------------------
(***************************************************************************)
(* runtime/metrics: one metric, its cells changed by atomic operations of  *)
(* several goroutines and read one after the other by Snapshot.            *)
(***************************************************************************)
EXTENDS Integers, Sequences, FiniteSets, FiniteSetsExt

CONSTANTS Users,       \* goroutines, one operation each
          Values,      \* values that are put, set, added and subtracted
          BoundsOf     \* histogram bounds

Ascending(s) == \A i, j \in 1 .. Len(s) : i < j => s[i] < s[j]

(* RegisterMap's message asks for bounds that ascend, as those of the      *)
(* repository's histograms do (metrics_map.go 43); it only looks for NaN.  *)
ASSUME MetricAssumption ==
  Values \subseteq Nat /\ BoundsOf \subseteq {s \in Seq(Nat) : Ascending(s)}

VARIABLES typ,      \* m.typ: "counter", "gauge" or "histogram"
          bounds,   \* m.bounds
          counts,   \* m.counts, by bucket from 0
          fValue,   \* m.fValue
          iValue,   \* m.iValue
          putCount, \* m.putCount
          use,      \* what each goroutine is doing
          begun,    \* history: values whose Put or Add has begun
          over,     \* history: values whose Put or Add is over
          snap      \* the Snapshot

metricVars == <<typ, bounds, counts, fValue, iValue, putCount, use, begun, over, snap>>

Buckets == 0 .. Len(bounds)
NoSnap  == [at |-> "none", next |-> 0, before |-> {}, counts |-> <<>>, value |-> 0]

MetricInit ==
  /\ typ \in {"counter", "gauge", "histogram"}
  /\ bounds \in IF typ = "histogram" THEN BoundsOf ELSE {<<>>}
  /\ counts = [i \in Buckets |-> 0]
  /\ fValue = 0 /\ iValue = 0 /\ putCount = 0
  /\ use = [u \in Users |-> [at |-> "new"]]
  /\ begun = {} /\ over = {} /\ snap = NoSnap
-----------------------------------------------------------------------------
(* sort.SearchFloat64s: a binary search for the first bound that is not    *)
(* below val, or Len(bounds).                                              *)
Halve(r, val) ==
  LET h == (r[1] + r[2]) \div 2
  IN  IF r[1] >= r[2] THEN r
      ELSE IF bounds[h + 1] < val THEN <<h + 1, r[2]>> ELSE <<r[1], h>>

Search(val) ==
  LET range[n \in 0 .. Len(bounds)] ==
        IF n = 0 THEN <<0, Len(bounds)>> ELSE Halve(range[n - 1], val)
  IN  range[Len(bounds)][1]

(* Mutated form of Bucket: a value at a bound goes below it.               *)
Bucket_Below(val) ==
  IF bounds = <<>> \/ val < bounds[1] THEN 0 ELSE Search(val)

(* Put's index: a value that is equal to a bound goes above it.            *)
Bucket(val) ==
  IF bounds = <<>> \/ val < bounds[1] THEN 0
  ELSE LET idx == Search(val)
       IN  IF idx < Len(bounds) /\ val = bounds[idx + 1] THEN idx + 1 ELSE idx

At(u, s) == use[u].at = s
Goes(u, s) == use' = [use EXCEPT ![u].at = s]

(* Put: the count, then the sum, unless val is 0, then putCount.           *)
Put(u, val) ==
  /\ typ = "histogram" /\ At(u, "new")
  /\ use' = [use EXCEPT ![u] = [at |-> IF val = 0 THEN "put" ELSE "load", val |-> val, put |-> TRUE, cur |-> 0]]
  /\ counts' = [counts EXCEPT ![Bucket(val)] = @ + 1]
  /\ begun' = begun \cup {<<u, val>>}
  /\ over' = IF val = 0 THEN over \cup {<<u, val>>} ELSE over
  /\ UNCHANGED <<typ, bounds, fValue, iValue, putCount, snap>>

(* Add of a gauge or counter, and Sub of a gauge, which adds -delta; Inc   *)
(* is one atomic addition.  That a counter is given nothing negative is    *)
(* assumed: counter.go 19 does not look.                                   *)
Add(u, val) ==
  /\ typ = "gauge" \/ (typ = "counter" /\ val >= 0)
  /\ At(u, "new")
  /\ use' = [use EXCEPT ![u] = [at |-> "load", val |-> val, put |-> FALSE, cur |-> 0]]
  /\ begun' = begun \cup {<<u, val>>}
  /\ UNCHANGED <<typ, bounds, counts, fValue, iValue, putCount, over, snap>>

Inc(u) ==
  /\ typ = "counter" /\ At(u, "new")
  /\ iValue' = iValue + 1
  /\ begun' = begun \cup {<<u, 1>>} /\ over' = over \cup {<<u, 1>>}
  /\ Goes(u, "over")
  /\ UNCHANGED <<typ, bounds, counts, fValue, putCount, snap>>

(* Set of a gauge: what was over before no longer counts.                  *)
Set(u, val) ==
  /\ typ = "gauge" /\ At(u, "new")
  /\ fValue' = val
  /\ begun' = (begun \ over) \cup {<<u, val>>} /\ over' = {<<u, val>>}
  /\ Goes(u, "over")
  /\ UNCHANGED <<typ, bounds, counts, iValue, putCount, snap>>

(* atomicFloat64.add: load, then compare and swap, or load again.          *)
Load(u) ==
  /\ At(u, "load")
  /\ use' = [use EXCEPT ![u].at = "swap", ![u].cur = fValue]
  /\ UNCHANGED <<typ, bounds, counts, fValue, iValue, putCount, begun, over, snap>>

Swapped(u) ==
  /\ fValue' = use[u].cur + use[u].val
  /\ over' = over \cup {<<u, use[u].val>>}
  /\ Goes(u, IF use[u].put THEN "put" ELSE "over")

(* Mutated form of CompareAndSwap: a plain store.                          *)
CompareAndSwap_Store(u) ==
  /\ At(u, "swap")
  /\ Swapped(u)
  /\ UNCHANGED <<typ, bounds, counts, iValue, putCount, begun, snap>>

CompareAndSwap(u) ==
  /\ At(u, "swap")
  /\ IF fValue = use[u].cur THEN Swapped(u) ELSE Goes(u, "load") /\ UNCHANGED <<fValue, over>>
  /\ UNCHANGED <<typ, bounds, counts, iValue, putCount, begun, snap>>

Counted(u) ==
  /\ At(u, "put")
  /\ putCount' = putCount + 1 /\ Goes(u, "over")
  /\ UNCHANGED <<typ, bounds, counts, fValue, iValue, begun, over, snap>>

(* Snapshot loads the counts from the first to the last, then fValue, then *)
(* iValue.                                                                 *)
Snapshot ==
  /\ snap.at = "none"
  /\ snap' = [snap EXCEPT !.at = "counts", !.before = over]
  /\ UNCHANGED <<typ, bounds, counts, fValue, iValue, putCount, use, begun, over>>

LoadCount ==
  /\ snap.at = "counts" /\ snap.next \in Buckets
  /\ snap' = [snap EXCEPT !.counts = Append(@, counts[snap.next]), !.next = @ + 1]
  /\ UNCHANGED <<typ, bounds, counts, fValue, iValue, putCount, use, begun, over>>

LoadFloat ==
  /\ snap.at = "counts" /\ snap.next \notin Buckets
  /\ snap' = [snap EXCEPT !.at = "float", !.value = fValue]
  /\ UNCHANGED <<typ, bounds, counts, fValue, iValue, putCount, use, begun, over>>

LoadInt ==
  /\ snap.at = "float"
  /\ snap' = [snap EXCEPT !.at = "done", !.value = @ + iValue]
  /\ UNCHANGED <<typ, bounds, counts, fValue, iValue, putCount, use, begun, over>>

MetricStep ==
  \/ \E u \in Users : \/ Load(u) \/ CompareAndSwap(u) \/ Counted(u) \/ Inc(u)
                      \/ \E val \in Values : Put(u, val) \/ Add(u, val) \/ Add(u, -val) \/ Set(u, val)
  \/ Snapshot \/ LoadCount \/ LoadFloat \/ LoadInt

MetricSpec == MetricInit /\ [][MetricStep]_metricVars
-----------------------------------------------------------------------------
Total(s)     == MapThenSumSet(LAMBDA w : w[2], s)
Puts         == {w \in begun : "put" \in DOMAIN use[w[1]] /\ use[w[1]].put}
Within(i, v) == /\ i > 0 => bounds[i] <= v
                /\ i < Len(bounds) => v < bounds[i + 1]

(* No update is lost, whatever goroutines meet: the value is the sum of    *)
(* the operations that are over, from the last Set on, every bucket holds  *)
(* the values between its bounds, and a snapshot of a counter or histogram,*)
(* although it reads cell by cell, shows at least what was over when it    *)
(* began and at most what has begun (atomic.go 20-29, metrics.go 84-100    *)
(* and 148-166).  A gauge may fall, so that its snapshot has no such       *)
(* bounds.  Assumed: values are natural numbers and bounds ascend, which   *)
(* metrics_test.go 227 expects Register to enforce and it does not.        *)
NothingLost ==
  /\ fValue + iValue = Total(over)
  /\ \A i \in Buckets : counts[i] = Cardinality({w \in Puts : Within(i, w[2])})
  /\ putCount <= Cardinality(Puts)
  /\ snap.at = "done" /\ typ # "gauge" =>
       /\ Total(snap.before) <= snap.value /\ snap.value <= Total(over)
       /\ \A i \in Buckets :
            /\ Cardinality({w \in snap.before \cap Puts : Within(i, w[2])}) <= snap.counts[i + 1]
            /\ snap.counts[i + 1] <= counts[i]
=============================================================================
