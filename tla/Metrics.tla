------------------------------ MODULE Metrics ------------------------------
(***************************************************************************)
(* MetricsCollector: counters and histograms that keep their last entries, *)
(* gauges of which the older half goes when there are too many.            *)
(***************************************************************************)
EXTENDS Naturals, Sequences, SequencesExt, FiniteSets

CONSTANTS
  Labels,      \* of the counter pages_analyzed_total
  Gauges,      \* names of gauges
  Samples,     \* observations of a histogram
  MaxEntries,  \* MAX_COUNTER_ENTRIES and MAX_HISTOGRAM_ENTRIES
  MaxCalls     \* bound: calls

VARIABLES
  counter,    \* the labels of its entries, each worth 1
  histogram,  \* its observations
  gauges,     \* their keys, in the order of the dict
  counts,     \* history: how often each label was counted
  calls       \* bounded by MaxCalls

vars == <<counter, histogram, gauges, counts, calls>>

MetricsTypeOK ==
  /\ counter \in Seq(Labels) /\ Len(counter) <= MaxEntries
  /\ histogram \in Seq(Samples) /\ Len(histogram) <= MaxEntries
  /\ gauges \in Seq(Gauges) /\ IsInjective(gauges) /\ Len(gauges) <= MaxEntries
  /\ counts \in [Labels -> Nat] /\ calls \in 0..MaxCalls

Init ==
  /\ counter = <<>> /\ histogram = <<>> /\ gauges = <<>>
  /\ counts = [l \in Labels |-> 0] /\ calls = 0

Capped(s) == IF Len(s) > MaxEntries THEN SubSeq(s, Len(s) - MaxEntries + 1, Len(s)) ELSE s

Call == calls < MaxCalls /\ calls' = calls + 1

IncCounter(l) ==
  /\ Call
  /\ counter' = Capped(Append(counter, l))
  /\ counts' = [counts EXCEPT ![l] = @ + 1]
  /\ UNCHANGED <<histogram, gauges>>

ObserveHistogram(v) ==
  /\ Call
  /\ histogram' = Capped(Append(histogram, v))
  /\ UNCHANGED <<counter, gauges, counts>>

SetGauge(g) ==
  /\ Call
  /\ LET keys == IF g \in Range(gauges) THEN gauges ELSE Append(gauges, g)
     IN  gauges' = IF Len(keys) > MaxEntries THEN SubSeq(keys, Len(keys) \div 2 + 1, Len(keys)) ELSE keys
  /\ UNCHANGED <<counter, histogram, counts>>

Next ==
  \/ \E l \in Labels : IncCounter(l)
  \/ \E v \in Samples : ObserveHistogram(v)
  \/ \E g \in Gauges : SetGauge(g)

Spec == Init /\ [][Next]_vars

-----------------------------------------------------------------------------
(* get_counter_total *)
Total(l) == Cardinality({i \in 1..Len(counter) : counter[i] = l})

(* A counter is exact until MaxEntries; from then on its labels add up to  *)
(* MaxEntries, each counted no more often than it was.                     *)
CountersAreExactUntilFull ==
  \A l \in Labels : IF Len(counter) < MaxEntries THEN Total(l) = counts[l] ELSE Total(l) <= counts[l]

(* metrics.py:115: "# TYPE {name} counter"; a counter never falls.         *)
CountersNeverFall == [][\A l \in Labels : Total(l)' >= Total(l)]_vars

=============================================================================
