----------------------------- MODULE Histogram ------------------------------
(***************************************************************************)
(* obs::LogHistogram: a count for each power of two.  A quantile is given  *)
(* as a fraction <<p, q>>, and its product with the count is exact.        *)
(***************************************************************************)
EXTENDS Integers, Sequences, SequencesExt, FiniteSetsExt

CONSTANTS
  Hists,       \* the histograms
  Buckets,     \* 64 in the code
  Samples,     \* the values recorded
  MaxSamples,  \* bound on the number of samples of a histogram
  Quantiles    \* the quantiles asked for

ASSUME HistogramAssumption ==
  /\ Buckets \in Nat /\ MaxSamples \in Nat /\ Samples \subseteq 0 .. 2 ^ (Buckets - 1) - 1
  /\ \A f \in Quantiles : f \in Nat \X Nat /\ f[1] <= f[2] /\ f[2] > 0

VARIABLES
  hist,     \* the members of each histogram
  recorded  \* auxiliary: what went into each, in increasing order

vars == <<hist, recorded>>

Sorted(seq) == SortSeq(seq, <)

BucketFor(ns) == CHOOSE b \in 0 .. Buckets - 1 : 2 ^ b <= ns /\ ns < 2 ^ (b + 1)

Init == /\ hist = [h \in Hists |-> [buckets |-> [b \in 0 .. Buckets - 1 |-> 0],
                                    count |-> 0, sum |-> 0]]
        /\ recorded = [h \in Hists |-> <<>>]

(* record: a zero counts as one.                                           *)
Record(h, value) ==
  LET ns == Max({value, 1})
  IN  /\ Len(recorded[h]) < MaxSamples
      /\ hist' = [hist EXCEPT ![h].buckets[BucketFor(ns)] = @ + 1,
                              ![h].count = @ + 1, ![h].sum = @ + ns]
      /\ recorded' = [recorded EXCEPT ![h] = Sorted(Append(@, ns))]

(* Slip: the count is left alone.                                          *)
SlipMerge(h, other) ==
  /\ h # other /\ Len(recorded[h]) + Len(recorded[other]) <= MaxSamples
  /\ hist' = [hist EXCEPT ![h].buckets = [b \in DOMAIN @ |-> @[b] + hist[other].buckets[b]],
                          ![h].sum = @ + hist[other].sum]
  /\ recorded' = [recorded EXCEPT ![h] = Sorted(@ \o recorded[other])]

Merge(h, other) ==
  /\ h # other /\ Len(recorded[h]) + Len(recorded[other]) <= MaxSamples
  /\ hist' = [hist EXCEPT ![h].buckets = [b \in DOMAIN @ |-> @[b] + hist[other].buckets[b]],
                          ![h].count = @ + hist[other].count,
                          ![h].sum = @ + hist[other].sum]
  /\ recorded' = [recorded EXCEPT ![h] = Sorted(@ \o recorded[other])]

Target(h, f) == (f[1] * hist[h].count) \div f[2]

(* quantile: the first bucket at which the running count has the target.   *)
Quantile(h, f) ==
  LET acc(b) == MapThenSumSet(LAMBDA c : hist[h].buckets[c], 0 .. b)
  IN  IF hist[h].count = 0 THEN 0
      ELSE 2 ^ (1 + Min({b \in 0 .. Buckets - 1 : acc(b) >= Target(h, f)}))

Next == \E h \in Hists : \/ \E value \in Samples : Record(h, value)
                         \/ \E other \in Hists : Merge(h, other)

Spec == Init /\ [][Next]_vars

-----------------------------------------------------------------------------
(* "it gives quantiles accurate to ~factor-2" (histogram.h): the result is *)
(* above the sample of that rank and at most twice it, also in a histogram *)
(* that others were merged into, if the rank is at least one.              *)
WithinFactorTwo ==
  \A h \in Hists, f \in Quantiles :
    LET rank == (f[1] * Len(recorded[h])) \div f[2]
    IN  rank >= 1 => /\ recorded[h][rank] < Quantile(h, f)
                     /\ Quantile(h, f) <= 2 * recorded[h][rank]

=============================================================================
