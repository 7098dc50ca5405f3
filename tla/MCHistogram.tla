---------------------------- MODULE MCHistogram -----------------------------
EXTENDS Histogram

(* The quantiles of the benchmark.                                         *)
Reported == {<<50, 100>>, <<95, 100>>, <<99, 100>>, <<999, 1000>>}

=============================================================================
