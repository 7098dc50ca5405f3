\* Two histograms of up to five samples around the powers of two.
CONSTANTS
  Hists = {a, b}
  Buckets = 5
  Samples = {0, 1, 3, 4, 15}
  MaxSamples = 5
  Quantiles <- Reported
SPECIFICATION Spec
INVARIANT WithinFactorTwo
CHECK_DEADLOCK FALSE
