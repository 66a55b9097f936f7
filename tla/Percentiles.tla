----------------------------- MODULE Percentiles -----------------------------
(***************************************************************************)
(* Percentile specs (src/main.rs, --latency-percentiles) and the statistics *)
(* of a histogram (src/metrics.rs, LatencyStats): pure functions.          *)
(*                                                                         *)
(* A spec is the string that was given: [kind |-> "max"], [kind |->        *)
(* "mean"], [kind |-> "p", chars |-> the characters after the p] or        *)
(* [kind |-> "other"].  A character is a digit, Plus or Letter.  A quantile *)
(* is a fraction <<n, d>>.  A histogram is a set of samples and a function *)
(* that gives their values; its buckets are wider than one value only far  *)
(* above the values used here.                                             *)
(***************************************************************************)
EXTENDS Arithmetic, Sequences, FiniteSetsExt

CONSTANTS
  MaxDigits,   \* the cap on the digits of a spec (15)
  U64Max       \* the largest u64

(* What the cap is for: ten to the number of digits is a u64.               *)
ASSUME PercentileAssumption ==
  /\ MaxDigits \in Nat \ {0} /\ U64Max \in Nat
  /\ Power10(MaxDigits) <= U64Max

Plus   == 10
Letter == 11

(* What u64::from_str reads: an optional sign, then digits.                 *)
Numeral(chars) == IF chars # <<>> /\ Head(chars) = Plus THEN Tail(chars) ELSE chars
Value(chars)   == Decimal(Numeral(chars), Len(Numeral(chars)))
IsU64(chars)   == /\ Numeral(chars) # <<>>
                  /\ \A i \in 1..Len(Numeral(chars)) : Numeral(chars)[i] \in 0..9
                  /\ Value(chars) <= U64Max

(* u64 multiplication wraps.                                                *)
Divisor(chars) == Power10(Len(chars)) % (U64Max + 1)

(* parse_percentile_spec succeeds ...                                       *)
AcceptedUncapped(spec) ==
  \/ spec.kind \in {"max", "mean"}
  \/ spec.kind = "p" /\ IsU64(spec.chars) /\ Value(spec.chars) \in 1..Divisor(spec.chars)

Accepted(spec) ==
  \/ spec.kind \in {"max", "mean"}
  \/ /\ spec.kind = "p"
     /\ Len(spec.chars) <= MaxDigits
     /\ IsU64(spec.chars)
     /\ Power10(Len(spec.chars)) <= U64Max
     /\ Value(spec.chars) \in 1..Divisor(spec.chars)

(* ... and yields this quantile.                                            *)
Quantile(spec) == <<Value(spec.chars), Divisor(spec.chars)>>

-----------------------------------------------------------------------------
(* hdrhistogram.                                                            *)
Values(samples, val) == {val[s] : s \in samples}

CountUpTo(samples, val, x) == Cardinality({s \in samples : val[s] <= x})

(* The smallest value that has a fraction q of the samples at or below it.   *)
ValueAtQuantile(samples, val, q) ==
  Min({x \in Values(samples, val) :
         CountUpTo(samples, val, x) * q[2] >= q[1] * Cardinality(samples)})

(* The mean adds up each recorded value times its count.                     *)
CountAt(samples, val, x) == Cardinality({s \in samples : val[s] = x})
Total(samples, val) ==
  IF samples = {} THEN 0
  ELSE LET top == Max(Values(samples, val))
       IN  SumTo([x \in 1..top |-> x * CountAt(samples, val, x)], top)

(* PercentileSpec::value.                                                   *)
SpecValue(spec, samples, val) ==
  IF samples = {} THEN 0
  ELSE CASE spec.kind = "p"    -> ValueAtQuantile(samples, val, Quantile(spec))
         [] spec.kind = "max"  -> Max(Values(samples, val))
         [] spec.kind = "mean" -> Total(samples, val) \div Cardinality(samples)

StatQuantile == [p50 |-> <<50, 100>>, p75 |-> <<75, 100>>, p90 |-> <<90, 100>>, p95 |-> <<95, 100>>,
                 p99 |-> <<99, 100>>, p99_9 |-> <<999, 1000>>, p99_99 |-> <<9999, 10000>>]

(* LatencyStats::from_histogram; the mean is sum / total_count.             *)
Stats(samples, val) ==
  [quantile |-> [f \in DOMAIN StatQuantile |->
                   IF samples = {} THEN 0 ELSE ValueAtQuantile(samples, val, StatQuantile[f])],
   max |-> IF samples = {} THEN 0 ELSE Max(Values(samples, val)),
   sum |-> Total(samples, val), total_count |-> Cardinality(samples)]
=============================================================================
