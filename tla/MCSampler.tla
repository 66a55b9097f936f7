------------------------------ MODULE MCSampler ------------------------------
(* Instances of Sampler for TLC.                                            *)
EXTENDS Sampler, TLC

p50 == [kind |-> "p", chars |-> <<5, 0>>]

Distinct  == <<p50, [kind |-> "max"]>>
Duplicate == <<p50, [kind |-> "mean"], p50>>

(* Before the epoch, and three later readings: the differences are 1, 4 and  *)
(* 5 us, or negative.                                                       *)
Readings == {-7, 1500, 5500}
SomeReadings == {1500, 5500}

JobSymmetry == Permutations(Jobs)
=============================================================================
