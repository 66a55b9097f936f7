----------------------------- MODULE MCBenchmark -----------------------------
(* Instances of Benchmark for TLC.                                          *)
EXTENDS Benchmark, TLC

TwoLevels == <<1, 2>>

(* 0.4 ms and 1.5004 s, in units of 0.1 ms.                                 *)
SomeDurations == {4, 15004}
=============================================================================
