----------------------------- MODULE MCDrainTrial -----------------------------
(* Instances of DrainTrial for TLC.                                         *)
EXTENDS DrainTrial, TLC

CONSTANTS j1, j2, j3

(* Three jobs round-robin over two keys, and two jobs on one key.           *)
TwoQueues == <<<<j1, j3>>, <<j2>>>>
OneQueue  == <<<<j1, j2>>>>

(* Below the histogram's range (raised to 1), inside it, and above it.      *)
WaitsZero    == {0}
WaitsIn      == {2}
WaitsInAbove == {2, 3}

WorkerSymmetry == Permutations(Workers)
=============================================================================
