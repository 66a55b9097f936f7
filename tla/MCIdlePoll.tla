------------------------------ MODULE MCIdlePoll ------------------------------
(* Instances of IdlePoll for TLC.                                           *)
EXTENDS IdlePoll, TLC

EmptyQueue  == <<<<>>>>
EmptyQueues == <<<<>>, <<>>>>
WaitsIn     == {2}

WorkerSymmetry == Permutations(Workers)
=============================================================================
