------------------------------ MODULE MCProducer ------------------------------
(* Instances of Producer for TLC.                                           *)
EXTENDS Producer, TLC

CONSTANTS old, f1

LeftoverThree == <<<<old>>, <<>>, <<old, old>>>>
=============================================================================
