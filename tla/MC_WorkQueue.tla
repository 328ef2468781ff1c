--------------------------- MODULE MC_WorkQueue ---------------------------
(* Three workers and four packets: a worker can be handling, one notified     *)
(* and one blocked, while a packet waits and another is pushed.               *)
EXTENDS WorkQueue, TLC
CONSTANTS w1, w2, w3
MCWorkers  == {w1, w2, w3}
===========================================================================
