------------------------- MODULE MC_OrderLifecycle -------------------------
(* One order is enough: no step of the code relates two orders.  Two workers *)
(* handle up to four requests, so that two others fall between any two steps  *)
(* of the first, and one statement fails.                                     *)
EXTENDS OrderLifecycle, TLC
CONSTANTS w1, w2, r1, r2, o1
MCWorkers == {w1, w2}
MCRiders  == {r1, r2}
MCOrders  == {o1}
MCAllOps  == AllOps
MCSymmetry == Permutations(MCWorkers) \cup Permutations(MCRiders)
============================================================================
