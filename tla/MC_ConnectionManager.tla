------------------------ MODULE MC_ConnectionManager ------------------------
(* One fd number that up to three connections use one after the other is the *)
(* case that matters: what a client asked for is still queued or running     *)
(* when the next client has its number.  Clients name any user, so one that   *)
(* bans itself stands for one that is banned by another.                      *)
EXTENDS ConnectionManager, TLC
CONSTANTS w1, w2, f1, u1, u2
MCWorkers  == {w1, w2}
MCFds      == {f1}
MCUsers    == {u1, u2}
MCAllOps   == {"login", "ban", "unban", "chat", "order"}
MCBanOps   == {"login", "ban"}
MCSymmetry == Permutations(MCWorkers) \cup Permutations(MCUsers)
=============================================================================
