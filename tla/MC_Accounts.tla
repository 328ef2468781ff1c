---------------------------- MODULE MC_Accounts ----------------------------
(* One login that every request is about, so that registrations, their        *)
(* confirmations and withdrawals meet in one row and one entry.  Three        *)
(* requests are a code, its use and one that interferes; the accounts of Init *)
(* stand for longer histories.  The pool has one connection more than there   *)
(* are workers, which one failure can leak.  Log-ins take no part in what the *)
(* safety run asks: they read like a withdrawal and change nothing.           *)
EXTENDS Accounts, TLC
CONSTANTS w1, w2, u1, p1, p2
MCWorkers      == {w1, w2}
MCLogins       == {u1}
MCOnePassword  == {p1}
MCTwoPasswords == {p1, p2}
MCOps          == AllOps \ LoginOps
MCAllOps       == AllOps
=============================================================================
