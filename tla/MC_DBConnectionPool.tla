---------------------- MODULE MC_DBConnectionPool ----------------------
(* Three threads and two connections: fewer connections than threads, so   *)
(* threads block; two requests per thread, so a newcomer can overtake the   *)
(* thread that notify_one picked.                                           *)
EXTENDS DBConnectionPool, TLC
CONSTANTS t1, t2, t3
MCThreads   == {t1, t2, t3}
========================================================================
