------------------------- MODULE DBConnectionPool -------------------------
(* The MySQL connection pool of the TCP server (src/DBConnectionPool.cpp),  *)
(* shared by the worker threads.  A critical section of mutex_ is one step,  *)
(* except that mysql_ping keeps the mutex across a network call: between     *)
(* Look and its PingOk or PingFail no other thread enters.  notify_one of    *)
(* releaseConnection happens after the unlock and is a step of its own.      *)
EXTENDS Integers, Sequences, FiniteSets

CONSTANTS Threads,       \* the threads that call the pool (the 8 workers)
          PoolSize,      \* DB_POOL_SIZE
          MaxRequests,   \* bound: calls of getConnection per thread
          Forgetful      \* threads that run a handler path without a release

ASSUME ThreadsAssumption == IsFiniteSet(Threads) /\ Threads # {}
ASSUME PoolSizeAssumption == PoolSize \in Nat
ASSUME MaxRequestsAssumption == MaxRequests \in Nat
ASSUME ForgetfulAssumption == Forgetful \subseteq Threads

NULL  == 0               \* the MYSQL * that getConnection returns on failure
Conns == 1 .. PoolSize   \* the MYSQL * of the i-th turn of init's loop

VARIABLES connectionQueue, \* FIFO of idle connections
          opening,         \* init's loop counter; threads start after the loop
          pc,              \* where each thread is
          conn,            \* each thread's local MYSQL *conn, or NULL
          requests,        \* getConnection calls each thread has made
          opened,          \* history: connections mysql_real_connect opened
          forgotten        \* history: connections dropped without a release

vars == <<connectionQueue, opening, pc, conn, requests, opened, forgotten>>

Locations == {"idle", "lock", "wait", "ping", "use", "notify"}

Waiting    == {t \in Threads : pc[t] = "wait"}      \* blocked in condVar_.wait
MutexFree  == \A t \in Threads : pc[t] # "ping"
InQueue    == {connectionQueue[i] : i \in 1 .. Len(connectionQueue)}

Init ==
    /\ connectionQueue = <<>>
    /\ opening = 1
    /\ pc = [t \in Threads |-> "idle"]
    /\ conn = [t \in Threads |-> NULL]
    /\ requests = [t \in Threads |-> 0]
    /\ opened = {}
    /\ forgotten = {}

----------------------------------------------------------------------------
(* init, run by main before any worker exists: a connection that cannot be   *)
(* opened is skipped, so the pool may end up smaller than PoolSize or empty. *)
OpenOk ==
    /\ opening <= PoolSize
    /\ connectionQueue' = Append(connectionQueue, opening)
    /\ opened' = opened \cup {opening}
    /\ opening' = opening + 1
    /\ UNCHANGED <<pc, conn, requests, forgotten>>

OpenFail ==
    /\ opening <= PoolSize
    /\ opening' = opening + 1
    /\ UNCHANGED <<connectionQueue, pc, conn, requests, opened, forgotten>>

(* getConnection *)
Call(t) ==
    /\ opening > PoolSize
    /\ pc[t] = "idle"
    /\ requests[t] < MaxRequests
    /\ requests' = [requests EXCEPT ![t] = @ + 1]
    /\ pc' = [pc EXCEPT ![t] = "lock"]
    /\ UNCHANGED <<connectionQueue, opening, conn, opened, forgotten>>

\* Mutant: front() without pop().
Look_NoPop(t) ==
    /\ pc[t] = "lock"
    /\ MutexFree
    /\ IF connectionQueue = <<>>
       THEN pc' = [pc EXCEPT ![t] = "wait"] /\ UNCHANGED conn
       ELSE /\ conn' = [conn EXCEPT ![t] = Head(connectionQueue)]
            /\ pc' = [pc EXCEPT ![t] = "ping"]
    /\ UNCHANGED <<connectionQueue, opening, requests, opened, forgotten>>

\* With the mutex: evaluate the wait predicate; block, or pop the front and
\* keep the mutex for the ping.
Look(t) ==
    /\ pc[t] = "lock"
    /\ MutexFree
    /\ \/ /\ connectionQueue = <<>>
          /\ pc' = [pc EXCEPT ![t] = "wait"]
          /\ UNCHANGED <<connectionQueue, conn>>
       \/ /\ connectionQueue # <<>>
          /\ conn' = [conn EXCEPT ![t] = Head(connectionQueue)]
          /\ connectionQueue' = Tail(connectionQueue)
          /\ pc' = [pc EXCEPT ![t] = "ping"]
    /\ UNCHANGED <<opening, requests, opened, forgotten>>

PingOk(t) ==
    /\ pc[t] = "ping"
    /\ pc' = [pc EXCEPT ![t] = "use"]
    /\ UNCHANGED <<connectionQueue, opening, conn, requests, opened, forgotten>>

\* Mutant: nobody is notified.
NotifyOne_Nobody(locs) == {locs}

\* pc after notify_one: one blocked thread, if there is one, goes for the mutex.
NotifyOne(locs) ==
    IF \E t \in Threads : locs[t] = "wait"
    THEN {[locs EXCEPT ![w] = "lock"] : w \in {t \in Threads : locs[t] = "wait"}}
    ELSE {locs}

\* Mutant: the connection whose ping failed is thrown away (issue tracker 1-2).
PingFail_Drop(t) ==
    /\ pc[t] = "ping"
    /\ conn' = [conn EXCEPT ![t] = NULL]
    /\ pc' = [pc EXCEPT ![t] = "idle"]
    /\ UNCHANGED <<connectionQueue, opening, requests, opened, forgotten>>

\* The ping failed, the reconnect too: the connection goes back to the end of
\* the queue, somebody is notified, and the caller gets NULL.
PingFail(t) ==
    /\ pc[t] = "ping"
    /\ connectionQueue' = Append(connectionQueue, conn[t])
    /\ conn' = [conn EXCEPT ![t] = NULL]
    /\ pc' \in NotifyOne([pc EXCEPT ![t] = "idle"])
    /\ UNCHANGED <<opening, requests, opened, forgotten>>

\* Mutants of Release: the return after the push, without notify_one; and a
\* caller that goes on using the connection it released.
Release_NoNotify(t) ==
    /\ pc[t] = "use"
    /\ MutexFree
    /\ connectionQueue' = Append(connectionQueue, conn[t])
    /\ conn' = [conn EXCEPT ![t] = NULL]
    /\ pc' = [pc EXCEPT ![t] = "idle"]
    /\ UNCHANGED <<opening, requests, opened, forgotten>>

Release_KeepsConn(t) ==
    /\ pc[t] = "use"
    /\ MutexFree
    /\ connectionQueue' = Append(connectionQueue, conn[t])
    /\ pc' = [pc EXCEPT ![t] = "notify"]
    /\ UNCHANGED <<conn, opening, requests, opened, forgotten>>

(* releaseConnection: push under the mutex, notify after it *)
Release(t) ==
    /\ pc[t] = "use"
    /\ MutexFree
    /\ connectionQueue' = Append(connectionQueue, conn[t])
    /\ conn' = [conn EXCEPT ![t] = NULL]
    /\ pc' = [pc EXCEPT ![t] = "notify"]
    /\ UNCHANGED <<opening, requests, opened, forgotten>>

Notify(t) ==
    /\ pc[t] = "notify"
    /\ pc' \in NotifyOne([pc EXCEPT ![t] = "idle"])
    /\ UNCHANGED <<connectionQueue, opening, conn, requests, opened, forgotten>>

(* A caller whose path ends with the connection still in its local variable. *)
Forget(t) ==
    /\ t \in Forgetful
    /\ pc[t] = "use"
    /\ forgotten' = forgotten \cup {conn[t]}
    /\ conn' = [conn EXCEPT ![t] = NULL]
    /\ pc' = [pc EXCEPT ![t] = "idle"]
    /\ UNCHANGED <<connectionQueue, opening, requests, opened>>

\* A condition variable may wake without a notification.
Spurious(t) ==
    /\ pc[t] = "wait"
    /\ pc' = [pc EXCEPT ![t] = "lock"]
    /\ UNCHANGED <<connectionQueue, opening, conn, requests, opened, forgotten>>

----------------------------------------------------------------------------
\* What thread t does next once it is inside the pool's code.
Step(t) == Look(t) \/ PingOk(t) \/ PingFail(t) \/ Release(t) \/ Notify(t)

Next == \/ OpenOk \/ OpenFail
        \/ \E t \in Threads : Call(t) \/ Step(t) \/ Forget(t) \/ Spurious(t)

Spec == Init /\ [][Next]_vars

\* The operating system runs every thread that can run, and main finishes
\* init.  Nothing is assumed about which waiter notify_one picks, about the
\* order in which mutex_ admits threads, or about spurious wake-ups.
Fairness == /\ WF_vars(OpenOk \/ OpenFail)
            /\ \A t \in Threads : WF_vars(Step(t))

FairSpec == Spec /\ Fairness

----------------------------------------------------------------------------
(* Every variable has its type, and a local conn is set exactly from the pop  *)
(* to the release (DBConnectionPool.cpp:58-74).                               *)
TypeOK ==
    /\ connectionQueue \in Seq(Conns)
    /\ opening \in 1 .. PoolSize + 1
    /\ pc \in [Threads -> Locations]
    /\ conn \in [Threads -> Conns \cup {NULL}]
    /\ requests \in [Threads -> 0 .. MaxRequests]
    /\ opened \subseteq Conns
    /\ forgotten \subseteq Conns
    /\ \A t \in Threads : conn[t] # NULL <=> pc[t] \in {"ping", "use"}

\* In the queue at most once, in at most one thread, and never in both.
Exclusive ==
    /\ \A i, j \in 1 .. Len(connectionQueue) :
          connectionQueue[i] = connectionQueue[j] => i = j
    /\ \A t, u \in Threads : conn[t] = conn[u] /\ conn[t] # NULL => t = u
    /\ \A t \in Threads : conn[t] \notin InQueue
    /\ \A t \in Threads : conn[t] \notin forgotten
    /\ forgotten \cap InQueue = {}

\* Whatever init opened is in the queue, in a thread, or was dropped by a caller.
Conserved ==
    opened = InQueue \cup {conn[t] : t \in {u \in Threads : conn[u] # NULL}}
                     \cup forgotten

(* A MYSQL * is in exactly one place.  libmysqlclient handles are not          *)
(* thread-safe, so a double push or a pop of a connection still in use would   *)
(* corrupt the protocol stream; and none disappears inside the pool, since the *)
(* ping-failure path gives its connection back (the fix of issue tracker 1-2). *)
OnePlace == Exclusive /\ Conserved

\* The threads that are about to look at the queue or to notify a waiter.
Active == {t \in Threads : pc[t] \in {"lock", "notify"}}

(* No lost wake-up: while a thread is blocked, every idle connection has a    *)
(* thread of its own on the way to it, although notify_one runs after the     *)
(* unlock and newcomers may overtake the thread that was notified.            *)
NoLostWakeup == Waiting # {} => Len(connectionQueue) <= Cardinality(Active)

(* The pool implements the lease, a ping being made by a thread that already  *)
(* owns the connection.                                                       *)
Lease == INSTANCE ConnectionLease WITH free <- InQueue, lease <- conn
LeaseSpec == Lease!Spec

(* Every call is answered, with a connection or with NULL, as long as not     *)
(* every connection that init opened was dropped by a caller; if init opened  *)
(* none, or the last one is dropped, a blocked thread waits for ever.         *)
(* The number of calls is finite: against an endless stream of newcomers      *)
(* nothing in the code protects a waiter from being overtaken.                *)
EveryCallAnswered ==
    \A t \in Threads :
        (pc[t] = "lock") ~> (pc[t] \notin {"lock", "wait"} \/ opened \subseteq forgotten)
=============================================================================
