-------------------------- MODULE ConnectionLease --------------------------
(* What the connection pool promises its callers, with no queue, no mutex and *)
(* no condition variable: a connection is either free or leased to exactly one *)
(* thread, and a thread leases at most one at a time.                          *)
EXTENDS Naturals

CONSTANTS Threads,   \* the threads that borrow connections
          Conns,     \* the connections the server tries to open
          NULL       \* what a thread that leases nothing has

VARIABLES free,      \* connections anybody may be granted
          lease      \* lease[t]: the connection thread t has, or NULL

vars == <<free, lease>>

Leased == {lease[t] : t \in Threads} \ {NULL}

Init == free = {} /\ lease = [t \in Threads |-> NULL]

Open(c) ==
    /\ c \notin free \cup Leased
    /\ free' = free \cup {c}
    /\ UNCHANGED lease

Grant(t, c) ==
    /\ lease[t] = NULL
    /\ c \in free
    /\ free' = free \ {c}
    /\ lease' = [lease EXCEPT ![t] = c]

Return(t) ==
    /\ lease[t] # NULL
    /\ free' = free \cup {lease[t]}
    /\ lease' = [lease EXCEPT ![t] = NULL]

\* The thread forgets the connection: nobody can ever be granted it again.
Lose(t) ==
    /\ lease[t] # NULL
    /\ lease' = [lease EXCEPT ![t] = NULL]
    /\ UNCHANGED free

Next == \/ \E c \in Conns : Open(c)
        \/ \E t \in Threads : (\E c \in Conns : Grant(t, c)) \/ Return(t) \/ Lose(t)

Spec == Init /\ [][Next]_vars
=============================================================================
