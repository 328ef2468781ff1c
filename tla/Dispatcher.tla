---------------------------- MODULE Dispatcher ----------------------------
(* What the work queue promises the network thread: packets are accepted in   *)
(* an order, each is begun once and in that order, and each worker handles    *)
(* one at a time.                                                             *)
EXTENDS Naturals

CONSTANT Workers

VARIABLES accepted,   \* packets accepted so far: 1 .. accepted
          begun,      \* packets begun so far: 1 .. begun, oldest first
          current,    \* current[w]: the packet worker w handles, 0 for none
          finished    \* packets whose handler returned or threw

vars == <<accepted, begun, current, finished>>

Init == /\ accepted = 0 /\ begun = 0
        /\ current = [w \in Workers |-> 0]
        /\ finished = {}

Accept == /\ accepted' = accepted + 1
          /\ UNCHANGED <<begun, current, finished>>

Begin(w) == /\ current[w] = 0
            /\ begun < accepted
            /\ begun' = begun + 1
            /\ current' = [current EXCEPT ![w] = begun + 1]
            /\ UNCHANGED <<accepted, finished>>

Finish(w) == /\ current[w] # 0
             /\ finished' = finished \cup {current[w]}
             /\ current' = [current EXCEPT ![w] = 0]
             /\ UNCHANGED <<accepted, begun>>

Next == Accept \/ \E w \in Workers : Begin(w) \/ Finish(w)

Spec == Init /\ [][Next]_vars
===========================================================================
