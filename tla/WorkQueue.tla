----------------------------- MODULE WorkQueue -----------------------------
(* The hand-over of packets from the epoll thread to the worker threads       *)
(* (include/thread/WorkQueue.hpp).  Every critical section of mtx_ is short    *)
(* and touches only what it protects, so it is one step; notify_one and        *)
(* notify_all come after the unlock and are steps of their own.  A packet is   *)
(* its number in the order of push.                                            *)
EXTENDS Integers, Sequences, FiniteSets

CONSTANTS Workers,   \* the worker threads (8 of them)
          MaxItems   \* bound: packets pushed

ASSUME WorkersAssumption == IsFiniteSet(Workers) /\ Workers # {}
ASSUME MaxItemsAssumption == MaxItems \in Nat

VARIABLES queue,     \* queue_
          pushed,    \* totalPushed_: the number of the last packet pushed
          stop,      \* stop_
          pc,        \* where each worker is in workerLoop
          item,      \* the packet a worker handles, 0 for none
          main,      \* where the thread that owns the queue is
          finished   \* history: packets whose handler returned or threw

vars == <<queue, pushed, stop, pc, item, main, finished>>

Waiting == {w \in Workers : pc[w] = "wait"}   \* blocked in cv_.wait

Init ==
    /\ queue = <<>>
    /\ pushed = 0
    /\ stop = FALSE
    /\ pc = [w \in Workers |-> "lock"]
    /\ item = [w \in Workers |-> 0]
    /\ main = "run"
    /\ finished = {}

----------------------------------------------------------------------------
(* The epoll thread *)
Push ==
    /\ main = "run"
    /\ pushed < MaxItems
    /\ pushed' = pushed + 1
    /\ queue' = Append(queue, pushed + 1)
    /\ main' = "notify"
    /\ UNCHANGED <<stop, pc, item, finished>>

\* Mutant: push returns without a notification.
NotifyOne_Lost ==
    /\ main = "notify"
    /\ main' = "run"
    /\ UNCHANGED <<queue, pushed, stop, pc, item, finished>>

\* One blocked worker, if there is one, goes for the mutex.
NotifyOne ==
    /\ main = "notify"
    /\ main' = "run"
    /\ \/ /\ Waiting = {}
          /\ UNCHANGED pc
       \/ \E w \in Waiting : pc' = [pc EXCEPT ![w] = "lock"]
    /\ UNCHANGED <<queue, pushed, stop, item, finished>>

\* ~WorkQueue: set the flag under the mutex, wake everybody, join.
Stop ==
    /\ main = "run"
    /\ stop' = TRUE
    /\ main' = "notifyAll"
    /\ UNCHANGED <<queue, pushed, pc, item, finished>>

\* Mutant: the destructor calls notify_one.
NotifyAll_One ==
    /\ main = "notifyAll"
    /\ main' = "join"
    /\ \/ Waiting = {} /\ UNCHANGED pc
       \/ \E w \in Waiting : pc' = [pc EXCEPT ![w] = "lock"]
    /\ UNCHANGED <<queue, pushed, stop, item, finished>>

NotifyAll ==
    /\ main = "notifyAll"
    /\ main' = "join"
    /\ pc' = [w \in Workers |-> IF pc[w] = "wait" THEN "lock" ELSE pc[w]]
    /\ UNCHANGED <<queue, pushed, stop, item, finished>>

Join ==
    /\ main = "join"
    /\ \A w \in Workers : pc[w] = "exited"
    /\ main' = "joined"
    /\ UNCHANGED <<queue, pushed, stop, pc, item, finished>>

(* workerLoop *)
Wait(w) ==
    /\ pc[w] = "lock"
    /\ queue = <<>> /\ ~stop
    /\ pc' = [pc EXCEPT ![w] = "wait"]
    /\ UNCHANGED <<queue, pushed, stop, item, main, finished>>

\* Mutant: a worker leaves as soon as it sees the flag.
Exit_OnStop(w) ==
    /\ pc[w] = "lock"
    /\ stop
    /\ pc' = [pc EXCEPT ![w] = "exited"]
    /\ UNCHANGED <<queue, pushed, stop, item, main, finished>>

Exit(w) ==
    /\ pc[w] = "lock"
    /\ queue = <<>> /\ stop
    /\ pc' = [pc EXCEPT ![w] = "exited"]
    /\ UNCHANGED <<queue, pushed, stop, item, main, finished>>

\* Mutant of Take: front() without pop().
Take_NoPop(w) ==
    /\ pc[w] = "lock"
    /\ queue # <<>>
    /\ item' = [item EXCEPT ![w] = Head(queue)]
    /\ pc' = [pc EXCEPT ![w] = "handle"]
    /\ UNCHANGED <<queue, pushed, stop, main, finished>>

Take(w) ==
    /\ pc[w] = "lock"
    /\ queue # <<>>
    /\ item' = [item EXCEPT ![w] = Head(queue)]
    /\ queue' = Tail(queue)
    /\ pc' = [pc EXCEPT ![w] = "handle"]
    /\ UNCHANGED <<pushed, stop, main, finished>>

\* Mutant: the worker loops with the old item still set.
Finish_KeepsItem(w) ==
    /\ pc[w] = "handle"
    /\ finished' = finished \cup {item[w]}
    /\ pc' = [pc EXCEPT ![w] = "lock"]
    /\ UNCHANGED <<queue, pushed, stop, item, main>>

\* handler_ returns, or throws and the worker catches it.
Finish(w) ==
    /\ pc[w] = "handle"
    /\ finished' = finished \cup {item[w]}
    /\ item' = [item EXCEPT ![w] = 0]
    /\ pc' = [pc EXCEPT ![w] = "lock"]
    /\ UNCHANGED <<queue, pushed, stop, main>>

\* A condition variable may wake without a notification.
Spurious(w) ==
    /\ pc[w] = "wait"
    /\ pc' = [pc EXCEPT ![w] = "lock"]
    /\ UNCHANGED <<queue, pushed, stop, item, main, finished>>

----------------------------------------------------------------------------
Step(w) == Wait(w) \/ Exit(w) \/ Take(w) \/ Finish(w)

Next == \/ Push \/ NotifyOne \/ Stop \/ NotifyAll \/ Join
        \/ \E w \in Workers : Step(w) \/ Spurious(w)

Spec == Init /\ [][Next]_vars

\* Threads that can run do run, and a handler is assumed to return (client
\* sockets are non-blocking, the database connections have a read timeout).
\* Nothing obliges the owner to push or to stop.
Fairness == /\ WF_vars(NotifyOne) /\ WF_vars(NotifyAll) /\ WF_vars(Join)
            /\ \A w \in Workers : WF_vars(Step(w))

FairSpec == Spec /\ Fairness

----------------------------------------------------------------------------
(* Types; and item is set exactly while the handler runs.                     *)
TypeOK ==
    /\ queue \in Seq(1 .. MaxItems)
    /\ pushed \in 0 .. MaxItems
    /\ stop \in BOOLEAN
    /\ pc \in [Workers -> {"lock", "wait", "handle", "exited"}]
    /\ item \in [Workers -> 0 .. MaxItems]
    /\ main \in {"run", "notify", "notifyAll", "join", "joined"}
    /\ finished \subseteq 1 .. MaxItems
    /\ \A w \in Workers : item[w] # 0 <=> pc[w] = "handle"

\* How many packets have been taken from the queue.
begun == pushed - Len(queue)

(* Packets leave the queue in the order of push, none skipped, none twice:    *)
(* what is queued is exactly what was pushed after the packets already taken, *)
(* and every packet taken is with exactly one worker or finished.             *)
ExactlyOnce ==
    /\ begun >= 0
    /\ \A i \in 1 .. Len(queue) : queue[i] = begun + i
    /\ \A w \in Workers : item[w] <= begun /\ item[w] \notin finished
    /\ \A v, w \in Workers : item[v] = item[w] /\ item[v] # 0 => v = w
    /\ \A k \in 1 .. begun : k \in finished \/ \E w \in Workers : item[w] = k
    /\ finished \subseteq 1 .. begun

\* The workers about to look at the queue.
Active == {w \in Workers : pc[w] = "lock"}

(* No lost wake-up: while a worker is blocked, every queued packet has a      *)
(* worker on the way to it or the epoll thread about to notify one; and no    *)
(* worker stays blocked once the destructor has notified all.                 *)
NoLostWakeup ==
    /\ Waiting # {} =>
          Len(queue) <= Cardinality(Active) + (IF main = "notify" THEN 1 ELSE 0)
    /\ main \in {"join", "joined"} => Waiting = {}

(* The stop drains the queue: a worker leaves only when nothing is queued,    *)
(* and after the join every packet ever pushed has been handled.              *)
DrainedOnExit ==
    /\ (\E w \in Workers : pc[w] = "exited") => queue = <<>> /\ stop
    /\ main = "joined" => finished = 1 .. pushed

(* The queue, the mutex and the condition variable implement the dispatcher.  *)
Dispatch == INSTANCE Dispatcher WITH accepted <- pushed, current <- item
DispatchSpec == Dispatch!Spec

(* Every packet pushed is handled sooner or later, before or after the stop.  *)
EveryPacketHandled ==
    \A k \in 1 .. MaxItems : (pushed >= k) ~> (k \in finished)

(* The destructor never hangs in join: no worker sleeps through the stop.     *)
StopCompletes == stop ~> (main = "joined")
============================================================================
