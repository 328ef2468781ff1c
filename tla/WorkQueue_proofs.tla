------------------------- MODULE WorkQueue_proofs -------------------------
(* Proofs about WorkQueue for any number of workers and of packets.          *)
EXTENDS WorkQueue, SequenceTheorems, FiniteSetTheorems, TLAPS

(* What adding or removing one thread does to the size of a set of threads. *)
LEMMA CardFacts ==
  ASSUME NEW S, IsFiniteSet(S), NEW A \in SUBSET S, NEW t \in S
  PROVE  /\ Cardinality(A) \in Nat
         /\ t \notin A => Cardinality(A \cup {t}) = Cardinality(A) + 1
         /\ t \in A => Cardinality(A \cup {t}) = Cardinality(A)
         /\ t \in A => Cardinality(A \ {t}) = Cardinality(A) - 1
<1>1. IsFiniteSet(A)
  BY FS_Subset
<1>2. Cardinality(A) \in Nat
  BY <1>1, FS_CardinalityType
<1>3. /\ t \notin A => Cardinality(A \cup {t}) = Cardinality(A) + 1
      /\ t \in A => Cardinality(A \cup {t}) = Cardinality(A)
  BY <1>1, FS_AddElement
<1>4. t \in A => Cardinality(A \ {t}) = Cardinality(A) - 1
  BY <1>1, FS_RemoveElement
<1> QED
  BY <1>2, <1>3, <1>4

\* Which control states of the owner go with which values of stop and pc.
Control ==
    /\ stop <=> main \in {"notifyAll", "join", "joined"}
    /\ \A w \in Workers : pc[w] = "exited" => stop /\ queue = <<>>
    /\ main = "joined" => \A w \in Workers : pc[w] = "exited"

Inv == TypeOK /\ ExactlyOnce /\ Control

LEMMA InitInv == Init => Inv
<1> SUFFICES ASSUME Init PROVE Inv
  OBVIOUS
<1>1. Len(queue) = 0 /\ queue \in Seq(1 .. MaxItems)
  BY DEF Init
<1>2. /\ pushed = 0 /\ finished = {} /\ stop = FALSE /\ main = "run"
      /\ item = [w \in Workers |-> 0] /\ pc = [w \in Workers |-> "lock"]
  BY DEF Init
<1>3. TypeOK
  <2>1. 0 \in 0 .. MaxItems
    BY MaxItemsAssumption
  <2>2. item \in [Workers -> 0 .. MaxItems]
    BY <1>2, <2>1
  <2>3. \A w \in Workers : item[w] # 0 <=> pc[w] = "handle"
    BY <1>2
  <2> QED
    BY <1>1, <1>2, <2>1, <2>2, <2>3 DEF TypeOK
<1>4. ExactlyOnce
  <2>1. begun = 0
    BY <1>1, <1>2 DEF begun
  <2> QED
    BY <1>1, <1>2, <2>1 DEF ExactlyOnce
<1>5. Control
  BY <1>2 DEF Init, Control
<1> QED
  BY <1>3, <1>4, <1>5 DEF Inv

LEMMA StepInv == Inv /\ [Next]_vars => Inv'
<1> SUFFICES ASSUME Inv, [Next]_vars PROVE Inv'
  OBVIOUS
<1>t. /\ queue \in Seq(1 .. MaxItems) /\ Len(queue) \in Nat
      /\ MaxItems \in Nat /\ pushed \in 0 .. MaxItems /\ stop \in BOOLEAN
      /\ pc \in [Workers -> {"lock", "wait", "handle", "exited"}]
      /\ item \in [Workers -> 0 .. MaxItems]
      /\ main \in {"run", "notify", "notifyAll", "join", "joined"}
      /\ finished \subseteq 1 .. MaxItems
      /\ \A w \in Workers : item[w] # 0 <=> pc[w] = "handle"
  BY MaxItemsAssumption, LenProperties DEF Inv, TypeOK
<1>e. /\ begun = pushed - Len(queue) /\ begun >= 0
      /\ \A i \in 1 .. Len(queue) : queue[i] = begun + i
      /\ \A w \in Workers : item[w] <= begun /\ item[w] \notin finished
      /\ \A v, w \in Workers : item[v] = item[w] /\ item[v] # 0 => v = w
      /\ \A k \in 1 .. begun : k \in finished \/ \E w \in Workers : item[w] = k
      /\ finished \subseteq 1 .. begun
  BY DEF Inv, ExactlyOnce, begun
<1>c. Control
  BY DEF Inv
<1>1. CASE Push
  <2>1. /\ pushed + 1 \in 1 .. MaxItems /\ pushed' = pushed + 1
        /\ queue' = Append(queue, pushed + 1)
        /\ main = "run" /\ main' = "notify" /\ UNCHANGED <<stop, pc, item, finished>>
    BY <1>1, <1>t DEF Push
  <2>2. /\ queue' \in Seq(1 .. MaxItems) /\ Len(queue') = Len(queue) + 1
        /\ \A i \in 1 .. Len(queue) : queue'[i] = queue[i]
        /\ queue'[Len(queue) + 1] = pushed + 1
    BY <2>1, <1>t, AppendProperties
  <2>3. begun' = begun
    BY <2>1, <2>2, <1>t DEF begun
  <2>4. \A i \in 1 .. Len(queue') : queue'[i] = begun' + i
    <3>1. \A i \in 1 .. Len(queue') : i \in 1 .. Len(queue) \/ i = Len(queue) + 1
      BY <2>2, <1>t
    <3>2. \A i \in 1 .. Len(queue) : queue'[i] = begun' + i
      BY <2>2, <2>3, <1>e
    <3>3. pushed + 1 = begun' + (Len(queue) + 1)
      BY <2>3, <1>t, <1>e
    <3> QED
      BY <2>2, <3>1, <3>2, <3>3
  <2>5. ExactlyOnce'
    BY <2>1, <2>3, <2>4, <1>e DEF ExactlyOnce
  <2>6. TypeOK'
    BY <2>1, <2>2, <1>t DEF TypeOK
  <2>7. Control'
    BY <2>1, <1>c DEF Control
  <2> QED
    BY <2>5, <2>6, <2>7 DEF Inv
<1>2. CASE NotifyOne
  <2>1. pc' \in [Workers -> {"lock", "wait", "handle", "exited"}]
        /\ \A w \in Workers : pc'[w] = pc[w] \/ (pc[w] = "wait" /\ pc'[w] = "lock")
    BY <1>2, <1>t DEF NotifyOne, Waiting
  <2>2. TypeOK' /\ Control'
    BY <1>2, <2>1, <1>t, <1>c DEF NotifyOne, TypeOK, Control
  <2>3. ExactlyOnce'
    BY <1>2, <1>e DEF NotifyOne, ExactlyOnce, begun
  <2> QED
    BY <2>2, <2>3 DEF Inv
<1>3. CASE Stop
  <2>1. TypeOK' /\ Control'
    BY <1>3, <1>t, <1>c DEF Stop, TypeOK, Control
  <2>2. ExactlyOnce'
    BY <1>3, <1>e DEF Stop, ExactlyOnce, begun
  <2> QED
    BY <2>1, <2>2 DEF Inv
<1>4. CASE NotifyAll
  <2>1. TypeOK' /\ Control'
    BY <1>4, <1>t, <1>c DEF NotifyAll, TypeOK, Control
  <2>2. ExactlyOnce'
    BY <1>4, <1>e DEF NotifyAll, ExactlyOnce, begun
  <2> QED
    BY <2>1, <2>2 DEF Inv
<1>5. CASE Join
  <2>1. TypeOK' /\ Control'
    BY <1>5, <1>t, <1>c DEF Join, TypeOK, Control
  <2>2. ExactlyOnce'
    BY <1>5, <1>e DEF Join, ExactlyOnce, begun
  <2> QED
    BY <2>1, <2>2 DEF Inv
<1>6. ASSUME NEW w \in Workers, Wait(w) \/ Exit(w) \/ Spurious(w) PROVE Inv'
  <2>1. TypeOK'
    BY <1>6, <1>t DEF Wait, Exit, Spurious, TypeOK
  <2>3. Control'
    <3>1. CASE Wait(w)
      BY <3>1, <1>t, <1>c DEF Wait, Control
    <3>2. CASE Exit(w)
      BY <3>2, <1>t, <1>c DEF Exit, Control
    <3>3. CASE Spurious(w)
      BY <3>3, <1>t, <1>c DEF Spurious, Control
    <3> QED
      BY <1>6, <3>1, <3>2, <3>3
  <2>2. ExactlyOnce'
    BY <1>6, <1>e DEF Wait, Exit, Spurious, ExactlyOnce, begun
  <2> QED
    BY <2>1, <2>2, <2>3 DEF Inv
<1>7. ASSUME NEW w \in Workers, Take(w) PROVE Inv'
  <2>1. /\ queue # <<>> /\ queue' = Tail(queue)
        /\ item' = [item EXCEPT ![w] = Head(queue)]
        /\ pc[w] = "lock" /\ pc' = [pc EXCEPT ![w] = "handle"]
        /\ UNCHANGED <<pushed, stop, main, finished>>
    BY <1>7 DEF Take
  <2>2. /\ Head(queue) \in 1 .. MaxItems /\ Head(queue) = queue[1]
        /\ queue' \in Seq(1 .. MaxItems)
        /\ Len(queue) \in Nat \ {0} /\ Len(queue') = Len(queue) - 1
        /\ \A i \in 1 .. Len(queue) - 1 : queue'[i] = queue[i + 1]
    BY <2>1, <1>t, HeadTailProperties, EmptySeq, LenProperties
  <2>3. begun' = begun + 1 /\ Head(queue) = begun + 1
    BY <2>1, <2>2, <1>t, <1>e DEF begun
  <2>4. \A i \in 1 .. Len(queue') : queue'[i] = begun' + i
    BY <2>2, <2>3, <1>t, <1>e
  <2>5. \A v \in Workers : item'[v] = IF v = w THEN begun + 1 ELSE item[v]
    BY <2>1, <2>3, <1>t
  <2>6. begun \in Nat
    BY <1>t, <1>e
  <2>7. ExactlyOnce'
    <3>1. begun' >= 0 /\ finished' \subseteq 1 .. begun'
      BY <2>1, <2>3, <2>6, <1>e
    <3>2. \A v \in Workers : item'[v] <= begun' /\ item'[v] \notin finished'
      BY <2>1, <2>3, <2>5, <2>6, <1>e, <1>t
    <3>3. \A u, v \in Workers : item'[u] = item'[v] /\ item'[u] # 0 => u = v
      BY <2>5, <2>6, <1>e, <1>t
    <3>4. \A k \in 1 .. begun' : k \in finished' \/ \E v \in Workers : item'[v] = k
      <4> SUFFICES ASSUME NEW k \in 1 .. begun', k \notin finished
                   PROVE  \E v \in Workers : item'[v] = k
        BY <2>1
      <4>1. CASE k = begun + 1
        BY <4>1, <2>5
      <4>2. CASE k # begun + 1
        <5>1. k \in 1 .. begun
          BY <4>2, <2>3, <2>6
        <5>2. PICK v \in Workers : item[v] = k
          BY <5>1, <1>e
        <5>3. v # w
          <6>1. item[w] = 0
            BY <2>1, <1>t
          <6>2. k # 0
            BY <5>1, <2>6
          <6> QED
            BY <5>2, <6>1, <6>2
        <5> QED
          BY <5>2, <5>3, <2>5
      <4> QED
        BY <4>1, <4>2
    <3> QED
      BY <2>4, <3>1, <3>2, <3>3, <3>4 DEF ExactlyOnce
  <2>8. TypeOK'
    BY <2>1, <2>2, <1>t DEF TypeOK
  <2>9. Control'
    BY <2>1, <1>t, <1>c DEF Control
  <2> QED
    BY <2>7, <2>8, <2>9 DEF Inv
<1>8. ASSUME NEW w \in Workers, Finish(w) PROVE Inv'
  <2>1. /\ pc[w] = "handle" /\ finished' = finished \cup {item[w]}
        /\ item' = [item EXCEPT ![w] = 0] /\ pc' = [pc EXCEPT ![w] = "lock"]
        /\ UNCHANGED <<queue, pushed, stop, main>>
    BY <1>8 DEF Finish
  <2>2. item[w] \in 1 .. begun /\ begun' = begun /\ begun \in Nat
    BY <2>1, <1>t, <1>e DEF begun
  <2>3. \A v \in Workers : item'[v] = IF v = w THEN 0 ELSE item[v]
    BY <2>1, <1>t
  <2>4. ExactlyOnce'
    <3>1. /\ begun' >= 0 /\ finished' \subseteq 1 .. begun'
          /\ \A i \in 1 .. Len(queue') : queue'[i] = begun' + i
      BY <2>1, <2>2, <1>e
    <3>2. \A v \in Workers : v # w => item[v] # item[w]
      BY <2>2, <1>e
    <3>3. 0 \notin finished'
      BY <2>1, <2>2, <1>e
    <3>4. \A v \in Workers : item'[v] <= begun' /\ item'[v] \notin finished'
      BY <2>1, <2>2, <2>3, <3>2, <3>3, <1>e
    <3>5. \A u, v \in Workers : item'[u] = item'[v] /\ item'[u] # 0 => u = v
      BY <2>3, <1>e
    <3>6. \A k \in 1 .. begun' : k \in finished' \/ \E v \in Workers : item'[v] = k
      BY <2>1, <2>2, <2>3, <1>e
    <3> QED
      BY <3>1, <3>4, <3>5, <3>6 DEF ExactlyOnce
  <2>5. TypeOK'
    <3>1. item[w] \in 1 .. MaxItems
      BY <2>1, <1>t
    <3> QED
      <4>1. 0 \in 0 .. MaxItems
        BY <1>t
      <4>2. item' \in [Workers -> 0 .. MaxItems]
        BY <2>1, <1>t, <4>1
      <4>3. \A v \in Workers : item'[v] # 0 <=> pc'[v] = "handle"
        BY <2>1, <2>3, <1>t
      <4> QED
        BY <2>1, <3>1, <4>2, <4>3, <1>t DEF TypeOK
  <2>6. Control'
    BY <2>1, <1>t, <1>c DEF Control
  <2> QED
    BY <2>4, <2>5, <2>6 DEF Inv
<1>9. CASE UNCHANGED vars
  BY <1>9, <1>e, <1>t, <1>c DEF vars, Inv, TypeOK, ExactlyOnce, Control, begun
<1> QED
  BY <1>1, <1>2, <1>3, <1>4, <1>5, <1>6, <1>7, <1>8, <1>9 DEF Next, Step

(* Workers, their packets and the queue fit together in every state.          *)
THEOREM QueueTypeOK == Spec => []TypeOK
<1>1. Inv => TypeOK
  BY DEF Inv
<1> QED
  BY <1>1, InitInv, StepInv, PTL DEF Spec

(* Every packet pushed leaves the queue once, in the order of push, and is   *)
(* with one worker or finished ever after (WorkQueue.hpp:76-163).            *)
THEOREM QueueExactlyOnce == Spec => []ExactlyOnce
<1>1. Inv => ExactlyOnce
  BY DEF Inv
<1> QED
  BY <1>1, InitInv, StepInv, PTL DEF Spec

(* The destructor returns only after every packet was handled                *)
(* (WorkQueue.hpp:58-71, 133-134).                                           *)
THEOREM QueueDrained == Spec => []DrainedOnExit
<1>1. ASSUME Inv PROVE DrainedOnExit
  <2>1. ASSUME main = "joined" PROVE finished = 1 .. pushed
    <3>1. PICK w \in Workers : TRUE
      BY WorkersAssumption
    <3>2. queue = <<>> /\ \A v \in Workers : pc[v] = "exited"
      BY <1>1, <2>1, <3>1 DEF Inv, Control
    <3>3. Len(queue) = 0 /\ begun = pushed /\ pushed \in Nat
      BY <1>1, <3>2, MaxItemsAssumption DEF begun, Inv, TypeOK
    <3>4. \A v \in Workers : item[v] = 0
      BY <1>1, <3>2 DEF Inv, TypeOK
    <3>5. \A k \in 1 .. begun : k \in finished
      BY <1>1, <3>3, <3>4 DEF Inv, ExactlyOnce
    <3> QED
      BY <1>1, <3>3, <3>5 DEF Inv, ExactlyOnce
  <2>2. (\E w \in Workers : pc[w] = "exited") => queue = <<>> /\ stop
    BY <1>1 DEF Inv, Control
  <2> QED
    BY <2>1, <2>2 DEF DrainedOnExit
<1> QED
  BY <1>1, InitInv, StepInv, PTL DEF Spec

----------------------------------------------------------------------------
WakeInv == Inv /\ NoLostWakeup

LEMMA InitWake == Init => WakeInv
<1> SUFFICES ASSUME Init PROVE NoLostWakeup
  BY InitInv DEF WakeInv
<1> QED
  BY DEF Init, NoLostWakeup, Waiting

LEMMA StepWake == WakeInv /\ [Next]_vars => WakeInv'
<1> SUFFICES ASSUME WakeInv, [Next]_vars PROVE NoLostWakeup'
  BY StepInv DEF WakeInv
<1>t. /\ queue \in Seq(1 .. MaxItems) /\ Len(queue) \in Nat
      /\ MaxItems \in Nat /\ pushed \in 0 .. MaxItems
      /\ pc \in [Workers -> {"lock", "wait", "handle", "exited"}]
      /\ main \in {"run", "notify", "notifyAll", "join", "joined"}
      /\ Active \in SUBSET Workers /\ Cardinality(Active) \in Nat
      /\ Waiting \in SUBSET Workers
  BY MaxItemsAssumption, LenProperties, FS_Subset, FS_CardinalityType, WorkersAssumption
     DEF WakeInv, Inv, TypeOK, Active, Waiting
<1> DEFINE notifying == IF main = "notify" THEN 1 ELSE 0
<1>n. Waiting # {} => Len(queue) <= Cardinality(Active) + notifying
  BY DEF WakeInv, NoLostWakeup
<1>j. main \in {"join", "joined"} => Waiting = {}
  BY DEF WakeInv, NoLostWakeup
<1>s. stop <=> main \in {"notifyAll", "join", "joined"}
  BY DEF WakeInv, Inv, Control
<1>1. CASE Push
  <2>1. Len(queue') = Len(queue) + 1
    BY <1>1, <1>t, AppendProperties DEF Push
  <2>2. Waiting' = Waiting /\ Active' = Active /\ main = "run" /\ main' = "notify"
    BY <1>1 DEF Push, Waiting, Active
  <2> QED
    BY <2>1, <2>2, <1>n, <1>t DEF NoLostWakeup
<1>2. CASE NotifyOne
  <2>1. queue' = queue /\ main = "notify" /\ main' = "run"
    BY <1>2 DEF NotifyOne
  <2>2. CASE Waiting = {} /\ UNCHANGED pc
    BY <2>1, <2>2 DEF NoLostWakeup, Waiting
  <2>3. CASE \E w \in Waiting : pc' = [pc EXCEPT ![w] = "lock"]
    <3>1. PICK w \in Waiting : pc' = [pc EXCEPT ![w] = "lock"]
      BY <2>3
    <3>2. w \in Workers /\ w \notin Active /\ Active' = Active \cup {w}
      BY <3>1, <1>t DEF Waiting, Active
    <3>3. Cardinality(Active') = Cardinality(Active) + 1
      BY <3>2, <1>t, CardFacts, WorkersAssumption
    <3> QED
      BY <2>1, <3>1, <3>3, <1>n, <1>t DEF NoLostWakeup
  <2> QED
    BY <1>2, <2>2, <2>3 DEF NotifyOne
<1>3. CASE Stop
  <2>1. /\ queue' = queue /\ main = "run" /\ main' = "notifyAll"
        /\ Waiting' = Waiting /\ Active' = Active
    BY <1>3 DEF Stop, Waiting, Active
  <2> QED
    BY <2>1, <1>n, <1>t DEF NoLostWakeup
<1>4. CASE NotifyAll
  <2>1. Waiting' = {}
    BY <1>4, <1>t DEF NotifyAll, Waiting
  <2> QED
    BY <2>1 DEF NoLostWakeup
<1>5. CASE Join
  <2>1. main = "join" /\ Waiting' = Waiting
    BY <1>5 DEF Join, Waiting
  <2> QED
    BY <2>1, <1>j DEF NoLostWakeup
<1>6. ASSUME NEW w \in Workers, Wait(w) PROVE NoLostWakeup'
  <2>1. queue' = <<>> /\ main' = main /\ main \notin {"join", "joined"}
    BY <1>6, <1>s, <1>t DEF Wait
  <2>2. Len(queue') = 0
    BY <2>1
  <2>3. Active' \in SUBSET Workers
    BY DEF Active
  <2>4. Cardinality(Active') \in Nat
    BY <2>3, FS_Subset, FS_CardinalityType, WorkersAssumption
  <2> QED
    BY <2>1, <2>2, <2>4 DEF NoLostWakeup
<1>7. ASSUME NEW w \in Workers, Exit(w) PROVE NoLostWakeup'
  <2>1. Waiting' = Waiting /\ main' = main /\ Len(queue') = 0
    BY <1>7, <1>t DEF Exit, Waiting
  <2>2. Active' \in SUBSET Workers
    BY DEF Active
  <2>3. Cardinality(Active') \in Nat
    BY <2>2, FS_Subset, FS_CardinalityType, WorkersAssumption
  <2> QED
    BY <2>1, <2>3, <1>j DEF NoLostWakeup
<1>8. ASSUME NEW w \in Workers, Take(w) PROVE NoLostWakeup'
  <2>1. Len(queue') = Len(queue) - 1 /\ Len(queue) \in Nat \ {0}
    BY <1>8, <1>t, HeadTailProperties, EmptySeq, LenProperties DEF Take
  <2>2. /\ Active' = Active \ {w} /\ w \in Active
        /\ Waiting' = Waiting /\ main' = main
    BY <1>8, <1>t DEF Take, Active, Waiting
  <2>3. Cardinality(Active') = Cardinality(Active) - 1
    BY <2>2, <1>t, CardFacts, WorkersAssumption
  <2> QED
    BY <2>1, <2>2, <2>3, <1>n, <1>j, <1>t DEF NoLostWakeup
<1>9. ASSUME NEW w \in Workers, Finish(w) \/ Spurious(w) PROVE NoLostWakeup'
  <2>1. /\ Active' = Active \cup {w} /\ w \notin Active
        /\ Waiting' \subseteq Waiting /\ main' = main /\ queue' = queue
    BY <1>9, <1>t DEF Finish, Spurious, Active, Waiting
  <2>2. Cardinality(Active') = Cardinality(Active) + 1
    BY <2>1, <1>t, CardFacts, WorkersAssumption
  <2> QED
    BY <2>1, <2>2, <1>n, <1>j, <1>t DEF NoLostWakeup
<1>10. CASE UNCHANGED vars
  BY <1>10, <1>n, <1>j DEF vars, NoLostWakeup, Waiting, Active
<1> QED
  BY <1>1, <1>2, <1>3, <1>4, <1>5, <1>6, <1>7, <1>8, <1>9, <1>10 DEF Next, Step

(* No worker sleeps while a packet waits with nobody on the way to it, and   *)
(* none sleeps through the stop.                                             *)
THEOREM QueueNoLostWakeup == Spec => []NoLostWakeup
<1>1. WakeInv => NoLostWakeup
  BY DEF WakeInv
<1> QED
  BY <1>1, InitWake, StepWake, PTL DEF Spec

----------------------------------------------------------------------------
LEMMA InitDispatch == Init => Dispatch!Init
<1> SUFFICES ASSUME Init PROVE Dispatch!Init
  OBVIOUS
<1>1. Len(queue) = 0 /\ pushed = 0
  BY DEF Init
<1>2. begun = 0
  BY <1>1 DEF begun
<1> QED
  BY <1>2 DEF Init, Dispatch!Init

LEMMA StepDispatch == Inv /\ Inv' /\ [Next]_vars => [Dispatch!Next]_(Dispatch!vars)
<1> SUFFICES ASSUME Inv, Inv', [Next]_vars
             PROVE  Dispatch!Next \/ UNCHANGED <<pushed, begun, item, finished>>
  BY DEF Dispatch!vars
<1>t. /\ queue \in Seq(1 .. MaxItems) /\ Len(queue) \in Nat
      /\ pushed \in Nat /\ item \in [Workers -> 0 .. MaxItems]
      /\ \A w \in Workers : item[w] # 0 <=> pc[w] = "handle"
  BY MaxItemsAssumption, LenProperties DEF Inv, TypeOK
<1>1. CASE Push
  <2>1. Len(queue') = Len(queue) + 1 /\ pushed' = pushed + 1
    BY <1>1, <1>t, AppendProperties, MaxItemsAssumption DEF Push
  <2>2. begun' = begun
    BY <2>1, <1>t DEF begun
  <2> QED
    BY <1>1, <2>2 DEF Push, Dispatch!Next, Dispatch!Accept
<1>2. ASSUME NEW w \in Workers, Take(w) PROVE Dispatch!Next
  <2>1. /\ item' = [item EXCEPT ![w] = Head(queue)] /\ item[w] = 0
        /\ UNCHANGED <<pushed, finished>>
    BY <1>2, <1>t DEF Take
  <2>2. /\ Head(queue) = queue[1] /\ Len(queue) \in Nat \ {0}
        /\ Len(queue') = Len(queue) - 1
    BY <1>2, <1>t, HeadTailProperties, EmptySeq, LenProperties DEF Take
  <2>3. begun' = begun + 1 /\ begun < pushed
    BY <2>1, <2>2, <1>t DEF begun
  <2>4. queue[1] = begun + 1
    BY <2>2 DEF Inv, ExactlyOnce
  <2>5. Dispatch!Begin(w)
    BY <2>1, <2>2, <2>3, <2>4 DEF Dispatch!Begin
  <2> QED
    BY <2>5 DEF Dispatch!Next
<1>3. ASSUME NEW w \in Workers, Finish(w) PROVE Dispatch!Next
  <2>1. begun' = begun
    BY <1>3 DEF Finish, begun
  <2> QED
    BY <1>3, <1>t, <2>1 DEF Finish, Dispatch!Next, Dispatch!Finish
<1>4. ASSUME NEW w \in Workers, Wait(w) \/ Exit(w) \/ Spurious(w)
      PROVE  UNCHANGED <<pushed, begun, item, finished>>
  BY <1>4 DEF Wait, Exit, Spurious, begun
<1>5. CASE NotifyOne \/ Stop \/ NotifyAll \/ Join \/ UNCHANGED vars
  BY <1>5 DEF NotifyOne, Stop, NotifyAll, Join, vars, begun
<1> QED
  BY <1>1, <1>2, <1>3, <1>4, <1>5 DEF Next, Step

(* The work queue implements the dispatcher.                                 *)
THEOREM QueueImplementsDispatcher == Spec => DispatchSpec
<1>1. Spec => []Inv
  BY InitInv, StepInv, PTL DEF Spec
<1> QED
  BY <1>1, InitDispatch, StepDispatch, PTL DEF Spec, DispatchSpec, Dispatch!Spec
===========================================================================
