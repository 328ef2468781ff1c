---------------------- MODULE DBConnectionPool_proofs ----------------------
(* Proofs about DBConnectionPool for any number of threads, any pool size,   *)
(* any bound on the requests and any set of forgetful threads.               *)
EXTENDS DBConnectionPool, SequenceTheorems, FiniteSetTheorems, TLAPS

----------------------------------------------------------------------------
(* Facts about FIFO queues and about the size of a set of threads.            *)

(* What Append does to a queue and to the set of its elements. *)
LEMMA AppendFacts ==
  ASSUME NEW S, NEW q \in Seq(S), NEW c \in S
  PROVE  /\ Append(q, c) \in Seq(S)
         /\ Len(Append(q, c)) = Len(q) + 1
         /\ \A i \in 1 .. Len(q) : Append(q, c)[i] = q[i]
         /\ Append(q, c)[Len(q) + 1] = c
         /\ {Append(q, c)[i] : i \in 1 .. Len(Append(q, c))}
              = {q[i] : i \in 1 .. Len(q)} \cup {c}
<1>1. /\ Append(q, c) \in Seq(S)
      /\ Len(Append(q, c)) = Len(q) + 1
      /\ \A i \in 1 .. Len(q) : Append(q, c)[i] = q[i]
      /\ Append(q, c)[Len(q) + 1] = c
  BY AppendProperties
<1>2. Len(q) \in Nat
  BY LenProperties
<1>3. \A i \in 1 .. Len(q) + 1 : i \in 1 .. Len(q) \/ i = Len(q) + 1
  BY <1>2
<1> QED
  BY <1>1, <1>2, <1>3

(* What Head and Tail do to a non-empty queue and to its elements. *)
LEMMA TailFacts ==
  ASSUME NEW S, NEW q \in Seq(S), q # <<>>
  PROVE  /\ Head(q) \in S
         /\ Head(q) = q[1]
         /\ Tail(q) \in Seq(S)
         /\ Len(q) \in Nat \ {0}
         /\ Len(Tail(q)) = Len(q) - 1
         /\ \A i \in 1 .. Len(q) - 1 : Tail(q)[i] = q[i + 1]
         /\ {q[i] : i \in 1 .. Len(q)}
              = {Head(q)} \cup {Tail(q)[i] : i \in 1 .. Len(Tail(q))}
<1>1. /\ Head(q) \in S
      /\ Head(q) = q[1]
      /\ Tail(q) \in Seq(S)
      /\ Len(Tail(q)) = Len(q) - 1
      /\ \A i \in 1 .. Len(q) - 1 : Tail(q)[i] = q[i + 1]
  BY HeadTailProperties
<1>2. Len(q) \in Nat \ {0}
  BY EmptySeq, LenProperties
<1>3. \A i \in 1 .. Len(q) : i = 1 \/ (i - 1 \in 1 .. Len(q) - 1 /\ q[i] = Tail(q)[i - 1])
  BY <1>1, <1>2
<1>4. \A j \in 1 .. Len(Tail(q)) : j + 1 \in 1 .. Len(q) /\ Tail(q)[j] = q[j + 1]
  BY <1>1, <1>2
<1>5. {q[i] : i \in 1 .. Len(q)} \subseteq {Head(q)} \cup {Tail(q)[i] : i \in 1 .. Len(Tail(q))}
  BY <1>1, <1>2, <1>3
<1>6. {Head(q)} \cup {Tail(q)[i] : i \in 1 .. Len(Tail(q))} \subseteq {q[i] : i \in 1 .. Len(q)}
  <2>1. 1 \in 1 .. Len(q)
    BY <1>2
  <2>2. Head(q) \in {q[i] : i \in 1 .. Len(q)}
    BY <1>1, <2>1
  <2>3. {Tail(q)[i] : i \in 1 .. Len(Tail(q))} \subseteq {q[i] : i \in 1 .. Len(q)}
    BY <1>4
  <2> QED
    BY <2>2, <2>3
<1> QED
  BY <1>1, <1>2, <1>5, <1>6

(* What adding or removing one thread does to the size of a set of threads. *)
LEMMA CardFacts ==
  ASSUME NEW S, IsFiniteSet(S), NEW A \in SUBSET S, NEW t \in S
  PROVE  /\ Cardinality(A) \in Nat
         /\ t \notin A => Cardinality(A \cup {t}) = Cardinality(A) + 1
         /\ t \in A => Cardinality(A \cup {t}) = Cardinality(A)
         /\ t \in A => Cardinality(A \ {t}) = Cardinality(A) - 1
<1>1. IsFiniteSet(A)
  BY FS_Subset
<1>2. Cardinality(A) \in Nat
  BY <1>1, FS_CardinalityType
<1>3. /\ t \notin A => Cardinality(A \cup {t}) = Cardinality(A) + 1
      /\ t \in A => Cardinality(A \cup {t}) = Cardinality(A)
  BY <1>1, FS_AddElement
<1>4. t \in A => Cardinality(A \ {t}) = Cardinality(A) - 1
  BY <1>1, FS_RemoveElement
<1> QED
  BY <1>2, <1>3, <1>4

----------------------------------------------------------------------------

(* notify_one moves at most one blocked thread, and only to the mutex. *)
LEMMA NotifyOneFacts ==
  ASSUME NEW locs \in [Threads -> Locations], NEW new \in NotifyOne(locs)
  PROVE  /\ new \in [Threads -> Locations]
         /\ \A t \in Threads : new[t] = locs[t] \/ (locs[t] = "wait" /\ new[t] = "lock")
  BY DEF NotifyOne, Locations

----------------------------------------------------------------------------
\* OpenOk pushes a connection that is not in the pool yet.
Fresh == opened \subseteq 1 .. opening - 1

Inv == TypeOK /\ Exclusive /\ Conserved /\ Fresh

LEMMA InitInv == Init => Inv
<1> SUFFICES ASSUME Init PROVE Inv
  OBVIOUS
<1>1. Len(connectionQueue) = 0 /\ connectionQueue \in Seq(Conns)
  BY DEF Init
<1>2. TypeOK
  BY <1>1, PoolSizeAssumption, MaxRequestsAssumption
     DEF Init, TypeOK, Locations, Conns, NULL
<1>3. Exclusive /\ Conserved /\ Fresh
  BY <1>1 DEF Init, Exclusive, Conserved, Fresh, InQueue
<1> QED
  BY <1>2, <1>3 DEF Inv

LEMMA StepInv == Inv /\ [Next]_vars => Inv'
<1> SUFFICES ASSUME Inv, [Next]_vars PROVE Inv'
  OBVIOUS
<1> USE DEF Inv
<1>t. /\ connectionQueue \in Seq(Conns) /\ opening \in 1 .. PoolSize + 1
      /\ pc \in [Threads -> Locations] /\ conn \in [Threads -> Conns \cup {NULL}]
      /\ requests \in [Threads -> 0 .. MaxRequests]
      /\ opened \subseteq Conns /\ forgotten \subseteq Conns
      /\ \A t \in Threads : conn[t] # NULL <=> pc[t] \in {"ping", "use"}
      /\ NULL \notin Conns /\ PoolSize \in Nat /\ MaxRequests \in Nat
      /\ Len(connectionQueue) \in Nat
  BY PoolSizeAssumption, MaxRequestsAssumption, LenProperties DEF TypeOK, NULL, Conns
<1>1. CASE OpenOk
  <2>1. opening \in Conns /\ opening \notin opened
    BY <1>1, <1>t DEF OpenOk, Conns, Fresh
  <2>2. opening \notin InQueue /\ opening \notin forgotten
        /\ \A t \in Threads : conn[t] # opening
    BY <1>t, <2>1 DEF Conserved
  <2>3. TypeOK'
    BY <1>1, <1>t, <2>1, AppendFacts DEF TypeOK, OpenOk, Conns
  <2>4. /\ Len(connectionQueue') = Len(connectionQueue) + 1
        /\ \A i \in 1 .. Len(connectionQueue) : connectionQueue'[i] = connectionQueue[i]
        /\ connectionQueue'[Len(connectionQueue) + 1] = opening
        /\ InQueue' = InQueue \cup {opening}
    BY <1>1, <1>t, <2>1, AppendFacts DEF OpenOk, InQueue
  <2>5. Exclusive'
    BY <1>1, <1>t, <2>2, <2>4 DEF Exclusive, OpenOk, InQueue
  <2>6. Conserved' /\ Fresh'
    BY <1>1, <1>t, <2>4 DEF Conserved, Fresh, OpenOk
  <2> QED
    BY <2>3, <2>5, <2>6
<1>2. CASE OpenFail
  <2>1. TypeOK' /\ Fresh'
    BY <1>2, <1>t DEF TypeOK, Fresh, OpenFail
  <2>2. Exclusive' /\ Conserved'
    BY <1>2 DEF Exclusive, Conserved, InQueue, OpenFail
  <2> QED
    BY <2>1, <2>2
<1>3. ASSUME NEW t \in Threads, Call(t) PROVE Inv'
  <2>1. TypeOK'
    BY <1>3, <1>t DEF TypeOK, Call, Locations
  <2>2. Exclusive' /\ Conserved' /\ Fresh'
    BY <1>3 DEF Exclusive, Conserved, Fresh, InQueue, Call
  <2> QED
    BY <2>1, <2>2
<1>4. ASSUME NEW t \in Threads, Look(t) PROVE Inv'
  <2>1. CASE connectionQueue = <<>>
    <3>1. TypeOK'
      BY <1>4, <1>t, <2>1 DEF TypeOK, Look, Locations
    <3>2. Exclusive' /\ Conserved' /\ Fresh'
      BY <1>4, <2>1 DEF Exclusive, Conserved, Fresh, InQueue, Look
    <3> QED
      BY <3>1, <3>2
  <2>2. CASE connectionQueue # <<>>
    <3> DEFINE c == Head(connectionQueue)
    <3>1. /\ c \in Conns /\ c = connectionQueue[1]
          /\ connectionQueue' \in Seq(Conns)
          /\ Len(connectionQueue) \in Nat \ {0}
          /\ Len(connectionQueue') = Len(connectionQueue) - 1
          /\ \A i \in 1 .. Len(connectionQueue) - 1 : connectionQueue'[i] = connectionQueue[i + 1]
          /\ InQueue = {c} \cup InQueue'
      <4>1. connectionQueue' = Tail(connectionQueue)
        BY <1>4, <2>2 DEF Look
      <4> QED
        <5>1. connectionQueue \in Seq(Conns)
          BY <1>t
        <5>2. /\ c \in Conns /\ c = connectionQueue[1]
              /\ Tail(connectionQueue) \in Seq(Conns)
              /\ Len(connectionQueue) \in Nat \ {0}
              /\ Len(Tail(connectionQueue)) = Len(connectionQueue) - 1
              /\ \A i \in 1 .. Len(connectionQueue) - 1 :
                    Tail(connectionQueue)[i] = connectionQueue[i + 1]
          BY <2>2, <5>1, TailFacts
        <5>3. {connectionQueue[i] : i \in 1 .. Len(connectionQueue)}
                = {Head(connectionQueue)} \cup
                  {Tail(connectionQueue)[i] : i \in 1 .. Len(Tail(connectionQueue))}
          BY <2>2, <5>1, TailFacts
        <5>4. InQueue' = {Tail(connectionQueue)[i] : i \in 1 .. Len(Tail(connectionQueue))}
          BY <4>1 DEF InQueue
        <5> QED
          BY <4>1, <5>2, <5>3, <5>4 DEF InQueue
    <3>2. /\ pc[t] = "lock" /\ conn[t] = NULL
          /\ conn' = [conn EXCEPT ![t] = c] /\ pc' = [pc EXCEPT ![t] = "ping"]
          /\ UNCHANGED <<opening, requests, opened, forgotten>>
      BY <1>4, <1>t, <2>2 DEF Look
    <3>3. c \notin InQueue'
      BY <3>1 DEF Exclusive, InQueue
    <3>4. TypeOK'
      BY <1>t, <3>1, <3>2 DEF TypeOK, Locations
    <3>5. Exclusive'
      <4>1. \A i, j \in 1 .. Len(connectionQueue') :
               connectionQueue'[i] = connectionQueue'[j] => i = j
        BY <3>1 DEF Exclusive
      <4>2. \A u \in Threads : conn[u] # c /\ conn[u] \notin InQueue' /\ c \notin forgotten
        BY <3>1 DEF Exclusive
      <4>3. \A u \in Threads : conn'[u] \notin InQueue' /\ conn'[u] \notin forgotten'
        BY <1>t, <3>2, <3>3, <4>2 DEF Exclusive
      <4>4. \A u, v \in Threads : conn'[u] = conn'[v] /\ conn'[u] # NULL => u = v
        BY <1>t, <3>2, <4>2 DEF Exclusive
      <4>5. forgotten' \cap InQueue' = {}
        BY <3>1, <3>2 DEF Exclusive
      <4> HIDE DEF c
      <4> QED
        BY <4>1, <4>3, <4>4, <4>5 DEF Exclusive
    <3>6. Conserved' /\ Fresh'
      BY <1>t, <3>1, <3>2 DEF Conserved, Fresh
    <3> QED
      BY <3>4, <3>5, <3>6
  <2> QED
    BY <2>1, <2>2
<1>5. ASSUME NEW t \in Threads, PingOk(t) PROVE Inv'
  <2>1. TypeOK'
    BY <1>5, <1>t DEF TypeOK, PingOk, Locations
  <2>2. Exclusive' /\ Conserved' /\ Fresh'
    BY <1>5 DEF Exclusive, Conserved, Fresh, InQueue, PingOk
  <2> QED
    BY <2>1, <2>2
\* PingFail and Release push the thread's connection in the same way.
<1>6. ASSUME NEW t \in Threads, conn[t] # NULL,
             connectionQueue' = Append(connectionQueue, conn[t]),
             conn' = [conn EXCEPT ![t] = NULL],
             UNCHANGED <<opening, requests, opened, forgotten>>
      PROVE  /\ connectionQueue' \in Seq(Conns)
             /\ Exclusive' /\ Conserved' /\ Fresh'
  <2> DEFINE c == conn[t]
  <2>1. c \in Conns
    BY <1>6, <1>t
  <2>2. /\ connectionQueue' \in Seq(Conns)
        /\ Len(connectionQueue') = Len(connectionQueue) + 1
        /\ \A i \in 1 .. Len(connectionQueue) : connectionQueue'[i] = connectionQueue[i]
        /\ connectionQueue'[Len(connectionQueue) + 1] = c
        /\ InQueue' = InQueue \cup {c}
    BY <1>6, <1>t, <2>1, AppendFacts DEF InQueue
  <2>3. c \notin InQueue /\ c \notin forgotten /\ \A u \in Threads : u # t => conn[u] # c
    BY <1>6 DEF Exclusive
  <2>4. \A u \in Threads : conn'[u] = IF u = t THEN NULL ELSE conn[u]
    BY <1>6, <1>t
  <2>5. Exclusive'
    <3>a. \A i \in 1 .. Len(connectionQueue) : connectionQueue'[i] # c
      BY <2>2, <2>3 DEF InQueue
    <3>b. \A i, j \in 1 .. Len(connectionQueue) :
             connectionQueue'[i] = connectionQueue'[j] => i = j
      BY <2>2 DEF Exclusive
    <3>c. \A i \in 1 .. Len(connectionQueue') :
             i \in 1 .. Len(connectionQueue) \/ i = Len(connectionQueue) + 1
      BY <1>t, <2>2
    <3>1. \A i, j \in 1 .. Len(connectionQueue') :
             connectionQueue'[i] = connectionQueue'[j] => i = j
      BY <2>2, <3>a, <3>b, <3>c
    <3>2. \A u, v \in Threads : conn'[u] = conn'[v] /\ conn'[u] # NULL => u = v
      BY <2>4 DEF Exclusive
    <3>3. NULL \notin InQueue /\ NULL \notin forgotten
      BY <1>t DEF InQueue
    <3>4. \A u \in Threads : conn'[u] \notin InQueue' /\ conn'[u] \notin forgotten'
      BY <1>6, <1>t, <2>1, <2>2, <2>3, <2>4, <3>3 DEF Exclusive
    <3>5. forgotten' \cap InQueue' = {}
      BY <1>6, <2>2, <2>3 DEF Exclusive
    <3> QED
      BY <3>1, <3>2, <3>4, <3>5 DEF Exclusive
  <2>6. Conserved'
    BY <1>6, <2>2, <2>4 DEF Conserved
  <2>7. Fresh'
    BY <1>6 DEF Fresh
  <2> QED
    BY <2>2, <2>5, <2>6, <2>7
<1>7. ASSUME NEW t \in Threads, PingFail(t) PROVE Inv'
  <2>1. /\ connectionQueue' \in Seq(Conns)
        /\ Exclusive' /\ Conserved' /\ Fresh'
    BY <1>6, <1>7, <1>t DEF PingFail
  <2>2. /\ pc' \in [Threads -> Locations]
        /\ \A u \in Threads : u # t => pc'[u] = pc[u] \/ (pc[u] = "wait" /\ pc'[u] = "lock")
        /\ pc'[t] = "idle"
    <3> DEFINE locs == [pc EXCEPT ![t] = "idle"]
    <3>1. locs \in [Threads -> Locations] /\ pc' \in NotifyOne(locs)
      BY <1>7, <1>t DEF PingFail, Locations
    <3>2. /\ pc' \in [Threads -> Locations]
          /\ \A u \in Threads : pc'[u] = locs[u] \/ (locs[u] = "wait" /\ pc'[u] = "lock")
      BY <3>1, NotifyOneFacts
    <3> QED
      BY <3>2, <1>t
  <2>3. TypeOK'
    BY <1>7, <1>t, <2>1, <2>2 DEF TypeOK, PingFail
  <2> QED
    BY <2>1, <2>3
<1>8. ASSUME NEW t \in Threads, Release(t) PROVE Inv'
  <2>1. /\ connectionQueue' \in Seq(Conns)
        /\ Exclusive' /\ Conserved' /\ Fresh'
    BY <1>6, <1>8, <1>t DEF Release
  <2>2. TypeOK'
    BY <1>8, <1>t, <2>1 DEF TypeOK, Release, Locations
  <2> QED
    BY <2>1, <2>2
<1>9. ASSUME NEW t \in Threads, Notify(t) PROVE Inv'
  <2> DEFINE locs == [pc EXCEPT ![t] = "idle"]
  <2>1. locs \in [Threads -> Locations] /\ pc' \in NotifyOne(locs) /\ pc[t] = "notify"
    BY <1>9, <1>t DEF Notify, Locations
  <2>2. /\ pc' \in [Threads -> Locations]
        /\ \A u \in Threads : pc'[u] = locs[u] \/ (locs[u] = "wait" /\ pc'[u] = "lock")
    BY <2>1, NotifyOneFacts
  <2>3. TypeOK'
    BY <1>9, <1>t, <2>1, <2>2 DEF TypeOK, Notify
  <2>4. Exclusive' /\ Conserved' /\ Fresh'
    BY <1>9 DEF Exclusive, Conserved, Fresh, InQueue, Notify
  <2> QED
    BY <2>3, <2>4
<1>10. ASSUME NEW t \in Threads, Forget(t) PROVE Inv'
  <2>1. TypeOK'
    BY <1>10, <1>t DEF TypeOK, Forget, Locations
  <2>2. Exclusive'
    BY <1>10, <1>t DEF Exclusive, InQueue, Forget
  <2>3. Conserved' /\ Fresh'
    BY <1>10, <1>t DEF Conserved, Fresh, InQueue, Forget
  <2> QED
    BY <2>1, <2>2, <2>3
<1>11. ASSUME NEW t \in Threads, Spurious(t) PROVE Inv'
  <2>1. TypeOK'
    BY <1>11, <1>t DEF TypeOK, Spurious, Locations
  <2>2. Exclusive' /\ Conserved' /\ Fresh'
    BY <1>11 DEF Exclusive, Conserved, Fresh, InQueue, Spurious
  <2> QED
    BY <2>1, <2>2
<1>12. CASE UNCHANGED vars
  BY <1>12 DEF vars, TypeOK, Exclusive, Conserved, Fresh, InQueue
<1> QED
  BY <1>1, <1>2, <1>3, <1>4, <1>5, <1>7, <1>8, <1>9, <1>10, <1>11, <1>12 DEF Next, Step

(* Where threads are and what they hold fits together (DBConnectionPool.cpp:   *)
(* 49-90): a thread has a connection exactly between its pop and its push.      *)
THEOREM PoolTypeOK == Spec => []TypeOK
<1>1. Inv => TypeOK
  BY DEF Inv
<1> QED
  BY <1>1, InitInv, StepInv, PTL DEF Spec

(* The pool never shares a connection between two threads and never loses one  *)
(* by itself (DBConnectionPool.cpp:49-90).                                      *)
THEOREM PoolSafety == Spec => []OnePlace
<1>1. Inv => OnePlace
  BY DEF Inv, OnePlace
<1> QED
  BY <1>1, InitInv, StepInv, PTL DEF Spec

----------------------------------------------------------------------------
\* No worker exists while main is still in init's loop.
Startup == opening <= PoolSize => \A t \in Threads : pc[t] = "idle"

WakeInv == Inv /\ Startup /\ NoLostWakeup

LEMMA InitWake == Init => WakeInv
<1> SUFFICES ASSUME Init PROVE Startup /\ NoLostWakeup
  BY InitInv DEF WakeInv
<1> QED
  BY DEF Init, Startup, NoLostWakeup, Waiting

LEMMA StepWake == WakeInv /\ [Next]_vars => WakeInv'
<1> SUFFICES ASSUME WakeInv, [Next]_vars PROVE Startup' /\ NoLostWakeup'
  BY StepInv DEF WakeInv
<1>t. /\ connectionQueue \in Seq(Conns) /\ opening \in 1 .. PoolSize + 1
      /\ pc \in [Threads -> Locations] /\ conn \in [Threads -> Conns \cup {NULL}]
      /\ \A t \in Threads : conn[t] # NULL <=> pc[t] \in {"ping", "use"}
      /\ PoolSize \in Nat /\ Len(connectionQueue) \in Nat
      /\ Active \in SUBSET Threads /\ Cardinality(Active) \in Nat
  BY PoolSizeAssumption, LenProperties, FS_Subset, FS_CardinalityType, ThreadsAssumption
     DEF WakeInv, Inv, TypeOK, Active
<1>n. (\E t \in Threads : pc[t] = "wait") => Len(connectionQueue) <= Cardinality(Active)
  BY DEF WakeInv, NoLostWakeup, Waiting
<1>s. opening <= PoolSize => \A t \in Threads : pc[t] = "idle"
  BY DEF WakeInv, Startup
<1>1. CASE OpenOk \/ OpenFail
  BY <1>1, <1>s, <1>t DEF OpenOk, OpenFail, Startup, NoLostWakeup, Waiting
<1>2. ASSUME NEW t \in Threads, Call(t) PROVE Startup' /\ NoLostWakeup'
  <2>1. Active' = Active \cup {t} /\ t \notin Active
    BY <1>2, <1>t DEF Call, Active
  <2>2. Cardinality(Active') = Cardinality(Active) + 1
    BY <2>1, <1>t, CardFacts, ThreadsAssumption
  <2> QED
    BY <1>2, <1>n, <1>t, <2>2 DEF Call, Startup, NoLostWakeup, Waiting
<1>3. ASSUME NEW t \in Threads, Look(t) PROVE Startup' /\ NoLostWakeup'
  <2>1. CASE connectionQueue = <<>>
    <3>1. Len(connectionQueue') = 0 /\ Active' \in SUBSET Threads /\ opening' = opening
      BY <1>3, <2>1 DEF Look, Active
    <3>2. Cardinality(Active') \in Nat
      BY <3>1, FS_Subset, FS_CardinalityType, ThreadsAssumption
    <3> QED
      BY <1>3, <1>s, <1>t, <3>1, <3>2 DEF Startup, NoLostWakeup, Look
  <2>2. CASE connectionQueue # <<>>
    <3>1. Len(connectionQueue') = Len(connectionQueue) - 1
      BY <1>3, <1>t, <2>2, TailFacts DEF Look
    <3>2. Active' = Active \ {t} /\ t \in Active
      BY <1>3, <1>t, <2>2 DEF Look, Active
    <3>3. Cardinality(Active') = Cardinality(Active) - 1
      BY <3>2, <1>t, CardFacts, ThreadsAssumption
    <3> QED
      BY <1>3, <1>n, <1>s, <1>t, <2>2, <3>1, <3>3 DEF Look, Startup, NoLostWakeup, Waiting
  <2> QED
    BY <2>1, <2>2
<1>4. ASSUME NEW t \in Threads, PingOk(t) \/ Forget(t) PROVE Startup' /\ NoLostWakeup'
  <2>1. Active' = Active
    BY <1>4, <1>t DEF PingOk, Forget, Active
  <2>2. (\E u \in Threads : pc'[u] = "wait") => \E u \in Threads : pc[u] = "wait"
    BY <1>4, <1>t DEF PingOk, Forget
  <2>3. connectionQueue' = connectionQueue /\ opening' = opening /\ pc[t] # "idle"
    BY <1>4 DEF PingOk, Forget
  <2> QED
    BY <1>n, <1>s, <2>1, <2>2, <2>3 DEF Startup, NoLostWakeup, Waiting
\* PingFail and Notify both leave t idle and call notify_one.
<1>5. ASSUME NEW t \in Threads, pc[t] \in {"ping", "notify"},
             pc' \in NotifyOne([pc EXCEPT ![t] = "idle"])
      PROVE  \/ \A u \in Threads : pc'[u] # "wait"
             \/ \E w \in Threads :
                   /\ w \notin Active /\ w # t
                   /\ Active' = (Active \ {t}) \cup {w}
                   /\ pc[w] = "wait"
  <2> DEFINE locs == [pc EXCEPT ![t] = "idle"]
  <2>1. CASE \E u \in Threads : locs[u] = "wait"
    <3>1. PICK w \in Threads : locs[w] = "wait" /\ pc' = [locs EXCEPT ![w] = "lock"]
      BY <1>5, <2>1 DEF NotifyOne
    <3>2. w # t /\ pc[w] = "wait"
      BY <3>1, <1>t
    <3>3. Active' = (Active \ {t}) \cup {w}
      BY <3>1, <3>2, <1>t DEF Active
    <3> QED
      BY <3>2, <3>3 DEF Active
  <2>2. CASE ~ \E u \in Threads : locs[u] = "wait"
    BY <1>5, <2>2 DEF NotifyOne
  <2> QED
    BY <2>1, <2>2
<1>6. ASSUME NEW t \in Threads, PingFail(t) PROVE Startup' /\ NoLostWakeup'
  <2>1. Len(connectionQueue') = Len(connectionQueue) + 1 /\ opening' = opening
        /\ pc[t] = "ping" /\ t \notin Active
    BY <1>6, <1>t, AppendFacts DEF PingFail, TypeOK, Active
  <2>2. CASE \A u \in Threads : pc'[u] # "wait"
    BY <2>1, <2>2, <1>s DEF Startup, NoLostWakeup, Waiting
  <2>3. CASE \E w \in Threads : /\ w \notin Active /\ w # t
                                /\ Active' = (Active \ {t}) \cup {w}
                                /\ pc[w] = "wait"
    <3>1. PICK w \in Threads : /\ w \notin Active /\ pc[w] = "wait"
                               /\ Active' = Active \cup {w}
      BY <2>1, <2>3
    <3>2. Cardinality(Active') = Cardinality(Active) + 1
      BY <3>1, <1>t, CardFacts, ThreadsAssumption
    <3> QED
      BY <1>n, <1>s, <1>t, <2>1, <3>1, <3>2 DEF Startup, NoLostWakeup
  <2> QED
    BY <1>5, <1>6, <2>2, <2>3 DEF PingFail
<1>7. ASSUME NEW t \in Threads, Notify(t) PROVE Startup' /\ NoLostWakeup'
  <2>1. connectionQueue' = connectionQueue /\ opening' = opening
        /\ pc[t] = "notify" /\ t \in Active
    BY <1>7 DEF Notify, Active
  <2>2. CASE \A u \in Threads : pc'[u] # "wait"
    BY <2>1, <2>2, <1>s DEF Startup, NoLostWakeup, Waiting
  <2>3. CASE \E w \in Threads : /\ w \notin Active /\ w # t
                                /\ Active' = (Active \ {t}) \cup {w}
                                /\ pc[w] = "wait"
    <3>1. PICK w \in Threads : /\ w \notin Active /\ w # t /\ pc[w] = "wait"
                               /\ Active' = (Active \ {t}) \cup {w}
      BY <2>3
    <3>2. Cardinality(Active \ {t}) = Cardinality(Active) - 1
      BY <2>1, <1>t, CardFacts, ThreadsAssumption
    <3>3. Cardinality(Active') = Cardinality(Active \ {t}) + 1
      BY <3>1, <1>t, CardFacts, ThreadsAssumption
    <3> QED
      BY <1>n, <1>s, <1>t, <2>1, <3>1, <3>2, <3>3 DEF Startup, NoLostWakeup
  <2> QED
    BY <1>5, <1>7, <2>2, <2>3 DEF Notify
<1>8. ASSUME NEW t \in Threads, Release(t) PROVE Startup' /\ NoLostWakeup'
  <2>1. Len(connectionQueue') = Len(connectionQueue) + 1
    BY <1>8, <1>t, AppendFacts DEF Release
  <2>2. Active' = Active \cup {t} /\ t \notin Active
    BY <1>8, <1>t DEF Release, Active
  <2>3. Cardinality(Active') = Cardinality(Active) + 1
    BY <2>2, <1>t, CardFacts, ThreadsAssumption
  <2> QED
    BY <1>8, <1>n, <1>s, <1>t, <2>1, <2>3 DEF Release, Startup, NoLostWakeup, Waiting
<1>9. ASSUME NEW t \in Threads, Spurious(t) PROVE Startup' /\ NoLostWakeup'
  <2>1. Active' = Active \cup {t} /\ t \notin Active
    BY <1>9, <1>t DEF Spurious, Active
  <2>2. Cardinality(Active') = Cardinality(Active) + 1
    BY <2>1, <1>t, CardFacts, ThreadsAssumption
  <2> QED
    BY <1>9, <1>n, <1>s, <1>t, <2>2 DEF Spurious, Startup, NoLostWakeup
<1>10. CASE UNCHANGED vars
  BY <1>10, <1>n, <1>s DEF vars, Startup, NoLostWakeup, Waiting, Active
<1> QED
  BY <1>1, <1>2, <1>3, <1>4, <1>6, <1>7, <1>8, <1>9, <1>10 DEF Next, Step

(* No wake-up is lost: while a thread is blocked there is, for every idle    *)
(* connection, another thread about to look at the queue or to notify.       *)
THEOREM PoolNoLostWakeup == Spec => []NoLostWakeup
<1>1. WakeInv => NoLostWakeup
  BY DEF WakeInv
<1> QED
  BY <1>1, InitWake, StepWake, PTL DEF Spec

----------------------------------------------------------------------------
LEMMA InitLease == Init => Lease!Init
  BY DEF Init, Lease!Init, InQueue

LEMMA StepLease == Inv /\ Inv' /\ [Next]_vars => [Lease!Next]_(Lease!vars)
<1> SUFFICES ASSUME Inv, Inv', [Next]_vars
             PROVE  Lease!Next \/ (InQueue' = InQueue /\ conn' = conn)
  BY DEF Lease!vars
<1>t. /\ connectionQueue \in Seq(Conns) /\ opening \in 1 .. PoolSize + 1
      /\ conn \in [Threads -> Conns \cup {NULL}]
      /\ \A t \in Threads : conn[t] # NULL <=> pc[t] \in {"ping", "use"}
      /\ PoolSize \in Nat
  BY PoolSizeAssumption DEF Inv, TypeOK
<1>1. CASE OpenOk
  <2>1. opening \in Conns /\ opening \notin opened
    BY <1>1, <1>t DEF OpenOk, Conns, Inv, Fresh
  <2>2. opening \notin InQueue /\ \A t \in Threads : conn[t] # opening
    BY <1>t, <2>1 DEF Inv, Conserved, NULL, Conns
  <2>3. InQueue' = InQueue \cup {opening}
    BY <1>1, <1>t, <2>1, AppendFacts DEF OpenOk, InQueue
  <2> QED
    BY <1>1, <2>1, <2>2, <2>3 DEF OpenOk, Lease!Next, Lease!Open, Lease!Leased
<1>2. ASSUME NEW t \in Threads, Look(t)
      PROVE  Lease!Next \/ (InQueue' = InQueue /\ conn' = conn)
  <2>1. CASE connectionQueue = <<>>
    BY <1>2, <2>1 DEF Look, InQueue
  <2>2. CASE connectionQueue # <<>>
    <3> DEFINE c == Head(connectionQueue)
    <3>1. /\ connectionQueue' = Tail(connectionQueue)
          /\ conn' = [conn EXCEPT ![t] = c] /\ conn[t] = NULL
      BY <1>2, <1>t, <2>2 DEF Look
    <3>2. c \in Conns
      BY <1>t, <2>2, TailFacts
    <3>3. {connectionQueue[i] : i \in 1 .. Len(connectionQueue)}
            = {Head(connectionQueue)} \cup
              {Tail(connectionQueue)[i] : i \in 1 .. Len(Tail(connectionQueue))}
      BY <1>t, <2>2, TailFacts
    <3>4. InQueue = {c} \cup InQueue'
      BY <3>1, <3>3 DEF InQueue
    <3>5. conn'[t] = c /\ c \notin InQueue'
      BY <3>1, <1>t DEF Inv, Exclusive
    <3>6. InQueue' = InQueue \ {c}
      BY <3>4, <3>5
    <3>7. Lease!Grant(t, c)
      BY <3>1, <3>4, <3>6 DEF Lease!Grant
    <3> QED
      BY <3>2, <3>7 DEF Lease!Next
  <2> QED
    BY <2>1, <2>2
<1>3. ASSUME NEW t \in Threads, PingFail(t) \/ Release(t) PROVE Lease!Next
  <2>1. /\ conn[t] # NULL /\ conn' = [conn EXCEPT ![t] = NULL]
        /\ connectionQueue' = Append(connectionQueue, conn[t])
    BY <1>3, <1>t DEF PingFail, Release
  <2>2. InQueue' = InQueue \cup {conn[t]}
    BY <2>1, <1>t, AppendFacts DEF InQueue
  <2> QED
    BY <2>1, <2>2 DEF Lease!Next, Lease!Return
<1>4. ASSUME NEW t \in Threads, Forget(t) PROVE Lease!Next
  BY <1>4, <1>t DEF Forget, Lease!Next, Lease!Lose, InQueue
<1>5. ASSUME NEW t \in Threads, Call(t) \/ PingOk(t) \/ Notify(t) \/ Spurious(t)
      PROVE  InQueue' = InQueue /\ conn' = conn
  BY <1>5 DEF Call, PingOk, Notify, Spurious, InQueue
<1>6. CASE OpenFail \/ UNCHANGED vars
  BY <1>6 DEF OpenFail, vars, InQueue
<1> QED
  BY <1>1, <1>2, <1>3, <1>4, <1>5, <1>6 DEF Next, Step

(* The queue, the mutex and the condition variable implement the lease.      *)
THEOREM PoolImplementsLease == Spec => LeaseSpec
<1>1. Spec => []Inv
  BY InitInv, StepInv, PTL DEF Spec
<1> QED
  BY <1>1, InitLease, StepLease, PTL DEF Spec, LeaseSpec, Lease!Spec
=============================================================================
