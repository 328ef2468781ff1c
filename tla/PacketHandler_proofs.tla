------------------------- MODULE PacketHandler_proofs -------------------------
(* Proof that frames do not mix, for any senders, descriptors, connections and *)
(* calls.                                                                      *)
EXTENDS PacketHandler, TLAPS

(* Connections are numbered as they are accepted, and each has had one fd.   *)
Sockets ==
    /\ \A f \in Fds : sock[f] <= accepted
    /\ \A s \in Senders : meant[s] <= accepted
    /\ \A f, g \in Fds : sock[f] # NONE /\ sock[f] = sock[g] => f = g
    /\ \A s \in Senders, f \in Fds : meant[s] # NONE /\ sock[f] = meant[s] => fd[s] = f
    /\ \A c \in Conns : c > accepted => wire[c] = <<>> /\ c \notin spoiled
    /\ \A f \in removing : sock[f] = NONE \/ sock[f] \in spoiled

(* A mutex is held by one sender. *)
Locks == \A s, t \in Senders : Inside(s) /\ Inside(t) /\ s # t => mtx[s] # mtx[t]

(* The senders of a live client agree on one mutex although mutexes come and  *)
(* go with fd numbers: whoever looked one up for the connection that is still *)
(* behind the fd has the mutex of the map, unless that connection is being    *)
(* disconnected.                                                              *)
OneMutexPerClient ==
    \A s \in Senders :
       mtx[s] # NONE /\ meant[s] # NONE /\ meant[s] = sock[fd[s]] /\ meant[s] \notin spoiled
          => mtx[s] = fdMutexMap[fd[s]]

\* s has sent the header of a frame to the client it is meant for.
Between(s, c) == pc[s] = "body" /\ meant[s] = c /\ sock[fd[s]] = c

(* A stream ends in the middle of a frame while its sender is between the two  *)
(* parts, or after the client has gone.                                       *)
Streams ==
    \A c \in Conns \ spoiled :
       /\ WholeFrames(wire[c])
       /\ \A s \in Senders : Between(s, c) =>
             Len(wire[c]) % 2 = 1 /\ wire[c][Len(wire[c])] = <<frame[s], "header">>
       /\ (\E f \in Fds : sock[f] = c) /\ (\A s \in Senders : ~Between(s, c)) =>
             Len(wire[c]) % 2 = 0

Inv == TypeOK /\ Sockets /\ Locks /\ OneMutexPerClient /\ Streams

USE DEF NONE, Inside

Parts == (1 .. MaxSends) \X {"header", "body", "piece"}

LEMMA Parity ==
  ASSUME NEW n \in Nat
  PROVE  /\ n % 2 = 0 => (n + 1) % 2 = 1
         /\ n % 2 = 1 => (n + 1) % 2 = 0 /\ n >= 1
         /\ n >= 1 /\ n % 2 # 1 => n >= 2
OBVIOUS

(* Appending a header to whole frames, and the body to that header.           *)
LEMMA AppendHeader ==
  ASSUME NEW w \in Seq(Parts), WholeFrames(w), Len(w) % 2 = 0, NEW k \in 1 .. MaxSends,
         NEW v, v = Append(w, <<k, "header">>)
  PROVE  WholeFrames(v) /\ Len(v) % 2 = 1 /\ v[Len(v)] = <<k, "header">>
<1>1. /\ Len(v) = Len(w) + 1 /\ v[Len(v)] = <<k, "header">> /\ Len(w) \in Nat
      /\ \A i \in 1 .. Len(w) : v[i] = w[i]
  <2>1. <<k, "header">> \in Parts
    BY DEF Parts
  <2> QED
    BY <2>1
<1>2. Len(v) % 2 = 1
  BY <1>1, Parity
<1>3. ASSUME NEW i \in 1 .. Len(v)
      PROVE  IF i % 2 = 1 THEN v[i][2] = "header" ELSE v[i] = <<v[i-1][1], "body">>
  <2>1. CASE i = Len(v)
    BY <1>1, <1>2, <2>1
  <2>2. CASE i # Len(v)
    <3>1. i \in 1 .. Len(w)
      <4>1. Len(v) = Len(w) + 1 /\ Len(w) \in Nat /\ i \in Nat /\ i >= 1 /\ i <= Len(v)
        BY <1>1
      <4> QED
        BY <4>1, <2>2
    <3>2. i % 2 # 1 => i - 1 \in 1 .. Len(w)
      BY <1>1, <3>1, Parity
    <3> QED
      BY <1>1, <3>1, <3>2 DEF WholeFrames
  <2> QED
    BY <2>1, <2>2
<1>4. WholeFrames(v)
  BY <1>3 DEF WholeFrames
<1> QED
  BY <1>1, <1>2, <1>4

LEMMA AppendBody ==
  ASSUME NEW w \in Seq(Parts), WholeFrames(w), Len(w) % 2 = 1, NEW k \in 1 .. MaxSends,
         w[Len(w)] = <<k, "header">>, NEW v, v = Append(w, <<k, "body">>)
  PROVE  WholeFrames(v) /\ Len(v) % 2 = 0
<1>1. /\ Len(v) = Len(w) + 1 /\ v[Len(v)] = <<k, "body">> /\ Len(w) \in Nat /\ Len(w) >= 1
      /\ \A i \in 1 .. Len(w) : v[i] = w[i]
  <2>1. <<k, "body">> \in Parts
    BY DEF Parts
  <2>2. Len(w) \in Nat
    OBVIOUS
  <2> QED
    BY <2>1, <2>2, Parity
<1>2. Len(v) % 2 = 0
  BY <1>1, Parity
<1>3. ASSUME NEW i \in 1 .. Len(v)
      PROVE  IF i % 2 = 1 THEN v[i][2] = "header" ELSE v[i] = <<v[i-1][1], "body">>
  <2>1. CASE i = Len(v)
    <3>1. v[i - 1] = <<k, "header">> /\ i % 2 # 1
      BY <1>1, <1>2, <2>1
    <3> QED
      BY <1>1, <2>1, <3>1
  <2>2. CASE i # Len(v)
    <3>1. i \in 1 .. Len(w)
      <4>1. Len(v) = Len(w) + 1 /\ Len(w) \in Nat /\ i \in Nat /\ i >= 1 /\ i <= Len(v)
        BY <1>1
      <4> QED
        BY <4>1, <2>2
    <3>2. i % 2 # 1 => i - 1 \in 1 .. Len(w)
      BY <1>1, <3>1, Parity
    <3> QED
      BY <1>1, <3>1, <3>2 DEF WholeFrames
  <2> QED
    BY <2>1, <2>2
<1>4. WholeFrames(v)
  BY <1>3 DEF WholeFrames
<1> QED
  BY <1>1, <1>2, <1>4

(* Two senders are not both inside sendPacket for the client both mean.       *)
LEMMA OneInside ==
  ASSUME Inv, NEW s \in Senders, NEW t \in Senders, Inside(s), Inside(t), NEW c \in Conns \ spoiled,
         meant[s] = c, sock[fd[s]] = c, meant[t] = c, sock[fd[t]] = c
  PROVE  s = t
<1>1. mtx[s] # NONE /\ mtx[t] # NONE /\ c # NONE /\ fd[s] \in Fds /\ fd[t] \in Fds
  BY BoundsAssumption DEF Inv, TypeOK, Conns
<1>2. fd[s] = fd[t]
  BY <1>1 DEF Inv, Sockets
<1>3. mtx[s] = mtx[t]
  BY <1>1, <1>2 DEF Inv, OneMutexPerClient
<1> QED
  BY <1>3 DEF Inv, Locks

LEMMA AcceptStep ==
  ASSUME Inv, NEW f \in Fds, Accept(f)
  PROVE  Inv'
<1> USE DEF Inv
<1>a. /\ removing = {} /\ sock[f] = NONE /\ accepted' = accepted + 1
      /\ sock' = [sock EXCEPT ![f] = accepted + 1] /\ accepted + 1 \in Conns
      /\ accepted + 1 \in 0 .. MaxConns
      /\ UNCHANGED <<removing, fdMutexMap, pc, frame, fd, mtx, meant, sends, wire, spoiled, full>>
  BY BoundsAssumption DEF Accept, sendVars, TypeOK, Conns
<1>1. TypeOK'
  BY <1>a DEF TypeOK
<1>2. Sockets'
  <2>1. accepted \in Nat /\ \A g \in Fds : sock'[g] = IF g = f THEN accepted + 1 ELSE sock[g]
    BY <1>a DEF TypeOK
  <2>2. \A g \in Fds : sock'[g] <= accepted' /\ sock[g] # accepted + 1
    BY <1>a, <2>1 DEF Sockets, TypeOK, Conns
  <2>3. \A s \in Senders : meant[s] <= accepted' /\ meant[s] # accepted + 1
    BY <1>a, <2>1 DEF Sockets, TypeOK, Conns
  <2>4. \A c \in Conns : c > accepted' => wire[c] = <<>> /\ c \notin spoiled
    BY <1>a, <2>1 DEF Sockets, Conns
  <2>5. \A g, h \in Fds : sock'[g] # NONE /\ sock'[g] = sock'[h] => g = h
    BY <2>1, <2>2 DEF Sockets
  <2>6. \A s \in Senders, g \in Fds : meant[s] # NONE /\ sock'[g] = meant[s] => fd[s] = g
    BY <2>1, <2>3 DEF Sockets
  <2> QED
    BY <1>a, <2>2, <2>3, <2>4, <2>5, <2>6 DEF Sockets
<1>3. Locks'
  BY <1>a DEF Locks
<1>4. OneMutexPerClient'
  BY <1>a, BoundsAssumption DEF OneMutexPerClient, Sockets, TypeOK, Conns
<1>5. Streams'
  <2> SUFFICES ASSUME NEW c \in Conns \ spoiled
               PROVE  /\ WholeFrames(wire[c])
                      /\ \A s \in Senders : Between(s, c)' =>
                            Len(wire[c]) % 2 = 1 /\ wire[c][Len(wire[c])] = <<frame[s], "header">>
                      /\ (\E g \in Fds : sock'[g] = c) /\ (\A s \in Senders : ~Between(s, c)') =>
                            Len(wire[c]) % 2 = 0
    BY <1>a DEF Streams
  <2>1. CASE c = accepted + 1
    <3>1. wire[c] = <<>>
      BY <2>1 DEF Sockets, TypeOK
    <3>2. \A s \in Senders : ~Between(s, c)'
      BY <1>a, <2>1 DEF Between, Sockets, TypeOK, Conns
    <3> QED
      BY <3>1, <3>2 DEF WholeFrames
  <2>2. CASE c # accepted + 1
    <3>1. \A g \in Fds : sock'[g] = c <=> sock[g] = c
      BY <1>a, <2>2 DEF TypeOK, Conns
    <3>2. \A s \in Senders : Between(s, c)' <=> Between(s, c)
      BY <1>a, <3>1 DEF Between, TypeOK
    <3> QED
      BY <3>1, <3>2 DEF Streams
  <2> QED
    BY <2>1, <2>2
<1> QED
  BY <1>1, <1>2, <1>3, <1>4, <1>5

LEMMA RemoveFdStep ==
  ASSUME Inv, NEW f \in Fds, RemoveFd(f)
  PROVE  Inv'
<1> USE DEF Inv
<1>a. /\ sock[f] \in Conns /\ removing' = {f} /\ fdMutexMap' = [fdMutexMap EXCEPT ![f] = NONE]
      /\ spoiled' = spoiled \cup {sock[f]}
      /\ UNCHANGED <<sock, accepted, pc, frame, fd, mtx, meant, sends, wire, full>>
  BY DEF RemoveFd, sendVars, TypeOK
<1>1. TypeOK'
  BY <1>a DEF TypeOK
<1>2. Sockets'
  BY <1>a DEF Sockets, TypeOK, Conns
<1>3. Locks'
  BY <1>a DEF Locks
<1>4. OneMutexPerClient'
  BY <1>a DEF OneMutexPerClient, TypeOK
<1>5. Streams'
  BY <1>a DEF Streams, Between
<1> QED
  BY <1>1, <1>2, <1>3, <1>4, <1>5

(* Closing a socket, by whichever thread.                                     *)
LEMMA CloseStep ==
  ASSUME Inv, NEW f \in Fds, Close(f) \/ KickClose(f)
  PROVE  Inv'
<1> USE DEF Inv
<1>a. /\ sock' = [sock EXCEPT ![f] = NONE] /\ removing' \in {removing, {}}
      /\ UNCHANGED <<accepted, fdMutexMap, pc, frame, fd, mtx, meant, sends, wire, spoiled, full>>
  BY DEF Close, KickClose, sendVars
<1>b. \A g \in Fds : sock'[g] = IF g = f THEN NONE ELSE sock[g]
  BY <1>a DEF TypeOK
<1>1. TypeOK'
  BY <1>a DEF TypeOK
<1>2. Sockets'
  <2>1. accepted \in Nat
    BY DEF TypeOK
  <2>2. \A g \in Fds : sock'[g] <= accepted
    BY <1>b, <2>1 DEF Sockets
  <2> QED
    BY <1>a, <1>b, <2>2 DEF Sockets
<1>3. Locks'
  BY <1>a DEF Locks
<1>4. OneMutexPerClient'
  BY <1>a, <1>b DEF OneMutexPerClient, TypeOK
<1>5. Streams'
  <2> SUFFICES ASSUME NEW c \in Conns \ spoiled
               PROVE  /\ WholeFrames(wire[c])
                      /\ \A s \in Senders : Between(s, c)' =>
                            Len(wire[c]) % 2 = 1 /\ wire[c][Len(wire[c])] = <<frame[s], "header">>
                      /\ (\E g \in Fds : sock'[g] = c) /\ (\A s \in Senders : ~Between(s, c)') =>
                            Len(wire[c]) % 2 = 0
    BY <1>a DEF Streams
  <2>1. c # NONE
    BY DEF Conns
  <2>2. \A s \in Senders : Between(s, c)' => Between(s, c)
    BY <1>a, <1>b, <2>1 DEF Between, TypeOK
  <2>3. ASSUME NEW g \in Fds, sock'[g] = c, NEW s \in Senders, Between(s, c) PROVE Between(s, c)'
    <3>1. sock[g] = c /\ g # f
      BY <1>b, <2>1, <2>3
    <3>2. fd[s] = g
      BY <2>1, <2>3, <3>1 DEF Between, Sockets, TypeOK
    <3> QED
      BY <1>a, <2>3, <3>2 DEF Between
  <2>4. (\E g \in Fds : sock'[g] = c) => \E g \in Fds : sock[g] = c
    BY <1>b, <2>1
  <2> QED
    BY <2>2, <2>3, <2>4 DEF Streams
<1> QED
  BY <1>1, <1>2, <1>3, <1>4, <1>5

LEMMA CallStep ==
  ASSUME Inv, NEW s \in Senders, NEW f \in Fds, Call(s, f)
  PROVE  Inv'
<1> USE DEF Inv
<1>a. /\ pc[s] = "idle" /\ sends' = sends + 1 /\ sends + 1 \in 1 .. MaxSends
      /\ frame' = [frame EXCEPT ![s] = sends + 1] /\ fd' = [fd EXCEPT ![s] = f]
      /\ meant' = [meant EXCEPT ![s] = sock[f]] /\ pc' = [pc EXCEPT ![s] = "getMutex"]
      /\ UNCHANGED <<sock, accepted, removing, fdMutexMap, mtx, wire, spoiled, full>>
  BY BoundsAssumption DEF Call, netVars, TypeOK
<1>b. mtx[s] = NONE
  BY <1>a DEF TypeOK
<1>1. TypeOK'
  BY <1>a, <1>b DEF TypeOK
<1>2. Sockets'
  BY <1>a DEF Sockets, TypeOK
<1>3. Locks'
  BY <1>a DEF Locks, TypeOK
<1>4. OneMutexPerClient'
  BY <1>a, <1>b DEF OneMutexPerClient, TypeOK
<1>5. Streams'
  <2>1. \A t \in Senders, c \in Conns : Between(t, c)' <=> Between(t, c)
    BY <1>a DEF Between, TypeOK
  <2>2. \A t \in Senders : pc[t] = "body" => frame'[t] = frame[t]
    BY <1>a DEF TypeOK
  <2>3. \A t \in Senders, c \in Conns : Between(t, c) => frame'[t] = frame[t]
    BY <2>2 DEF Between
  <2> QED
    BY <1>a, <2>1, <2>3 DEF Streams
<1> QED
  BY <1>1, <1>2, <1>3, <1>4, <1>5

LEMMA GetFdMutexStep ==
  ASSUME Inv, NEW s \in Senders, GetFdMutex(s)
  PROVE  Inv'
<1> USE DEF Inv
<1>a. /\ pc[s] = "getMutex" /\ fd[s] \in Fds /\ frame[s] \in Mutexes
      /\ \/ fdMutexMap[fd[s]] = NONE /\ fdMutexMap' = [fdMutexMap EXCEPT ![fd[s]] = frame[s]]
         \/ fdMutexMap[fd[s]] # NONE /\ fdMutexMap' = fdMutexMap
      /\ mtx' = [mtx EXCEPT ![s] = fdMutexMap'[fd[s]]] /\ pc' = [pc EXCEPT ![s] = "lock"]
      /\ UNCHANGED <<sock, accepted, removing, frame, fd, meant, sends, wire, spoiled, full>>
  BY BoundsAssumption DEF GetFdMutex, netVars, TypeOK, Mutexes
<1>b. fdMutexMap' \in [Fds -> Mutexes \cup {NONE}] /\ fdMutexMap'[fd[s]] \in Mutexes
  BY <1>a DEF TypeOK
<1>c. NONE \notin Mutexes
  BY DEF Mutexes
<1>1. TypeOK'
  BY <1>a, <1>b, <1>c DEF TypeOK
<1>2. Sockets'
  BY <1>a DEF Sockets
<1>3. Locks'
  BY <1>a DEF Locks, TypeOK
<1>4. OneMutexPerClient'
  BY <1>a, <1>b DEF OneMutexPerClient, TypeOK
<1>5. Streams'
  <2>1. \A t \in Senders, c \in Conns : Between(t, c)' <=> Between(t, c)
    BY <1>a DEF Between, TypeOK
  <2> QED
    BY <1>a, <2>1 DEF Streams
<1> QED
  BY <1>1, <1>2, <1>3, <1>4, <1>5

LEMMA LockStep ==
  ASSUME Inv, NEW s \in Senders, Lock(s)
  PROVE  Inv'
<1> USE DEF Inv
<1>a. /\ pc[s] = "lock" /\ pc' = [pc EXCEPT ![s] = "header"]
      /\ \A t \in Senders : Inside(t) => mtx[t] # mtx[s]
      /\ UNCHANGED <<sock, accepted, removing, fdMutexMap, frame, fd, mtx, meant, sends, wire,
                     spoiled, full>>
  BY DEF Lock, netVars
<1>1. TypeOK'
  BY <1>a DEF TypeOK
<1>2. Sockets'
  BY <1>a DEF Sockets
<1>3. Locks'
  BY <1>a DEF Locks, TypeOK
<1>4. OneMutexPerClient'
  BY <1>a DEF OneMutexPerClient
<1>5. Streams'
  <2>1. \A t \in Senders, c \in Conns : Between(t, c)' <=> Between(t, c)
    BY <1>a DEF Between, TypeOK
  <2> QED
    BY <1>a, <2>1 DEF Streams
<1> QED
  BY <1>1, <1>2, <1>3, <1>4, <1>5

(* The writes of a sender: to the client behind its number, to nobody, or a   *)
(* piece that does not fit.                                                   *)
LEMMA WriteStep ==
  ASSUME Inv, NEW s \in Senders, WriteHeader(s) \/ WriteBody(s)
  PROVE  Inv'
<1> USE DEF Inv
<1> DEFINE c == sock[fd[s]]
           part == IF pc[s] = "header" THEN "header" ELSE "body"
<1>a. /\ Inside(s) /\ fd[s] \in Fds /\ frame[s] \in 1 .. MaxSends /\ c \in Conns \cup {NONE}
      /\ NONE \notin Conns
      /\ UNCHANGED <<sock, accepted, removing, fdMutexMap, fd, sends>>
  BY BoundsAssumption DEF WriteHeader, WriteBody, netVars, TypeOK, Conns
<1>b. \/ pc[s] = "header" /\ pc' = [pc EXCEPT ![s] = "body"] /\ Deliver(s, part)
         /\ UNCHANGED <<frame, mtx, meant>>
      \/ Return(s) /\ GiveUp(s)
      \/ pc[s] = "body" /\ Return(s) /\ Deliver(s, part)
  BY DEF WriteHeader, WriteBody
<1>c. /\ spoiled' \in {spoiled, spoiled \cup {c}} /\ full' \in 0 .. MaxFull
      /\ c = NONE => UNCHANGED <<wire, spoiled>>
      /\ c \notin spoiled' /\ c # NONE =>
            meant[s] = c /\ wire' = [wire EXCEPT ![c] = Append(@, <<frame[s], part>>)]
            /\ Deliver(s, part)
      /\ \/ wire' = wire
         \/ \E p \in {"header", "body", "piece"} :
               c # NONE /\ wire' = [wire EXCEPT ![c] = Append(@, <<frame[s], p>>)]
  <2>1. full \in 0 .. MaxFull /\ (full < MaxFull => full + 1 \in 0 .. MaxFull)
    BY BoundsAssumption DEF TypeOK
  <2>2. CASE Deliver(s, part)
    BY <1>a, <2>1, <2>2 DEF Deliver
  <2>3. CASE GiveUp(s)
    BY <1>a, <2>1, <2>3 DEF GiveUp
  <2> QED
    BY <1>b, <2>2, <2>3
<1>d. /\ \A t \in Senders : t # s => /\ pc'[t] = pc[t] /\ frame'[t] = frame[t]
                                     /\ mtx'[t] = mtx[t] /\ meant'[t] = meant[t]
      /\ meant'[s] \in {meant[s], NONE}
      /\ \/ pc'[s] = "idle" /\ frame'[s] = NONE /\ mtx'[s] = NONE
         \/ pc[s] = "header" /\ pc'[s] = "body" /\ frame'[s] = frame[s] /\ mtx'[s] = mtx[s]
            /\ meant'[s] = meant[s] /\ Deliver(s, part)
  BY <1>b DEF Return, TypeOK
<1>1. TypeOK'
  <2>1. wire' \in [Conns -> Seq(Parts)]
    <3>1. wire \in [Conns -> Seq(Parts)]
      BY DEF TypeOK, Parts
    <3>2. ASSUME NEW p \in {"header", "body", "piece"}, c # NONE
          PROVE  Append(wire[c], <<frame[s], p>>) \in Seq(Parts)
      <4>1. <<frame[s], p>> \in Parts /\ wire[c] \in Seq(Parts)
        BY <1>a, <3>1, <3>2 DEF Parts
      <4> QED
        BY <4>1
    <3> QED
      BY <1>c, <3>1, <3>2
  <2>2. spoiled' \subseteq Conns
    BY <1>a, <1>c DEF TypeOK
  <2>3. /\ pc' \in [Senders -> {"idle", "getMutex", "lock", "header", "body"}]
        /\ frame' \in [Senders -> 0 .. MaxSends]
        /\ mtx' \in [Senders -> Mutexes \cup {NONE}]
        /\ meant' \in [Senders -> Conns \cup {NONE}]
    <3>1. /\ pc' = [pc EXCEPT ![s] = "body"] \/ pc' = [pc EXCEPT ![s] = "idle"]
          /\ frame' = frame \/ frame' = [frame EXCEPT ![s] = NONE]
          /\ mtx' = mtx \/ mtx' = [mtx EXCEPT ![s] = NONE]
          /\ meant' = meant \/ meant' = [meant EXCEPT ![s] = NONE]
      BY <1>b DEF Return
    <3>2. pc' \in [Senders -> {"idle", "getMutex", "lock", "header", "body"}]
      BY <3>1 DEF TypeOK
    <3>3. frame' \in [Senders -> 0 .. MaxSends]
      <4>1. 0 \in 0 .. MaxSends
        BY BoundsAssumption
      <4> QED
        BY <3>1, <4>1 DEF TypeOK
    <3>4. mtx' \in [Senders -> Mutexes \cup {NONE}] /\ meant' \in [Senders -> Conns \cup {NONE}]
      BY <3>1 DEF TypeOK
    <3> QED
      BY <3>2, <3>3, <3>4
  <2>4. \A t \in Senders : /\ frame'[t] = NONE <=> pc'[t] = "idle"
                           /\ mtx'[t] = NONE <=> pc'[t] \in {"idle", "getMutex"}
    BY <1>d DEF TypeOK
  <2> QED
    BY <1>a, <1>c, <2>1, <2>2, <2>3, <2>4 DEF TypeOK, Parts
<1>2. Sockets'
  <2>1. accepted \in Nat
    BY DEF TypeOK
  <2>2. \A t \in Senders : meant'[t] \in {meant[t], NONE}
    BY <1>d
  <2>3. \A d \in Conns : d > accepted => d # c
    BY <1>a, <2>1 DEF Sockets, Conns
  <2>4. \A d \in Conns : d > accepted => wire'[d] = <<>> /\ d \notin spoiled'
    BY <1>c, <2>3 DEF Sockets, TypeOK
  <2>5. \A f \in removing : sock[f] = NONE \/ sock[f] \in spoiled'
    BY <1>c DEF Sockets
  <2> QED
    BY <1>a, <2>1, <2>2, <2>4, <2>5 DEF Sockets
<1>3. Locks'
  BY <1>a, <1>d DEF Locks
<1>4. OneMutexPerClient'
  BY <1>a, <1>c, <1>d DEF OneMutexPerClient
<1>5. Streams'
  <2> SUFFICES ASSUME NEW d \in Conns \ spoiled'
               PROVE  /\ WholeFrames(wire'[d])
                      /\ \A t \in Senders : Between(t, d)' =>
                            Len(wire'[d]) % 2 = 1 /\ wire'[d][Len(wire'[d])] = <<frame'[t], "header">>
                      /\ (\E f \in Fds : sock'[f] = d) /\ (\A t \in Senders : ~Between(t, d)') =>
                            Len(wire'[d]) % 2 = 0
    BY DEF Streams
  <2>1. d \in Conns \ spoiled /\ d # NONE
    BY <1>a, <1>c
  <2>2. \A t \in Senders : t # s => (Between(t, d)' <=> Between(t, d))
    BY <1>a, <1>d DEF Between
  <2>3. CASE d # c
    <3>1. wire'[d] = wire[d]
      BY <1>c, <2>1, <2>3 DEF TypeOK
    <3>2. ~Between(s, d) /\ ~Between(s, d)'
      BY <1>a, <2>3 DEF Between
    <3> QED
      BY <1>a, <1>d, <2>1, <2>2, <3>1, <3>2 DEF Streams
  <2>4. CASE d = c
    <3>1. /\ meant[s] = c /\ wire'[d] = Append(wire[d], <<frame[s], part>>) /\ Deliver(s, part)
      BY <1>c, <2>1, <2>4 DEF TypeOK
    <3>2. \A t \in Senders : t # s => ~Between(t, d) /\ ~Between(t, d)'
      <4>1. ASSUME NEW t \in Senders, Between(t, d) PROVE t = s
        <5> HIDE DEF Inv
        <5> QED
          BY <1>a, <2>1, <2>4, <3>1, <4>1, OneInside DEF Between
      <4> QED
        BY <2>2, <4>1
    <3>3. wire[d] \in Seq(Parts) /\ WholeFrames(wire[d])
      BY <2>1 DEF TypeOK, Parts, Streams
    <3>4. CASE pc[s] = "header"
      <4>1. ~Between(s, d) /\ sock[fd[s]] = d
        BY <2>4, <3>4 DEF Between
      <4>2. Len(wire[d]) % 2 = 0
        BY <1>a, <2>1, <3>2, <4>1 DEF Streams
      <4>3. /\ WholeFrames(wire'[d]) /\ Len(wire'[d]) % 2 = 1
            /\ wire'[d][Len(wire'[d])] = <<frame[s], "header">>
        <5>1. wire'[d] = Append(wire[d], <<frame[s], "header">>)
          BY <3>1, <3>4
        <5>2. frame[s] \in 1 .. MaxSends
          BY <1>a
        <5> HIDE DEF Inv
        <5> QED
          BY <3>3, <4>2, <5>1, <5>2, AppendHeader
      <4>4. Between(s, d)' /\ frame'[s] = frame[s]
        <5>1. ~(pc[s] = "body") /\ ~GiveUp(s)
          <6>1. GiveUp(s) => c = NONE \/ c \in spoiled'
            BY DEF GiveUp
          <6> QED
            BY <2>1, <2>4, <3>4, <6>1
        <5> QED
          BY <1>a, <1>b, <2>4, <3>1, <5>1 DEF Between, TypeOK
      <4> QED
        BY <3>2, <4>3, <4>4
    <3>5. CASE pc[s] = "body"
      <4>1. Between(s, d)
        BY <2>4, <3>1, <3>5 DEF Between
      <4>2. Len(wire[d]) % 2 = 1 /\ wire[d][Len(wire[d])] = <<frame[s], "header">>
        BY <2>1, <4>1 DEF Streams
      <4>3. WholeFrames(wire'[d]) /\ Len(wire'[d]) % 2 = 0
        <5>1. wire'[d] = Append(wire[d], <<frame[s], "body">>)
          BY <3>1, <3>5
        <5>2. frame[s] \in 1 .. MaxSends
          BY <1>a
        <5> HIDE DEF Inv
        <5> QED
          BY <3>3, <4>2, <5>1, <5>2, AppendBody
      <4>4. ~Between(s, d)'
        BY <1>d, <3>5 DEF Between
      <4> QED
        BY <3>2, <4>3, <4>4
    <3> QED
      BY <1>a, <3>4, <3>5
  <2> QED
    BY <2>3, <2>4
<1> QED
  BY <1>1, <1>2, <1>3, <1>4, <1>5

(* The inductive invariant holds at the start and is kept by every step.     *)
LEMMA InvAlways == Spec => []Inv
<1>1. Init => Inv
  <2> SUFFICES ASSUME Init PROVE Inv
    OBVIOUS
  <2>1. TypeOK
    <3>1. wire \in [Conns -> Seq(Parts)]
      BY DEF Init
    <3> QED
      BY <3>1, BoundsAssumption DEF Init, TypeOK, Mutexes, Parts
  <2>2. Sockets /\ Locks /\ OneMutexPerClient
    BY DEF Init, Sockets, Locks, OneMutexPerClient, Conns
  <2>3. Streams
    BY DEF Init, Streams, Between, WholeFrames
  <2> QED
    BY <2>1, <2>2, <2>3 DEF Inv
<1>2. Inv /\ [Next]_vars => Inv'
  <2> SUFFICES ASSUME Inv, [Next]_vars PROVE Inv'
    OBVIOUS
  <2>1. CASE UNCHANGED vars
    <3>1. (TypeOK /\ Sockets /\ Locks /\ OneMutexPerClient)'
      BY <2>1 DEF vars, Inv, TypeOK, Sockets, Locks, OneMutexPerClient
    <3>2. Streams'
      BY <2>1 DEF vars, Inv, Streams, Between
    <3> QED
      BY <3>1, <3>2 DEF Inv
  <2>2. ASSUME NEW f \in Fds, Accept(f) \/ RemoveFd(f) \/ Close(f) \/ KickClose(f) PROVE Inv'
    BY <2>2, AcceptStep, RemoveFdStep, CloseStep
  <2>3. ASSUME NEW s \in Senders, Send(s) \/ \E f \in Fds : Call(s, f) PROVE Inv'
    BY <2>3, CallStep, GetFdMutexStep, LockStep, WriteStep DEF Send
  <2> QED
    BY <2>1, <2>2, <2>3 DEF Next
<1> QED
  BY <1>1, <1>2, PTL DEF Spec

(* The variables keep their types, and a sender has a frame and a mutex        *)
(* exactly where sendPacket says so.                                          *)
THEOREM PacketsTyped == Spec => []TypeOK
<1>1. Inv => TypeOK
  BY DEF Inv
<1> QED
  BY <1>1, InvAlways, PTL

(* sendPacket from any number of threads never mixes the frames of a client    *)
(* that is connected, although the map of mutexes and the numbers of the        *)
(* descriptors change under it.                                                *)
THEOREM FramesStayWhole == Spec => []NoTornFrames
<1>1. Inv => NoTornFrames
  BY DEF Inv, Streams, NoTornFrames
<1> QED
  BY <1>1, InvAlways, PTL

=============================================================================
