---------------------------- MODULE PacketHandler ----------------------------
(* Sending frames (src/PacketHandler.cpp, src/net/SocketIO.cpp): a mutex per   *)
(* fd number, made on demand and dropped when the epoll thread disconnects the *)
(* fd, while the kernel gives the numbers of closed sockets to new clients.    *)
(* A connection is its number in the order of accept; a frame is its number in *)
(* the order of sendPacket calls, and is written in two parts.                 *)
EXTENDS Integers, Sequences, FiniteSets

CONSTANTS Senders,   \* threads that call sendPacket
          Fds,       \* fd numbers of client sockets
          MaxConns,  \* bound: connections accepted
          MaxSends,  \* bound: calls of sendPacket
          MaxFull    \* bound: writes that find the socket buffer full

ASSUME BoundsAssumption == MaxConns \in Nat /\ MaxSends \in Nat /\ MaxFull \in Nat

Conns   == 1 .. MaxConns
Mutexes == 1 .. MaxSends   \* a mutex is known by the frame whose sending made it
NONE    == 0               \* no connection, no mutex, no frame

VARIABLES sock,        \* the connection each fd number stands for
          accepted,    \* connections accepted
          removing,    \* the fds the epoll thread is between removeFd and close of
          fdMutexMap,  \* fdMutexMap_
          pc,          \* where each sender is in sendPacket
          frame,       \* the frame it sends
          fd,          \* target_fd
          mtx,         \* the mutex it looked up
          meant,       \* history: the connection behind fd when it was called
          sends,       \* calls of sendPacket
          wire,        \* history: the parts each connection received
          spoiled,     \* history: connections exempt from NoTornFrames
          full         \* writes that found the socket buffer full

vars == <<sock, accepted, removing, fdMutexMap, pc, frame, fd, mtx,
          meant, sends, wire, spoiled, full>>

netVars  == <<sock, accepted, removing>>
sendVars == <<pc, frame, fd, mtx, meant, sends>>

Inside(s) == pc[s] \in {"header", "body"}   \* s holds its mutex

Init ==
    /\ sock = [f \in Fds |-> NONE]
    /\ accepted = 0
    /\ removing = {}
    /\ fdMutexMap = [f \in Fds |-> NONE]
    /\ pc = [s \in Senders |-> "idle"]
    /\ frame = [s \in Senders |-> NONE]
    /\ fd \in [Senders -> Fds]
    /\ mtx = [s \in Senders |-> NONE]
    /\ meant = [s \in Senders |-> NONE]
    /\ sends = 0
    /\ wire = [c \in Conns |-> <<>>]
    /\ spoiled = {}
    /\ full = 0

----------------------------------------------------------------------------
(* The epoll thread *)
Accept(f) ==
    /\ removing = {}
    /\ sock[f] = NONE
    /\ accepted < MaxConns
    /\ accepted' = accepted + 1
    /\ sock' = [sock EXCEPT ![f] = accepted + 1]
    /\ UNCHANGED <<removing, fdMutexMap, sendVars, wire, spoiled, full>>

\* disconnectClient drops the mutex first ...
RemoveFd(f) ==
    /\ removing = {}
    /\ sock[f] # NONE
    /\ removing' = {f}
    /\ fdMutexMap' = [fdMutexMap EXCEPT ![f] = NONE]
    /\ spoiled' = spoiled \cup {sock[f]}
    /\ UNCHANGED <<sock, accepted, sendVars, wire, full>>

\* ... and closes the socket after that.
Close(f) ==
    /\ f \in removing
    /\ removing' = {}
    /\ sock' = [sock EXCEPT ![f] = NONE]
    /\ UNCHANGED <<accepted, fdMutexMap, sendVars, wire, spoiled, full>>

\* notifyBan closes a socket from a worker and leaves the mutex in the map.
KickClose(f) ==
    /\ sock[f] # NONE
    /\ sock' = [sock EXCEPT ![f] = NONE]
    /\ UNCHANGED <<accepted, removing, fdMutexMap, sendVars, wire, spoiled, full>>

----------------------------------------------------------------------------
(* sendPacket *)
Call(s, f) ==
    /\ pc[s] = "idle"
    /\ sends < MaxSends
    /\ sends' = sends + 1
    /\ frame' = [frame EXCEPT ![s] = sends + 1]
    /\ fd' = [fd EXCEPT ![s] = f]
    /\ meant' = [meant EXCEPT ![s] = sock[f]]
    /\ pc' = [pc EXCEPT ![s] = "getMutex"]
    /\ UNCHANGED <<netVars, fdMutexMap, mtx, wire, spoiled, full>>

\* Mutant: the null pointer of a map entry that does not exist is returned.
GetFdMutex_Null(s) ==
    /\ pc[s] = "getMutex"
    /\ mtx' = [mtx EXCEPT ![s] = fdMutexMap[fd[s]]]
    /\ pc' = [pc EXCEPT ![s] = "lock"]
    /\ UNCHANGED <<netVars, fdMutexMap, frame, fd, meant, sends, wire, spoiled, full>>

\* One critical section of mapMutex_; the shared_ptr keeps the mutex alive.
GetFdMutex(s) ==
    /\ pc[s] = "getMutex"
    /\ IF fdMutexMap[fd[s]] = NONE
       THEN fdMutexMap' = [fdMutexMap EXCEPT ![fd[s]] = frame[s]]
       ELSE UNCHANGED fdMutexMap
    /\ mtx' = [mtx EXCEPT ![s] = fdMutexMap'[fd[s]]]
    /\ pc' = [pc EXCEPT ![s] = "lock"]
    /\ UNCHANGED <<netVars, frame, fd, meant, sends, wire, spoiled, full>>

\* Mutant: the frame is written without the lock.
Lock_NoWait(s) ==
    /\ pc[s] = "lock"
    /\ pc' = [pc EXCEPT ![s] = "header"]
    /\ UNCHANGED <<netVars, fdMutexMap, frame, fd, mtx, meant, sends, wire, spoiled, full>>

Lock(s) ==
    /\ pc[s] = "lock"
    /\ \A t \in Senders : Inside(t) => mtx[t] # mtx[s]
    /\ pc' = [pc EXCEPT ![s] = "header"]
    /\ UNCHANGED <<netVars, fdMutexMap, frame, fd, mtx, meant, sends, wire, spoiled, full>>

\* The lock_guard and the shared_ptr end with the call.
Return(s) ==
    /\ pc' = [pc EXCEPT ![s] = "idle"]
    /\ frame' = [frame EXCEPT ![s] = NONE]
    /\ mtx' = [mtx EXCEPT ![s] = NONE]
    /\ meant' = [meant EXCEPT ![s] = NONE]

\* writeAll of one part to whatever connection fd[s] stands for now.  A frame
\* that was meant for another connection spoils the one that receives it.
Deliver(s, part) ==
    LET c == sock[fd[s]]
    IN  /\ c # NONE
        /\ wire' = [wire EXCEPT ![c] = Append(@, <<frame[s], part>>)]
        /\ spoiled' = IF meant[s] = c THEN spoiled ELSE spoiled \cup {c}
        /\ UNCHANGED full

\* writeAll gives up: the descriptor is closed, or the socket buffer is full
\* and an unknown piece of the part has been sent.
GiveUp(s) ==
    LET c == sock[fd[s]]
    IN  \/ c = NONE /\ UNCHANGED <<wire, spoiled, full>>
        \/ /\ c # NONE
           /\ full < MaxFull
           /\ full' = full + 1
           /\ wire' = [wire EXCEPT ![c] = Append(@, <<frame[s], "piece">>)]
           /\ spoiled' = spoiled \cup {c}

WriteHeader(s) ==
    /\ pc[s] = "header"
    /\ \/ /\ Deliver(s, "header")
          /\ pc' = [pc EXCEPT ![s] = "body"]
          /\ UNCHANGED <<frame, mtx, meant>>
       \/ GiveUp(s) /\ Return(s)
    /\ UNCHANGED <<netVars, fdMutexMap, fd, sends>>

WriteBody(s) ==
    /\ pc[s] = "body"
    /\ Deliver(s, "body") \/ GiveUp(s)
    /\ Return(s)
    /\ UNCHANGED <<netVars, fdMutexMap, fd, sends>>

----------------------------------------------------------------------------
Send(s) == GetFdMutex(s) \/ Lock(s) \/ WriteHeader(s) \/ WriteBody(s)

Next ==
    \/ \E f \in Fds : Accept(f) \/ RemoveFd(f) \/ Close(f) \/ KickClose(f)
    \/ \E s \in Senders : Send(s) \/ \E f \in Fds : Call(s, f)

Spec == Init /\ [][Next]_vars

----------------------------------------------------------------------------
(* Types; a sender has a frame exactly while it is in sendPacket, and a mutex *)
(* exactly after it looked one up.                                            *)
TypeOK ==
    /\ sock \in [Fds -> Conns \cup {NONE}]
    /\ accepted \in 0 .. MaxConns
    /\ removing \subseteq Fds
    /\ fdMutexMap \in [Fds -> Mutexes \cup {NONE}]
    /\ pc \in [Senders -> {"idle", "getMutex", "lock", "header", "body"}]
    /\ frame \in [Senders -> 0 .. MaxSends]
    /\ fd \in [Senders -> Fds]
    /\ mtx \in [Senders -> Mutexes \cup {NONE}]
    /\ meant \in [Senders -> Conns \cup {NONE}]
    /\ sends \in 0 .. MaxSends
    /\ wire \in [Conns -> Seq((1 .. MaxSends) \X {"header", "body", "piece"})]
    /\ spoiled \subseteq Conns
    /\ full \in 0 .. MaxFull
    /\ \A s \in Senders : /\ frame[s] = NONE <=> pc[s] = "idle"
                          /\ mtx[s] = NONE <=> pc[s] \in {"idle", "getMutex"}

\* A received stream consists of whole frames, the last one perhaps unfinished.
WholeFrames(w) ==
    \A i \in 1 .. Len(w) :
       IF i % 2 = 1 THEN w[i][2] = "header" ELSE w[i] = <<w[i-1][1], "body">>

(* A client that is not being disconnected, whose socket buffer never filled  *)
(* up and that no late sender mistook for its predecessor on the same fd      *)
(* receives whole frames, however many threads send to it.                    *)
NoTornFrames == \A c \in Conns \ spoiled : WholeFrames(wire[c])

----------------------------------------------------------------------------
(* What the documentation says, and the code does not keep.                   *)

\* tcp-server/ReadMe.md:72: partial writes do no harm, so nothing is ever sent
\* behind a piece of a frame, where the reader would take it for the rest.
NothingAfterPiece ==
    \A c \in Conns : \A i \in 1 .. Len(wire[c]) - 1 : wire[c][i][2] # "piece"
=============================================================================
