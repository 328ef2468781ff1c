---------------------------- MODULE ConsoleClient ----------------------------
(* The console programs (clients/*_client.cpp on clients/NetClient.cpp) and   *)
(* the server they talk to: requests travel through module Framing, a worker  *)
(* answers them, and other workers send notices to whoever is in the roster.  *)
(* A program first registers or logs in on one thread, taking the next packet *)
(* for the answer to its request; then a second thread receives.  Next to the *)
(* programs there are raw clients, which send and hang up as they like.       *)
EXTENDS Framing, SequencesExt

CONSTANTS Casts,     \* who may connect, in the order of accept
          MaxNotices \* bound: notices sent

Kinds == {"raw", "customer", "owner", "admin"}

\* What each client is, the lengths it writes, and how many frames it sends.
Client == [kind : Kinds, lengths : SUBSET Lengths, frames : 0 .. MaxFrames]

\* A program's requests are JSON texts of an acceptable length.
ASSUME CastAssumption ==
    /\ Casts \subseteq [Conns -> Client]
    /\ \A cast \in Casts, c \in Conns :
          cast[c].kind # "raw" => cast[c].lengths \subseteq 1 .. MaxPayload

ASSUME OpsAssumption == {"login", "register", "ask"} \subseteq Ops
ASSUME NoticesAssumption == MaxNotices \in Nat

VARIABLES client,    \* who is at the other end of each connection
          phase,     \* where its main thread is
          receiver,  \* where its recvThread is
          inbox,     \* packets that have reached it
          believes,  \* the request whose log-in it believes to have succeeded
          sessions,  \* activeSessions: the request that entered each fd
          job,       \* the log-in a worker has decided and not answered
          notices,   \* notices sent
          entered,   \* history: log-ins that succeeded
          misled     \* history: programs that took another packet for an answer

programVars == <<phase, receiver, inbox, believes, misled>>
serverVars  == <<sessions, job, notices, entered>>
vars == <<framingVars, client, programVars, serverVars>>

NoSession == [conn |-> NONE, frame |-> 0]
NoJob     == [item |-> "none"]

Init ==
    /\ FramingInit
    /\ client \in Casts
    /\ phase = [c \in Conns |-> "menu"]
    /\ receiver = [c \in Conns |-> "off"]
    /\ inbox = [c \in Conns |-> <<>>]
    /\ believes = [c \in Conns |-> 0]
    /\ sessions = [f \in Fds |-> NoSession]
    /\ job = NoJob
    /\ notices = 0
    /\ entered = {} /\ misled = {}

Console(c) == client[c].kind # "raw" /\ c <= accepted

\* The server has closed the connection and everything it sent was received.
AtEnd(c) == c <= accepted /\ ~Open(c) /\ inbox[c] = <<>>

\* recvPacket fails at the end, and on a packet whose header comes in two parts.
ReceiveFails(c) == AtEnd(c) \/ inbox[c] # <<>>

----------------------------------------------------------------------------
(* The clients *)
Writes(c, op) ==
    /\ Len(sent[c]) < client[c].frames
    /\ \E len \in client[c].lengths : Send(c, [len |-> len, op |-> op])

RawSend(c)   == /\ client[c].kind = "raw"
                /\ Writes(c, "login")
                /\ UNCHANGED <<client, programVars, serverVars>>

RawHangUp(c) == /\ client[c].kind = "raw" /\ Open(c) /\ c \notin fin
                /\ HungUp(c)
                /\ UNCHANGED <<client, programVars, serverVars>>

\* The first menu; administrators only log in.
Offers(c) == IF client[c].kind = "admin" THEN {"login"} ELSE {"login", "register"}

\* Mutant: a request that is not answered may be tried again.
AskAndWait_Retries(c) ==
    /\ Console(c) /\ phase[c] \in {"menu", "wait"}
    /\ \E op \in Offers(c) : Writes(c, op)
    /\ phase' = [phase EXCEPT ![c] = "wait"]
    /\ UNCHANGED <<client, receiver, inbox, believes, misled, serverVars>>

\* A log-in or a registration; its answer is awaited.
AskAndWait(c) ==
    /\ Console(c) /\ phase[c] = "menu"
    /\ \E op \in Offers(c) : Writes(c, op)
    /\ phase' = [phase EXCEPT ![c] = "wait"]
    /\ UNCHANGED <<client, receiver, inbox, believes, misled, serverVars>>

\* What the program takes for a log-in: the administrator's looks at the status
\* only, the others at the type too, all of them at that of owners and riders.
Success(c, p) == /\ Last(sent[c]).op = "login"
                 /\ p.ok /\ (client[c].kind = "admin" \/ p.type = "SC_LOGIN_RES")

\* recvPacket while no other thread receives: the next packet is the answer.
TakeAnswer(c) ==
    LET p == Head(inbox[c]) IN
    /\ Console(c) /\ phase[c] = "wait" /\ inbox[c] # <<>>
    /\ inbox' = [inbox EXCEPT ![c] = Tail(@)]
    /\ misled' = IF p.conn = c THEN misled ELSE misled \cup {c}
    /\ \/ /\ Success(c, p)
          /\ phase' = [phase EXCEPT ![c] = "main"]
          /\ receiver' = [receiver EXCEPT ![c] = "check"]
          /\ believes' = [believes EXCEPT ![c] = Len(sent[c])]
          /\ UNCHANGED framingVars
       \/ /\ ~Success(c, p) /\ client[c].kind # "admin"
          /\ phase' = [phase EXCEPT ![c] = "menu"]
          /\ UNCHANGED <<framingVars, receiver, believes>>
       \/ /\ ~Success(c, p) /\ client[c].kind = "admin"
          /\ phase' = [phase EXCEPT ![c] = "ended"]
          /\ HungUp(c)
          /\ UNCHANGED <<receiver, believes>>
    /\ UNCHANGED <<client, serverVars>>

\* The program ends: by choice from the menu, or because recvPacket or sendPacket
\* failed; its process exits and the system closes the socket.
Leave(c) ==
    /\ Console(c)
    /\ \/ phase[c] = "menu"
       \/ phase[c] = "wait" /\ ReceiveFails(c)
    /\ phase' = [phase EXCEPT ![c] = "ended"]
    /\ HungUp(c)
    /\ UNCHANGED <<client, receiver, inbox, believes, misled, serverVars>>

Ask(c) ==
    /\ Console(c) /\ phase[c] = "main" /\ receiver[c] # "done"
    /\ Writes(c, "ask")
    /\ UNCHANGED <<client, programVars, serverVars>>

\* The main loop is left: g_running = false and client.close().  The system
\* releases the socket at once unless the other thread is inside recv().
Exit(c) ==
    /\ Console(c) /\ phase[c] = "main"
    /\ phase' = [phase EXCEPT ![c] = "join"]
    /\ IF receiver[c] = "recv" THEN UNCHANGED framingVars ELSE HungUp(c)
    /\ UNCHANGED <<client, receiver, inbox, believes, misled, serverVars>>

Join(c) ==
    /\ phase[c] = "join" /\ receiver[c] = "done"
    /\ phase' = [phase EXCEPT ![c] = "ended"]
    /\ UNCHANGED <<framingVars, client, receiver, inbox, believes, misled, serverVars>>

\* The loop of recvThread: g_running, then recv() on sock_, which is -1 once the
\* main thread has closed it.
ReceiverChecks(c) ==
    /\ receiver[c] = "check"
    /\ receiver' = [receiver EXCEPT ![c] = IF phase[c] = "main" THEN "recv" ELSE "done"]
    /\ UNCHANGED <<framingVars, client, phase, inbox, believes, misled, serverVars>>

\* Mutant: recvPacket goes on with the next packet instead of returning.
ReceiverGets_Again(c) ==
    /\ receiver[c] = "recv" /\ inbox[c] # <<>>
    /\ inbox' = [inbox EXCEPT ![c] = Tail(@)]
    /\ UNCHANGED <<framingVars, client, phase, receiver, believes, misled, serverVars>>

\* recv() returns with a packet; a socket closed meanwhile is released now.
ReceiverGets(c) ==
    /\ receiver[c] = "recv" /\ inbox[c] # <<>>
    /\ inbox' = [inbox EXCEPT ![c] = Tail(@)]
    /\ receiver' = [receiver EXCEPT ![c] = "check"]
    /\ IF phase[c] = "join" THEN HungUp(c) ELSE UNCHANGED framingVars
    /\ UNCHANGED <<client, phase, believes, misled, serverVars>>

ReceiverFails(c) ==
    /\ receiver[c] = "recv" /\ ReceiveFails(c)
    /\ receiver' = [receiver EXCEPT ![c] = "done"]
    /\ IF phase[c] = "join" THEN HungUp(c) ELSE UNCHANGED framingVars
    /\ UNCHANGED <<client, phase, inbox, believes, misled, serverVars>>

Program(c) == \/ TakeAnswer(c) \/ Join(c)
              \/ ReceiverChecks(c) \/ ReceiverGets(c) \/ ReceiverFails(c)

----------------------------------------------------------------------------
(* The workers *)
\* A worker takes a packet.  handleLogin enters the session and answers later;
\* what is not a frame ends in route's catch.  The workers that answer log-ins and
\* registrations are one here, so their answers do not overtake each other; the
\* workers that send notices are others.
Handle ==
    LET i == Head(queue)
        op == IF i.frame = 0 THEN "none" ELSE sent[i.conn][i.frame].op
    IN
    /\ job = NoJob /\ queue # <<>>
    /\ queue' = Tail(queue)
    /\ \/ /\ op = "login"
          /\ sessions' = [sessions EXCEPT ![i.fd] = [conn |-> i.conn, frame |-> i.frame]]
          /\ entered' = entered \cup {[conn |-> i.conn, frame |-> i.frame]}
          /\ job' = [item |-> i, ok |-> TRUE]
       \/ /\ op \in {"login", "register"}
          /\ \E ok \in {FALSE, op = "register"} : job' = [item |-> i, ok |-> ok]
          /\ UNCHANGED <<sessions, entered>>
       \/ /\ op \notin {"login", "register"}
          /\ UNCHANGED <<job, sessions, entered>>
    /\ UNCHANGED <<clientVars, kernelVars, mainVars, history, client, programVars, notices>>

\* sendPacket (module PacketHandler) to whoever is behind the fd number now.
SendTo(f, packet) ==
    inbox' = [c \in Conns |-> IF c = sock[f] /\ phase[c] # "ended" /\ client[c].kind # "raw"
                              THEN Append(inbox[c], packet) ELSE inbox[c]]

\* A customer's log-in is answered with a type of its own; what registrations
\* are answered with makes no difference to what a program does next.
AnswerType(program, op) ==
    CASE op = "login"    -> IF program = "customer" THEN "USER_LOGIN_RES" ELSE "SC_LOGIN_RES"
      [] op = "register" -> "REGISTER_RES"

Answer ==
    LET i == job.item IN
    /\ job # NoJob
    /\ SendTo(i.fd, [type |-> AnswerType(client[i.conn].kind, sent[i.conn][i.frame].op),
                     ok |-> job.ok, conn |-> i.conn, frame |-> i.frame])
    /\ job' = NoJob
    /\ UNCHANGED <<framingVars, client, phase, receiver, believes, misled, sessions, notices, entered>>

\* Another worker has something to tell the user in the roster (to no effect if
\* a raw client or nobody is behind the number by now).
Notice(f) ==
    /\ sessions[f] # NoSession
    /\ \E c \in Conns : sock[f] = c /\ client[c].kind # "raw" /\ phase[c] # "ended"
    /\ notices < MaxNotices
    /\ notices' = notices + 1
    /\ SendTo(f, [type |-> "SC_ORDER_STATUS", ok |-> FALSE, conn |-> NONE, frame |-> 0])
    /\ UNCHANGED <<framingVars, client, phase, receiver, believes, misled, sessions, job, entered>>

\* notifyBan throws the user in the roster out; its message looks like the answer
\* to a log-in that failed (step by step in module ConnectionManager).
Ban(f) ==
    /\ sessions[f] # NoSession
    /\ sessions' = [sessions EXCEPT ![f] = NoSession]
    /\ SendTo(f, [type |-> "SC_LOGIN_RES", ok |-> FALSE, conn |-> NONE, frame |-> 0])
    /\ Kick(f)
    /\ UNCHANGED <<client, phase, receiver, believes, misled, job, notices, entered>>

\* The epoll thread (Framing); disconnectClient removes the session.
Network ==
    /\ Main
    /\ sessions' = [f \in Fds |-> IF f \in known /\ f \notin known' THEN NoSession ELSE sessions[f]]
    /\ UNCHANGED <<client, programVars, job, notices, entered>>

Transport(c) == Arrive(c) /\ UNCHANGED <<client, programVars, serverVars>>
Connect(f)   == Accept(f) /\ UNCHANGED <<client, programVars, serverVars>>

Worker == Handle \/ Answer

Next == \/ \E c \in Conns : \/ RawSend(c) \/ RawHangUp(c) \/ AskAndWait(c) \/ Leave(c) \/ Ask(c)
                            \/ Exit(c) \/ Program(c) \/ Transport(c)
        \/ \E f \in Fds : Connect(f) \/ Notice(f) \/ Ban(f)
        \/ Network
        \/ Worker

Spec == Init /\ [][Next]_vars

\* The threads of the server and of the programs keep running.  Nobody need
\* type, connect or be banned, and TCP may keep what was sent to itself.
FairSpec == /\ Spec
            /\ WF_vars(Network) /\ WF_vars(Worker)
            /\ \A c \in Conns : WF_vars(Program(c))

----------------------------------------------------------------------------
(* Types; the epoll thread only works on an fd number it has a state for.     *)
TypeOK ==
    /\ FramingTypeOK
    /\ client \in Casts
    /\ phase \in [Conns -> {"menu", "wait", "main", "join", "ended"}]
    /\ receiver \in [Conns -> {"off", "check", "recv", "done"}]
    /\ inbox \in [Conns -> Seq([type : {"USER_LOGIN_RES", "SC_LOGIN_RES", "REGISTER_RES",
                                        "SC_ORDER_STATUS"},
                                ok : BOOLEAN, conn : Conns \cup {NONE}, frame : {0} \cup FrameNos])]
    /\ believes \in [Conns -> {0} \cup FrameNos]
    /\ sessions \in [Fds -> [conn : Conns \cup {NONE}, frame : {0} \cup FrameNos]]
    /\ notices \in 0 .. MaxNotices
    /\ misled \subseteq Conns

(* Whoever the program says is logged in has logged in, unless it took a notice *)
(* or the answer to the previous client of its fd number for its own: answers    *)
(* carry no number, so this rests on one request being under way at a time.      *)
BelievesRightly ==
    \A c \in Conns :
       believes[c] # 0 => [conn |-> c, frame |-> believes[c]] \in entered \/ c \in misled

(* A program told to exit ends at the latest when the server sends it something *)
(* or closes: close() does not interrupt the recv() of its other thread, but no *)
(* second packet is waited for.                                                 *)
Blocked(c) == receiver[c] = "recv" /\ inbox[c] = <<>> /\ Open(c)

ExitEnds ==
    \A c \in Conns : phase[c] = "join" /\ ~Blocked(c) ~> phase[c] = "ended"
=============================================================================
