-------------------------- MODULE ConnectionManager --------------------------
(* Connections and sessions: the epoll thread (src/net/ConnectionManager.cpp), *)
(* the roster of logged-in users (src/SessionManager.cpp) and the handlers     *)
(* that log in, ban a user, look a user up to send to, or look up who sent an  *)
(* order.  Work items and the roster know a client only by its fd number,      *)
(* which the kernel gives to the next client once it is closed.  A connection  *)
(* is its number in the order of accept.  Framing is left to module Framing: a *)
(* request is a whole frame.                                                   *)
EXTENDS Integers, Sequences, FiniteSets

CONSTANTS Workers,     \* worker threads
          Fds,         \* fd numbers of client sockets
          Users,       \* login ids
          Ops,         \* the requests clients send
          DbFails,     \* whether the statements of bans and look-ups may fail
          MaxConns,    \* bound: connections accepted
          MaxRequests  \* bound: requests sent

ASSUME OpsAssumption == Ops \subseteq {"login", "ban", "unban", "chat", "order"}
ASSUME UsersAssumption == "none" \notin Users
ASSUME DbFailsAssumption == DbFails \in BOOLEAN
ASSUME BoundsAssumption == MaxConns \in Nat /\ MaxRequests \in Nat

Conns     == 1 .. MaxConns
NONE      == 0                 \* no connection
NoSession == [user |-> "none"]
NoItem    == [op |-> "none"]

VARIABLES sock,      \* the connection each fd number stands for
          owner,     \* the user at the other end of each connection
          unread,    \* requests in the receive buffer of each connection
          fin,       \* connections whose client has hung up
          edge,      \* connections with an event epoll has not reported yet
          known,     \* the keys of connections_
          ready,     \* fds reported by epoll_wait and not yet handled
          closing,   \* the fds disconnectClient is about to close
          queue,     \* the work queue
          pc,        \* where each worker is in its handler
          item,      \* its work item
          target,    \* the fd it looked up
          sessions,  \* activeSessions
          banned,    \* users with is_banned = 1
          accepted,  \* connections accepted
          requests,  \* requests sent
          meant,     \* history: the session it looked up
          left,      \* history: connections whose session was removed
          kicked     \* history: connections closed by notifyBan

vars == <<sock, owner, unread, fin, edge, known, ready, closing, queue, pc, item,
          target, sessions, banned, accepted, requests, meant, left, kicked>>

kernelVars == <<sock, owner, unread, fin, edge, accepted, requests>>
mainVars   == <<known, ready, closing>>
workVars   == <<queue, pc, item, target, meant>>
history    == <<left, kicked>>

Requests(u) == {r \in [op : Ops, user : Users] : r.op \in {"login", "order"} => r.user = u}

Init ==
    /\ sock = [f \in Fds |-> NONE]
    /\ owner = [c \in Conns |-> "none"]
    /\ unread = [c \in Conns |-> <<>>]
    /\ fin = {} /\ edge = {} /\ known = {} /\ ready = {} /\ closing = {}
    /\ queue = <<>>
    /\ pc = [w \in Workers |-> "idle"]
    /\ item = [w \in Workers |-> NoItem]
    /\ target \in [Workers -> Fds]
    /\ sessions = [f \in Fds |-> NoSession]
    /\ banned = {}
    /\ accepted = 0 /\ requests = 0
    /\ meant = [w \in Workers |-> NoSession]
    /\ left = {} /\ kicked = {}

Open(c) == \E f \in Fds : sock[f] = c

----------------------------------------------------------------------------
(* The clients *)
Request(c, r) ==
    /\ Open(c) /\ c \notin fin
    /\ requests < MaxRequests
    /\ requests' = requests + 1
    /\ unread' = [unread EXCEPT ![c] = Append(@, r)]
    /\ edge' = edge \cup {c}
    /\ UNCHANGED <<sock, owner, fin, accepted, mainVars, workVars, sessions, banned, history>>

HangUp(c) ==
    /\ Open(c) /\ c \notin fin
    /\ fin' = fin \cup {c}
    /\ edge' = edge \cup {c}
    /\ UNCHANGED <<sock, owner, unread, accepted, requests, mainVars, workVars, sessions, banned, history>>

----------------------------------------------------------------------------
(* The epoll thread *)

\* acceptClient; emplace leaves an entry that is already there as it is.
Accept(f) ==
    /\ closing = {}
    /\ sock[f] = NONE
    /\ accepted < MaxConns
    /\ accepted' = accepted + 1
    /\ sock' = [sock EXCEPT ![f] = accepted + 1]
    /\ \E u \in Users : owner' = [owner EXCEPT ![accepted + 1] = u]
    /\ known' = known \cup {f}
    /\ UNCHANGED <<unread, fin, edge, requests, ready, closing, workVars,
                   sessions, banned, history>>

\* Edge-triggered: an event is reported once.
EpollWait ==
    /\ closing = {} /\ ready = {}
    /\ \E f \in Fds : sock[f] \in edge
    /\ ready' = {f \in Fds : sock[f] \in edge}
    /\ edge' = {}
    /\ UNCHANGED <<sock, owner, unread, fin, accepted, requests, known, closing,
                   workVars, sessions, banned, history>>

\* What onReadable finds on fd f: an fd without a state, closed under its feet,
\* or an end of file behind whatever could still be read.
Dead(f) == f \notin known \/ sock[f] = NONE \/ sock[f] \in fin

\* Mutant: one read per event instead of reading until EAGAIN.
OnReadable_Once(f) ==
    LET c == sock[f] IN
    /\ closing = {} /\ f \in ready
    /\ ready' = ready \ {f}
    /\ ~Dead(f)
    /\ unread[c] # <<>>
    /\ unread' = [unread EXCEPT ![c] = Tail(@)]
    /\ queue' = Append(queue, [fd |-> f, conn |-> c, op |-> Head(unread[c]).op,
                               user |-> Head(unread[c]).user])
    /\ UNCHANGED <<sock, owner, fin, edge, accepted, requests, known, closing,
                   pc, item, target, meant, sessions, banned, history>>

\* onReadable reads everything and pushes it as work items.
OnReadable(f) ==
    LET c == sock[f] IN
    /\ closing = {} /\ f \in ready
    /\ ready' = ready \ {f}
    /\ ~Dead(f)
    /\ unread' = [unread EXCEPT ![c] = <<>>]
    /\ queue' = queue \o [i \in 1 .. Len(unread[c]) |->
                             [fd |-> f, conn |-> c, op |-> unread[c][i].op,
                              user |-> unread[c][i].user]]
    /\ UNCHANGED <<sock, owner, fin, edge, accepted, requests, known, closing,
                   pc, item, target, meant, sessions, banned, history>>

\* Mutant: the socket is closed and the session stays.
Disconnect_KeepsSession(f) ==
    /\ closing = {} /\ f \in ready /\ Dead(f)
    /\ ready' = ready \ {f}
    /\ closing' = {f}
    /\ left' = left \cup ({sock[f]} \ {NONE})
    /\ UNCHANGED <<kernelVars, known, workVars, sessions, banned, kicked>>

\* disconnectClient, first half: the session goes, whatever was read is dropped.
Disconnect(f) ==
    /\ closing = {} /\ f \in ready /\ Dead(f)
    /\ ready' = ready \ {f}
    /\ closing' = {f}
    /\ sessions' = [sessions EXCEPT ![f] = NoSession]
    /\ left' = left \cup ({sock[f]} \ {NONE})
    /\ UNCHANGED <<kernelVars, known, workVars, banned, kicked>>

\* close(f): the kernel forgets the connection and what it had not delivered.
Forget(f) ==
    /\ sock' = [sock EXCEPT ![f] = NONE]
    /\ unread' = [c \in Conns |-> IF c = sock[f] THEN <<>> ELSE unread[c]]
    /\ edge' = edge \ {sock[f]}

\* Mutant: the state is erased but the socket stays open.
Close_Leak(f) ==
    /\ f \in closing
    /\ closing' = {}
    /\ known' = known \ {f}
    /\ UNCHANGED <<kernelVars, ready, workVars, sessions, banned, history>>

\* disconnectClient, second half, and the erase of its caller.
Close(f) ==
    /\ f \in closing
    /\ closing' = {}
    /\ Forget(f)
    /\ known' = known \ {f}
    /\ UNCHANGED <<owner, fin, accepted, requests, ready, workVars, sessions, banned, history>>

----------------------------------------------------------------------------
(* The workers *)
Goto(w, l) == pc' = [pc EXCEPT ![w] = l]

Entry == [login |-> "check", ban |-> "checkBan", unban |-> "checkBan", chat |-> "lookup",
          order |-> "identify"]

Take(w) ==
    /\ pc[w] = "idle"
    /\ queue # <<>>
    /\ item' = [item EXCEPT ![w] = Head(queue)]
    /\ queue' = Tail(queue)
    /\ Goto(w, Entry[Head(queue).op])
    /\ UNCHANGED <<kernelVars, mainVars, target, meant, sessions, banned, history>>

Done(w) ==
    /\ Goto(w, "idle")
    /\ item' = [item EXCEPT ![w] = NoItem]
    /\ meant' = [meant EXCEPT ![w] = NoSession]

\* processLogin reads is_banned; a login may also fail for other reasons.
CheckLogin(w) ==
    /\ pc[w] = "check"
    /\ \/ item[w].user \notin banned /\ Goto(w, "addSession") /\ UNCHANGED <<item, meant>>
       \/ Done(w)
    /\ UNCHANGED <<kernelVars, mainVars, queue, target, sessions, banned, history>>

\* addSession under the fd number of the item, whoever is behind it by now.
AddSession(w) ==
    /\ pc[w] = "addSession"
    /\ sessions' = [sessions EXCEPT ![item[w].fd] =
                       [user |-> item[w].user, conn |-> item[w].conn,
                        late |-> item[w].conn \in left]]
    /\ Done(w)
    /\ UNCHANGED <<kernelVars, mainVars, queue, target, banned, history>>

\* processBanUser and processClearBanUser read is_banned in one statement ...
CheckBan(w) ==
    /\ pc[w] = "checkBan"
    /\ \/ /\ (item[w].user \in banned) <=> (item[w].op = "unban")
          /\ Goto(w, "setBan")
          /\ UNCHANGED <<item, meant>>
       \/ Done(w)
    /\ UNCHANGED <<kernelVars, mainVars, queue, target, sessions, banned, history>>

\* ... and write it in another.  A failed statement ends the request, although
\* executeUpdate may also fail when the row is written (module Queries).
SetBan(w) ==
    /\ pc[w] = "setBan"
    /\ \/ /\ item[w].op = "ban"
          /\ banned' = banned \cup {item[w].user}
          /\ Goto(w, "lookup")
          /\ UNCHANGED <<item, meant>>
       \/ /\ item[w].op = "unban"
          /\ banned' = banned \ {item[w].user}
          /\ Done(w)
       \/ UNCHANGED banned /\ Done(w)
       \/ /\ DbFails /\ item[w].op = "ban"
          /\ banned' = banned \cup {item[w].user}
          /\ Done(w)
    /\ UNCHANGED <<kernelVars, mainVars, queue, target, sessions, history>>

\* getMemberFd reads the login id of the member, and getFdByUserId finds any entry
\* of the hash map with it.  Without the id nobody is told, or thrown out.
LookUp(w) ==
    LET found == {f \in Fds : sessions[f].user = item[w].user}
    IN
    /\ pc[w] = "lookup"
    /\ \/ /\ found = {} \/ DbFails
          /\ Done(w)
          /\ UNCHANGED target
       \/ \E f \in found :
             /\ target' = [target EXCEPT ![w] = f]
             /\ meant' = [meant EXCEPT ![w] = sessions[f]]
             /\ Goto(w, "send")
             /\ UNCHANGED item
    /\ UNCHANGED <<kernelVars, mainVars, queue, sessions, banned, history>>

\* sendPacket to the fd (module PacketHandler): it reaches whoever is behind the
\* number now.
Send(w) ==
    /\ pc[w] = "send"
    /\ IF item[w].op = "ban" THEN Goto(w, "dropSession") /\ UNCHANGED <<item, meant>> ELSE Done(w)
    /\ UNCHANGED <<kernelVars, mainVars, queue, target, sessions, banned, history>>

\* notifyBan removes the session and closes the fd it looked up.
DropSession(w) ==
    /\ pc[w] = "dropSession"
    /\ sessions' = [sessions EXCEPT ![target[w]] = NoSession]
    /\ left' = left \cup ({sock[target[w]]} \ {NONE})
    /\ Goto(w, "kick")
    /\ UNCHANGED <<kernelVars, mainVars, queue, item, target, meant, banned, kicked>>

Kick(w) ==
    /\ pc[w] = "kick"
    /\ Forget(target[w])
    /\ kicked' = kicked \cup ({sock[target[w]]} \ {NONE})
    /\ Done(w)
    /\ UNCHANGED <<owner, fin, accepted, requests, mainVars, queue, target, sessions,
                   banned, left>>

\* getUserIdByFd: the packet says nothing of who sent it, so the client is
\* whoever the roster has under the number by the time a worker gets to it.  Where
\* it has nobody the request ends, or goes on as what the packet itself says.
Identify(w) ==
    LET session == sessions[item[w].fd]
    IN
    /\ pc[w] = "identify"
    /\ \/ session = NoSession /\ Done(w)
       \/ /\ session # NoSession
          /\ meant' = [meant EXCEPT ![w] = session]
          /\ Goto(w, "act")
          /\ UNCHANGED item
    /\ UNCHANGED <<kernelVars, mainVars, queue, target, sessions, banned, history>>

\* The order is taken, or stored, in that user's name (modules OrderLifecycle and
\* OrderPlacement).
Act(w) ==
    /\ pc[w] = "act"
    /\ Done(w)
    /\ UNCHANGED <<kernelVars, mainVars, queue, target, sessions, banned, history>>

----------------------------------------------------------------------------
Main    == EpollWait \/ \E f \in Fds : OnReadable(f) \/ Disconnect(f) \/ Close(f)
Work(w) == \/ Take(w) \/ CheckLogin(w) \/ AddSession(w) \/ CheckBan(w) \/ SetBan(w)
           \/ LookUp(w) \/ Send(w) \/ DropSession(w) \/ Kick(w)
           \/ Identify(w) \/ Act(w)

Next == \/ \E c \in Conns : HangUp(c) \/ \E r \in Requests(owner[c]) : Request(c, r)
        \/ \E f \in Fds : Accept(f)
        \/ Main
        \/ \E w \in Workers : Work(w)

Spec == Init /\ [][Next]_vars

\* The epoll thread and the workers keep running; clients may do nothing.
FairSpec == Spec /\ WF_vars(Main) /\ \A w \in Workers : WF_vars(Work(w))

----------------------------------------------------------------------------
(* Types; and epoll never reports an fd without a state.                      *)
Request1 == [op : Ops, user : Users]
Item     == [fd : Fds, conn : Conns, op : Ops, user : Users]
Session  == [user : Users, conn : Conns, late : BOOLEAN]

TypeOK ==
    /\ sock \in [Fds -> Conns \cup {NONE}]
    /\ owner \in [Conns -> Users \cup {"none"}]
    /\ unread \in [Conns -> Seq(Request1)]
    /\ fin \subseteq Conns /\ edge \subseteq Conns
    /\ known \subseteq Fds /\ ready \subseteq known /\ closing \subseteq Fds
    /\ queue \in Seq(Item)
    /\ pc \in [Workers -> {"idle", "check", "addSession", "checkBan", "setBan",
                           "lookup", "send", "dropSession", "kick", "identify", "act"}]
    /\ item \in [Workers -> Item \cup {NoItem}]
    /\ target \in [Workers -> Fds]
    /\ sessions \in [Fds -> Session \cup {NoSession}]
    /\ banned \subseteq Users
    /\ accepted \in 0 .. MaxConns /\ requests \in 0 .. MaxRequests
    /\ meant \in [Workers -> Session \cup {NoSession}]
    /\ left \subseteq Conns /\ kicked \subseteq Conns
    /\ \A f \in Fds : sock[f] # NONE => f \in known

SessionFollowsSocket ==
    \A f \in Fds :
       sessions[f] # NoSession =>
          \/ sock[f] = sessions[f].conn
          \/ sessions[f].late
          \/ sessions[f].conn \in kicked

TargetFollowsSession ==
    \A w \in Workers :
       pc[w] \in {"send", "dropSession"} =>
          sock[target[w]] \in {NONE, meant[w].conn} \/ meant[w].conn \in left \cup kicked

SenderIsMeant ==
    \A w \in Workers :
       pc[w] = "act" =>
          \/ meant[w].conn = item[w].conn
          \/ item[w].conn \in left \cup kicked
          \/ meant[w].late
          \/ meant[w].conn \in kicked

(* A number means the client it stood for.  A session that outlives its        *)
(* connection was entered by a login that was still running when the           *)
(* connection was cleaned up, or its socket was closed by a ban that hit the   *)
(* wrong connection; and a message, or the kick of a ban, for a user who was   *)
(* looked up reaches another client only if that user's connection was cleaned *)
(* up or closed before.  An order is carried out in the name of another client *)
(* only if its own client was cleaned up or closed before the worker got to it, *)
(* or such an outliving session was found.  In every other case roster, sockets *)
(* and fd numbers agree, whatever numbers are reused.                          *)
NumbersMeanClients == SessionFollowsSocket /\ TargetFollowsSession /\ SenderIsMeant

Unseen(c) == unread[c] # <<>> \/ (c \in fin /\ Open(c))

(* Edge triggering loses nothing: a client that hangs up is cleaned up, and no *)
(* request stays in a socket, although epoll reports once what may be several   *)
(* events and a worker may close the socket at the same time.                   *)
EventsAreSeen == \A c \in Conns : Unseen(c) ~> ~Unseen(c)

----------------------------------------------------------------------------
(* What the documentation says, and the code does not keep.                   *)

\* README.md:38: a user that is banned while it is connected is thrown out.
BannedIsKicked ==
    \A f \in Fds, u \in banned :
       /\ sessions[f].user = u
       /\ sock[f] = sessions[f].conn
       => \E w \in Workers : item[w].op \in {"ban", "unban"} /\ item[w].user = u
=============================================================================
