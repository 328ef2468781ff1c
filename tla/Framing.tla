------------------------------- MODULE Framing -------------------------------
(* The way of a request from a client's sendPacket (clients/NetClient.cpp) to *)
(* the work queue: TCP cuts the stream anywhere, the epoll thread collects    *)
(* the pieces in a receive buffer per fd number and cuts frames out of it     *)
(* (onReadable and extractAndRoutePackets of src/net/ConnectionManager.cpp).  *)
(* A unit of data stands for a number of bytes: HeaderSize units for the four *)
(* of the length, MaxPayload for the 1 MiB of MAX_PAYLOAD_SIZE.               *)
EXTENDS Integers, Sequences, FiniteSets

CONSTANTS Fds,         \* fd numbers of client sockets
          Lengths,     \* what clients write into a header, as the code reads it
          Ops,         \* what a frame asks for
          HeaderSize,  \* sizeof(int32_t)
          MaxPayload,  \* MAX_PAYLOAD_SIZE
          MaxConns,    \* bound: connections accepted
          MaxFrames,   \* bound: frames a connection sends
          MaxKicks     \* bound: connections a ban closes

ASSUME SizeAssumption == HeaderSize \in Nat \ {0} /\ MaxPayload \in Nat /\ HeaderSize <= MaxPayload
ASSUME LengthAssumption == Lengths \subseteq Int
ASSUME FdsAssumption == "none" \notin Fds
ASSUME BoundsAssumption == MaxConns \in Nat /\ MaxFrames \in Nat

Conns  == 1 .. MaxConns
FrameNos == 1 .. MaxFrames
NONE   == 0
Limit  == 2 * MaxPayload

Frame == [len : Lengths, op : Ops]
Unit  == [conn : Conns, frame : FrameNos, pos : 1 .. HeaderSize + MaxPayload]

VARIABLES sock,      \* the connection each fd number stands for
          sent,      \* the frames of each client
          flight,    \* units on their way to the server
          unread,    \* units in the socket
          fin,       \* connections whose client has hung up
          edge,      \* connections with an event epoll has not reported yet
          accepted,  \* connections accepted
          known,     \* the keys of connections_
          buf,       \* recvBuffer
          ready,     \* fds reported by epoll_wait and not yet handled
          parsing,   \* the fd extractAndRoutePackets is at, and its connection
          queue,     \* the work queue
          delivered, \* history: frames pushed for each connection, 0 is no frame
          kicked,    \* history: connections closed by notifyBan
          inherits,  \* history: connections that found data in their buffer
          flooded,   \* history: connections with more than Limit at the server
          ended      \* history: connections closed by the epoll thread

clientVars == <<sent, flight, fin>>
kernelVars == <<sock, unread, edge, accepted>>
mainVars   == <<known, buf, ready, parsing>>
history    == <<delivered, kicked, inherits, flooded, ended>>
framingVars == <<clientVars, kernelVars, mainVars, queue, history>>

Idle == [fd |-> "none", conn |-> NONE]

FramingInit ==
    /\ sock = [f \in Fds |-> NONE]
    /\ sent = [c \in Conns |-> <<>>]
    /\ flight = [c \in Conns |-> <<>>]
    /\ unread = [c \in Conns |-> <<>>]
    /\ fin = {} /\ edge = {} /\ known = {} /\ ready = {}
    /\ accepted = 0
    /\ buf = [f \in Fds |-> <<>>]
    /\ parsing = Idle
    /\ queue = <<>>
    /\ delivered = [c \in Conns |-> <<>>]
    /\ kicked = {} /\ inherits = {} /\ flooded = {} /\ ended = {}

Open(c) == \E f \in Fds : sock[f] = c

Illegal(len) == len < 0 \/ len > MaxPayload

\* The units of frame k of connection c; behind an illegal length there is no
\* need of any, as nothing behind it is looked at.
BodySize(len) == IF Illegal(len) THEN 0 ELSE len
Units(c, k, len) ==
    [i \in 1 .. HeaderSize + BodySize(len) |-> [conn |-> c, frame |-> k, pos |-> i]]

Body(c, k, len) == SubSeq(Units(c, k, len), HeaderSize + 1, HeaderSize + BodySize(len))

----------------------------------------------------------------------------
(* Clients and TCP *)

\* sendPacket writes the header and then the body.  The server can not tell two
\* frames that were under way together from two that arrived one by one before
\* it looked, so the second is sent when the first is in the server's socket.
Send(c, frame) ==
    /\ c <= accepted /\ c \notin fin
    /\ flight[c] = <<>>
    /\ Len(sent[c]) < MaxFrames
    /\ sent' = [sent EXCEPT ![c] = Append(@, frame)]
    /\ flight' = [flight EXCEPT ![c] = @ \o Units(c, Len(sent[c]) + 1, frame.len)]
    /\ UNCHANGED <<fin, kernelVars, mainVars, queue, history>>

\* Any first part of what is under way arrives.
Arrive(c) == \E n \in 1 .. Len(flight[c]) :
    /\ Open(c) /\ c \notin fin
    /\ unread' = [unread EXCEPT ![c] = @ \o SubSeq(flight[c], 1, n)]
    /\ flight' = [flight EXCEPT ![c] = SubSeq(@, n + 1, Len(@))]
    /\ edge' = edge \cup {c}
    /\ flooded' = IF \E f \in Fds : sock[f] = c /\ Len(buf[f]) + Len(unread'[c]) > Limit
                  THEN flooded \cup {c} ELSE flooded
    /\ UNCHANGED <<sent, fin, sock, accepted, mainVars, queue, delivered, kicked, inherits, ended>>

\* The client's end is closed, perhaps in the middle of a frame.
HungUp(c) ==
    /\ fin' = fin \cup {c}
    /\ flight' = [flight EXCEPT ![c] = <<>>]
    /\ edge' = IF Open(c) THEN edge \cup {c} ELSE edge
    /\ UNCHANGED <<sent, sock, unread, accepted, mainVars, queue, history>>

----------------------------------------------------------------------------
(* The epoll thread *)

\* Mutant: the state of a new client is forgotten.
Accept_NoState(f) ==
    /\ parsing = Idle
    /\ sock[f] = NONE
    /\ accepted < MaxConns
    /\ accepted' = accepted + 1
    /\ sock' = [sock EXCEPT ![f] = accepted + 1]
    /\ UNCHANGED <<clientVars, unread, edge, mainVars, queue, history>>

\* acceptClient; emplace leaves the state of an fd number that has one as it is.
Accept(f) ==
    /\ parsing = Idle
    /\ sock[f] = NONE
    /\ accepted < MaxConns
    /\ accepted' = accepted + 1
    /\ sock' = [sock EXCEPT ![f] = accepted + 1]
    /\ known' = known \cup {f}
    /\ inherits' = IF buf[f] # <<>> THEN inherits \cup {accepted + 1} ELSE inherits
    /\ UNCHANGED <<clientVars, unread, edge, buf, ready, parsing, queue,
                   delivered, kicked, flooded, ended>>

EpollWait ==
    /\ parsing = Idle /\ ready = {}
    /\ \E f \in Fds : sock[f] \in edge
    /\ ready' = {f \in Fds : sock[f] \in edge}
    /\ edge' = {}
    /\ UNCHANGED <<clientVars, sock, unread, accepted, known, buf, parsing, queue, history>>

\* close(f): the kernel forgets the connection and what it had not delivered.
Forget(f) ==
    /\ sock' = [sock EXCEPT ![f] = NONE]
    /\ unread' = [c \in Conns |-> IF c = sock[f] THEN <<>> ELSE unread[c]]
    /\ flight' = [c \in Conns |-> IF c = sock[f] THEN <<>> ELSE flight[c]]
    /\ edge' = edge \ {sock[f]}

\* disconnectClient and the erase that follows it.
Disconnect(f) ==
    /\ Forget(f)
    /\ known' = known \ {f}
    /\ buf' = [buf EXCEPT ![f] = <<>>]
    /\ parsing' = Idle
    /\ ended' = ended \cup ({sock[f]} \ {NONE})
    /\ UNCHANGED <<sent, fin, accepted, queue, delivered, kicked, inherits, flooded>>

\* onReadable ends the connection: no state for the fd, the socket closed under
\* its feet, an end of file behind what it read, or too much in the buffer.
ReadEnds(f) ==
    /\ parsing = Idle /\ f \in ready
    /\ ready' = ready \ {f}
    /\ \/ f \notin known \/ sock[f] = NONE
       \/ sock[f] \in fin
       \/ sock[f] # NONE /\ Len(buf[f]) + Len(unread[sock[f]]) > Limit
    /\ Disconnect(f)

\* onReadable reads until EAGAIN and goes on to extractAndRoutePackets.
Read(f) ==
    LET c == sock[f] IN
    /\ parsing = Idle /\ f \in ready /\ f \in known
    /\ c # NONE /\ c \notin fin
    /\ Len(buf[f]) + Len(unread[c]) <= Limit
    /\ ready' = ready \ {f}
    /\ buf' = [buf EXCEPT ![f] = @ \o unread[c]]
    /\ unread' = [unread EXCEPT ![c] = <<>>]
    /\ parsing' = [fd |-> f, conn |-> c]
    /\ UNCHANGED <<clientVars, sock, edge, accepted, known, queue, history>>

\* What the first bytes of a buffer say as a length: anything, unless they are
\* the header of a frame.
Header(b) ==
    IF \A i \in 1 .. HeaderSize : b[i] = [b[1] EXCEPT !.pos = i]
    THEN {sent[b[1].conn][b[1].frame].len}
    ELSE Lengths

Drop(f, n) == buf' = [buf EXCEPT ![f] = SubSeq(@, n + 1, Len(@))]

At(f) == parsing.fd = f /\ Len(buf[f]) >= HeaderSize

\* The header or the body is not complete yet.
ExtractWaits(f) ==
    /\ parsing.fd = f
    /\ Len(buf[f]) >= HeaderSize =>
          \E len \in Header(buf[f]) : ~Illegal(len) /\ len > 0 /\ Len(buf[f]) < HeaderSize + len
    /\ parsing' = Idle
    /\ UNCHANGED <<clientVars, kernelVars, known, buf, ready, queue, history>>

ExtractEnds(f) ==
    /\ At(f)
    /\ \E len \in Header(buf[f]) : Illegal(len)
    /\ UNCHANGED ready
    /\ Disconnect(f)

ExtractSkips(f) ==
    /\ At(f)
    /\ 0 \in Header(buf[f])
    /\ Drop(f, HeaderSize)
    /\ UNCHANGED <<clientVars, kernelVars, known, ready, parsing, queue, history>>

\* The number of the frame of c that the units are the body of.
FrameOf(c, body) ==
    IF body[1].conn = c /\ body = Body(c, body[1].frame, sent[c][body[1].frame].len)
    THEN body[1].frame ELSE 0

\* Mutant: the erase forgets that the header is part of the frame.
ExtractRoutes_KeepsHeader(f) ==
    /\ At(f)
    /\ \E len \in Header(buf[f]) :
          LET c == parsing.conn
              k == FrameOf(c, SubSeq(buf[f], HeaderSize + 1, HeaderSize + len))
          IN
          /\ ~Illegal(len) /\ len > 0
          /\ Len(buf[f]) >= HeaderSize + len
          /\ queue' = Append(queue, [fd |-> f, conn |-> c, frame |-> k])
          /\ delivered' = [delivered EXCEPT ![c] = Append(@, k)]
          /\ Drop(f, len)
    /\ UNCHANGED <<clientVars, kernelVars, known, ready, parsing, kicked, inherits, flooded, ended>>

\* Mutant: one frame per event.
ExtractRoutes_One(f) ==
    /\ At(f)
    /\ \E len \in Header(buf[f]) :
          LET c == parsing.conn
              k == FrameOf(c, SubSeq(buf[f], HeaderSize + 1, HeaderSize + len))
          IN
          /\ ~Illegal(len) /\ len > 0
          /\ Len(buf[f]) >= HeaderSize + len
          /\ queue' = Append(queue, [fd |-> f, conn |-> c, frame |-> k])
          /\ delivered' = [delivered EXCEPT ![c] = Append(@, k)]
          /\ Drop(f, HeaderSize + len)
    /\ parsing' = Idle
    /\ UNCHANGED <<clientVars, kernelVars, known, ready, kicked, inherits, flooded, ended>>

ExtractRoutes(f) ==
    /\ At(f)
    /\ \E len \in Header(buf[f]) :
          LET c == parsing.conn
              k == FrameOf(c, SubSeq(buf[f], HeaderSize + 1, HeaderSize + len))
          IN
          /\ ~Illegal(len) /\ len > 0
          /\ Len(buf[f]) >= HeaderSize + len
          /\ queue' = Append(queue, [fd |-> f, conn |-> c, frame |-> k])
          /\ delivered' = [delivered EXCEPT ![c] = Append(@, k)]
          /\ Drop(f, HeaderSize + len)
    /\ UNCHANGED <<clientVars, kernelVars, known, ready, parsing, kicked, inherits, flooded, ended>>

\* notifyBan, in a worker, closes the socket; recvBuffer stays.
Kick(f) ==
    /\ Cardinality(kicked) < MaxKicks
    /\ kicked' = kicked \cup ({sock[f]} \ {NONE})
    /\ Forget(f)
    /\ UNCHANGED <<sent, fin, accepted, mainVars, queue, delivered, inherits, flooded, ended>>

Main == \/ EpollWait
        \/ \E f \in Fds : \/ ReadEnds(f) \/ Read(f) \/ ExtractWaits(f) \/ ExtractEnds(f)
                          \/ ExtractSkips(f) \/ ExtractRoutes(f)

----------------------------------------------------------------------------
\* What the length in the header makes of a frame.
Kind(len) == IF Illegal(len) THEN "illegal" ELSE IF len = 0 THEN "empty" ELSE "full"

Excused == fin \cup kicked \cup inherits \cup flooded
           \cup {c \in Conns : \E k \in 1 .. Len(sent[c]) : Illegal(sent[c][k].len)}

(* Framing implements FrameChannel: however TCP cuts the stream, the frames    *)
(* that come out of extractAndRoutePackets are those sendPacket wrote, in their *)
(* order, and the epoll thread ends a connection only after the client has hung *)
(* up, sent an illegal length, had more than two maximal payloads waiting, or   *)
(* was thrown out.  The exception is a client that inherits the receive buffer  *)
(* of one a ban threw out: nothing is promised to it.                           *)
Channel == INSTANCE FrameChannel WITH
              sent      <- [c \in Conns |-> IF c \in inherits THEN <<>>
                                ELSE [k \in 1 .. Len(sent[c]) |-> Kind(sent[c][k].len)]],
              delivered <- [c \in Conns |-> IF c \in inherits THEN <<>> ELSE delivered[c]],
              excused   <- Excused

ChannelSpec == Channel!Spec

\* A frame of c has arrived completely and was not routed.
Waiting(c) ==
    /\ Open(c) /\ c \notin inherits
    /\ \E k \in 1 .. Len(sent[c]) :
          /\ sent[c][k].len # 0 /\ \A j \in 1 .. k : ~Illegal(sent[c][j].len)
          /\ \A i \in 1 .. Len(delivered[c]) : delivered[c][i] # k
          /\ \A i \in 1 .. Len(flight[c]) : flight[c][i].frame # k

(* A frame that has arrived completely is routed although epoll may say so only *)
(* once, with or without its neighbours in the same read, or the connection is  *)
(* closed: no client waits for ever on a frame that sits in the buffer.         *)
FramesArrive ==
    \A c \in Conns : Waiting(c) ~> ~Waiting(c)

(* Types; the epoll thread only works on an fd number it has a state for.       *)
FramingTypeOK ==
    /\ sock \in [Fds -> Conns \cup {NONE}]
    /\ sent \in [Conns -> Seq(Frame)]
    /\ flight \in [Conns -> Seq(Unit)] /\ unread \in [Conns -> Seq(Unit)]
    /\ fin \subseteq Conns /\ edge \subseteq Conns
    /\ accepted \in 0 .. MaxConns
    /\ known \subseteq Fds /\ ready \subseteq Fds
    /\ buf \in [Fds -> Seq(Unit)]
    /\ parsing \in [fd : Fds, conn : Conns] \cup {Idle}
    /\ queue \in Seq([fd : Fds, conn : Conns, frame : {0} \cup FrameNos])
    /\ delivered \in [Conns -> Seq({0} \cup FrameNos)]
    /\ kicked \subseteq Conns /\ inherits \subseteq Conns
    /\ flooded \subseteq Conns /\ ended \subseteq Conns
    /\ \A f \in Fds : f \notin known => buf[f] = <<>> /\ sock[f] = NONE
=============================================================================
