---------------------- MODULE ConnectionManager_proofs ----------------------
(* Proofs about ConnectionManager: what an fd number means, for any number of *)
(* workers, fd numbers, users, connections and requests.                       *)
EXTENDS ConnectionManager, SequenceTheorems, TLAPS

Gone == left \cup kicked

\* A work item carries the connection its number stood for when it was pushed.
FromClient(i) == sock[i.fd] = i.conn \/ i.conn \in Gone

\* What a worker holds between two steps.
Control ==
    \A w \in Workers :
       /\ pc[w] # "idle" => item[w] \in Item
       /\ pc[w] \in {"send", "dropSession", "act"} => meant[w] \in Session

Arrived ==
    /\ \A i \in 1 .. Len(queue) : FromClient(queue[i])
    /\ \A w \in Workers : pc[w] # "idle" => FromClient(item[w])

\* While the epoll thread is between removeSession and close.
Closing ==
    \A f \in closing :
       /\ f \notin ready
       /\ sock[f] \in {NONE} \cup left
       /\ sessions[f] # NoSession => sessions[f].late \/ sessions[f].conn \in kicked

LateIsGone == \A f \in Fds : sessions[f] # NoSession /\ sessions[f].late => sessions[f].conn \in left

\* The number a worker has looked up, as long as it has not been used.
LookedUp ==
    \A w \in Workers :
       pc[w] \in {"send", "dropSession"} =>
          sock[target[w]] = meant[w].conn \/ meant[w].conn \in Gone

Inv == /\ TypeOK /\ Control /\ Arrived /\ Closing /\ LateIsGone
       /\ SessionFollowsSocket /\ LookedUp /\ SenderIsMeant

LEMMA InitInv == Init => Inv
<1> SUFFICES ASSUME Init PROVE Inv
  OBVIOUS
<1>1. TypeOK
  BY BoundsAssumption DEF Init, TypeOK, Request1, Item, Session
<1>2. Control /\ Arrived /\ Closing
  BY DEF Init, Control, Arrived, Closing
<1>3. LateIsGone /\ SessionFollowsSocket /\ LookedUp /\ SenderIsMeant
  BY DEF Init, LateIsGone, SessionFollowsSocket, LookedUp, SenderIsMeant
<1> QED
  BY <1>1, <1>2, <1>3 DEF Inv

----------------------------------------------------------------------------
(* The clients.  A request or a hang-up changes nothing a number depends on.  *)
LEMMA ClientStep ==
  ASSUME Inv, NEW c \in Conns,
         HangUp(c) \/ \E r \in Requests(owner[c]) : Request(c, r)
  PROVE  Inv'
<1> USE DEF Inv
<1>a. /\ UNCHANGED <<sock, owner, accepted, known, ready, closing, queue, pc, item, target, meant,
                     sessions, banned, left, kicked>>
  BY DEF HangUp, Request, mainVars, workVars, history
<1>1. TypeOK'
  <2>1. CASE HangUp(c)
    BY <1>a, <2>1 DEF HangUp, TypeOK
  <2>2. ASSUME NEW r \in Requests(owner[c]), Request(c, r) PROVE TypeOK'
    <3>1. r \in Request1
      BY DEF Requests, Request1
    <3>2. unread' \in [Conns -> Seq(Request1)]
      BY <2>2, <3>1, AppendProperties DEF Request, TypeOK
    <3> QED
      BY <1>a, <2>2, <3>2, BoundsAssumption DEF Request, TypeOK
  <2> QED
    BY <2>1, <2>2
<1>2. Control' /\ Arrived' /\ Closing'
  BY <1>a DEF Control, Arrived, FromClient, Gone, Closing
<1>3. LateIsGone' /\ SessionFollowsSocket' /\ LookedUp' /\ SenderIsMeant'
  BY <1>a DEF LateIsGone, SessionFollowsSocket, LookedUp, SenderIsMeant, Gone
<1> QED
  BY <1>1, <1>2, <1>3

----------------------------------------------------------------------------
(* The epoll thread *)

(* A new client gets a number: whatever still names the number is of a         *)
(* connection that is gone.                                                    *)
LEMMA AcceptStep ==
  ASSUME Inv, NEW f \in Fds, Accept(f)
  PROVE  Inv'
<1> USE DEF Inv
<1>a. /\ closing = {} /\ sock[f] = NONE /\ accepted + 1 \in Conns
      /\ sock' = [sock EXCEPT ![f] = accepted + 1]
      /\ UNCHANGED <<unread, fin, edge, requests, ready, closing, queue, pc, item, target, meant,
                     sessions, banned, left, kicked>>
  BY BoundsAssumption DEF Accept, workVars, history, TypeOK, Conns
<1>b. \A g \in Fds, c \in Conns : sock[g] = c => sock'[g] = c
  BY <1>a DEF TypeOK, Conns, NONE
<1>1. TypeOK'
  <2>1. accepted' \in 0 .. MaxConns /\ sock' \in [Fds -> Conns \cup {NONE}]
    BY <1>a, BoundsAssumption DEF Accept, TypeOK
  <2>2. owner' \in [Conns -> Users \cup {"none"}]
    BY <1>a DEF Accept, TypeOK
  <2>3. known' \subseteq Fds /\ ready' \subseteq known' /\ \A g \in Fds : sock'[g] # NONE => g \in known'
    BY <1>a DEF Accept, TypeOK
  <2> QED
    BY <1>a, <2>1, <2>2, <2>3 DEF TypeOK
<1>2. Control' /\ Closing'
  BY <1>a DEF Control, Closing
<1>3. Arrived'
  <2>1. ASSUME NEW i \in Item, FromClient(i) PROVE FromClient(i)'
    BY <1>a, <1>b, <2>1 DEF FromClient, Gone, Item
  <2>2. \A i \in 1 .. Len(queue) : queue[i] \in Item
    BY ElementOfSeq DEF TypeOK
  <2> QED
    BY <1>a, <2>1, <2>2 DEF Arrived, Control
<1>4. LateIsGone' /\ SenderIsMeant'
  BY <1>a DEF LateIsGone, SenderIsMeant
<1>5. SessionFollowsSocket'
  BY <1>a, <1>b DEF SessionFollowsSocket, TypeOK, Session
<1>6. LookedUp'
  BY <1>a, <1>b DEF LookedUp, Gone, Control, TypeOK, Session
<1> QED
  BY <1>1, <1>2, <1>3, <1>4, <1>5, <1>6

LEMMA EpollWaitStep ==
  ASSUME Inv, EpollWait
  PROVE  Inv'
<1> USE DEF Inv
<1>a. /\ closing = {} /\ ready' = {f \in Fds : sock[f] \in edge} /\ edge' = {}
      /\ UNCHANGED <<sock, owner, unread, fin, accepted, requests, known, closing, queue, pc, item,
                     target, meant, sessions, banned, left, kicked>>
  BY DEF EpollWait, workVars, history
<1>1. TypeOK'
  BY <1>a DEF TypeOK, Conns, NONE
<1>2. Control' /\ Arrived' /\ Closing'
  BY <1>a DEF Control, Arrived, FromClient, Gone, Closing
<1>3. LateIsGone' /\ SessionFollowsSocket' /\ LookedUp' /\ SenderIsMeant'
  BY <1>a DEF LateIsGone, SessionFollowsSocket, LookedUp, SenderIsMeant, Gone
<1> QED
  BY <1>1, <1>2, <1>3

(* What is pushed names the connection it was read from.                       *)
LEMMA OnReadableStep ==
  ASSUME Inv, NEW f \in Fds, OnReadable(f)
  PROVE  Inv'
<1> USE DEF Inv
<1> DEFINE c == sock[f]
           items == [i \in 1 .. Len(unread[c]) |->
                       [fd |-> f, conn |-> c, op |-> unread[c][i].op, user |-> unread[c][i].user]]
<1>a. /\ closing = {} /\ ready' = ready \ {f} /\ c \in Conns
      /\ unread' = [unread EXCEPT ![c] = <<>>]
      /\ queue' = queue \o items
      /\ UNCHANGED <<sock, owner, fin, edge, accepted, requests, known, closing, pc, item, target,
                     meant, sessions, banned, left, kicked>>
  BY DEF OnReadable, Dead, history, TypeOK
<1>b. unread[c] \in Seq(Request1) /\ Len(unread[c]) \in Nat
  BY <1>a, LenProperties DEF TypeOK
<1>c. /\ items \in Seq(Item) /\ Len(items) = Len(unread[c])
      /\ \A i \in 1 .. Len(items) : items[i].fd = f /\ items[i].conn = c
  <2>1. \A i \in 1 .. Len(unread[c]) : items[i] \in Item
    <3> SUFFICES ASSUME NEW i \in 1 .. Len(unread[c]) PROVE items[i] \in Item
      OBVIOUS
    <3>1. unread[c][i] \in Request1
      BY <1>b, ElementOfSeq
    <3> QED
      BY <1>a, <3>1 DEF Request1, Item
  <2>2. items \in Seq(Item)
    <3>1. items \in [1 .. Len(unread[c]) -> Item]
      BY <2>1
    <3> HIDE DEF items
    <3> QED
      BY <1>b, <3>1, SeqDef
  <2> QED
    BY <1>b, <2>2
<1>d. /\ queue' \in Seq(Item) /\ Len(queue') = Len(queue) + Len(items)
      /\ \A i \in 1 .. Len(queue') :
            queue'[i] = IF i <= Len(queue) THEN queue[i] ELSE items[i - Len(queue)]
      /\ Len(queue) \in Nat
  <2> HIDE DEF items
  <2>1. queue \in Seq(Item) /\ items \in Seq(Item) /\ queue' = queue \o items
    BY <1>a, <1>c DEF TypeOK
  <2>2. Len(queue) \in Nat /\ Len(items) \in Nat
    BY <2>1, LenProperties
  <2>3. /\ queue \o items \in Seq(Item)
        /\ Len(queue \o items) = Len(queue) + Len(items)
        /\ \A i \in 1 .. Len(queue) + Len(items) :
              (queue \o items)[i] = IF i <= Len(queue) THEN queue[i] ELSE items[i - Len(queue)]
    BY <2>1, ConcatProperties, Zenon
  <2> QED
    BY <2>1, <2>2, <2>3
<1>1. TypeOK'
  <2>1. unread' \in [Conns -> Seq(Request1)]
    BY <1>a, EmptySeq DEF TypeOK
  <2> QED
    BY <1>a, <1>d, <2>1 DEF TypeOK
<1>2. Control' /\ Closing'
  BY <1>a DEF Control, Closing
<1>3. Arrived'
  <2>1. ASSUME NEW i \in 1 .. Len(queue') PROVE FromClient(queue[i])'
    <3>1. CASE i <= Len(queue)
      BY <1>a, <1>d, <3>1 DEF Arrived, FromClient, Gone
    <3>2. CASE i > Len(queue)
      <4> HIDE DEF items
      <4>1. i - Len(queue) \in 1 .. Len(items) /\ queue'[i] = items[i - Len(queue)]
        BY <1>b, <1>c, <1>d, <3>2
      <4>2. queue'[i].fd = f /\ queue'[i].conn = sock[f]
        BY <1>c, <4>1
      <4> QED
        BY <1>a, <4>2 DEF FromClient
    <3> QED
      BY <1>d, <3>1, <3>2
  <2>2. \A w \in Workers : (pc[w] # "idle" => FromClient(item[w]))'
    BY <1>a DEF Arrived, FromClient, Gone
  <2> QED
    BY <2>1, <2>2 DEF Arrived
<1>4. LateIsGone' /\ SessionFollowsSocket' /\ LookedUp' /\ SenderIsMeant'
  BY <1>a DEF LateIsGone, SessionFollowsSocket, LookedUp, SenderIsMeant, Gone
<1> QED
  BY <1>1, <1>2, <1>3, <1>4

(* The session goes first, so nobody finds a number that is about to close.    *)
LEMMA DisconnectStep ==
  ASSUME Inv, NEW f \in Fds, Disconnect(f)
  PROVE  Inv'
<1> USE DEF Inv
<1>a. /\ ready' = ready \ {f} /\ closing' = {f}
      /\ sessions' = [sessions EXCEPT ![f] = NoSession]
      /\ left' = left \cup ({sock[f]} \ {NONE})
      /\ UNCHANGED <<sock, owner, unread, fin, edge, accepted, requests, known, queue, pc, item,
                     target, meant, banned, kicked>>
  BY DEF Disconnect, kernelVars, workVars
<1>1. TypeOK'
  BY <1>a DEF TypeOK
<1>2. Control'
  BY <1>a DEF Control
<1>3. Arrived'
  BY <1>a DEF Arrived, FromClient, Gone
<1>4. Closing'
  BY <1>a DEF Closing, TypeOK
<1>5. LateIsGone'
  BY <1>a DEF LateIsGone, TypeOK
<1>6. SessionFollowsSocket'
  BY <1>a DEF SessionFollowsSocket, TypeOK
<1>7. LookedUp' /\ SenderIsMeant'
  BY <1>a DEF LookedUp, SenderIsMeant, Gone
<1> QED
  BY <1>1, <1>2, <1>3, <1>4, <1>5, <1>6, <1>7

(* The number is free.  What still names the connection was dropped with its   *)
(* session in the first half of disconnectClient.                              *)
LEMMA CloseStep ==
  ASSUME Inv, NEW f \in Fds, Close(f)
  PROVE  Inv'
<1> USE DEF Inv
<1>a. /\ f \in closing /\ closing' = {} /\ known' = known \ {f}
      /\ sock' = [sock EXCEPT ![f] = NONE]
      /\ unread' = [c \in Conns |-> IF c = sock[f] THEN <<>> ELSE unread[c]]
      /\ edge' = edge \ {sock[f]}
      /\ UNCHANGED <<owner, fin, accepted, requests, ready, queue, pc, item, target, meant,
                     sessions, banned, left, kicked>>
  BY DEF Close, Forget, workVars, history
<1>b. \A g \in Fds : sock'[g] = IF g = f THEN NONE ELSE sock[g]
  BY <1>a DEF TypeOK
<1>c. sock[f] \in {NONE} \cup left /\ f \notin ready
  BY <1>a DEF Closing
<1>1. TypeOK'
  <2>1. unread' \in [Conns -> Seq(Request1)]
    BY <1>a, EmptySeq DEF TypeOK
  <2> QED
    BY <1>a, <1>b, <1>c, <2>1 DEF TypeOK
<1>2. Control' /\ Closing'
  BY <1>a DEF Control, Closing
<1>3. Arrived'
  <2>1. ASSUME NEW i \in Item, FromClient(i) PROVE FromClient(i)'
    BY <1>a, <1>b, <1>c, <2>1 DEF FromClient, Gone, Item, Conns, NONE
  <2>2. \A i \in 1 .. Len(queue) : queue[i] \in Item
    BY ElementOfSeq DEF TypeOK
  <2> QED
    BY <1>a, <2>1, <2>2 DEF Arrived, Control
<1>4. LateIsGone' /\ SenderIsMeant'
  BY <1>a DEF LateIsGone, SenderIsMeant
<1>5. SessionFollowsSocket'
  BY <1>a, <1>b DEF SessionFollowsSocket, Closing
<1>6. LookedUp'
  BY <1>a, <1>b, <1>c DEF LookedUp, Gone, Control, TypeOK, Session, Conns, NONE
<1> QED
  BY <1>1, <1>2, <1>3, <1>4, <1>5, <1>6

----------------------------------------------------------------------------
(* The workers *)

(* Steps that touch neither sockets nor roster and take no new item.           *)
LEMMA QuietStep ==
  ASSUME Inv, NEW w \in Workers,
         CheckLogin(w) \/ CheckBan(w) \/ SetBan(w) \/ Send(w) \/ Act(w)
  PROVE  Inv'
<1> USE DEF Inv
<1>a. UNCHANGED <<sock, owner, unread, fin, edge, accepted, requests, known, ready, closing, queue,
                  target, sessions, left, kicked>>
  BY DEF CheckLogin, CheckBan, SetBan, Send, Act, kernelVars, mainVars, history
<1>b. /\ pc[w] # "idle"
      /\ \/ /\ pc' = [pc EXCEPT ![w] = "idle"]
            /\ item' = [item EXCEPT ![w] = NoItem]
            /\ meant' = [meant EXCEPT ![w] = NoSession]
         \/ /\ pc[w] = "send" /\ pc' = [pc EXCEPT ![w] = "dropSession"]
            /\ UNCHANGED <<item, meant>>
         \/ \E l \in {"addSession", "setBan", "lookup"} :
               pc' = [pc EXCEPT ![w] = l] /\ UNCHANGED <<item, meant>>
  BY DEF CheckLogin, CheckBan, SetBan, Send, Act, Done, Goto
<1>c. banned' \subseteq Users
  <2>1. CASE SetBan(w)
    <3>1. item[w] \in Item
      BY <1>b DEF Control
    <3> QED
      BY <2>1, <3>1 DEF SetBan, TypeOK, Item
  <2>2. CASE ~SetBan(w)
    BY <2>2 DEF CheckLogin, CheckBan, Send, Act, TypeOK
  <2> QED
    BY <2>1, <2>2
<1>1. TypeOK'
  BY <1>a, <1>b, <1>c DEF TypeOK
<1>2. Control'
  BY <1>b DEF Control, TypeOK
<1>3. Arrived'
  BY <1>a, <1>b DEF Arrived, FromClient, Gone, TypeOK
<1>4. Closing' /\ LateIsGone' /\ SessionFollowsSocket'
  BY <1>a DEF Closing, LateIsGone, SessionFollowsSocket
<1>5. LookedUp' /\ SenderIsMeant'
  <2>1. \A v \in Workers :
           /\ pc'[v] \in {"send", "dropSession"} =>
                 pc[v] \in {"send", "dropSession"} /\ meant'[v] = meant[v]
           /\ pc'[v] = "act" =>
                 pc[v] = "act" /\ meant'[v] = meant[v] /\ item'[v] = item[v]
    BY <1>b DEF TypeOK
  <2> QED
    BY <1>a, <2>1 DEF LookedUp, SenderIsMeant, Gone
<1> QED
  BY <1>1, <1>2, <1>3, <1>4, <1>5

LEMMA TakeStep ==
  ASSUME Inv, NEW w \in Workers, Take(w)
  PROVE  Inv'
<1> USE DEF Inv
<1>a. /\ pc[w] = "idle" /\ item' = [item EXCEPT ![w] = Head(queue)] /\ queue' = Tail(queue)
      /\ pc' = [pc EXCEPT ![w] = Entry[Head(queue).op]]
      /\ UNCHANGED <<sock, owner, unread, fin, edge, accepted, requests, known, ready, closing,
                     target, meant, sessions, banned, left, kicked>>
  BY DEF Take, Goto, kernelVars, mainVars, history
<1>b. /\ Head(queue) \in Item /\ Head(queue) = queue[1] /\ queue' \in Seq(Item)
      /\ Len(queue) \in Nat \ {0} /\ Len(queue') = Len(queue) - 1
      /\ \A i \in 1 .. Len(queue') : queue'[i] = queue[i + 1]
  <2>1. queue \in Seq(Item) /\ queue # <<>>
    BY DEF Take, TypeOK
  <2> QED
    BY <1>a, <2>1, EmptySeq, HeadTailProperties
<1>c. Entry[Head(queue).op] \in {"check", "checkBan", "lookup", "identify"}
  <2>1. Head(queue).op \in {"login", "ban", "unban", "chat", "order"}
    BY <1>b, OpsAssumption DEF Item
  <2> QED
    BY <2>1 DEF Entry
<1>1. TypeOK'
  BY <1>a, <1>b, <1>c DEF TypeOK
<1>2. Control'
  BY <1>a, <1>b, <1>c DEF Control, TypeOK
<1>3. Arrived'
  <2>1. FromClient(Head(queue)) /\ \A i \in 1 .. Len(queue') : FromClient(queue'[i])
    BY <1>b DEF Arrived
  <2>2. \A x : FromClient(x)' <=> FromClient(x)
    BY <1>a DEF FromClient, Gone
  <2> QED
    BY <1>a, <2>1, <2>2 DEF Arrived, TypeOK
<1>4. Closing' /\ LateIsGone' /\ SessionFollowsSocket'
  BY <1>a DEF Closing, LateIsGone, SessionFollowsSocket
<1>5. LookedUp' /\ SenderIsMeant'
  BY <1>a, <1>c DEF LookedUp, SenderIsMeant, Gone, TypeOK
<1> QED
  BY <1>1, <1>2, <1>3, <1>4, <1>5

(* The session is entered for the connection the log-in came from: that one is *)
(* behind the number, or the session is late or its socket was closed by a ban. *)
LEMMA AddSessionStep ==
  ASSUME Inv, NEW w \in Workers, AddSession(w)
  PROVE  Inv'
<1> USE DEF Inv
<1> DEFINE f == item[w].fd
           c == item[w].conn
           s == [user |-> item[w].user, conn |-> c, late |-> c \in left]
<1>a. /\ pc[w] = "addSession" /\ sessions' = [sessions EXCEPT ![f] = s]
      /\ pc' = [pc EXCEPT ![w] = "idle"]
      /\ item' = [item EXCEPT ![w] = NoItem]
      /\ meant' = [meant EXCEPT ![w] = NoSession]
      /\ UNCHANGED <<sock, owner, unread, fin, edge, accepted, requests, known, ready, closing,
                     queue, target, banned, left, kicked>>
  BY DEF AddSession, Done, Goto, kernelVars, mainVars, history
<1>b. /\ item[w] \in Item /\ f \in Fds /\ c \in Conns
      /\ s \in Session /\ s.conn = c /\ (s.late <=> c \in left)
      /\ sock[f] = c \/ c \in left \/ c \in kicked
  <2>1. item[w] \in Item /\ FromClient(item[w])
    BY <1>a DEF Control, Arrived
  <2>2. f \in Fds /\ c \in Conns /\ item[w].user \in Users
    BY <2>1 DEF Item
  <2>3. (c \in left) \in BOOLEAN
    OBVIOUS
  <2>4. s \in Session /\ s.conn = c /\ (s.late <=> c \in left)
    BY <2>2, <2>3 DEF Session
  <2> QED
    BY <2>1, <2>2, <2>4 DEF FromClient, Gone
<1>c. \A g \in Fds : sessions'[g] = IF g = f THEN s ELSE sessions[g]
  BY <1>a, <1>b DEF TypeOK
<1> HIDE DEF f, c, s
<1>1. TypeOK'
  BY <1>a, <1>b DEF TypeOK
<1>2. Control'
  BY <1>a DEF Control, TypeOK
<1>3. Arrived'
  BY <1>a DEF Arrived, FromClient, Gone, TypeOK
<1>4. Closing'
  BY <1>a, <1>b, <1>c DEF Closing, TypeOK, Conns, NONE
<1>5. LateIsGone'
  BY <1>a, <1>b, <1>c DEF LateIsGone
<1>6. SessionFollowsSocket'
  BY <1>a, <1>b, <1>c DEF SessionFollowsSocket
<1>7. LookedUp' /\ SenderIsMeant'
  BY <1>a DEF LookedUp, SenderIsMeant, Gone, TypeOK
<1> QED
  BY <1>1, <1>2, <1>3, <1>4, <1>5, <1>6, <1>7

(* A session that was found stands for the client behind its number, or for    *)
(* one that is gone.                                                           *)
LEMMA LookUpStep ==
  ASSUME Inv, NEW w \in Workers, LookUp(w)
  PROVE  Inv'
<1> USE DEF Inv
<1>a. /\ pc[w] = "lookup"
      /\ UNCHANGED <<sock, owner, unread, fin, edge, accepted, requests, known, ready, closing,
                     queue, sessions, banned, left, kicked>>
  BY DEF LookUp, kernelVars, mainVars, history
<1>b. \/ /\ pc' = [pc EXCEPT ![w] = "idle"]
         /\ item' = [item EXCEPT ![w] = NoItem]
         /\ meant' = [meant EXCEPT ![w] = NoSession]
         /\ UNCHANGED target
      \/ \E f \in Fds :
            /\ sessions[f].user = item[w].user
            /\ pc' = [pc EXCEPT ![w] = "send"]
            /\ target' = [target EXCEPT ![w] = f]
            /\ meant' = [meant EXCEPT ![w] = sessions[f]]
            /\ UNCHANGED item
  BY DEF LookUp, Done, Goto
<1>c. \A f \in Fds : sessions[f].user = item[w].user =>
         /\ sessions[f] \in Session
         /\ sock[f] = sessions[f].conn \/ sessions[f].conn \in Gone
  <2> SUFFICES ASSUME NEW f \in Fds, sessions[f].user = item[w].user
               PROVE  /\ sessions[f] \in Session
                      /\ sock[f] = sessions[f].conn \/ sessions[f].conn \in Gone
    OBVIOUS
  <2>1. item[w].user \in Users
    BY <1>a DEF Control, Item
  <2>2. sessions[f] # NoSession
    BY <2>1, UsersAssumption DEF NoSession
  <2>3. sessions[f] \in Session
    BY <2>2 DEF TypeOK
  <2> QED
    BY <2>2, <2>3 DEF SessionFollowsSocket, LateIsGone, Gone
<1>1. TypeOK'
  <2>1. /\ pc' \in [Workers -> {"idle", "check", "addSession", "checkBan", "setBan",
                              "lookup", "send", "dropSession", "kick", "identify", "act"}]
        /\ item' \in [Workers -> Item \cup {NoItem}]
        /\ target' \in [Workers -> Fds]
    <3>1. UNCHANGED target \/ \E f \in Fds : target' = [target EXCEPT ![w] = f]
      BY <1>b
    <3>2. target' \in [Workers -> Fds]
      BY <3>1 DEF TypeOK
    <3>3. /\ \E l \in {"idle", "send"} : pc' = [pc EXCEPT ![w] = l]
          /\ item' = item \/ item' = [item EXCEPT ![w] = NoItem]
      BY <1>b
    <3> QED
      BY <3>2, <3>3 DEF TypeOK
  <2>2. meant' \in [Workers -> Session \cup {NoSession}]
    <3>1. CASE meant' = [meant EXCEPT ![w] = NoSession]
      BY <3>1 DEF TypeOK
    <3>2. ASSUME NEW f \in Fds, sessions[f] \in Session, meant' = [meant EXCEPT ![w] = sessions[f]]
          PROVE  meant' \in [Workers -> Session \cup {NoSession}]
      BY <3>2 DEF TypeOK
    <3> QED
      BY <1>b, <1>c, <3>1, <3>2
  <2> QED
    BY <1>a, <2>1, <2>2 DEF TypeOK
<1>2. Control'
  BY <1>a, <1>b, <1>c DEF Control, TypeOK
<1>3. Arrived'
  BY <1>a, <1>b DEF Arrived, FromClient, Gone, TypeOK
<1>4. Closing' /\ LateIsGone' /\ SessionFollowsSocket'
  BY <1>a DEF Closing, LateIsGone, SessionFollowsSocket
<1>5. LookedUp'
  BY <1>a, <1>b, <1>c DEF LookedUp, Gone, TypeOK
<1>6. SenderIsMeant'
  BY <1>a, <1>b DEF SenderIsMeant, TypeOK
<1> QED
  BY <1>1, <1>2, <1>3, <1>4, <1>5, <1>6

(* The session under the number of an order is that of its sender, or its      *)
(* sender is gone, or the session is one that outlived its own connection.     *)
LEMMA IdentifyStep ==
  ASSUME Inv, NEW w \in Workers, Identify(w)
  PROVE  Inv'
<1> USE DEF Inv
<1> DEFINE s == sessions[item[w].fd]
<1>a. /\ pc[w] = "identify"
      /\ \/ /\ pc' = [pc EXCEPT ![w] = "idle"]
            /\ item' = [item EXCEPT ![w] = NoItem]
            /\ meant' = [meant EXCEPT ![w] = NoSession]
         \/ /\ s # NoSession
            /\ pc' = [pc EXCEPT ![w] = "act"]
            /\ meant' = [meant EXCEPT ![w] = s]
            /\ UNCHANGED item
      /\ UNCHANGED <<sock, owner, unread, fin, edge, accepted, requests, known, ready, closing,
                     queue, target, sessions, banned, left, kicked>>
  BY DEF Identify, Done, Goto, kernelVars, mainVars, history
<1>b. item[w] \in Item /\ item[w].fd \in Fds /\ FromClient(item[w])
  BY <1>a DEF Control, Arrived, Item
<1>c. s # NoSession =>
         /\ s \in Session
         /\ sock[item[w].fd] = s.conn \/ s.late \/ s.conn \in kicked
  BY <1>b DEF SessionFollowsSocket, TypeOK
<1> HIDE DEF s
<1>1. TypeOK'
  BY <1>a, <1>c DEF TypeOK
<1>2. Control'
  BY <1>a, <1>c DEF Control, TypeOK
<1>3. Arrived'
  BY <1>a DEF Arrived, FromClient, Gone, TypeOK
<1>4. Closing' /\ LateIsGone' /\ SessionFollowsSocket'
  BY <1>a DEF Closing, LateIsGone, SessionFollowsSocket
<1>5. LookedUp'
  BY <1>a DEF LookedUp, Gone, TypeOK
<1>6. SenderIsMeant'
  BY <1>a, <1>b, <1>c DEF SenderIsMeant, FromClient, Gone, TypeOK
<1> QED
  BY <1>1, <1>2, <1>3, <1>4, <1>5, <1>6

LEMMA DropSessionStep ==
  ASSUME Inv, NEW w \in Workers, DropSession(w)
  PROVE  Inv'
<1> USE DEF Inv
<1>a. /\ pc[w] = "dropSession" /\ pc' = [pc EXCEPT ![w] = "kick"]
      /\ sessions' = [sessions EXCEPT ![target[w]] = NoSession]
      /\ left' = left \cup ({sock[target[w]]} \ {NONE})
      /\ UNCHANGED <<sock, owner, unread, fin, edge, accepted, requests, known, ready, closing,
                     queue, item, target, meant, banned, kicked>>
  BY DEF DropSession, Goto, kernelVars, mainVars
<1>b. \A g \in Fds : sessions'[g] = IF g = target[w] THEN NoSession ELSE sessions[g]
  BY <1>a DEF TypeOK
<1>1. TypeOK'
  BY <1>a DEF TypeOK
<1>2. Control'
  BY <1>a DEF Control, TypeOK
<1>3. Arrived'
  BY <1>a DEF Arrived, FromClient, Gone, TypeOK
<1>4. Closing'
  BY <1>a, <1>b DEF Closing, TypeOK
<1>5. LateIsGone' /\ SessionFollowsSocket'
  BY <1>a, <1>b DEF LateIsGone, SessionFollowsSocket
<1>6. LookedUp' /\ SenderIsMeant'
  BY <1>a DEF LookedUp, SenderIsMeant, Gone, TypeOK
<1> QED
  BY <1>1, <1>2, <1>3, <1>4, <1>5, <1>6

LEMMA KickStep ==
  ASSUME Inv, NEW w \in Workers, Kick(w)
  PROVE  Inv'
<1> USE DEF Inv
<1> DEFINE f == target[w]
<1>a. /\ pc[w] = "kick" /\ pc' = [pc EXCEPT ![w] = "idle"]
      /\ item' = [item EXCEPT ![w] = NoItem]
      /\ meant' = [meant EXCEPT ![w] = NoSession]
      /\ sock' = [sock EXCEPT ![f] = NONE]
      /\ unread' = [c \in Conns |-> IF c = sock[f] THEN <<>> ELSE unread[c]]
      /\ edge' = edge \ {sock[f]}
      /\ kicked' = kicked \cup ({sock[f]} \ {NONE})
      /\ UNCHANGED <<owner, fin, accepted, requests, known, ready, closing, queue, target,
                     sessions, banned, left>>
  BY DEF Kick, Forget, Done, Goto, mainVars
<1>b. f \in Fds /\ \A g \in Fds : sock'[g] = IF g = f THEN NONE ELSE sock[g]
  BY <1>a DEF TypeOK
<1> HIDE DEF f
<1>1. TypeOK'
  <2>1. unread' \in [Conns -> Seq(Request1)]
    BY <1>a, EmptySeq DEF TypeOK
  <2> QED
    BY <1>a, <1>b, <2>1 DEF TypeOK
<1>2. Control'
  BY <1>a DEF Control, TypeOK
<1>3. Arrived'
  <2>1. ASSUME NEW i \in Item, FromClient(i) PROVE FromClient(i)'
    BY <1>a, <1>b, <2>1 DEF FromClient, Gone, Item, Conns, NONE
  <2>2. \A i \in 1 .. Len(queue) : queue[i] \in Item
    BY ElementOfSeq DEF TypeOK
  <2> QED
    BY <1>a, <2>1, <2>2 DEF Arrived, Control, TypeOK
<1>4. Closing'
  BY <1>a, <1>b DEF Closing, TypeOK
<1>5. LateIsGone'
  BY <1>a DEF LateIsGone
<1>6. SessionFollowsSocket'
  BY <1>a, <1>b DEF SessionFollowsSocket, TypeOK, Session, Conns, NONE
<1>7. LookedUp'
  BY <1>a, <1>b DEF LookedUp, Gone, Control, TypeOK, Session, Conns, NONE
<1>8. SenderIsMeant'
  BY <1>a DEF SenderIsMeant, TypeOK
<1> QED
  BY <1>1, <1>2, <1>3, <1>4, <1>5, <1>6, <1>7, <1>8

----------------------------------------------------------------------------
LEMMA StepInv == Inv /\ [Next]_vars => Inv'
<1> SUFFICES ASSUME Inv, [Next]_vars PROVE Inv'
  OBVIOUS
<1>1. ASSUME NEW c \in Conns, HangUp(c) \/ \E r \in Requests(owner[c]) : Request(c, r)
      PROVE  Inv'
  BY <1>1, ClientStep
<1>2. ASSUME NEW f \in Fds, Accept(f) PROVE Inv'
  BY <1>2, AcceptStep
<1>3. CASE Main
  BY <1>3, EpollWaitStep, OnReadableStep, DisconnectStep, CloseStep DEF Main
<1>4. ASSUME NEW w \in Workers, Work(w) PROVE Inv'
  BY <1>4, TakeStep, QuietStep, AddSessionStep, LookUpStep, DropSessionStep, KickStep, IdentifyStep
     DEF Work
<1>5. CASE UNCHANGED vars
  <2> USE DEF Inv, vars
  <2>1. TypeOK'
    BY <1>5 DEF TypeOK
  <2>2. Control' /\ Arrived' /\ Closing'
    BY <1>5 DEF Control, Arrived, FromClient, Gone, Closing
  <2>3. LateIsGone' /\ SessionFollowsSocket' /\ LookedUp' /\ SenderIsMeant'
    BY <1>5 DEF LateIsGone, SessionFollowsSocket, LookedUp, SenderIsMeant, Gone
  <2> QED
    BY <2>1, <2>2, <2>3
<1> QED
  BY <1>1, <1>2, <1>3, <1>4, <1>5 DEF Next

LEMMA SpecInv == Spec => []Inv
<1> QED
  BY InitInv, StepInv, PTL DEF Spec

(* The variables keep their types, and every open socket has an entry in       *)
(* connections_, so that epoll reports no fd the epoll thread does not know.   *)
THEOREM ConnectionsTyped == Spec => []TypeOK
<1>1. Inv => TypeOK
  BY DEF Inv
<1> QED
  BY <1>1, SpecInv, PTL

(* Sessions, looked-up numbers and the names orders are carried out in mean    *)
(* the client they stood for, but for the causes NumbersMeanClients lists,     *)
(* however many workers, numbers and clients there are.                        *)
THEOREM NumbersStayTrue == Spec => []NumbersMeanClients
<1>1. Inv => NumbersMeanClients
  BY DEF Inv, NumbersMeanClients, TargetFollowsSession, LookedUp, Gone
<1> QED
  BY <1>1, SpecInv, PTL
=============================================================================
