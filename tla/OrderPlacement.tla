--------------------------- MODULE OrderPlacement ---------------------------
(* Placing an order: handlePlaceOrder, PlaceOrderUseCase, createOrder and the *)
(* notice to the store.  The order and its items are written on one pooled    *)
(* connection between START TRANSACTION and COMMIT, whose results the code    *)
(* ignores.  A MySQL session that loses its server loses its transaction too, *)
(* and goes on in autocommit mode when the client library has reconnected.    *)
EXTENDS Integers, FiniteSets

CONSTANTS Workers,      \* worker threads
          Conns,        \* the connections of the pool
          NoConn,       \* a worker that holds none
          MaxItems,     \* bound: items of an order
          MaxRequests,  \* bound: requests handled
          MaxFailures,  \* bound: statements that fail
          MaxThrows     \* bound: malformed items

ASSUME ConnAssumption == NoConn \notin Conns
ASSUME WorkersAssumption == IsFiniteSet(Workers)
ASSUME BoundsAssumption ==
    MaxItems \in Nat \ {0} /\ MaxRequests \in Nat /\ MaxFailures \in Nat /\ MaxThrows \in Nat

\* A request is known by its number and asks for some items.
Requests  == [number : 1 .. MaxRequests, items : 1 .. MaxItems]
NoRequest == [number |-> 0, items |-> 0]

OrderIds == 1 .. MaxRequests
NoOrder  == [by |-> NoRequest, items |-> 0]   \* no row with this order_id
Rows     == [by : Requests, items : 0 .. MaxItems]

\* The rows a transaction has written and not committed: one order.
Nothing  == [id |-> 0, row |-> NoOrder]
Pending  == [id : OrderIds, row : Rows]

VARIABLES orders,    \* orders and order_item rows that others see
          nextId,    \* AUTO_INCREMENT
          free,      \* connections in the pool
          inTx,      \* the sessions with an open transaction
          pending,   \* what each open transaction has written
          pc, req,   \* where each worker is, and the request it handles
          conn,      \* the connection it holds
          done,      \* items it has inserted
          orderId,   \* what mysql_insert_id returned
          told,      \* history: notices to stores and answers
          untied,    \* history: requests whose START TRANSACTION failed
          unsure,    \* history: requests whose COMMIT failed
          requests, failures, throws

vars == <<orders, nextId, free, inTx, pending, pc, req, conn, done, orderId, told,
          untied, unsure, requests, failures, throws>>
database == <<orders, nextId, inTx, pending>>
history  == <<told, untied, unsure>>
counts   == <<requests, failures, throws>>

Locations == {"idle", "lookUp", "connect", "start", "order", "items", "rollback",
              "notify", "succeed", "fail"}

Goto(w, l) == pc' = [pc EXCEPT ![w] = l]
Fails      == failures < MaxFailures /\ failures' = failures + 1

Init ==
    /\ orders = [i \in OrderIds |-> NoOrder]
    /\ nextId = 1
    /\ free = Conns
    /\ inTx = {}
    /\ pending = [c \in Conns |-> Nothing]
    /\ pc = [w \in Workers |-> "idle"]
    /\ req = [w \in Workers |-> NoRequest]
    /\ conn = [w \in Workers |-> NoConn]
    /\ done = [w \in Workers |-> 0]
    /\ orderId = [w \in Workers |-> 0]
    /\ told = {} /\ untied = {} /\ unsure = {}
    /\ requests = 0 /\ failures = 0 /\ throws = 0

----------------------------------------------------------------------------
Begin(w, n) ==
    /\ pc[w] = "idle"
    /\ requests < MaxRequests
    /\ requests' = requests + 1
    /\ req' = [req EXCEPT ![w] = [number |-> requests', items |-> n]]
    /\ Goto(w, "lookUp")
    /\ UNCHANGED <<database, free, conn, done, orderId, history, failures, throws>>

\* The member id of the session and the store of the first item, each read on
\* a connection of its own; a request for which one of them is missing is refused.
LookUp(w) ==
    /\ pc[w] = "lookUp"
    /\ free # {}
    /\ \/ Goto(w, "connect") /\ UNCHANGED failures
       \/ Fails /\ Goto(w, "fail")
    /\ UNCHANGED <<database, free, req, conn, done, orderId, history, requests, throws>>

\* getConnection: waits for a connection, or returns NULL (module DBConnectionPool).
Connect(w) ==
    /\ pc[w] = "connect"
    /\ \E c \in free :
          \/ /\ free' = free \ {c}
             /\ conn' = [conn EXCEPT ![w] = c]
             /\ Goto(w, "start")
             /\ UNCHANGED failures
          \/ Fails /\ Goto(w, "fail") /\ UNCHANGED <<free, conn>>
    /\ UNCHANGED <<database, req, done, orderId, history, requests, throws>>

\* What was pending becomes visible; the transaction, if any, is over.
Flush(c) ==
    orders' = IF pending[c] = Nothing THEN orders
              ELSE [orders EXCEPT ![pending[c].id] = pending[c].row]

Discard(c) == /\ inTx' = inTx \ {c}
              /\ pending' = [pending EXCEPT ![c] = Nothing]

\* START TRANSACTION commits what the session still has open.  When it fails
\* the code goes on, in autocommit mode.
Start(w) ==
    LET c == conn[w] IN
    /\ pc[w] = "start"
    /\ \/ /\ Flush(c)
          /\ inTx' = inTx \cup {c}
          /\ pending' = [pending EXCEPT ![c] = Nothing]
          /\ UNCHANGED <<untied, failures>>
       \/ /\ Fails
          /\ Discard(c)
          /\ untied' = untied \cup {req[w]}
          /\ UNCHANGED orders
    /\ Goto(w, "order")
    /\ UNCHANGED <<nextId, free, req, conn, done, orderId, told, unsure, requests, throws>>

\* The session writes a row: into its transaction, or for everybody to see.
Write(c, id, row) ==
    IF c \in inTx
    THEN pending' = [pending EXCEPT ![c] = [id |-> id, row |-> row]] /\ UNCHANGED orders
    ELSE orders' = [orders EXCEPT ![id] = row] /\ UNCHANGED pending

\* A statement is refused, or its server is lost and with it the transaction.
Broken(c) == \/ UNCHANGED <<inTx, pending>>
             \/ Discard(c)

InsertOrder(w) ==
    LET c == conn[w]
        insert == /\ Write(c, nextId, [by |-> req[w], items |-> 0])
                  /\ nextId' = nextId + 1
                  /\ UNCHANGED inTx
    IN
    /\ pc[w] = "order"
    /\ \/ /\ insert
          /\ orderId' = [orderId EXCEPT ![w] = nextId]
          /\ Goto(w, "items")
          /\ UNCHANGED failures
       \/ /\ Fails
          /\ Goto(w, "rollback")
          /\ \/ c \notin inTx /\ insert
             \/ Broken(c) /\ UNCHANGED <<orders, nextId>>
          /\ UNCHANGED orderId
    /\ UNCHANGED <<free, req, conn, done, history, requests, throws>>

\* The row of the order this worker is writing.
Current(w) == IF conn[w] \in inTx THEN pending[conn[w]].row ELSE orders[orderId[w]]

InsertItem(w) ==
    LET c == conn[w]
        insert == /\ Write(c, orderId[w], [Current(w) EXCEPT !.items = @ + 1])
                  /\ UNCHANGED inTx
    IN
    /\ pc[w] = "items"
    /\ done[w] < req[w].items
    /\ \/ /\ insert
          /\ done' = [done EXCEPT ![w] = @ + 1]
          /\ UNCHANGED <<pc, failures>>
       \/ /\ Fails
          /\ Goto(w, "rollback")
          /\ \/ c \notin inTx /\ insert
             \/ Broken(c) /\ UNCHANGED orders
          /\ UNCHANGED done
    /\ UNCHANGED <<nextId, free, req, conn, orderId, history, requests, throws>>

\* The handler returns and its locals are gone.
Forget(w) ==
    /\ Goto(w, "idle")
    /\ req' = [req EXCEPT ![w] = NoRequest]
    /\ conn' = [conn EXCEPT ![w] = NoConn]
    /\ done' = [done EXCEPT ![w] = 0]
    /\ orderId' = [orderId EXCEPT ![w] = 0]

\* An item of the wrong type: the exception leaves createOrder with the
\* connection and its open transaction, and the router answers nothing.
Throw(w) ==
    /\ pc[w] = "items"
    /\ done[w] < req[w].items
    /\ throws < MaxThrows
    /\ throws' = throws + 1
    /\ Forget(w)
    /\ UNCHANGED <<database, free, history, requests, failures>>

Release(w) == /\ free' = free \cup {conn[w]}
              /\ conn' = [conn EXCEPT ![w] = NoConn]

\* Mutant: the rollback is forgotten.
Rollback_Forgotten(w) ==
    /\ pc[w] = "rollback"
    /\ Release(w)
    /\ Goto(w, "fail")
    /\ UNCHANGED <<database, req, done, orderId, history, counts>>

\* ROLLBACK; when it fails the session, and its transaction, are lost as well.
Rollback(w) ==
    /\ pc[w] = "rollback"
    /\ Discard(conn[w])
    /\ Release(w)
    /\ Goto(w, "fail")
    /\ UNCHANGED <<orders, nextId, req, done, orderId, history, counts>>

\* Mutant of Commit: it is forgotten.
Commit_Forgotten(w) ==
    /\ pc[w] = "items"
    /\ done[w] = req[w].items
    /\ Release(w)
    /\ Goto(w, "notify")
    /\ UNCHANGED <<database, req, done, orderId, history, counts>>

\* COMMIT after the last item; when it fails nobody knows whether it happened,
\* and createOrder returns the order id all the same.
Commit(w) ==
    LET c == conn[w] IN
    /\ pc[w] = "items"
    /\ done[w] = req[w].items
    /\ Discard(c)
    /\ \/ Flush(c) /\ UNCHANGED <<unsure, failures>>
       \/ /\ Fails
          /\ unsure' = unsure \cup {req[w]}
          /\ Flush(c) \/ UNCHANGED orders
    /\ Release(w)
    /\ Goto(w, "notify")
    /\ UNCHANGED <<nextId, req, done, orderId, told, untied, requests, throws>>

Message(w, kind) == [kind |-> kind, id |-> orderId[w], by |-> req[w]]

\* notifyStore looks the store up on a connection of its own; a store that is
\* offline or cannot be looked up is skipped.
Notify(w) ==
    /\ pc[w] = "notify"
    /\ free # {}
    /\ \/ told' = told \cup {Message(w, "store")} /\ UNCHANGED failures
       \/ Fails /\ UNCHANGED told
    /\ Goto(w, "succeed")
    /\ UNCHANGED <<database, free, req, conn, done, orderId, untied, unsure, requests, throws>>

Reply(w) ==
    /\ pc[w] \in {"succeed", "fail"}
    /\ told' = told \cup {Message(w, pc[w])}
    /\ Forget(w)
    /\ UNCHANGED <<database, free, untied, unsure, counts>>

----------------------------------------------------------------------------
Step(w) == \/ LookUp(w) \/ Connect(w) \/ Start(w) \/ InsertOrder(w) \/ InsertItem(w)
           \/ Throw(w) \/ Rollback(w) \/ Commit(w) \/ Notify(w) \/ Reply(w)

Next == \E w \in Workers : (\E n \in 1 .. MaxItems : Begin(w, n)) \/ Step(w)

Spec == Init /\ [][Next]_vars

----------------------------------------------------------------------------
(* Types.                                                                     *)
TypeOK ==
    /\ orders \in [OrderIds -> Rows \cup {NoOrder}]
    /\ nextId \in 1 .. MaxRequests + 1
    /\ free \subseteq Conns
    /\ inTx \subseteq Conns
    /\ pending \in [Conns -> Pending \cup {Nothing}]
    /\ pc \in [Workers -> Locations]
    /\ req \in [Workers -> Requests \cup {NoRequest}]
    /\ conn \in [Workers -> Conns \cup {NoConn}]
    /\ done \in [Workers -> 0 .. MaxItems]
    /\ orderId \in [Workers -> {0} \cup OrderIds]
    /\ told \subseteq [kind : {"store", "succeed", "fail"}, id : {0} \cup OrderIds,
                       by : Requests]
    /\ untied \subseteq Requests /\ unsure \subseteq Requests
    /\ requests \in 0 .. MaxRequests
    /\ failures \in 0 .. MaxFailures /\ throws \in 0 .. MaxThrows

(* An order that others can see has all its items, whatever statement fails   *)
(* and whoever uses the connection next; the exception is an order whose      *)
(* START TRANSACTION failed, which the code ignores (OrderService.cpp:13).    *)
WholeOrders ==
    \A i \in OrderIds :
       orders[i] # NoOrder =>
          orders[i].items = orders[i].by.items \/ orders[i].by \in untied

(* A connection in the pool carries no open transaction, so what its next     *)
(* borrower writes is committed with its own statement, not with a stranger's. *)
CleanSessions == \A c \in free : c \notin inTx /\ pending[c] = Nothing

ToldOrdersExist ==
    \A m \in told :
       m.kind # "fail" /\ m.by \notin unsure =>
          orders[m.id].by = m.by /\ orders[m.id].items = m.by.items

FailedOrdersLeaveNothing ==
    \A m \in told : \A i \in OrderIds :
       m.kind = "fail" /\ orders[i].by = m.by => m.by \in untied

(* The store and the customer are told of an order that exists under the id   *)
(* they are told and is the one they asked for, and a customer who is told    *)
(* that the order failed has not ordered: a rollback undoes the order and all *)
(* its items.  The exceptions are an order whose COMMIT failed, and one whose *)
(* START TRANSACTION failed, which the code ignores (OrderService.cpp:13, 49). *)
AnswersAreTrue == ToldOrdersExist /\ FailedOrdersLeaveNothing
=============================================================================
