---------------------------- MODULE Queries_proofs ----------------------------
(* Proofs about orders, lists and changes on the pool's connections, for any  *)
(* workers, connections, tables, requests and failing statements.             *)
EXTENDS Queries, FiniteSetTheorems, TLAPS

\* Where placing an order holds a connection, and where it has no row yet.
Writing == {"start", "order", "items", "rollback"}
Before  == {"lookUp", "connect", "start", "order"}
Waiting == {w \in Workers : pc[w] \in Before}

(* A connection is with one worker or in the pool. *)
Apart ==
    /\ \A w \in Workers : conn[w] # NoConn <=> pc[w] \in Writing
    /\ \A w \in Workers : conn[w] \notin free
    /\ \A v, w \in Workers : conn[v] # NoConn => conn[v] # borrowed[w]
    /\ \A v, w \in Workers : v # w /\ conn[v] # NoConn => conn[v] # conn[w]
    /\ \A v, w \in Workers : v # w /\ borrowed[v] # NoConn => borrowed[v] # borrowed[w]

(* Only a worker past START TRANSACTION, or nobody, has an open transaction. *)
Sessions ==
    /\ \A c \in Conns : c \notin inTx => pending[c] = Nothing
    /\ \A c \in free : c \notin inTx
    /\ \A w \in Workers : borrowed[w] \notin inTx
    /\ \A w \in Workers : pc[w] = "start" => conn[w] \notin inTx

(* Requests have numbers of their own, and each has at most one answer. *)
Numbered ==
    /\ \A w \in Workers : pc[w] = "idle" <=> req[w] = NoRequest
    /\ \A w \in Workers : req[w].number <= requests
    /\ \A v, w \in Workers : v # w /\ req[v] # NoRequest => req[v].number # req[w].number
    /\ \A i \in OrderIds : orders[i].by.number <= requests
    /\ \A m \in told : /\ m.by.number <= requests
                       /\ \A w \in Workers : m.by.number = req[w].number =>
                                                pc[w] = "succeed" /\ m.kind = "store"

(* There is a number for every order that may still be inserted. *)
Counted ==
    /\ nextId + Cardinality(Waiting) <= requests + 1
    /\ \A i \in OrderIds : i >= nextId => orders[i] = NoOrder

(* What the worker has written so far, in its transaction or for all to see. *)
Written(w) ==
    /\ pc[w] \in {"idle"} \cup Before => done[w] = 0
    /\ pc[w] = "order" =>
          IF conn[w] \in inTx THEN pending[conn[w]] = Nothing ELSE req[w] \in untied
    /\ pc[w] = "items" =>
          /\ orderId[w] \in OrderIds /\ orderId[w] < nextId
          /\ done[w] <= req[w].items
          /\ IF conn[w] \in inTx
             THEN /\ pending[conn[w]] = [id  |-> orderId[w],
                                         row |-> [by |-> req[w], items |-> done[w]]]
                  /\ orders[orderId[w]] = NoOrder
             ELSE /\ req[w] \in untied
                  /\ orders[orderId[w]] = [by |-> req[w], items |-> done[w]]

Progress ==
    /\ \A w \in Workers : Written(w)
    /\ \A v, w \in Workers :
          v # w /\ pc[v] = "items" /\ pc[w] = "items" => orderId[v] # orderId[w]

(* An order that has failed so far is not there, one that has not is. *)
Settled(w) ==
    /\ pc[w] \in Before \cup {"items", "rollback", "fail"} =>
          \A i \in OrderIds : orders[i].by = req[w] => req[w] \in untied
    /\ pc[w] \in {"notify", "succeed"} =>
          /\ orderId[w] \in OrderIds
          /\ req[w] \notin unsure =>
                orders[orderId[w]] = [by |-> req[w], items |-> req[w].items]

Outcome == \A w \in Workers : Settled(w)

\* OrderTypes is kept apart: only Begin and SetStatus touch what it is about.
Typed == TypeOK /\ QueryTypes /\ Held

Inv == /\ Typed /\ Apart /\ Sessions /\ Numbered /\ Counted /\ Progress /\ Outcome
       /\ WholeOrders /\ AnswersAreTrue

\* What such a request does to the connections: nothing, or the worker takes
\* one, or gives its own back.
Hands(w) ==
    \/ /\ free' = free /\ borrowed' = borrowed
       /\ \E p \in Places : at' = [at EXCEPT ![w] = p] /\ (p \in Holding <=> at[w] \in Holding)
    \/ \E c \in free : /\ free' = free \ {c} /\ borrowed' = [borrowed EXCEPT ![w] = c]
                       /\ \E p \in Holding : at' = [at EXCEPT ![w] = p]
    \/ /\ borrowed[w] # NoConn
       /\ free' = free \cup {borrowed[w]} /\ borrowed' = [borrowed EXCEPT ![w] = NoConn]
       /\ \E p \in Places \ Holding : at' = [at EXCEPT ![w] = p]

\* Such a step leaves the orders and their writers alone.
Quiet(w) ==
    /\ UNCHANGED placing /\ Hands(w) /\ QueryTypes'
    /\ requests' \in requests .. MaxRequests /\ failures' \in 0 .. MaxFailures

USE DEF Goto, Fails

(* The numbers of what has not been handled are none of a request. *)
LEMMA NoRequestFacts ==
    /\ NoRequest \notin Requests /\ NoRequest.number = 0
    /\ NoOrder.by = NoRequest /\ NoOrder.items = 0
    /\ \A r \in Requests : r.number \in 1 .. MaxRequests /\ r.items \in 1 .. MaxItems
    /\ \A r \in Rows : r.by \in Requests /\ r.items \in 0 .. MaxItems /\ r # NoOrder
BY BoundsAssumption DEF NoRequest, Requests, NoOrder, Rows

LEMMA WaitingFinite == IsFiniteSet(Waiting) /\ Cardinality(Waiting) \in Nat
<1>1. Waiting \in SUBSET Workers
  BY DEF Waiting
<1>2. IsFiniteSet(Waiting)
  BY <1>1, WorkersAssumption, FS_Subset
<1> QED
  BY <1>2, FS_CardinalityType

LEMMA SomeoneWaits ==
  ASSUME NEW w \in Workers, pc[w] \in Before
  PROVE  Cardinality(Waiting) \in Nat /\ Cardinality(Waiting) >= 1
<1>1. Waiting # {}
  BY DEF Waiting
<1> QED
  BY <1>1, WaitingFinite, FS_EmptySet

(* How a worker that moves changes the number of those that wait. *)
LEMMA WaitingMoves ==
  ASSUME NEW w \in Workers, NEW l, pc \in [Workers -> Locations], pc' = [pc EXCEPT ![w] = l]
  PROVE  /\ Cardinality(Waiting') \in Nat
         /\ pc[w] \notin Before /\ l \in Before => Cardinality(Waiting') = Cardinality(Waiting) + 1
         /\ pc[w] \in Before /\ l \notin Before => Cardinality(Waiting') = Cardinality(Waiting) - 1
         /\ (pc[w] \in Before <=> l \in Before) => Cardinality(Waiting') = Cardinality(Waiting)
         /\ pc[w] \in Before => Cardinality(Waiting) >= 1
<1>1. l \in Before => Waiting' = Waiting \cup {w}
  BY DEF Waiting
<1>2. l \notin Before => Waiting' = Waiting \ {w}
  BY DEF Waiting
<1>3. w \in Waiting <=> pc[w] \in Before
  BY DEF Waiting
<1>4. /\ Cardinality(Waiting \cup {w}) = IF w \in Waiting THEN Cardinality(Waiting) ELSE Cardinality(Waiting) + 1
      /\ Cardinality(Waiting \ {w}) = IF w \in Waiting THEN Cardinality(Waiting) - 1 ELSE Cardinality(Waiting)
      /\ IsFiniteSet(Waiting \cup {w}) /\ IsFiniteSet(Waiting \ {w})
  BY WaitingFinite, FS_AddElement, FS_RemoveElement
<1>5. Cardinality(Waiting \cup {w}) \in Nat /\ Cardinality(Waiting \ {w}) \in Nat
  BY <1>4, FS_CardinalityType
<1>7. pc[w] \in Before => Cardinality(Waiting) >= 1
  BY <1>3, WaitingFinite, FS_EmptySet
<1>6. CASE l \in Before
  BY <1>1, <1>3, <1>4, <1>5, <1>6, <1>7, WaitingFinite
<1>8. CASE l \notin Before
  BY <1>2, <1>3, <1>4, <1>5, <1>7, <1>8, WaitingFinite
<1> QED
  BY <1>6, <1>8

LEMMA BeginStep ==
  ASSUME Inv, NEW w \in Workers, NEW n \in 1 .. MaxItems, at[w] = "idle", Begin(w, n),
         UNCHANGED queryVars
  PROVE  Inv'
<1> USE DEF Inv, Typed
<1>n. MaxRequests \in Nat /\ MaxFailures \in Nat /\ MaxThrows \in Nat /\ MaxItems \in Nat \ {0}
  BY BoundsAssumption
<1>a. /\ requests' = requests + 1 /\ requests' \in 1 .. MaxRequests
      /\ pc[w] = "idle" /\ pc' = [pc EXCEPT ![w] = "lookUp"]
      /\ req' = [req EXCEPT ![w] = [number |-> requests', items |-> n]]
      /\ [number |-> requests', items |-> n] \in Requests
      /\ UNCHANGED <<orders, nextId, inTx, pending, free, conn, done, orderId, told, untied,
                     unsure, failures, throws>>
  BY <1>n DEF Begin, TypeOK, database, history, Requests
<1>1. TypeOK'
  <2>1. pc' \in [Workers -> Locations]
    BY <1>a DEF TypeOK, Locations
  <2>2. req' \in [Workers -> Requests \cup {NoRequest}]
    BY <1>a DEF TypeOK
  <2> QED
    BY <1>a, <1>n, <2>1, <2>2 DEF TypeOK
<1>2. QueryTypes' /\ Held'
  BY DEF Begin, queryVars, QueryTypes, Held, Apart
<1>3. Apart'
  BY <1>a DEF TypeOK, queryVars, Apart, Writing
<1>4. Sessions'
  BY <1>a DEF TypeOK, queryVars, Sessions
<1>5. Numbered'
  BY <1>n, <1>a, NoRequestFacts DEF TypeOK, Numbered
<1>6. Counted'
  <2>1. Cardinality(Waiting') = Cardinality(Waiting) + 1 /\ Cardinality(Waiting) \in Nat
    BY <1>a, WaitingMoves, WaitingFinite DEF TypeOK, Before
  <2> QED
    BY <2>1, <1>a DEF TypeOK, Counted
<1>7. Progress'
  BY <1>a DEF TypeOK, Progress, Written, Before
<1>8. Outcome'
  BY <1>n, <1>a, NoRequestFacts DEF TypeOK, Outcome, Settled, Before, Numbered
<1>9. WholeOrders' /\ AnswersAreTrue'
  BY <1>a DEF WholeOrders, AnswersAreTrue, ToldOrdersExist, FailedOrdersLeaveNothing
<1> QED
  BY <1>1, <1>2, <1>3, <1>4, <1>5, <1>6, <1>7, <1>8, <1>9

LEMMA LookUpStep ==
  ASSUME Inv, NEW w \in Workers, at[w] = "idle", LookUp(w), UNCHANGED queryVars
  PROVE  Inv'
<1> USE DEF Inv, Typed
<1>n. MaxRequests \in Nat /\ MaxFailures \in Nat /\ MaxThrows \in Nat /\ MaxItems \in Nat \ {0}
  BY BoundsAssumption
<1>a. /\ pc[w] = "lookUp"
      /\ pc' = [pc EXCEPT ![w] = "connect"] \/ pc' = [pc EXCEPT ![w] = "fail"]
      /\ UNCHANGED <<orders, nextId, inTx, pending, free, req, conn, done, orderId, told, untied,
                     unsure, requests, throws>>
      /\ failures' \in 0 .. MaxFailures
  BY <1>n DEF LookUp, TypeOK, database, history
<1>1. TypeOK'
  BY <1>a DEF TypeOK, Locations
<1>2. QueryTypes' /\ Held'
  BY <1>a DEF queryVars, QueryTypes, Held
<1>3. Apart'
  BY <1>a DEF TypeOK, queryVars, Apart, Writing
<1>4. Sessions'
  BY <1>a DEF TypeOK, queryVars, Sessions
<1>5. Numbered'
  BY <1>a DEF TypeOK, Numbered
<1>6. Counted'
  BY <1>a, <1>n, WaitingMoves, WaitingFinite DEF TypeOK, Counted, Before
<1>7. Progress'
  BY <1>a DEF TypeOK, Progress, Written, Before
<1>8. Outcome'
  BY <1>a DEF TypeOK, Outcome, Settled, Before
<1>9. WholeOrders' /\ AnswersAreTrue'
  BY <1>a DEF WholeOrders, AnswersAreTrue, ToldOrdersExist, FailedOrdersLeaveNothing
<1> QED
  BY <1>1, <1>2, <1>3, <1>4, <1>5, <1>6, <1>7, <1>8, <1>9

(* A row that a worker writes for its order is nobody else's. *)
LEMMA OwnRow ==
  ASSUME Inv, NEW w \in Workers, pc[w] \in {"order", "items"}, NEW i \in OrderIds,
         NEW k \in 0 .. MaxItems, orders[i] = NoOrder \/ orders[i].by = req[w],
         orders' = [orders EXCEPT ![i] = [by |-> req[w], items |-> k]]
  PROVE  /\ req[w] \in Requests
         /\ orders' \in [OrderIds -> Rows \cup {NoOrder}]
         /\ \A j \in OrderIds : orders'[j].by.number <= requests
         /\ \A m \in told : m.by # req[w]
         /\ \A m \in told : m.kind # "fail" /\ m.by \notin unsure => orders'[m.id] = orders[m.id]
         /\ \A v \in Workers : \A j \in OrderIds :
               v # w /\ pc[v] # "idle" /\ orders'[j].by = req[v] => orders[j].by = req[v]
         /\ \A v \in Workers : pc[v] \in {"notify", "succeed"} /\ req[v] \notin unsure =>
               orders'[orderId[v]] = orders[orderId[v]]
<1> USE DEF Inv, Typed
<1>n. MaxRequests \in Nat /\ MaxItems \in Nat \ {0}
  BY BoundsAssumption
<1>1. req[w] \in Requests
  BY DEF TypeOK, Numbered
<1>2. [by |-> req[w], items |-> k] \in Rows
  BY <1>1 DEF Rows
<1>3. orders' \in [OrderIds -> Rows \cup {NoOrder}]
  BY <1>2 DEF TypeOK
<1>4. \A j \in OrderIds : orders'[j] = IF j = i THEN [by |-> req[w], items |-> k] ELSE orders[j]
  BY DEF TypeOK
<1>5. \A j \in OrderIds : orders'[j].by.number <= requests
  BY <1>4 DEF Numbered
<1>6. \A m \in told : m.by # req[w]
  BY DEF Numbered
<1>7. \A m \in told : m.kind # "fail" /\ m.by \notin unsure => orders'[m.id] = orders[m.id]
  <2> SUFFICES ASSUME NEW m \in told, m.kind # "fail", m.by \notin unsure
               PROVE  orders'[m.id] = orders[m.id]
    OBVIOUS
  <2>1. orders[m.id].by = m.by /\ m.by \in Requests
    BY DEF AnswersAreTrue, ToldOrdersExist, TypeOK
  <2>2. m.id # i
    BY <2>1, <1>6, NoRequestFacts
  <2> QED
    BY <2>2
<1>8. \A v \in Workers : v # w /\ pc[v] # "idle" => req[v] # req[w]
  BY DEF Numbered
<1>9. \A v \in Workers : pc[v] \in {"notify", "succeed"} /\ req[v] \notin unsure =>
         orders'[orderId[v]] = orders[orderId[v]]
  <2> SUFFICES ASSUME NEW v \in Workers, pc[v] \in {"notify", "succeed"}, req[v] \notin unsure
               PROVE  orderId[v] # i
    BY <1>4
  <2>1. orders[orderId[v]] = [by |-> req[v], items |-> req[v].items]
    BY DEF Outcome, Settled
  <2>2. req[v] # NoRequest /\ v # w
    BY DEF Numbered
  <2>3. orders[i].by # req[v]
    BY <2>2, <1>8, NoRequestFacts
  <2> QED
    BY <2>1, <2>3
<1> QED
  BY <1>1, <1>3, <1>4, <1>5, <1>6, <1>7, <1>8, <1>9

LEMMA ConnectStep ==
  ASSUME Inv, NEW w \in Workers, at[w] = "idle", Connect(w), UNCHANGED queryVars
  PROVE  Inv'
<1> USE DEF Inv, Typed
<1>n. MaxRequests \in Nat /\ MaxFailures \in Nat /\ MaxThrows \in Nat /\ MaxItems \in Nat \ {0}
  BY BoundsAssumption
<1>a. /\ pc[w] = "connect" /\ requests' = requests
      /\ UNCHANGED <<orders, nextId, inTx, pending, req, done, orderId, told, untied, unsure, throws>>
      /\ failures' \in 0 .. MaxFailures
      /\ \/ \E c \in free : /\ free' = free \ {c} /\ conn' = [conn EXCEPT ![w] = c]
                            /\ pc' = [pc EXCEPT ![w] = "start"]
         \/ pc' = [pc EXCEPT ![w] = "fail"] /\ UNCHANGED <<free, conn>>
  BY <1>n DEF Connect, TypeOK, database, history
<1>1. TypeOK'
  BY <1>a DEF TypeOK, Locations
<1>2. QueryTypes' /\ Held'
  BY <1>a DEF queryVars, QueryTypes, Held
<1>3. Apart'
  <2>1. CASE pc' = [pc EXCEPT ![w] = "fail"] /\ UNCHANGED <<free, conn>>
    BY <1>a, <2>1 DEF TypeOK, queryVars, Apart, Writing
  <2>2. ASSUME NEW c \in free, free' = free \ {c}, conn' = [conn EXCEPT ![w] = c],
               pc' = [pc EXCEPT ![w] = "start"]
        PROVE  Apart'
    <3>1. c \in Conns /\ c # NoConn
      BY ConnAssumption DEF TypeOK
    <3>2. \A v \in Workers : conn[v] # c /\ borrowed[v] # c
      BY DEF Apart, Held
    <3>3. \A v \in Workers : conn'[v] = IF v = w THEN c ELSE conn[v]
      BY <2>2 DEF TypeOK
    <3>4. \A v \in Workers : conn'[v] # NoConn <=> pc'[v] \in Writing
      BY <1>a, <2>2, <3>1, <3>3 DEF TypeOK, Apart, Writing
    <3> QED
      BY <2>2, <3>1, <3>2, <3>3, <3>4 DEF queryVars, Apart
  <2> QED
    BY <1>a, <2>1, <2>2
<1>4. Sessions'
  BY <1>a DEF TypeOK, queryVars, Sessions
<1>5. Numbered'
  BY <1>a DEF TypeOK, Numbered
<1>6. Counted'
  BY <1>a, <1>n, WaitingMoves, WaitingFinite DEF TypeOK, Counted, Before
<1>7. Progress'
  BY <1>a DEF TypeOK, Progress, Written, Before
<1>8. Outcome'
  BY <1>a DEF TypeOK, Outcome, Settled, Before
<1>9. WholeOrders' /\ AnswersAreTrue'
  BY <1>a DEF WholeOrders, AnswersAreTrue, ToldOrdersExist, FailedOrdersLeaveNothing
<1> QED
  BY <1>1, <1>2, <1>3, <1>4, <1>5, <1>6, <1>7, <1>8, <1>9

LEMMA StartStep ==
  ASSUME Inv, NEW w \in Workers, at[w] = "idle", Start(w), UNCHANGED queryVars
  PROVE  Inv'
<1> USE DEF Inv, Typed
<1>n. MaxRequests \in Nat /\ MaxFailures \in Nat /\ MaxThrows \in Nat /\ MaxItems \in Nat \ {0}
  BY BoundsAssumption
<1>a. /\ pc[w] = "start" /\ conn[w] \in Conns /\ conn[w] \notin inTx
      /\ pending[conn[w]] = Nothing
  BY DEF Start, TypeOK, Apart, Writing, Sessions
<1>b. /\ pc' = [pc EXCEPT ![w] = "order"] /\ orders' = orders /\ pending' = pending
      /\ UNCHANGED <<nextId, free, req, conn, done, orderId, told, unsure, requests, throws>>
      /\ failures' \in 0 .. MaxFailures
      /\ \/ inTx' = inTx \cup {conn[w]} /\ untied' = untied
         \/ inTx' = inTx /\ untied' = untied \cup {req[w]}
  <2>1. Flush(conn[w]) => orders' = orders
    BY <1>a DEF Flush
  <2>2. [pending EXCEPT ![conn[w]] = Nothing] = pending /\ inTx \ {conn[w]} = inTx
    BY <1>a DEF TypeOK
  <2>3. failures + 1 \in 0 .. MaxFailures \/ failures >= MaxFailures
    BY <1>n DEF TypeOK
  <2>4. failures \in 0 .. MaxFailures
    BY DEF TypeOK
  <2>5. /\ pc' = [pc EXCEPT ![w] = "order"]
        /\ UNCHANGED <<nextId, free, req, conn, done, orderId, told, unsure, requests, throws>>
    BY DEF Start
  <2>6. CASE /\ Flush(conn[w]) /\ inTx' = inTx \cup {conn[w]}
             /\ pending' = [pending EXCEPT ![conn[w]] = Nothing] /\ UNCHANGED <<untied, failures>>
    BY <2>1, <2>2, <2>4, <2>5, <2>6
  <2>7. CASE /\ Fails /\ Discard(conn[w]) /\ untied' = untied \cup {req[w]} /\ UNCHANGED orders
    <3>1. failures' \in 0 .. MaxFailures
      BY <1>n, <2>3, <2>4, <2>7
    <3> QED
      BY <2>2, <2>5, <2>7, <3>1 DEF Discard
  <2> QED
    BY <2>6, <2>7 DEF Start
<1>1. TypeOK'
  <2>1. req[w] \in Requests
    BY <1>a DEF TypeOK, Numbered
  <2> QED
    BY <1>a, <1>b, <2>1 DEF TypeOK, Locations
<1>2. QueryTypes' /\ Held'
  BY <1>b DEF queryVars, QueryTypes, Held
<1>3. Apart'
  BY <1>a, <1>b DEF TypeOK, queryVars, Apart, Writing
<1>4. Sessions'
  <2>1. conn[w] \notin free
    BY DEF Apart
  <2>2. \A v \in Workers : borrowed[v] # conn[w]
    BY <1>a, ConnAssumption DEF Apart
  <2>3. \A v \in Workers : v # w => conn[v] # conn[w]
    BY <1>a, ConnAssumption DEF Apart
  <2> QED
    BY <1>a, <1>b, <2>1, <2>2, <2>3 DEF TypeOK, queryVars, Sessions
<1>5. Numbered'
  BY <1>a, <1>b DEF TypeOK, Numbered
<1>6. Counted'
  BY <1>a, <1>b, <1>n, WaitingMoves, WaitingFinite DEF TypeOK, Counted, Before
<1>7. Progress'
  <2>1. \A v \in Workers : v # w => conn[v] # conn[w]
    BY <1>a, ConnAssumption DEF Apart
  <2>2. \A v \in Workers : v # w => (conn[v] \in inTx' <=> conn[v] \in inTx) /\ pc'[v] = pc[v]
    BY <1>b, <2>1 DEF TypeOK
  <2>3. untied \subseteq untied' /\ (conn[w] \in inTx' \/ req[w] \in untied') /\ done[w] = 0
    BY <1>a, <1>b DEF Progress, Written, Before
  <2>4. pc'[w] = "order" /\ \A v \in Workers : pc'[v] = "items" => v # w /\ pc[v] = "items"
    BY <1>b DEF TypeOK
  <2> QED
    BY <1>a, <1>b, <2>2, <2>3, <2>4 DEF TypeOK, Progress, Written, Before
<1>8. Outcome'
  BY <1>a, <1>b DEF TypeOK, Outcome, Settled, Before
<1>9. WholeOrders' /\ AnswersAreTrue'
  BY <1>b DEF WholeOrders, AnswersAreTrue, ToldOrdersExist, FailedOrdersLeaveNothing
<1> QED
  BY <1>1, <1>2, <1>3, <1>4, <1>5, <1>6, <1>7, <1>8, <1>9

LEMMA InsertOrderStep ==
  ASSUME Inv, NEW w \in Workers, at[w] = "idle", InsertOrder(w), UNCHANGED queryVars
  PROVE  Inv'
<1> USE DEF Inv, Typed
<1>n. MaxRequests \in Nat /\ MaxFailures \in Nat /\ MaxThrows \in Nat /\ MaxItems \in Nat \ {0}
  BY BoundsAssumption
<1> DEFINE row == [by |-> req[w], items |-> 0]
\* It writes into the transaction, writes for all to see, or writes nothing.
<1>a. /\ pc[w] = "order" /\ conn[w] \in Conns /\ done[w] = 0 /\ req[w] \in Requests
      /\ nextId \in OrderIds /\ orders[nextId] = NoOrder
  <2>1. nextId <= MaxRequests
    <3>1. pc[w] = "order" /\ requests \in 0 .. MaxRequests /\ nextId \in Nat
      BY DEF InsertOrder, TypeOK
    <3>2. Cardinality(Waiting) \in Nat /\ Cardinality(Waiting) >= 1
      BY <3>1, SomeoneWaits DEF Before
    <3> QED
      BY <1>n, <3>1, <3>2 DEF Counted
  <2>2. nextId \in OrderIds
    BY <1>n, <2>1 DEF TypeOK, OrderIds
  <2>3. pc[w] = "order"
    BY DEF InsertOrder
  <2>4. conn[w] \in Conns
    BY <2>3 DEF TypeOK, Apart, Writing
  <2>5. done[w] = 0
    BY <2>3 DEF Progress, Written, Before
  <2>6. req[w] \in Requests
    BY <2>3 DEF TypeOK, Numbered
  <2>7. orders[nextId] = NoOrder
    BY <2>2 DEF TypeOK, Counted
  <2> QED
    BY <2>2, <2>3, <2>4, <2>5, <2>6, <2>7
<1>b. /\ UNCHANGED <<free, req, conn, done, told, untied, unsure, requests, throws>>
      /\ failures' \in 0 .. MaxFailures
      /\ \/ pc' = [pc EXCEPT ![w] = "items"] /\ orderId' = [orderId EXCEPT ![w] = nextId]
            /\ nextId' = nextId + 1 /\ inTx' = inTx
         \/ pc' = [pc EXCEPT ![w] = "rollback"] /\ orderId' = orderId
  <2>1. failures \in 0 .. MaxFailures /\ (failures < MaxFailures => failures + 1 \in 0 .. MaxFailures)
    BY <1>n DEF TypeOK
  <2> QED
    BY <1>n, <2>1 DEF InsertOrder, history
<1>c. \/ /\ conn[w] \in inTx /\ pc' = [pc EXCEPT ![w] = "items"]
         /\ pending' = [pending EXCEPT ![conn[w]] = [id |-> nextId, row |-> row]]
         /\ UNCHANGED <<orders, inTx>> /\ nextId' = nextId + 1
      \/ /\ conn[w] \notin inTx
         /\ orders' = [orders EXCEPT ![nextId] = row]
         /\ UNCHANGED <<pending, inTx>> /\ nextId' = nextId + 1
      \/ /\ pc' = [pc EXCEPT ![w] = "rollback"]
         /\ UNCHANGED <<orders, nextId>>
         /\ \/ UNCHANGED <<inTx, pending>>
            \/ inTx' = inTx \ {conn[w]} /\ pending' = [pending EXCEPT ![conn[w]] = Nothing]
  BY DEF InsertOrder, Write, Broken, Discard
<1>d. ASSUME orders' = [orders EXCEPT ![nextId] = row]
      PROVE  /\ orders' \in [OrderIds -> Rows \cup {NoOrder}]
             /\ \A j \in OrderIds : orders'[j].by.number <= requests
             /\ \A m \in told : m.by # req[w]
             /\ \A m \in told : m.kind # "fail" /\ m.by \notin unsure => orders'[m.id] = orders[m.id]
             /\ \A v \in Workers : \A j \in OrderIds :
                   v # w /\ pc[v] # "idle" /\ orders'[j].by = req[v] => orders[j].by = req[v]
             /\ \A v \in Workers : pc[v] \in {"notify", "succeed"} /\ req[v] \notin unsure =>
                   orders'[orderId[v]] = orders[orderId[v]]
  <2>1. 0 \in 0 .. MaxItems /\ pc[w] \in {"order", "items"} /\ Inv
    BY <1>a, <1>n
  <2> HIDE DEF Inv, Typed
  <2> QED
    BY <1>a, <1>d, <2>1, OwnRow
<1>1. TypeOK'
  <2>1. pc' \in [Workers -> Locations] /\ orderId' \in [Workers -> {0} \cup OrderIds]
    BY <1>a, <1>b DEF TypeOK, Locations
  <2>2. nextId' \in 1 .. MaxRequests + 1
    BY <1>a, <1>c, <1>n DEF TypeOK, OrderIds
  <2>3. row \in Rows
    BY <1>a, <1>n DEF Rows
  <2>4. [id |-> nextId, row |-> row] \in Pending
    BY <1>a, <2>3 DEF Pending
  <2>5. pending' \in [Conns -> Pending \cup {Nothing}] /\ inTx' \subseteq Conns
    BY <1>a, <1>c, <2>4 DEF TypeOK
  <2>6. orders' \in [OrderIds -> Rows \cup {NoOrder}]
    BY <1>c, <1>d DEF TypeOK
  <2> QED
    BY <1>b, <2>1, <2>2, <2>5, <2>6 DEF TypeOK
<1>2. QueryTypes' /\ Held'
  BY <1>b DEF queryVars, QueryTypes, Held
<1>3. Apart'
  BY <1>a, <1>b DEF TypeOK, queryVars, Apart, Writing
<1>4. Sessions'
  <2>1. inTx' \subseteq inTx /\ \A c \in Conns : c # conn[w] => pending'[c] = pending[c]
    BY <1>a, <1>c DEF TypeOK
  <2>2. \A c \in Conns : c \notin inTx' => pending'[c] = Nothing
    BY <1>a, <1>c, <2>1 DEF TypeOK, Sessions
  <2>3. \A v \in Workers : pc'[v] = "start" => pc[v] = "start"
    BY <1>b DEF TypeOK
  <2> QED
    BY <1>b, <2>1, <2>2, <2>3 DEF queryVars, Sessions
<1>5. Numbered'
  <2>1. \A j \in OrderIds : orders'[j].by.number <= requests
    BY <1>c, <1>d DEF Numbered
  <2>2. \A v \in Workers : (pc'[v] = "idle" <=> pc[v] = "idle") /\ (pc[v] = "succeed" => pc'[v] = "succeed")
    BY <1>a, <1>b DEF TypeOK
  <2> QED
    BY <1>b, <2>1, <2>2 DEF Numbered
<1>6. Counted'
  <2>1. Cardinality(Waiting') = Cardinality(Waiting) - 1 /\ Cardinality(Waiting) \in Nat
    BY <1>a, <1>b, WaitingMoves, WaitingFinite DEF TypeOK, Before
  <2>2. nextId' + Cardinality(Waiting') <= requests' + 1
    BY <1>b, <1>c, <2>1 DEF TypeOK, Counted
  <2>3. \A i \in OrderIds : i >= nextId' => orders'[i] = NoOrder
    <3>1. \A i \in OrderIds : i >= nextId => orders[i] = NoOrder
      BY DEF Counted
    <3>2. \A i \in OrderIds : i >= nextId + 1 => i >= nextId /\ i # nextId
      BY <1>a DEF OrderIds
    <3>3. \A i \in OrderIds : i # nextId => orders'[i] = orders[i]
      BY <1>a, <1>c DEF TypeOK
    <3> QED
      BY <1>c, <3>1, <3>2, <3>3
  <2> QED
    BY <2>2, <2>3 DEF Counted
<1>7. Progress'
  <2>1. ASSUME NEW v \in Workers, v # w
        PROVE  /\ pc'[v] = pc[v] /\ orderId'[v] = orderId[v] /\ (conn[v] \in inTx' <=> conn[v] \in inTx)
               /\ pc[v] \in Writing => pending'[conn[v]] = pending[conn[v]]
    <3>1. conn[v] # conn[w]
      BY <1>a, <2>1, ConnAssumption DEF Apart
    <3>2. pc[v] \in Writing => conn[v] \in Conns
      BY DEF Apart, TypeOK
    <3> QED
      BY <1>a, <1>b, <1>c, <2>1, <3>1, <3>2 DEF TypeOK
  <2>2. \A j \in OrderIds : j # nextId => orders'[j] = orders[j]
    BY <1>a, <1>c DEF TypeOK
  <2>3. \A v \in Workers : pc[v] = "items" => orderId[v] < nextId /\ orderId[v] \in OrderIds
    BY DEF Progress, Written
  <2>4. ASSUME NEW v \in Workers, v # w PROVE Written(v)'
    <3>1. CASE pc[v] = "items"
      <4>1. orders'[orderId[v]] = orders[orderId[v]] /\ orderId[v] < nextId'
        BY <1>a, <1>c, <2>2, <2>3, <3>1 DEF TypeOK, OrderIds
      <4> QED
        BY <1>b, <2>1, <2>4, <3>1, <4>1 DEF Progress, Written, Writing, Before
    <3>2. CASE pc[v] # "items"
      BY <1>b, <2>1, <2>4, <3>2 DEF Progress, Written, Writing, Before
    <3> QED
      BY <3>1, <3>2
  <2>5. ASSUME pc' = [pc EXCEPT ![w] = "items"] PROVE Written(w)'
    <3>1. /\ pc'[w] = "items" /\ orderId'[w] = nextId /\ nextId' = nextId + 1 /\ inTx' = inTx
          /\ done'[w] = 0 /\ req' = req /\ conn' = conn /\ untied' = untied
      BY <1>a, <1>b, <2>5 DEF TypeOK
    <3>2. 0 <= req[w].items
      BY <1>a, <1>n, NoRequestFacts
    <3>3. conn[w] \in inTx => /\ pending'[conn[w]] = [id |-> nextId, row |-> row]
                              /\ orders' = orders
      BY <1>a, <1>c, <3>1 DEF TypeOK
    <3>4. conn[w] \notin inTx => req[w] \in untied /\ orders'[nextId] = row
      BY <1>a, <1>c, <3>1 DEF TypeOK, Progress, Written
    <3> QED
      BY <1>a, <3>1, <3>2, <3>3, <3>4 DEF TypeOK, Written, Before
  <2>6. \A u, v \in Workers : u # v /\ pc'[u] = "items" /\ pc'[v] = "items" => orderId'[v] # orderId'[u]
    <3>1. \A v \in Workers : v # w /\ pc'[v] = "items" => orderId'[v] \in OrderIds /\ orderId'[v] < nextId
      BY <2>1, <2>3
    <3>2. pc'[w] = "items" => orderId'[w] = nextId
      BY <1>b DEF TypeOK
    <3>3. \A v \in Workers : v # w /\ pc'[v] = "items" /\ pc'[w] = "items" => orderId'[v] # orderId'[w]
      BY <1>a, <3>1, <3>2 DEF OrderIds
    <3>4. \A u, v \in Workers : u # v /\ u # w /\ v # w /\ pc'[u] = "items" /\ pc'[v] = "items" =>
             orderId'[v] # orderId'[u]
      BY <2>1 DEF Progress
    <3> QED
      BY <3>3, <3>4
  <2>7. pc'[w] \in {"items", "rollback"} /\ (pc'[w] = "items" => pc' = [pc EXCEPT ![w] = "items"])
    BY <1>b DEF TypeOK
  <2>8. pc'[w] = "rollback" => Written(w)'
    BY DEF Written, Before
  <2> QED
    BY <2>4, <2>5, <2>6, <2>7, <2>8 DEF Progress
<1>8. Outcome'
  <2>1. ASSUME NEW v \in Workers, v # w PROVE Settled(v)'
    BY <1>b, <1>c, <1>d, <2>1 DEF Outcome, Settled, Before, TypeOK
  <2>2. pc'[w] \in {"items", "rollback"}
    BY <1>b DEF TypeOK
  <2>3. \A i \in OrderIds : orders'[i].by = req[w] => req[w] \in untied
    <3>1. \A i \in OrderIds : orders[i].by = req[w] => req[w] \in untied
      BY <1>a DEF Outcome, Settled, Before
    <3>2. orders' = orders \/ req[w] \in untied
      BY <1>a, <1>c DEF Progress, Written
    <3> QED
      BY <3>1, <3>2
  <2> QED
    BY <1>b, <2>1, <2>2, <2>3 DEF Outcome, Settled, Before
<1>9. WholeOrders' /\ AnswersAreTrue'
  <2>1. WholeOrders'
    <3>1. orders' = orders \/ (req[w] \in untied /\ orders' = [orders EXCEPT ![nextId] = row])
      BY <1>a, <1>c DEF Progress, Written
    <3> QED
      BY <1>b, <3>1 DEF WholeOrders, TypeOK
  <2>2. ToldOrdersExist'
    BY <1>b, <1>c, <1>d DEF AnswersAreTrue, ToldOrdersExist
  <2>3. FailedOrdersLeaveNothing'
    BY <1>a, <1>b, <1>c, <1>d DEF AnswersAreTrue, FailedOrdersLeaveNothing, TypeOK
  <2> QED
    BY <2>1, <2>2, <2>3 DEF AnswersAreTrue
<1> QED
  BY <1>1, <1>2, <1>3, <1>4, <1>5, <1>6, <1>7, <1>8, <1>9

LEMMA InsertItemStep ==
  ASSUME Inv, NEW w \in Workers, at[w] = "idle", InsertItem(w), UNCHANGED queryVars
  PROVE  Inv'
<1> USE DEF Inv, Typed
<1>n. MaxRequests \in Nat /\ MaxFailures \in Nat /\ MaxThrows \in Nat /\ MaxItems \in Nat \ {0}
  BY BoundsAssumption
<1> DEFINE row == [by |-> req[w], items |-> done[w] + 1]
<1>a. /\ pc[w] = "items" /\ conn[w] \in Conns /\ req[w] \in Requests
      /\ done[w] \in 0 .. MaxItems /\ done[w] + 1 \in 0 .. MaxItems /\ done[w] + 1 <= req[w].items
      /\ orderId[w] \in OrderIds /\ orderId[w] < nextId
      /\ orders[orderId[w]] = NoOrder \/ orders[orderId[w]].by = req[w]
      /\ conn[w] \notin inTx => req[w] \in untied /\ orders[orderId[w]].by = req[w]
      /\ [Current(w) EXCEPT !.items = @ + 1] = row
  <2>1. pc[w] = "items" /\ done[w] < req[w].items
    BY DEF InsertItem
  <2>2. conn[w] \in Conns
    BY <2>1 DEF TypeOK, Apart, Writing
  <2>3. req[w] \in Requests
    BY <2>1 DEF TypeOK, Numbered
  <2>4. done[w] \in 0 .. MaxItems /\ req[w].items \in 1 .. MaxItems
    BY <2>3, NoRequestFacts DEF TypeOK
  <2>5. done[w] + 1 \in 0 .. MaxItems /\ done[w] + 1 <= req[w].items
    BY <2>1, <2>4, <1>n
  <2>6. Written(w)
    BY DEF Progress
  <2>7. Current(w) = [by |-> req[w], items |-> done[w]]
    BY <2>1, <2>6 DEF Current, Written
  <2>8. [Current(w) EXCEPT !.items = @ + 1] = row
    BY <2>7
  <2> QED
    BY <2>1, <2>2, <2>3, <2>4, <2>5, <2>6, <2>8 DEF Written
<1>b. /\ UNCHANGED <<nextId, free, req, conn, orderId, told, untied, unsure, requests, throws>>
      /\ failures' \in 0 .. MaxFailures
      /\ \/ UNCHANGED pc /\ done' = [done EXCEPT ![w] = done[w] + 1]
         \/ pc' = [pc EXCEPT ![w] = "rollback"] /\ done' = done
  <2>1. failures \in 0 .. MaxFailures /\ (failures < MaxFailures => failures + 1 \in 0 .. MaxFailures)
    BY <1>n DEF TypeOK
  <2> QED
    BY <1>n, <2>1 DEF InsertItem, history
\* It writes into the transaction, writes for all to see, or writes nothing.
<1>c. \/ /\ conn[w] \in inTx /\ UNCHANGED pc /\ done' = [done EXCEPT ![w] = done[w] + 1]
         /\ pending' = [pending EXCEPT ![conn[w]] = [id |-> orderId[w], row |-> row]]
         /\ UNCHANGED <<orders, inTx>>
      \/ /\ conn[w] \notin inTx
         /\ orders' = [orders EXCEPT ![orderId[w]] = row]
         /\ UNCHANGED <<pending, inTx>>
      \/ /\ pc' = [pc EXCEPT ![w] = "rollback"]
         /\ UNCHANGED orders
         /\ \/ UNCHANGED <<inTx, pending>>
            \/ inTx' = inTx \ {conn[w]} /\ pending' = [pending EXCEPT ![conn[w]] = Nothing]
  <2> HIDE DEF row
  <2> QED
    BY <1>a DEF InsertItem, Write, Broken, Discard
<1>d. ASSUME orders' = [orders EXCEPT ![orderId[w]] = row]
      PROVE  /\ orders' \in [OrderIds -> Rows \cup {NoOrder}]
             /\ \A j \in OrderIds : orders'[j].by.number <= requests
             /\ \A m \in told : m.by # req[w]
             /\ \A m \in told : m.kind # "fail" /\ m.by \notin unsure => orders'[m.id] = orders[m.id]
             /\ \A v \in Workers : \A j \in OrderIds :
                   v # w /\ pc[v] # "idle" /\ orders'[j].by = req[v] => orders[j].by = req[v]
             /\ \A v \in Workers : pc[v] \in {"notify", "succeed"} /\ req[v] \notin unsure =>
                   orders'[orderId[v]] = orders[orderId[v]]
  <2>1. pc[w] \in {"order", "items"} /\ Inv
    BY <1>a
  <2> HIDE DEF Inv, Typed
  <2> QED
    BY <1>a, <1>d, <2>1, OwnRow
<1>1. TypeOK'
  <2>1. pc' \in [Workers -> Locations] /\ done' \in [Workers -> 0 .. MaxItems]
    BY <1>a, <1>b DEF TypeOK, Locations
  <2>3. row \in Rows
    BY <1>a, <1>n DEF Rows
  <2>4. [id |-> orderId[w], row |-> row] \in Pending
    BY <1>a, <2>3 DEF Pending
  <2>5. pending' \in [Conns -> Pending \cup {Nothing}] /\ inTx' \subseteq Conns
    BY <1>a, <1>c, <2>4 DEF TypeOK
  <2>6. orders' \in [OrderIds -> Rows \cup {NoOrder}]
    BY <1>c, <1>d DEF TypeOK
  <2> QED
    BY <1>b, <2>1, <2>5, <2>6 DEF TypeOK
<1>2. QueryTypes' /\ Held'
  BY <1>b DEF queryVars, QueryTypes, Held
<1>3. Apart'
  BY <1>a, <1>b DEF TypeOK, queryVars, Apart, Writing
<1>4. Sessions'
  <2>1. inTx' \subseteq inTx /\ \A c \in Conns : c # conn[w] => pending'[c] = pending[c]
    BY <1>a, <1>c DEF TypeOK
  <2>2. \A c \in Conns : c \notin inTx' => pending'[c] = Nothing
    BY <1>a, <1>c, <2>1 DEF TypeOK, Sessions
  <2>3. \A v \in Workers : pc'[v] = "start" => pc[v] = "start"
    BY <1>b DEF TypeOK
  <2> QED
    BY <1>b, <2>1, <2>2, <2>3 DEF queryVars, Sessions
<1>5. Numbered'
  <2>1. \A j \in OrderIds : orders'[j].by.number <= requests
    BY <1>c, <1>d DEF Numbered
  <2>2. \A v \in Workers : (pc'[v] = "idle" <=> pc[v] = "idle") /\ (pc[v] = "succeed" => pc'[v] = "succeed")
    BY <1>a, <1>b DEF TypeOK
  <2> QED
    BY <1>b, <2>1, <2>2 DEF Numbered
<1>6. Counted'
  <2>1. Cardinality(Waiting') = Cardinality(Waiting)
    <3>1. Waiting' = Waiting
      BY <1>a, <1>b DEF TypeOK, Waiting, Before
    <3> QED
      BY <3>1
  <2>2. \A i \in OrderIds : i >= nextId => orders'[i] = orders[i]
    <3>1. \A i \in OrderIds : i >= nextId => i # orderId[w]
      BY <1>a DEF TypeOK, OrderIds
    <3> QED
      BY <1>c, <3>1 DEF TypeOK
  <2> QED
    BY <1>b, <2>1, <2>2 DEF Counted
<1>7. Progress'
  <2>1. ASSUME NEW v \in Workers, v # w
        PROVE  /\ pc'[v] = pc[v] /\ done'[v] = done[v] /\ (conn[v] \in inTx' <=> conn[v] \in inTx)
               /\ pc[v] \in Writing => pending'[conn[v]] = pending[conn[v]]
               /\ pc[v] = "items" => orders'[orderId[v]] = orders[orderId[v]]
    <3>1. conn[v] # conn[w]
      BY <1>a, <2>1, ConnAssumption DEF Apart
    <3>2. pc[v] \in Writing => conn[v] \in Conns
      BY DEF Apart, TypeOK
    <3>3. pc[v] = "items" => orderId[v] # orderId[w] /\ orderId[v] \in OrderIds
      BY <1>a, <2>1 DEF Progress, Written
    <3>4. pc'[v] = pc[v] /\ done'[v] = done[v]
      BY <1>b, <2>1 DEF TypeOK
    <3>5. conn[v] \in inTx' <=> conn[v] \in inTx
      BY <1>c, <3>1
    <3>6. pc[v] \in Writing => pending'[conn[v]] = pending[conn[v]]
      BY <1>c, <3>1, <3>2 DEF TypeOK
    <3>7. pc[v] = "items" => orders'[orderId[v]] = orders[orderId[v]]
      BY <1>c, <3>3 DEF TypeOK
    <3> QED
      BY <3>4, <3>5, <3>6, <3>7
  <2>4. ASSUME NEW v \in Workers, v # w PROVE Written(v)'
    <3>1. Written(v)
      BY DEF Progress
    <3> QED
      BY <1>b, <2>1, <2>4, <3>1 DEF Written, Writing, Before
  <2>5. ASSUME pc' = pc PROVE Written(w)'
    <3>1. done'[w] = done[w] + 1
      BY <1>a, <1>b, <2>5 DEF TypeOK
    <3>2. pc'[w] = "items" /\ inTx' = inTx
      BY <1>a, <1>c, <2>5 DEF TypeOK
    <3>3. conn[w] \in inTx => /\ pending'[conn[w]] = [id |-> orderId[w], row |-> row]
                              /\ orders' = orders /\ orders[orderId[w]] = NoOrder
      BY <1>a, <1>c, <2>5 DEF TypeOK, Progress, Written
    <3>4. conn[w] \notin inTx => req[w] \in untied /\ orders'[orderId[w]] = row
      BY <1>a, <1>c, <2>5 DEF TypeOK
    <3> QED
      BY <1>a, <1>b, <3>1, <3>2, <3>3, <3>4 DEF Written, Before
  <2>6. \A u, v \in Workers : u # v /\ pc'[u] = "items" /\ pc'[v] = "items" => orderId'[v] # orderId'[u]
    BY <1>b DEF Progress, TypeOK
  <2>7. pc'[w] = "rollback" => Written(w)'
    BY DEF Written, Before
  <2>8. pc' = pc \/ pc'[w] = "rollback"
    BY <1>b DEF TypeOK
  <2> QED
    BY <2>4, <2>5, <2>6, <2>7, <2>8 DEF Progress
<1>8. Outcome'
  <2>1. ASSUME NEW v \in Workers, v # w PROVE Settled(v)'
    BY <1>b, <1>c, <1>d, <2>1 DEF Outcome, Settled, Before, TypeOK
  <2>2. pc'[w] \in {"items", "rollback"}
    BY <1>a, <1>b DEF TypeOK
  <2>3. \A i \in OrderIds : orders'[i].by = req[w] => req[w] \in untied
    <3>1. \A i \in OrderIds : orders[i].by = req[w] => req[w] \in untied
      BY <1>a DEF Outcome, Settled
    <3> QED
      BY <1>a, <1>c, <3>1
  <2> QED
    BY <1>b, <2>1, <2>2, <2>3 DEF Outcome, Settled, Before
<1>9. WholeOrders' /\ AnswersAreTrue'
  <2>1. WholeOrders'
    <3>1. orders' = orders \/ (req[w] \in untied /\ orders' = [orders EXCEPT ![orderId[w]] = row])
      BY <1>a, <1>c
    <3> QED
      BY <1>b, <3>1 DEF WholeOrders, TypeOK
  <2>2. ToldOrdersExist'
    BY <1>b, <1>c, <1>d DEF AnswersAreTrue, ToldOrdersExist
  <2>3. FailedOrdersLeaveNothing'
    BY <1>a, <1>b, <1>c, <1>d DEF AnswersAreTrue, FailedOrdersLeaveNothing, TypeOK
  <2> QED
    BY <2>1, <2>2, <2>3 DEF AnswersAreTrue
<1> QED
  BY <1>1, <1>2, <1>3, <1>4, <1>5, <1>6, <1>7, <1>8, <1>9

LEMMA ThrowStep ==
  ASSUME Inv, NEW w \in Workers, at[w] = "idle", Throw(w), UNCHANGED queryVars
  PROVE  Inv'
<1> USE DEF Inv, Typed
<1>n. MaxRequests \in Nat /\ MaxFailures \in Nat /\ MaxThrows \in Nat /\ MaxItems \in Nat \ {0}
  BY BoundsAssumption
<1>a. /\ pc[w] = "items" /\ pc' = [pc EXCEPT ![w] = "idle"]
      /\ req' = [req EXCEPT ![w] = NoRequest] /\ conn' = [conn EXCEPT ![w] = NoConn]
      /\ done' = [done EXCEPT ![w] = 0] /\ orderId' = [orderId EXCEPT ![w] = 0]
      /\ UNCHANGED <<orders, nextId, inTx, pending, free, told, untied, unsure, requests, failures>>
      /\ throws' \in 0 .. MaxThrows
  BY <1>n DEF Throw, Forget, TypeOK, database, history
<1>1. TypeOK'
  BY <1>a, <1>n DEF TypeOK, Locations
<1>2. QueryTypes' /\ Held'
  BY <1>a DEF queryVars, QueryTypes, Held
<1>3. Apart'
  <2>1. \A v \in Workers : v # w => conn'[v] = conn[v] /\ pc'[v] = pc[v]
    BY <1>a DEF TypeOK
  <2>2. conn'[w] = NoConn /\ pc'[w] \notin Writing
    BY <1>a DEF TypeOK, Writing
  <2>3. NoConn \notin free
    BY ConnAssumption DEF TypeOK
  <2> QED
    BY <1>a, <2>1, <2>2, <2>3 DEF queryVars, Apart
<1>4. Sessions'
  BY <1>a DEF TypeOK, queryVars, Sessions
<1>5. Numbered'
  BY <1>a, <1>n, NoRequestFacts DEF TypeOK, Numbered
<1>6. Counted'
  BY <1>a, <1>n, WaitingMoves, WaitingFinite DEF TypeOK, Counted, Before
<1>7. Progress'
  BY <1>a DEF TypeOK, Progress, Written, Before
<1>8. Outcome'
  BY <1>a DEF TypeOK, Outcome, Settled, Before
<1>9. WholeOrders' /\ AnswersAreTrue'
  BY <1>a DEF WholeOrders, AnswersAreTrue, ToldOrdersExist, FailedOrdersLeaveNothing
<1> QED
  BY <1>1, <1>2, <1>3, <1>4, <1>5, <1>6, <1>7, <1>8, <1>9

LEMMA RollbackStep ==
  ASSUME Inv, NEW w \in Workers, at[w] = "idle", Rollback(w), UNCHANGED queryVars
  PROVE  Inv'
<1> USE DEF Inv, Typed
<1>n. MaxRequests \in Nat /\ MaxFailures \in Nat /\ MaxThrows \in Nat /\ MaxItems \in Nat \ {0}
  BY BoundsAssumption
<1>a. pc[w] = "rollback" /\ conn[w] \in Conns
  BY DEF Rollback, TypeOK, Apart, Writing
<1>b. /\ pc' = [pc EXCEPT ![w] = "fail"]
      /\ inTx' = inTx \ {conn[w]} /\ pending' = [pending EXCEPT ![conn[w]] = Nothing]
      /\ free' = free \cup {conn[w]} /\ conn' = [conn EXCEPT ![w] = NoConn]
      /\ UNCHANGED <<orders, nextId, req, done, orderId, told, untied, unsure, requests,
                     failures, throws>>
  BY DEF Rollback, Discard, Release, history, counts
<1>c. ASSUME NEW v \in Workers, v # w
      PROVE  conn[v] # conn[w] /\ borrowed[v] # conn[w] /\ conn'[v] = conn[v] /\ pc'[v] = pc[v]
  <2>1. conn[v] # conn[w] /\ borrowed[v] # conn[w]
    BY <1>a, <1>c, ConnAssumption DEF Apart
  <2> QED
    BY <1>b, <1>c, <2>1 DEF TypeOK
<1>d. borrowed[w] # conn[w] /\ conn'[w] = NoConn /\ pc'[w] = "fail"
  BY <1>a, <1>b, ConnAssumption DEF TypeOK, Apart
<1>1. TypeOK'
  BY <1>a, <1>b DEF TypeOK, Locations
<1>2. QueryTypes' /\ Held'
  <2>1. \A v \in Workers : borrowed[v] \notin free'
    BY <1>b, <1>c, <1>d DEF Held
  <2> QED
    BY <2>1 DEF queryVars, QueryTypes, Held
<1>3. Apart'
  <2>1. \A v \in Workers : conn'[v] \notin free'
    BY <1>a, <1>b, <1>c, <1>d, ConnAssumption DEF Apart, TypeOK
  <2>2. \A v \in Workers : conn'[v] # NoConn <=> pc'[v] \in Writing
    BY <1>c, <1>d DEF Apart, Writing
  <2>3. \A v \in Workers : conn'[v] = conn[v] \/ (v = w /\ conn'[v] = NoConn)
    BY <1>c, <1>d
  <2> QED
    BY <2>1, <2>2, <2>3 DEF queryVars, Apart
<1>4. Sessions'
  BY <1>a, <1>b, <1>c, <1>d DEF TypeOK, queryVars, Sessions
<1>5. Numbered'
  BY <1>a, <1>b DEF TypeOK, Numbered
<1>6. Counted'
  <2>1. Waiting' = Waiting
    BY <1>a, <1>c, <1>d DEF Waiting, Before
  <2> QED
    BY <1>b, <2>1 DEF Counted
<1>7. Progress'
  <2>1. ASSUME NEW v \in Workers, v # w PROVE Written(v)'
    <3>1. Written(v)
      BY DEF Progress
    <3>2. pc[v] \in Writing => conn[v] \in Conns
      BY DEF Apart, TypeOK
    <3> QED
      BY <1>a, <1>b, <1>c, <2>1, <3>1, <3>2 DEF Written, Writing, Before, TypeOK
  <2>2. Written(w)'
    BY <1>d DEF Written, Before
  <2>3. \A u, v \in Workers : u # v /\ pc'[u] = "items" /\ pc'[v] = "items" => orderId'[v] # orderId'[u]
    BY <1>b DEF Progress, TypeOK
  <2> QED
    BY <2>1, <2>2, <2>3 DEF Progress
<1>8. Outcome'
  BY <1>a, <1>b, <1>c, <1>d DEF Outcome, Settled, Before
<1>9. WholeOrders' /\ AnswersAreTrue'
  BY <1>b DEF WholeOrders, AnswersAreTrue, ToldOrdersExist, FailedOrdersLeaveNothing
<1> QED
  BY <1>1, <1>2, <1>3, <1>4, <1>5, <1>6, <1>7, <1>8, <1>9

LEMMA CommitStep ==
  ASSUME Inv, NEW w \in Workers, at[w] = "idle", Commit(w), UNCHANGED queryVars
  PROVE  Inv'
<1> USE DEF Inv, Typed
<1>n. MaxRequests \in Nat /\ MaxFailures \in Nat /\ MaxThrows \in Nat /\ MaxItems \in Nat \ {0}
  BY BoundsAssumption
<1> DEFINE row == [by |-> req[w], items |-> req[w].items]
<1>a. /\ pc[w] = "items" /\ conn[w] \in Conns /\ req[w] \in Requests
      /\ req[w].items \in 0 .. MaxItems /\ done[w] = req[w].items
      /\ orderId[w] \in OrderIds /\ orderId[w] < nextId
      /\ orders[orderId[w]] = NoOrder \/ orders[orderId[w]].by = req[w]
      /\ conn[w] \in inTx => pending[conn[w]] = [id |-> orderId[w], row |-> row]
      /\ conn[w] \notin inTx => pending[conn[w]] = Nothing /\ orders[orderId[w]] = row
  <2>1. pc[w] = "items" /\ done[w] = req[w].items
    BY DEF Commit
  <2>2. conn[w] \in Conns
    BY <2>1 DEF TypeOK, Apart, Writing
  <2>3. req[w] \in Requests
    BY <2>1 DEF TypeOK, Numbered
  <2>4. req[w].items \in 0 .. MaxItems
    BY <2>3, <1>n, NoRequestFacts
  <2>5. Written(w)
    BY DEF Progress
  <2>6. conn[w] \notin inTx => pending[conn[w]] = Nothing
    BY <2>2 DEF Sessions
  <2> QED
    BY <2>1, <2>2, <2>3, <2>4, <2>5, <2>6 DEF Written
<1>b. /\ pc' = [pc EXCEPT ![w] = "notify"]
      /\ inTx' = inTx \ {conn[w]} /\ pending' = [pending EXCEPT ![conn[w]] = Nothing]
      /\ free' = free \cup {conn[w]} /\ conn' = [conn EXCEPT ![w] = NoConn]
      /\ UNCHANGED <<nextId, req, done, orderId, told, untied, requests, throws>>
      /\ failures' \in 0 .. MaxFailures
      /\ unsure' = unsure \/ unsure' = unsure \cup {req[w]}
  <2>1. failures \in 0 .. MaxFailures /\ (failures < MaxFailures => failures + 1 \in 0 .. MaxFailures)
    BY <1>n DEF TypeOK
  <2> QED
    BY <1>n, <2>1 DEF Commit, Discard, Release
\* The order is there as a whole, or the worker is unsure of it.
<1>c. \/ orders' = [orders EXCEPT ![orderId[w]] = row]
      \/ orders' = orders /\ unsure' = unsure \cup {req[w]}
      \/ orders' = orders /\ orders[orderId[w]] = row
  <2>1. conn[w] \in inTx /\ Flush(conn[w]) => orders' = [orders EXCEPT ![orderId[w]] = row]
    <3>1. orderId[w] # 0
      BY <1>a DEF OrderIds
    <3>2. conn[w] \in inTx => /\ pending[conn[w]] # Nothing
                              /\ pending[conn[w]].id = orderId[w] /\ pending[conn[w]].row = row
      BY <1>a, <3>1 DEF Nothing
    <3> QED
      BY <3>2 DEF Flush
  <2>2. conn[w] \notin inTx /\ Flush(conn[w]) => orders' = orders /\ orders[orderId[w]] = row
    BY <1>a DEF Flush
  <2> QED
    BY <2>1, <2>2 DEF Commit
<1>d. ASSUME orders' = [orders EXCEPT ![orderId[w]] = row]
      PROVE  /\ orders' \in [OrderIds -> Rows \cup {NoOrder}]
             /\ \A j \in OrderIds : orders'[j].by.number <= requests
             /\ \A m \in told : m.by # req[w]
             /\ \A m \in told : m.kind # "fail" /\ m.by \notin unsure => orders'[m.id] = orders[m.id]
             /\ \A v \in Workers : \A j \in OrderIds :
                   v # w /\ pc[v] # "idle" /\ orders'[j].by = req[v] => orders[j].by = req[v]
             /\ \A v \in Workers : pc[v] \in {"notify", "succeed"} /\ req[v] \notin unsure =>
                   orders'[orderId[v]] = orders[orderId[v]]
  <2>1. pc[w] \in {"order", "items"} /\ Inv
    BY <1>a
  <2> HIDE DEF Inv, Typed
  <2> QED
    BY <1>a, <1>d, <2>1, OwnRow
<1>e. ASSUME NEW v \in Workers, v # w
      PROVE  conn[v] # conn[w] /\ borrowed[v] # conn[w] /\ conn'[v] = conn[v] /\ pc'[v] = pc[v]
  <2>1. conn[v] # conn[w] /\ borrowed[v] # conn[w]
    BY <1>a, <1>e, ConnAssumption DEF Apart
  <2> QED
    BY <1>b, <1>e, <2>1 DEF TypeOK
<1>f. borrowed[w] # conn[w] /\ conn'[w] = NoConn /\ pc'[w] = "notify"
  BY <1>a, <1>b, ConnAssumption DEF TypeOK, Apart
<1>1. TypeOK'
  <2>1. orders' \in [OrderIds -> Rows \cup {NoOrder}]
    BY <1>c, <1>d DEF TypeOK
  <2>2. pending' \in [Conns -> Pending \cup {Nothing}] /\ pc' \in [Workers -> Locations]
    BY <1>b DEF TypeOK, Locations
  <2>3. unsure' \subseteq Requests
    BY <1>a, <1>b DEF TypeOK
  <2> QED
    BY <1>a, <1>b, <2>1, <2>2, <2>3 DEF TypeOK
<1>2. QueryTypes' /\ Held'
  <2>1. \A v \in Workers : borrowed[v] \notin free'
    BY <1>b, <1>e, <1>f DEF Held
  <2> QED
    BY <2>1 DEF queryVars, QueryTypes, Held
<1>3. Apart'
  <2>1. \A v \in Workers : conn'[v] \notin free'
    BY <1>a, <1>b, <1>e, <1>f, ConnAssumption DEF Apart, TypeOK
  <2>2. \A v \in Workers : conn'[v] # NoConn <=> pc'[v] \in Writing
    BY <1>e, <1>f DEF Apart, Writing
  <2>3. \A v \in Workers : conn'[v] = conn[v] \/ (v = w /\ conn'[v] = NoConn)
    BY <1>e, <1>f
  <2> QED
    BY <2>1, <2>2, <2>3 DEF queryVars, Apart
<1>4. Sessions'
  BY <1>a, <1>b, <1>e, <1>f DEF TypeOK, queryVars, Sessions
<1>5. Numbered'
  <2>1. \A j \in OrderIds : orders'[j].by.number <= requests
    BY <1>c, <1>d DEF Numbered
  <2>2. \A v \in Workers : (pc'[v] = "idle" <=> pc[v] = "idle") /\ (pc[v] = "succeed" => pc'[v] = "succeed")
    BY <1>a, <1>e, <1>f
  <2> QED
    BY <1>b, <2>1, <2>2 DEF Numbered
<1>6. Counted'
  <2>1. Waiting' = Waiting
    BY <1>a, <1>e, <1>f DEF Waiting, Before
  <2>2. \A i \in OrderIds : i >= nextId => i # orderId[w]
    BY <1>a DEF TypeOK, OrderIds
  <2>3. \A i \in OrderIds : i >= nextId => orders'[i] = orders[i]
    BY <1>c, <2>2 DEF TypeOK
  <2> QED
    BY <1>b, <2>1, <2>3 DEF Counted
<1>7. Progress'
  <2>1. ASSUME NEW v \in Workers, v # w PROVE Written(v)'
    <3>1. Written(v)
      BY DEF Progress
    <3>2. pc[v] \in Writing => conn[v] \in Conns
      BY DEF Apart, TypeOK
    <3>3. pc[v] = "items" => orderId[v] # orderId[w] /\ orderId[v] \in OrderIds
      BY <1>a, <2>1 DEF Progress, Written
    <3>4. pc[v] = "items" => orders'[orderId[v]] = orders[orderId[v]]
      BY <1>c, <3>3 DEF TypeOK
    <3>5. pc[v] \in Writing => pending'[conn[v]] = pending[conn[v]]
      BY <1>b, <1>e, <2>1, <3>2 DEF TypeOK
    <3>6. conn[v] \in inTx' <=> conn[v] \in inTx
      BY <1>b, <1>e, <2>1
    <3> QED
      BY <1>b, <1>e, <2>1, <3>1, <3>4, <3>5, <3>6 DEF Written, Writing, Before
  <2>2. Written(w)'
    BY <1>f DEF Written, Before
  <2>3. \A u, v \in Workers : u # v /\ pc'[u] = "items" /\ pc'[v] = "items" => orderId'[v] # orderId'[u]
    BY <1>b DEF Progress, TypeOK
  <2> QED
    BY <2>1, <2>2, <2>3 DEF Progress
<1>8. Outcome'
  <2>1. ASSUME NEW v \in Workers, v # w PROVE Settled(v)'
    <3>1. Settled(v)
      BY DEF Outcome
    <3>2. pc[v] # "idle" => \A j \in OrderIds : orders'[j].by = req[v] => orders[j].by = req[v]
      BY <1>c, <1>d, <2>1
    <3>3. pc[v] \in {"notify", "succeed"} /\ req[v] \notin unsure => orders'[orderId[v]] = orders[orderId[v]]
      BY <1>c, <1>d
    <3> QED
      BY <1>b, <1>e, <2>1, <3>1, <3>2, <3>3 DEF Settled, Before
  <2>2. req[w] \notin unsure' => orders'[orderId[w]] = row
    BY <1>a, <1>c DEF TypeOK
  <2> QED
    BY <1>a, <1>b, <1>f, <2>1, <2>2 DEF Outcome, Settled, Before
<1>9. WholeOrders' /\ AnswersAreTrue'
  <2>1. WholeOrders'
    BY <1>b, <1>c DEF WholeOrders, TypeOK
  <2>2. ToldOrdersExist'
    BY <1>b, <1>c, <1>d DEF AnswersAreTrue, ToldOrdersExist
  <2>3. FailedOrdersLeaveNothing'
    BY <1>a, <1>b, <1>c, <1>d DEF AnswersAreTrue, FailedOrdersLeaveNothing, TypeOK
  <2> QED
    BY <2>1, <2>2, <2>3 DEF AnswersAreTrue
<1> QED
  BY <1>1, <1>2, <1>3, <1>4, <1>5, <1>6, <1>7, <1>8, <1>9

LEMMA NotifyStep ==
  ASSUME Inv, NEW w \in Workers, at[w] = "idle", Notify(w), UNCHANGED queryVars
  PROVE  Inv'
<1> USE DEF Inv, Typed
<1>n. MaxRequests \in Nat /\ MaxFailures \in Nat /\ MaxThrows \in Nat /\ MaxItems \in Nat \ {0}
  BY BoundsAssumption
<1> DEFINE notice == Message(w, "store")
<1>a. /\ pc[w] = "notify" /\ req[w] \in Requests /\ orderId[w] \in OrderIds
      /\ req[w] \notin unsure => orders[orderId[w]] = [by |-> req[w], items |-> req[w].items]
  BY DEF Notify, TypeOK, Numbered, Outcome, Settled
<1>b. /\ pc' = [pc EXCEPT ![w] = "succeed"]
      /\ told' = told \/ told' = told \cup {notice}
      /\ failures' \in 0 .. MaxFailures
      /\ UNCHANGED <<orders, nextId, inTx, pending, free, req, conn, done, orderId, untied, unsure,
                     requests, throws>>
  <2>1. failures \in 0 .. MaxFailures /\ (failures < MaxFailures => failures + 1 \in 0 .. MaxFailures)
    BY <1>n DEF TypeOK
  <2> QED
    BY <1>n, <2>1 DEF Notify, database
<1>c. notice.kind = "store" /\ notice.id = orderId[w] /\ notice.by = req[w]
  BY DEF Message
<1>1. TypeOK'
  BY <1>a, <1>b DEF TypeOK, Locations, Message
<1>2. QueryTypes' /\ Held'
  BY <1>b DEF queryVars, QueryTypes, Held
<1>3. Apart'
  BY <1>a, <1>b DEF TypeOK, queryVars, Apart, Writing
<1>4. Sessions'
  BY <1>b DEF TypeOK, queryVars, Sessions
<1>5. Numbered'
  <2>1. \A v \in Workers : (pc'[v] = "idle" <=> pc[v] = "idle") /\ (pc[v] = "succeed" => pc'[v] = "succeed")
    BY <1>a, <1>b DEF TypeOK
  <2>2. pc'[w] = "succeed" /\ req[w].number <= requests
    BY <1>b DEF TypeOK, Numbered
  <2>3. \A v \in Workers : v # w => req[v].number # req[w].number
    BY <1>a, NoRequestFacts DEF Numbered
  <2> QED
    BY <1>b, <1>c, <2>1, <2>2, <2>3 DEF Numbered
<1>6. Counted'
  <2>1. Waiting' = Waiting
    BY <1>a, <1>b DEF TypeOK, Waiting, Before
  <2> QED
    BY <1>b, <2>1 DEF Counted
<1>7. Progress'
  BY <1>a, <1>b DEF TypeOK, Progress, Written, Before
<1>8. Outcome'
  BY <1>a, <1>b DEF TypeOK, Outcome, Settled, Before
<1>9. WholeOrders' /\ AnswersAreTrue'
  BY <1>a, <1>b, <1>c DEF WholeOrders, AnswersAreTrue, ToldOrdersExist, FailedOrdersLeaveNothing
<1> QED
  BY <1>1, <1>2, <1>3, <1>4, <1>5, <1>6, <1>7, <1>8, <1>9

LEMMA ReplyStep ==
  ASSUME Inv, NEW w \in Workers, at[w] = "idle", Reply(w), UNCHANGED queryVars
  PROVE  Inv'
<1> USE DEF Inv, Typed
<1>n. MaxRequests \in Nat /\ MaxFailures \in Nat /\ MaxThrows \in Nat /\ MaxItems \in Nat \ {0}
  BY BoundsAssumption
<1> DEFINE answer == Message(w, pc[w])
<1>a. /\ pc[w] \in {"succeed", "fail"} /\ req[w] \in Requests /\ Settled(w)
      /\ conn[w] = NoConn
  BY DEF Reply, TypeOK, Numbered, Outcome, Apart, Writing
<1>b. /\ told' = told \cup {answer}
      /\ pc' = [pc EXCEPT ![w] = "idle"]
      /\ req' = [req EXCEPT ![w] = NoRequest] /\ conn' = [conn EXCEPT ![w] = NoConn]
      /\ done' = [done EXCEPT ![w] = 0] /\ orderId' = [orderId EXCEPT ![w] = 0]
      /\ UNCHANGED <<orders, nextId, inTx, pending, free, untied, unsure, requests, failures, throws>>
  BY DEF Reply, Forget, database, counts
<1>c. answer.kind = pc[w] /\ answer.id = orderId[w] /\ answer.by = req[w]
  BY DEF Message
<1>d. conn' = conn
  BY <1>a, <1>b DEF TypeOK
<1>1. TypeOK'
  <2>1. answer \in [kind : {"store", "succeed", "fail"}, id : {0} \cup OrderIds, by : Requests]
    BY <1>a DEF Message, TypeOK
  <2> QED
    BY <1>a, <1>b, <1>n, <2>1 DEF TypeOK, Locations
<1>2. QueryTypes' /\ Held'
  BY <1>b DEF queryVars, QueryTypes, Held
<1>3. Apart'
  BY <1>a, <1>b, <1>d DEF TypeOK, queryVars, Apart, Writing
<1>4. Sessions'
  BY <1>b, <1>d DEF TypeOK, queryVars, Sessions
<1>5. Numbered'
  <2>1. \A v \in Workers : v # w => req[v].number # req[w].number
    BY <1>a, NoRequestFacts DEF Numbered
  <2>2. \A v \in Workers : v # w => pc'[v] = pc[v] /\ req'[v] = req[v]
    BY <1>b DEF TypeOK
  <2>3. pc'[w] = "idle" /\ req'[w] = NoRequest /\ req[w].number >= 1 /\ req[w].number <= requests
    BY <1>a, <1>b, NoRequestFacts DEF TypeOK, Numbered
  <2>4. \A m \in told : m.by.number >= 1
    BY NoRequestFacts DEF TypeOK
  <2>5. \A m \in told' : /\ m.by.number <= requests
                         /\ \A v \in Workers : m.by.number = req'[v].number =>
                                                  pc'[v] = "succeed" /\ m.kind = "store"
    <3>1. ASSUME NEW m \in told PROVE /\ m.by.number <= requests
                                      /\ \A v \in Workers : m.by.number = req'[v].number =>
                                                               pc'[v] = "succeed" /\ m.kind = "store"
      BY <2>2, <2>3, <2>4, NoRequestFacts DEF Numbered
    <3>2. \A v \in Workers : req'[v].number # req[w].number
      BY <2>1, <2>2, <2>3, NoRequestFacts
    <3> QED
      BY <1>b, <1>c, <2>3, <3>1, <3>2
  <2>6. requests \in Nat
    BY DEF TypeOK
  <2>7. \A v \in Workers : /\ pc'[v] = "idle" <=> req'[v] = NoRequest
                           /\ req'[v].number <= requests
    BY <2>2, <2>3, <2>6, NoRequestFacts DEF Numbered
  <2>8. \A u, v \in Workers : u # v /\ req'[u] # NoRequest => req'[u].number # req'[v].number
    <3>1. \A u \in Workers : u # w /\ req[u] # NoRequest => req[u].number >= 1
      BY NoRequestFacts DEF TypeOK
    <3> QED
      BY <2>2, <2>3, <3>1, NoRequestFacts DEF Numbered
  <2> QED
    BY <1>b, <2>5, <2>7, <2>8 DEF Numbered
<1>6. Counted'
  <2>1. Waiting' = Waiting
    BY <1>a, <1>b DEF TypeOK, Waiting, Before
  <2> QED
    BY <1>b, <2>1 DEF Counted
<1>7. Progress'
  BY <1>a, <1>b DEF TypeOK, Progress, Written, Before
<1>8. Outcome'
  BY <1>a, <1>b DEF TypeOK, Outcome, Settled, Before
<1>9. WholeOrders' /\ AnswersAreTrue'
  <2>1. WholeOrders'
    BY <1>b DEF WholeOrders
  <2>2. ToldOrdersExist'
    BY <1>a, <1>b, <1>c DEF AnswersAreTrue, ToldOrdersExist, Settled
  <2>3. FailedOrdersLeaveNothing'
    BY <1>a, <1>b, <1>c DEF AnswersAreTrue, FailedOrdersLeaveNothing, Settled
  <2> QED
    BY <2>1, <2>2, <2>3 DEF AnswersAreTrue
<1> QED
  BY <1>1, <1>2, <1>3, <1>4, <1>5, <1>6, <1>7, <1>8, <1>9

(* A worker's step in a request that reads, or that writes one row, moves at most one connection. *)
LEMMA QueryKeeps ==
  ASSUME Inv, NEW w \in Workers, Quiet(w)
  PROVE  Inv'
<1> USE DEF Inv, Typed, Quiet
<1>n. MaxRequests \in Nat
  BY BoundsAssumption
<1>a. /\ UNCHANGED <<orders, nextId, inTx, pending, pc, req, conn, done, orderId, throws>>
      /\ UNCHANGED <<told, untied, unsure>>
      /\ requests \in Nat /\ requests' \in 0 .. MaxRequests /\ requests <= requests'
  BY <1>n DEF placing, history, TypeOK
<1>b. /\ \A v \in Workers : v # w => borrowed'[v] = borrowed[v] /\ at'[v] = at[v]
      /\ borrowed'[w] # NoConn <=> at'[w] \in Holding
      /\ borrowed'[w] \in {borrowed[w], NoConn} \cup free
      /\ free' \subseteq free \cup ({borrowed[w]} \ {NoConn})
      /\ borrowed'[w] # NoConn => borrowed'[w] \notin free'
      /\ borrowed[w] \in free' => borrowed'[w] = NoConn
  BY ConnAssumption DEF Hands, QueryTypes, Held, TypeOK, Holding
<1>1. TypeOK'
  <2>1. free' \subseteq Conns
    BY <1>b DEF TypeOK, QueryTypes
  <2> QED
    BY <1>a, <2>1 DEF TypeOK
<1>2. Held'
  <2>1. \A v \in Workers : v # w => borrowed[v] \notin free'
    BY <1>b DEF Held, Apart
  <2>2. NoConn \notin free'
    BY <1>1, ConnAssumption DEF TypeOK
  <2> QED
    BY <1>b, <2>1, <2>2 DEF Held
<1>3. Apart'
  <2>1. \A v \in Workers : conn[v] \notin free'
    BY <1>b, <1>1, ConnAssumption DEF Apart, TypeOK
  <2>2. \A u, v \in Workers : conn[u] # NoConn => conn[u] # borrowed'[v]
    BY <1>b DEF Apart
  <2>3. \A u, v \in Workers : u # v /\ borrowed'[u] # NoConn => borrowed'[u] # borrowed'[v]
    BY <1>b DEF Apart, Held
  <2> QED
    BY <1>a, <2>1, <2>2, <2>3 DEF Apart
<1>4. Sessions'
  <2>1. NoConn \notin inTx
    BY ConnAssumption DEF TypeOK
  <2> QED
    BY <1>a, <1>b, <2>1 DEF Sessions
<1>5. Numbered'
  <2>1. \A v \in Workers : req[v].number <= requests'
    BY <1>a, NoRequestFacts DEF Numbered, TypeOK
  <2>2. \A i \in OrderIds : orders[i].by.number <= requests'
    <3>1. \A i \in OrderIds : orders[i].by.number \in Nat
      BY NoRequestFacts DEF TypeOK
    <3> QED
      BY <1>a, <3>1 DEF Numbered
  <2>3. \A m \in told : m.by.number <= requests'
    BY <1>a, NoRequestFacts DEF Numbered, TypeOK
  <2> QED
    BY <1>a, <2>1, <2>2, <2>3 DEF Numbered
<1>6. Counted'
  <2>1. Waiting' = Waiting
    BY <1>a DEF Waiting
  <2> QED
    BY <1>a, <1>n, <2>1, WaitingFinite DEF Counted, TypeOK
<1>7. Progress'
  BY <1>a DEF Progress, Written
<1>8. Outcome'
  BY <1>a DEF Outcome, Settled
<1>9. WholeOrders' /\ AnswersAreTrue'
  BY <1>a DEF WholeOrders, AnswersAreTrue, ToldOrdersExist, FailedOrdersLeaveNothing
<1> QED
  BY <1>1, <1>2, <1>3, <1>4, <1>5, <1>6, <1>7, <1>8, <1>9

LEMMA AnswerHands ==
  ASSUME Typed, NEW w \in Workers, NEW s \in BOOLEAN, AnswerWith(w, s)
  PROVE  /\ Hands(w) /\ at' = [at EXCEPT ![w] = "reply"]
         /\ at' \in [Workers -> Places]
         /\ borrowed' \in [Workers -> Conns \cup {NoConn}]
         /\ ok' \in [Workers -> BOOLEAN]
<1> USE DEF Typed
<1>1. /\ at' = [at EXCEPT ![w] = "reply"] /\ at' \in [Workers -> Places]
      /\ borrowed' = [borrowed EXCEPT ![w] = NoConn]
      /\ borrowed' \in [Workers -> Conns \cup {NoConn}] /\ ok' \in [Workers -> BOOLEAN]
      /\ free' = IF borrowed[w] = NoConn THEN free ELSE free \cup {borrowed[w]}
  BY DEF AnswerWith, Move, QueryTypes, Places
<1>2. CASE borrowed[w] = NoConn
  <2>1. at[w] \notin Holding /\ borrowed' = borrowed
    BY <1>1, <1>2 DEF QueryTypes, Held
  <2> QED
    BY <1>1, <1>2, <2>1 DEF Hands, Holding
<1>3. CASE borrowed[w] # NoConn
  BY <1>1, <1>3 DEF Hands, Holding, Places
<1> QED
  BY <1>1, <1>2, <1>3

LEMMA GivesUpHands ==
  ASSUME Typed, NEW w \in Workers, GivesUp(w)
  PROVE  /\ \E s \in BOOLEAN : AnswerWith(w, s)
         /\ Hands(w) /\ at' = [at EXCEPT ![w] = "reply"]
         /\ at' \in [Workers -> Places]
         /\ borrowed' \in [Workers -> Conns \cup {NoConn}]
         /\ ok' \in [Workers -> BOOLEAN] /\ cut' \in [Workers -> BOOLEAN]
<1> DEFINE status == ask[w].op \in Lists
<1>1. AnswerWith(w, status) /\ cut' = [cut EXCEPT ![w] = TRUE]
  BY DEF GivesUp
<1>2. status \in BOOLEAN
  OBVIOUS
<1>3. cut' \in [Workers -> BOOLEAN]
  BY <1>1 DEF Typed, QueryTypes
<1> HIDE DEF status
<1>4. \E s \in BOOLEAN : AnswerWith(w, s)
  BY <1>1, <1>2
<1> QED
  BY <1>1, <1>2, <1>3, <1>4, AnswerHands

(* What is asked for has the fields that its kind of request needs. *)
LEMMA AskFacts ==
  /\ \A a \in Asks : a.row \in TableRow /\ a.store \in Nat
  /\ \A a \in Asks : a.op \in Lists \cup {"register", "menu", "toggle"}
  /\ \A a \in Asks : FirstStatement(a.op) \in {"owner", "insert", "rows"}
  /\ \A a \in Asks : FirstStatement(a.op) = "owner" => AfterOwner[a.op] \in {"insert", "update", "rows"}
<1>1. StoreIds \subseteq Nat /\ NoRow \in TableRow /\ NewRows \subseteq TableRow
  BY NewRowsAssumption DEF StoreIds, NoRow, TableRow
<1>2. \A a \in Asks : a.row \in TableRow /\ a.store \in Nat /\ a.op \in Lists \cup {"register", "menu", "toggle"}
  <2> SUFFICES ASSUME NEW a \in Asks
               PROVE  a.row \in TableRow /\ a.store \in Nat /\ a.op \in Lists \cup {"register", "menu", "toggle"}
    OBVIOUS
  <2>1. CASE a \in [op : QueryOps \cap Lists, row : {NoRow}, store : {0}]
    BY <1>1, <2>1
  <2>2. CASE a \in [op : QueryOps \cap {"register"}, row : NewRows, store : {0}]
    BY <1>1, <2>2
  <2>3. CASE a \in [op : QueryOps \cap {"menu"}, row : {r \in NewRows : r.known}, store : {0}]
    BY <1>1, <2>3
  <2>4. CASE a \in [op : QueryOps \cap {"toggle"}, row : {r \in TableRow : r.known /\ ~r.wide},
                    store : StoreIds]
    BY <1>1, <2>4
  <2> QED
    BY <2>1, <2>2, <2>3, <2>4 DEF Asks
<1> QED
  BY <1>2 DEF FirstStatement, AfterOwner, Lists

LEMMA ListTyped ==
  ASSUME list \in [Workers -> SUBSET [id : Nat, shows : SUBSET Nat]], NEW w \in Workers, NEW rows,
         rows \subseteq [id : Nat, shows : SUBSET Nat],
         list' = list \/ list' = [list EXCEPT ![w] = rows]
  PROVE  list' \in [Workers -> SUBSET [id : Nat, shows : SUBSET Nat]]
<1> DEFINE Entries == [id : Nat, shows : SUBSET Nat]
<1>1. rows \in SUBSET Entries /\ list \in [Workers -> SUBSET Entries]
  OBVIOUS
<1> HIDE DEF Entries
<1>2. list' \in [Workers -> SUBSET Entries]
  BY <1>1
<1> QED
  BY <1>2 DEF Entries

(* The rows a list is read from. *)
LEMMA RowFacts ==
  ASSUME Typed, NEW w \in Workers
  PROVE  /\ table[Table(w)] \in Seq(TableRow)
         /\ Joined(w) \subseteq DOMAIN table[Table(w)]
         /\ \A S \in Fetched(w) : S \subseteq Joined(w)
         /\ \A rows \in Shown(w) : rows \subseteq [id : Nat, shows : SUBSET Nat]
         /\ \A i \in OrderIds : i \in Nat /\ \A op : Items(op, orders[i]) \subseteq Nat
         /\ Open \subseteq Visible /\ Visible \subseteq OrderIds
<1> USE DEF Typed
<1>1. table[Table(w)] \in Seq(TableRow) /\ Visible \subseteq OrderIds /\ Open \subseteq Visible
  BY DEF QueryTypes, Table, Tables, Visible, Open
<1>2. ASSUME NEW i \in OrderIds PROVE i \in Nat /\ \A op : Items(op, orders[i]) \subseteq Nat
  <2>1. i \in Nat /\ 1 .. orders[i].items \subseteq Nat
    BY BoundsAssumption, NoRequestFacts DEF TypeOK, OrderIds
  <2> QED
    BY <2>1 DEF Items
<1>3. Joined(w) \subseteq DOMAIN table[Table(w)] /\ \A S \in Fetched(w) : S \subseteq Joined(w)
  BY DEF Joined, Fetched
<1>4. \A i \in Joined(w) : i \in Nat /\ table[Table(w)][i].open \in Nat
  <2>1. Joined(w) \subseteq 1 .. Len(table[Table(w)])
    BY <1>1, <1>3
  <2>2. \A i \in 1 .. Len(table[Table(w)]) : i \in Nat /\ table[Table(w)][i] \in TableRow
    BY <1>1
  <2> QED
    BY <2>1, <2>2 DEF TableRow
<1>5. ASSUME NEW rows \in Shown(w) PROVE rows \subseteq [id : Nat, shows : SUBSET Nat]
  <2>1. CASE ask[w].op = "orders"
    BY <1>1, <1>2, <1>5, <2>1 DEF Shown
  <2>2. CASE ask[w].op = "history"
    <3>1. rows = {[id |-> i, shows |-> Items("history", orders[i])] :
                     i \in {j \in Visible : Items("history", orders[j]) # {}}}
      BY <1>5, <2>2 DEF Shown
    <3>2. ASSUME NEW e \in rows PROVE e \in [id : Nat, shows : SUBSET Nat]
      <4>1. PICK i \in Visible : e = [id |-> i, shows |-> Items("history", orders[i])]
        BY <3>1
      <4>2. i \in Nat /\ Items("history", orders[i]) \in SUBSET Nat
        BY <1>1, <1>2
      <4> QED
        BY <4>1, <4>2
    <3> QED
      BY <3>2
  <2>3. CASE ask[w].op \notin {"orders", "history"}
    <3>1. PICK S \in Fetched(w) : rows = {[id |-> i, shows |-> {table[Table(w)][i].open}] : i \in S}
      BY <1>5, <2>3 DEF Shown
    <3> QED
      BY <1>3, <1>4, <3>1
  <2> QED
    BY <2>1, <2>2, <2>3
<1> QED
  BY <1>1, <1>2, <1>3, <1>5

(* The steps of a request, up to the writing of a row. *)
LEMMA ReadSteps ==
  ASSUME Typed, NEW w \in Workers,
         \/ \E a \in Asks : BeginQuery(w, a)
         \/ FindStores(w) \/ Borrow(w) \/ FindOwner(w) \/ SelectRows(w) \/ SelectItems(w)
         \/ ItemsDone(w) \/ ReplyQuery(w)
  PROVE  Quiet(w)
<1> USE DEF Move, Keeps, facts
<1>n. /\ MaxRequests \in Nat /\ MaxFailures \in Nat
      /\ failures \in 0 .. MaxFailures /\ requests \in 0 .. MaxRequests
      /\ failures < MaxFailures => failures + 1 \in 0 .. MaxFailures
      /\ requests < MaxRequests => requests + 1 \in requests .. MaxRequests
      /\ requests \in requests .. MaxRequests
      /\ at \in [Workers -> Places]
  BY BoundsAssumption DEF Typed, TypeOK, QueryTypes
<1>a. \A s \in BOOLEAN : AnswerWith(w, s) =>
         /\ Hands(w) /\ at' = [at EXCEPT ![w] = "reply"]
         /\ at' \in [Workers -> Places]
         /\ borrowed' \in [Workers -> Conns \cup {NoConn}]
         /\ ok' \in [Workers -> BOOLEAN]
  BY AnswerHands
<1>b. GivesUp(w) => /\ \E s \in BOOLEAN : AnswerWith(w, s)
                    /\ Hands(w) /\ at' = [at EXCEPT ![w] = "reply"]
                    /\ at' \in [Workers -> Places]
                    /\ borrowed' \in [Workers -> Conns \cup {NoConn}]
                    /\ ok' \in [Workers -> BOOLEAN] /\ cut' \in [Workers -> BOOLEAN]
  BY GivesUpHands
<1>1. ASSUME NEW a \in Asks, BeginQuery(w, a) PROVE Quiet(w)
  <2>1. \E p \in {"connect", "ids"} : at' = [at EXCEPT ![w] = p] /\ p \in Places /\ p \notin Holding
    BY <1>1 DEF BeginQuery, Places, Holding
  <2>2. Hands(w)
    BY <1>1, <2>1 DEF BeginQuery, Hands, Holding
  <2>3. QueryTypes'
    BY <1>1, <1>n, <2>1 DEF BeginQuery, Typed, QueryTypes
  <2> QED
    BY <1>1, <1>n, <2>2, <2>3 DEF BeginQuery, Quiet
<1>2. CASE FindStores(w)
  <2>1. CASE at' = [at EXCEPT ![w] = "connect"] /\ Keeps /\ UNCHANGED <<cut, failures>>
    <3>1. Hands(w)
      BY <1>2, <2>1 DEF FindStores, Hands, Places, Holding
    <3>2. QueryTypes'
      BY <1>2, <1>n, <2>1 DEF FindStores, Typed, QueryTypes, Places
    <3> QED
      BY <1>2, <1>n, <2>1, <3>1, <3>2 DEF FindStores, Quiet
  <2>2. CASE AnswerWith(w, FALSE)
    <3>1. QueryTypes'
      BY <1>2, <1>n, <1>a, <2>2 DEF FindStores, Typed, QueryTypes
    <3> QED
      BY <1>2, <1>n, <1>a, <2>2, <3>1 DEF FindStores, Quiet
  <2> QED
    BY <1>2, <2>1, <2>2 DEF FindStores
<1>3. CASE Borrow(w)
  <2>1. ASSUME NEW c \in free, free' = free \ {c}, borrowed' = [borrowed EXCEPT ![w] = c],
               at' = [at EXCEPT ![w] = FirstStatement(ask[w].op)], UNCHANGED <<ok, cut, failures>>
        PROVE  Quiet(w)
    <3>1. ask[w] \in Asks
      BY <1>3 DEF Borrow, Typed, QueryTypes
    <3>2. FirstStatement(ask[w].op) \in {"owner", "insert", "rows"}
      BY <3>1, AskFacts
    <3>3. Hands(w)
      BY <2>1, <3>2 DEF Hands, Holding
    <3>4. c \in Conns
      BY DEF Typed, TypeOK
    <3>5. QueryTypes'
      BY <1>3, <2>1, <3>1, <3>2, <3>4 DEF Borrow, Typed, QueryTypes, Places
    <3> QED
      BY <1>3, <1>n, <2>1, <3>3, <3>5 DEF Borrow, Quiet
  <2>2. CASE GivesUp(w) /\ Fails
    <3>1. QueryTypes'
      BY <1>3, <1>n, <1>b, <2>2 DEF Borrow, Typed, QueryTypes
    <3> QED
      BY <1>3, <1>n, <1>b, <2>2, <3>1 DEF Borrow, Quiet
  <2> QED
    BY <1>3, <2>1, <2>2 DEF Borrow
<1>4. CASE FindOwner(w)
  <2>1. CASE at' = [at EXCEPT ![w] = AfterOwner[ask[w].op]] /\ Keeps /\ UNCHANGED cut
    <3>1. ask[w] \in Asks /\ FirstStatement(ask[w].op) = "owner"
      BY <1>4 DEF FindOwner, Typed, QueryTypes
    <3>2. AfterOwner[ask[w].op] \in {"insert", "update", "rows"}
      BY <3>1, AskFacts
    <3>3. Hands(w)
      BY <1>4, <2>1, <3>2 DEF FindOwner, Hands, Places, Holding
    <3>4. QueryTypes'
      BY <1>4, <2>1, <3>1, <3>2 DEF FindOwner, Typed, QueryTypes, Places
    <3> QED
      BY <1>4, <1>n, <2>1, <3>3, <3>4 DEF FindOwner, Quiet
  <2>2. CASE GivesUp(w)
    <3>1. QueryTypes'
      BY <1>4, <1>n, <1>b, <2>2 DEF FindOwner, Typed, QueryTypes
    <3> QED
      BY <1>4, <1>n, <1>b, <2>2, <3>1 DEF FindOwner, Quiet
  <2> QED
    BY <1>4, <2>1, <2>2 DEF FindOwner
<1>5. CASE SelectRows(w)
  <2>1. Open \subseteq OrderIds /\ \A rows \in Shown(w) : rows \subseteq [id : Nat, shows : SUBSET Nat]
    BY RowFacts
  <2>2. \/ at' = [at EXCEPT ![w] = "items"] /\ Keeps
        \/ \E s \in BOOLEAN : AnswerWith(w, s)
    BY <1>5, <1>b DEF SelectRows
  <2>3. Hands(w)
    BY <1>5, <1>a, <2>2 DEF SelectRows, Hands, Places, Holding
  <2>4. /\ list' \in [Workers -> SUBSET [id : Nat, shows : SUBSET Nat]]
        /\ todo' \in [Workers -> SUBSET OrderIds]
        /\ cut' \in [Workers -> BOOLEAN]
    <3>1. list' = list \/ \E rows \in Shown(w) : list' = [list EXCEPT ![w] = rows]
      BY <1>5 DEF SelectRows
    <3>2. list' \in [Workers -> SUBSET [id : Nat, shows : SUBSET Nat]]
      BY <2>1, <3>1, ListTyped DEF Typed, QueryTypes
    <3>3. todo' = todo \/ todo' = [todo EXCEPT ![w] = Open]
      BY <1>5 DEF SelectRows
    <3>4. cut' = cut \/ cut' \in [Workers -> BOOLEAN]
      BY <1>5, <1>b DEF SelectRows
    <3> QED
      BY <2>1, <3>2, <3>3, <3>4 DEF Typed, QueryTypes
  <2>5. QueryTypes'
    BY <1>5, <1>n, <1>a, <2>2, <2>4 DEF SelectRows, Typed, QueryTypes, Places
  <2> QED
    BY <1>5, <1>n, <2>3, <2>5 DEF SelectRows, Quiet
<1>6. CASE SelectItems(w)
  <2>1. \A i \in OrderIds : i \in Nat /\ Items("orders", orders[i]) \in SUBSET Nat
    BY RowFacts
  <2>2. /\ list' \in [Workers -> SUBSET [id : Nat, shows : SUBSET Nat]]
        /\ todo' \in [Workers -> SUBSET OrderIds]
        /\ cut' \in [Workers -> BOOLEAN]
    <3>1. PICK i \in todo[w] :
             /\ todo' = [todo EXCEPT ![w] = @ \ {i}]
             /\ \/ /\ list' = [list EXCEPT ![w] = (@ \ {[id |-> i, shows |-> {}]})
                                                  \cup {[id |-> i, shows |-> Items("orders", orders[i])]}]
                   /\ UNCHANGED cut
                \/ cut' = [cut EXCEPT ![w] = TRUE] /\ UNCHANGED list
      BY <1>6 DEF SelectItems
    <3>2. i \in OrderIds /\ [id |-> i, shows |-> Items("orders", orders[i])] \in [id : Nat, shows : SUBSET Nat]
      BY <2>1 DEF Typed, QueryTypes
    <3> DEFINE rest == (list[w] \ {[id |-> i, shows |-> {}]}) \cup {[id |-> i, shows |-> Items("orders", orders[i])]}
    <3>3. list[w] \subseteq [id : Nat, shows : SUBSET Nat]
      BY DEF Typed, QueryTypes
    <3>4. rest \subseteq [id : Nat, shows : SUBSET Nat]
      BY <3>2, <3>3
    <3>5. list' = list \/ list' = [list EXCEPT ![w] = rest]
      BY <3>1
    <3>6. list' \in [Workers -> SUBSET [id : Nat, shows : SUBSET Nat]]
      BY <3>4, <3>5, ListTyped DEF Typed, QueryTypes
    <3>7. todo' \in [Workers -> SUBSET OrderIds] /\ cut' \in [Workers -> BOOLEAN]
      BY <3>1 DEF Typed, QueryTypes
    <3> QED
      BY <3>6, <3>7
  <2>3. Hands(w)
    BY <1>6, <1>n DEF SelectItems, Hands
  <2>4. QueryTypes'
    BY <1>6, <2>2 DEF SelectItems, Typed, QueryTypes
  <2> QED
    BY <1>6, <1>n, <2>3, <2>4 DEF SelectItems, Quiet
<1>7. CASE ItemsDone(w)
  <2>1. QueryTypes'
    BY <1>7, <1>a DEF ItemsDone, Typed, QueryTypes
  <2> QED
    BY <1>7, <1>n, <1>a, <2>1 DEF ItemsDone, Quiet
<1>8. CASE ReplyQuery(w)
  <2>1. Hands(w)
    BY <1>8 DEF ReplyQuery, Hands, Places, Holding
  <2>2. QueryTypes'
    BY <1>8 DEF ReplyQuery, Typed, QueryTypes, Places
  <2> QED
    BY <1>8, <1>n, <2>1, <2>2 DEF ReplyQuery, Quiet
<1> QED
  BY <1>1, <1>2, <1>3, <1>4, <1>5, <1>6, <1>7, <1>8

(* The steps that write a row of a store or of a menu. *)
LEMMA WriteSteps ==
  ASSUME Typed, NEW w \in Workers, InsertRow(w) \/ SetFlag(w) \/ Toggle(w)
  PROVE  Quiet(w)
<1> USE DEF Move, Keeps, facts
<1>n. /\ MaxFailures \in Nat
      /\ failures \in 0 .. MaxFailures /\ requests \in requests .. MaxRequests
      /\ failures < MaxFailures => failures + 1 \in 0 .. MaxFailures
      /\ at \in [Workers -> Places]
  BY BoundsAssumption DEF Typed, TypeOK, QueryTypes
<1>a. \A s \in BOOLEAN : AnswerWith(w, s) =>
         /\ Hands(w) /\ at' = [at EXCEPT ![w] = "reply"]
         /\ at' \in [Workers -> Places]
         /\ borrowed' \in [Workers -> Conns \cup {NoConn}]
         /\ ok' \in [Workers -> BOOLEAN]
  BY AnswerHands
<1>b. GivesUp(w) => /\ \E s \in BOOLEAN : AnswerWith(w, s)
                    /\ Hands(w) /\ at' = [at EXCEPT ![w] = "reply"]
                    /\ at' \in [Workers -> Places]
                    /\ borrowed' \in [Workers -> Conns \cup {NoConn}]
                    /\ ok' \in [Workers -> BOOLEAN] /\ cut' \in [Workers -> BOOLEAN]
  BY GivesUpHands
<1>c. table \in [Tables -> Seq(TableRow)] /\ table[Table(w)] \in Seq(TableRow) /\ Table(w) \in Tables
  BY RowFacts DEF Typed, QueryTypes, Table, Tables
<1>1. CASE InsertRow(w)
  <2>1. ask[w] \in Asks
    BY <1>1 DEF InsertRow, Typed, QueryTypes
  <2>2. ask[w].row \in TableRow
    BY <2>1, AskFacts
  <2>3. table' \in [Tables -> Seq(TableRow)]
    <3>1. Append(table[Table(w)], ask[w].row) \in Seq(TableRow)
      BY <1>c, <2>2
    <3> QED
      BY <1>1, <1>c, <3>1 DEF InsertRow, ExecuteUpdate, Insert
  <2>4. Len(table'[Table(w)]) \in Nat
    BY <1>c, <2>3
  <2>5. /\ list' \in [Workers -> SUBSET [id : Nat, shows : SUBSET Nat]]
        /\ cut' \in [Workers -> BOOLEAN]
    <3> DEFINE new == {[id |-> Len(table'[Table(w)]), shows |-> {1}]}
    <3>1. list' = list \/ list' = [list EXCEPT ![w] = new]
      BY <1>1 DEF InsertRow, ExecuteUpdate
    <3>2. new \subseteq [id : Nat, shows : SUBSET Nat]
      BY <2>4
    <3>3. cut' = cut \/ cut' \in [Workers -> BOOLEAN]
      BY <1>1, <1>b DEF InsertRow, ExecuteUpdate
    <3> QED
      BY <3>1, <3>2, <3>3, ListTyped DEF Typed, QueryTypes
  <2>6. \/ at' = [at EXCEPT ![w] = "flag"] /\ Keeps
        \/ \E s \in BOOLEAN : AnswerWith(w, s)
    BY <1>1, <1>b DEF InsertRow, ExecuteUpdate
  <2>7. Hands(w)
    BY <1>1, <1>a, <2>6 DEF InsertRow, Hands, Places, Holding
  <2>8. flagged' = flagged
    BY <1>1 DEF InsertRow, ExecuteUpdate, Insert
  <2>9. QueryTypes'
    BY <1>1, <1>n, <1>a, <2>3, <2>5, <2>6, <2>8 DEF InsertRow, Typed, QueryTypes, Places
  <2> QED
    BY <1>1, <1>n, <2>7, <2>9 DEF InsertRow, ExecuteUpdate, Quiet
<1>2. CASE SetFlag(w)
  <2>1. table' = table /\ flagged' \in BOOLEAN
    BY <1>2 DEF SetFlag, ExecuteUpdate, RaiseFlag, Typed, QueryTypes
  <2>2. QueryTypes'
    BY <1>2, <1>a, <2>1 DEF SetFlag, Typed, QueryTypes
  <2> QED
    BY <1>2, <1>n, <1>a, <2>2 DEF SetFlag, ExecuteUpdate, Quiet
<1>3. CASE Toggle(w)
  <2>1. ask[w] \in Asks
    BY <1>3 DEF Toggle, Typed, QueryTypes
  <2>2. ask[w].row.open \in 0 .. 1
    BY <2>1, AskFacts DEF TableRow
  <2>3. table' \in [Tables -> Seq(TableRow)]
    <3>1. table["store"] \in Seq(TableRow)
      BY <1>c DEF Tables
    <3>2. ASSUME NEW i \in DOMAIN table["store"]
          PROVE  [table["store"] EXCEPT ![i].open = ask[w].row.open] \in Seq(TableRow)
      <4>1. table["store"] \in [1 .. Len(table["store"]) -> TableRow] /\ i \in 1 .. Len(table["store"])
        BY <3>1
      <4>2. [table["store"][i] EXCEPT !.open = ask[w].row.open] \in TableRow
        BY <2>2, <4>1 DEF TableRow
      <4>3. [table["store"] EXCEPT ![i].open = ask[w].row.open] \in [1 .. Len(table["store"]) -> TableRow]
        BY <4>1, <4>2
      <4> QED
        BY <3>1, <4>3
    <3>3. \/ table' = table
          \/ /\ ask[w].store \in DOMAIN table["store"]
             /\ table' = [table EXCEPT !["store"][ask[w].store].open = ask[w].row.open]
      BY <1>3 DEF Toggle, SetOpen
    <3> QED
      BY <1>c, <3>2, <3>3 DEF Tables
  <2>4. cut' \in [Workers -> BOOLEAN] /\ \E s \in BOOLEAN : AnswerWith(w, s)
    BY <1>3, <1>b DEF Toggle, Typed, QueryTypes
  <2>5. QueryTypes'
    BY <1>3, <1>a, <2>3, <2>4 DEF Toggle, Typed, QueryTypes
  <2> QED
    BY <1>3, <1>n, <1>a, <2>4, <2>5 DEF Toggle, Quiet
<1> QED
  BY <1>1, <1>2, <1>3

(* The inductive invariant holds at the start and is kept by every step. *)
LEMMA InitInv == QueriesInit => Inv
<1> SUFFICES ASSUME QueriesInit PROVE Inv
  OBVIOUS
<1>n. MaxRequests \in Nat /\ MaxFailures \in Nat /\ MaxThrows \in Nat /\ MaxItems \in Nat \ {0}
  BY BoundsAssumption
<1>1. TypeOK
  BY <1>n DEF QueriesInit, Init, TypeOK, Locations, Nothing
<1>2. QueryTypes /\ Held
  BY ConnAssumption, OldTablesAssumption DEF QueriesInit, Init, QueryTypes, Held, Places, Holding
<1>3. Apart /\ Sessions
  BY ConnAssumption DEF QueriesInit, Init, Apart, Sessions, Writing
<1>4. Numbered
  BY NoRequestFacts DEF QueriesInit, Init, Numbered
<1>5. Counted
  <2>1. Waiting = {}
    BY DEF QueriesInit, Init, Waiting, Before
  <2> QED
    BY <2>1, FS_EmptySet DEF QueriesInit, Init, Counted
<1>6. Progress
  BY DEF QueriesInit, Init, Progress, Written, Before
<1>7. Outcome
  BY DEF QueriesInit, Init, Outcome, Settled, Before
<1>8. WholeOrders /\ AnswersAreTrue
  BY DEF QueriesInit, Init, WholeOrders, AnswersAreTrue, ToldOrdersExist, FailedOrdersLeaveNothing
<1> QED
  BY <1>1, <1>2, <1>3, <1>4, <1>5, <1>6, <1>7, <1>8 DEF Inv, Typed

(* Nothing here speaks of the orders that are over, nor of what is owed.  *)
LEMMA StillInv ==
  ASSUME Inv, UNCHANGED vars, UNCHANGED <<table, flagged, at, ask, borrowed, list, todo, ok, cut>>
  PROVE  Inv'
BY DEF vars, Inv, Typed, TypeOK, QueryTypes, Held, Apart, Sessions, Numbered, Counted, Waiting, Progress,
       Written, Outcome, Settled, WholeOrders, AnswersAreTrue, ToldOrdersExist, FailedOrdersLeaveNothing

LEMMA NextInv == Inv /\ [QueriesNext]_allVars => Inv'
<1> SUFFICES ASSUME Inv, [QueriesNext]_allVars PROVE Inv'
  OBVIOUS
<1>1. CASE UNCHANGED allVars
  BY <1>1, StillInv DEF allVars, queryVars
<1>2. ASSUME NEW w \in Workers, Placing(w) PROVE Inv'
  <2>1. UNCHANGED queryVars /\ at[w] = "idle" /\ ((\E n \in 1 .. MaxItems : Begin(w, n)) \/ Step(w))
    BY <1>2, SizesAssumption DEF Placing
  <2> QED
    BY <2>1, BeginStep, LookUpStep, ConnectStep, StartStep, InsertOrderStep, InsertItemStep, ThrowStep,
       RollbackStep, CommitStep, NotifyStep, ReplyStep DEF Step
<1>3. ASSUME NEW w \in Workers, (\E a \in Asks : BeginQuery(w, a)) \/ Query(w) PROVE Inv'
  <2>1. Typed
    BY DEF Inv
  <2>2. Quiet(w)
    BY <1>3, <2>1, ReadSteps, WriteSteps DEF Query
  <2> QED
    BY <2>2, QueryKeeps
<1>4. ASSUME NEW i \in OrderIds, SetStatus(i) PROVE Inv'
  BY <1>4, StillInv DEF SetStatus
<1> QED
  BY <1>1, <1>2, <1>3, <1>4 DEF QueriesNext

LEMMA QueriesInv == QueriesSpec => []Inv
<1> QED
  BY InitInv, NextInv, PTL DEF QueriesSpec

(* What an order names, and which are over.  *)
LEMMA OrdersTyped == QueriesSpec => []OrderTypes
<1>1. QueriesInit => OrderTypes
  BY DEF QueriesInit, OrderTypes
<1>2. OrderTypes /\ [QueriesNext]_allVars => OrderTypes'
  <2> SUFFICES ASSUME OrderTypes, [QueriesNext]_allVars PROVE OrderTypes'
    OBVIOUS
  <2>1. UNCHANGED <<missing, over>> => OrderTypes'
    BY DEF OrderTypes
  <2>2. ASSUME NEW w \in Workers, (\E a \in Asks : BeginQuery(w, a)) \/ Query(w)
        PROVE  UNCHANGED <<missing, over>>
    BY <2>2 DEF BeginQuery, Query, FindStores, Borrow, FindOwner, SelectRows, SelectItems, ItemsDone,
                InsertRow, SetFlag, Toggle, ReplyQuery, placing
  <2>3. ASSUME NEW w \in Workers, Placing(w) PROVE OrderTypes'
    <3>1. over' = over /\ (missing' = missing \/
             \E r : \E names \in Unmatched : missing' = [missing EXCEPT ![r] = names])
      BY <2>3 DEF Placing
    <3> QED
      BY <3>1, UnmatchedAssumption DEF OrderTypes
  <2>4. ASSUME NEW i \in OrderIds, SetStatus(i) PROVE OrderTypes'
    BY <2>4 DEF SetStatus, OrderTypes
  <2> QED
    BY <2>1, <2>2, <2>3, <2>4 DEF QueriesNext, allVars
<1> QED
  BY <1>1, <1>2, PTL DEF QueriesSpec

(* The variables keep their types, and a worker holds a connection exactly       *)
(* between getConnection and the release, on every path of the services.         *)
THEOREM QueriesTyped == QueriesSpec => []QueriesTypeOK
<1>1. Inv /\ OrderTypes => QueriesTypeOK
  BY DEF Inv, Typed, QueriesTypeOK
<1> QED
  BY <1>1, QueriesInv, OrdersTyped, PTL

(* Whoever borrows a connection finds no transaction of a former borrower open,   *)
(* however createOrder and the services gave it back.                            *)
THEOREM QueriesCleanSessions == QueriesSpec => []CleanSessions
<1>1. Inv => CleanSessions
  BY DEF Inv, Typed, TypeOK, Sessions, CleanSessions
<1> QED
  BY <1>1, QueriesInv, PTL

(* Nobody ever reads an order without all its items, whichever statements fail,  *)
(* unless its START TRANSACTION did, whose result createOrder ignores.           *)
THEOREM QueriesWholeOrders == QueriesSpec => []WholeOrders
<1>1. Inv => WholeOrders
  BY DEF Inv
<1> QED
  BY <1>1, QueriesInv, PTL

(* A customer and a store are told of the order that is there, and of a failure  *)
(* only when nothing of the order is, save for what the ignored results of       *)
(* START TRANSACTION and COMMIT hide.                                            *)
THEOREM QueriesAnswersAreTrue == QueriesSpec => []AnswersAreTrue
<1>1. Inv => AnswersAreTrue
  BY DEF Inv
<1> QED
  BY <1>1, QueriesInv, PTL

----------------------------------------------------------------------------
(* The lists.  Which request a worker can be handling where. *)
Routed(w) ==
    /\ at[w] \in {"ids", "items"} => ask[w].op = "orders"
    /\ at[w] = "rows" => ask[w].op \in Lists
    /\ at[w] = "insert" => ask[w].op \in {"register", "menu"}
    /\ at[w] = "flag" => ask[w].op = "register"
    /\ at[w] = "update" => ask[w].op = "toggle"
    /\ at[w] = "idle" => list[w] = {} /\ ask[w] = NoAsk

(* What a list owes is there when it begins, and stays: orders that are all    *)
(* written, and rows. *)
Placed    == {i \in OrderIds : orders[i] # NoOrder /\ orders[i].items = orders[i].by.items}
Source(w) == IF ask[w].op = "menus" THEN "menu" ELSE "store"

Owes(w) ==
    /\ owed[w].orders \subseteq Placed
    /\ owed[w].rows \subseteq DOMAIN table[Source(w)]

(* What a worker that registers is about to promise. *)
Announces(w) ==
    /\ ask[w].op \in {"register", "menu"} => Numbers(w) \subseteq DOMAIN table[Table(w)]
    /\ at[w] = "reply" /\ ask[w].op = "register" /\ ok[w] => flagged \/ unflagged

(* What a list shows of orders, its items read or not. *)
Truly(op, e) == e.shows = AllItems(op, e.id) \/ orders[e.id].by \in untied

Reads(w) ==
    (\/ at[w] = "items"
     \/ at[w] = "reply" /\ ask[w].op \in {"orders", "history"} /\ ok[w]) /\ ~cut[w] =>
       /\ \A i \in owed[w].orders \ Numbers(w) :
             ask[w].op = "history" /\ AllItems("history", i) = {}
       /\ at[w] = "items" => todo[w] \subseteq Visible
       /\ \A e \in list[w] :
             /\ e.id \in Visible
             /\ IF at[w] = "items" /\ e.id \in todo[w] THEN e.shows = {} ELSE Truly(ask[w].op, e)

(* What it shows of stores and menus. *)
TooWide(w) == \E j \in Joined(w) : table[Table(w)][j].wide

ShowsRows(w) ==
    Listing(w, {"stores", "mine", "menus"}) /\ ~cut[w] =>
       /\ \A i \in owed[w].rows \ Numbers(w) :
             i \in DOMAIN table[Table(w)] /\ (i \in Joined(w) => TooWide(w))
       /\ ask[w].op = "stores" =>
             \A e \in list[w] : \A s \in owed[w].said : s.id = e.id => e.shows = {s.open}

ListFor(w) == Routed(w) /\ Owes(w) /\ Announces(w) /\ Reads(w) /\ ShowsRows(w)

(* What owners were told their stores are is what they are, as long as nobody  *)
(* sets them differently; and no order that is over is owed.                    *)
Agrees(s) == s.id \in DOMAIN table["store"] /\ table["store"][s.id].open = s.open

Spoken ==
    /\ \A s \in said : Agrees(s)
    /\ \A w \in Workers : \A s \in owed[w].said : Agrees(s)
    /\ \A w \in Workers : ask[w].op = "orders" => owed[w].orders \cap over = {}

(* What was promised is in the tables; and the types of the history. *)
Debts == [orders : SUBSET Nat, rows : SUBSET Nat, said : SUBSET [id : Nat, open : 0 .. 1]]

Kept ==
    /\ promised \in [Tables -> SUBSET Nat]
    /\ said \in SUBSET [id : Nat, open : 0 .. 1]
    /\ owed \in [Workers -> Debts]
    /\ \A t \in Tables : promised[t] \subseteq DOMAIN table[t]
    /\ promised["store"] # {} => flagged \/ unflagged
    /\ \A m \in told : m.kind # "fail" => m.id \in OrderIds
    /\ Spoken

ListInv == Inv /\ Kept /\ \A w \in Workers : ListFor(w)

(* What no step takes back: rows, and whose orders they are, of what. *)
OrdersGrow ==
    /\ untied \subseteq untied'
    /\ \A i \in OrderIds : orders[i] # NoOrder =>
          /\ orders'[i] # NoOrder /\ orders'[i].by = orders[i].by
          /\ orders[i].items = orders[i].by.items => orders'[i] = orders[i]
          /\ missing'[orders[i].by.number] = missing[orders[i].by.number]

TablesGrow ==
    \A t \in Tables :
       /\ DOMAIN table[t] \subseteq DOMAIN table'[t]
       /\ \A i \in DOMAIN table[t] : /\ table'[t][i].wide = table[t][i].wide
                                     /\ table'[t][i].known = table[t][i].known

Grow == OrdersGrow /\ TablesGrow /\ (flagged \/ unflagged => flagged' \/ unflagged')

\* Only toggleStoreStatus changes is_open.
OpenKept == \A i \in DOMAIN table["store"] : table'["store"][i].open = table["store"][i].open

Same(v) == /\ at'[v] = at[v] /\ ask'[v] = ask[v] /\ list'[v] = list[v] /\ todo'[v] = todo[v]
           /\ ok'[v] = ok[v] /\ cut'[v] = cut[v]
           /\ owed'[v].orders \subseteq owed[v].orders /\ owed'[v].rows = owed[v].rows
           /\ owed'[v].said \subseteq owed[v].said

LEMMA TableNames == "store" \in Tables /\ "menu" \in Tables /\ \A w : Source(w) \in Tables /\ Table(w) \in Tables
BY DEF Tables, Source, Table

(* What an order that is there has to show does not change.  *)
LEMMA GrowShows ==
  ASSUME OrdersGrow, NEW i \in Visible
  PROVE  i \in Visible' /\ orders'[i].by = orders[i].by /\ \A op : AllItems(op, i)' = AllItems(op, i)
<1>1. i \in OrderIds /\ orders[i] # NoOrder
  BY DEF Visible
<1>2. orders'[i] # NoOrder /\ orders'[i].by = orders[i].by
      /\ missing'[orders[i].by.number] = missing[orders[i].by.number]
  BY <1>1 DEF OrdersGrow
<1>3. i \in Visible'
  BY <1>1, <1>2 DEF Visible
<1>4. ASSUME NEW op PROVE AllItems(op, i)' = AllItems(op, i)
  BY <1>2 DEF AllItems, Items
<1> QED
  BY <1>2, <1>3, <1>4

LEMMA GrowJoined ==
  ASSUME TablesGrow, NEW v \in Workers, ask'[v] = ask[v]
  PROVE  /\ Table(v)' = Table(v) /\ Source(v)' = Source(v)
         /\ DOMAIN table[Table(v)] \subseteq DOMAIN table'[Table(v)]
         /\ DOMAIN table[Source(v)] \subseteq DOMAIN table'[Source(v)]
         /\ \A i \in DOMAIN table[Table(v)] : i \in Joined(v)' <=> i \in Joined(v)
         /\ TooWide(v) => TooWide(v)'
<1>1. Table(v)' = Table(v) /\ Source(v)' = Source(v)
  BY DEF Table, Source
<1>2. /\ DOMAIN table[Table(v)] \subseteq DOMAIN table'[Table(v)]
      /\ DOMAIN table[Source(v)] \subseteq DOMAIN table'[Source(v)]
      /\ \A i \in DOMAIN table[Table(v)] : /\ table'[Table(v)][i].wide = table[Table(v)][i].wide
                                          /\ table'[Table(v)][i].known = table[Table(v)][i].known
  BY TableNames DEF TablesGrow
<1>3. Joined(v)' = {i \in DOMAIN table'[Table(v)] : ask'[v].op = "stores" => table'[Table(v)][i].known}
  BY <1>1 DEF Joined
<1>4. \A i \in DOMAIN table[Table(v)] : i \in Joined(v)' <=> i \in Joined(v)
  BY <1>2, <1>3 DEF Joined
<1>5. ASSUME TooWide(v) PROVE TooWide(v)'
  <2>1. PICK j \in Joined(v) : table[Table(v)][j].wide
    BY <1>5 DEF TooWide
  <2>2. j \in DOMAIN table[Table(v)]
    BY DEF Joined
  <2>3. j \in Joined(v)' /\ table'[Table(v)'][j].wide
    BY <1>1, <1>2, <1>4, <2>1, <2>2
  <2> QED
    BY <2>3 DEF TooWide
<1> QED
  BY <1>1, <1>2, <1>4, <1>5

(* A worker that does nothing keeps all it knows while others go on. *)
LEMMA GrowKeeps ==
  ASSUME Grow, NEW v \in Workers, ListFor(v), Same(v)
  PROVE  ListFor(v)'
<1> USE DEF Grow, Same
<1>1. Routed(v)'
  BY DEF ListFor, Routed
<1>2. Numbers(v)' = Numbers(v)
  BY DEF Numbers
<1>3. Owes(v)'
  <2>1. Placed \subseteq Placed'
    BY DEF OrdersGrow, Placed
  <2>2. DOMAIN table[Source(v)] \subseteq DOMAIN table'[Source(v)] /\ Source(v)' = Source(v)
    BY GrowJoined
  <2>3. DOMAIN table'[Source(v)'] = DOMAIN table'[Source(v)]
    BY <2>2
  <2> QED
    BY <2>1, <2>2, <2>3 DEF ListFor, Owes
<1>4. Announces(v)'
  BY <1>2, GrowJoined DEF ListFor, Announces
<1>5. Reads(v)'
  <2> SUFFICES ASSUME (\/ at[v] = "items"
                       \/ at[v] = "reply" /\ ask[v].op \in {"orders", "history"} /\ ok[v]) /\ ~cut[v]
               PROVE  /\ \A i \in owed'[v].orders \ Numbers(v) :
                            ask[v].op = "history" /\ AllItems("history", i)' = {}
                      /\ at[v] = "items" => todo[v] \subseteq Visible'
                      /\ \A e \in list[v] :
                            /\ e.id \in Visible'
                            /\ IF at[v] = "items" /\ e.id \in todo[v] THEN e.shows = {}
                               ELSE Truly(ask[v].op, e)'
    BY <1>2 DEF Reads
  <2>1. /\ \A i \in owed[v].orders \ Numbers(v) : ask[v].op = "history" /\ AllItems("history", i) = {}
        /\ at[v] = "items" => todo[v] \subseteq Visible
        /\ \A e \in list[v] :
              /\ e.id \in Visible
              /\ IF at[v] = "items" /\ e.id \in todo[v] THEN e.shows = {} ELSE Truly(ask[v].op, e)
    BY DEF ListFor, Reads
  <2>2. ASSUME NEW i \in owed'[v].orders \ Numbers(v)
        PROVE  ask[v].op = "history" /\ AllItems("history", i)' = {}
    <3>1. i \in Visible
      BY DEF ListFor, Owes, Placed, Visible
    <3> QED
      BY <2>1, <3>1, GrowShows
  <2>3. ASSUME NEW e \in list[v]
        PROVE  /\ e.id \in Visible'
               /\ Truly(ask[v].op, e) => Truly(ask[v].op, e)'
    <3>1. e.id \in Visible' /\ orders'[e.id].by = orders[e.id].by
          /\ \A op : AllItems(op, e.id)' = AllItems(op, e.id)
      BY <2>1, GrowShows
    <3> QED
      BY <3>1 DEF Truly, OrdersGrow
  <2>4. Visible \subseteq Visible'
    BY GrowShows
  <2> QED
    BY <2>1, <2>2, <2>3, <2>4
<1>6. ShowsRows(v)'
  <2> SUFFICES ASSUME Listing(v, {"stores", "mine", "menus"}), ~cut[v]
               PROVE  /\ \A i \in owed[v].rows \ Numbers(v) :
                            i \in DOMAIN table'[Table(v)'] /\ (i \in Joined(v)' => TooWide(v)')
                      /\ ask[v].op = "stores" =>
                            \A e \in list[v] : \A s \in owed'[v].said : s.id = e.id => e.shows = {s.open}
    BY <1>2 DEF ShowsRows, Listing
  <2>1. /\ \A i \in owed[v].rows \ Numbers(v) :
              i \in DOMAIN table[Table(v)] /\ (i \in Joined(v) => TooWide(v))
        /\ ask[v].op = "stores" =>
              \A e \in list[v] : \A s \in owed[v].said : s.id = e.id => e.shows = {s.open}
    BY DEF ListFor, ShowsRows
  <2>2. /\ Table(v)' = Table(v) /\ DOMAIN table[Table(v)] \subseteq DOMAIN table'[Table(v)]
        /\ \A i \in DOMAIN table[Table(v)] : i \in Joined(v)' <=> i \in Joined(v)
        /\ TooWide(v) => TooWide(v)'
    BY GrowJoined
  <2> QED
    BY <2>1, <2>2
<1> QED
  BY <1>1, <1>3, <1>4, <1>5, <1>6 DEF ListFor

(* Placing an order: rows appear and get their items, none goes. *)
LEMMA PlacingGrows ==
  ASSUME Inv, NEW w \in Workers, Placing(w)
  PROVE  OrdersGrow
<1> USE DEF Inv, Typed
<1>a. \A i \in OrderIds : orders[i] \in Rows \cup {NoOrder}
  BY DEF TypeOK
<1>m. \A i \in OrderIds : missing'[orders[i].by.number] = missing[orders[i].by.number]
  <2>1. CASE missing' = missing
    BY <2>1
  <2>2. ASSUME NEW n \in Sizes, Begin(w, n), NEW names \in Unmatched,
               missing' = [missing EXCEPT ![requests'] = names]
        PROVE  \A i \in OrderIds : missing'[orders[i].by.number] = missing[orders[i].by.number]
    <3>1. requests' = requests + 1 /\ requests \in Nat
      BY <2>2, BoundsAssumption DEF Begin, TypeOK
    <3>2. ASSUME NEW i \in OrderIds PROVE orders[i].by.number # requests'
      <4>1. orders[i].by.number \in Nat /\ orders[i].by.number <= requests
        BY NoRequestFacts DEF Numbered, TypeOK
      <4> QED
        BY <3>1, <4>1
    <3> QED
      BY <2>2, <3>2
  <2> QED
    BY <2>1, <2>2 DEF Placing
<1>1. ASSUME UNCHANGED <<orders, untied>> PROVE OrdersGrow
  BY <1>1, <1>m DEF OrdersGrow
<1>2. ASSUME (\E n \in Sizes : Begin(w, n)) \/ LookUp(w) \/ Connect(w) \/ Throw(w)
             \/ Rollback(w) \/ Notify(w) \/ Reply(w)
      PROVE  OrdersGrow
  BY <1>1, <1>2 DEF Begin, LookUp, Connect, Throw, Rollback, Notify, Reply, database, history
<1>3. CASE Start(w)
  <2>1. conn[w] \in Conns /\ pending[conn[w]] = Nothing
    BY <1>3 DEF Start, Apart, Writing, Sessions, TypeOK
  <2> QED
    BY <1>3, <1>m, <2>1 DEF Start, Flush, OrdersGrow
<1>4. CASE InsertOrder(w)
  <2>1. untied' = untied
    BY <1>4 DEF InsertOrder, history
  <2>2. orders' = orders \/ orders' = [orders EXCEPT ![nextId] = [by |-> req[w], items |-> 0]]
    BY <1>4 DEF InsertOrder, Write
  <2>3. \A i \in OrderIds : orders[i] # NoOrder => i # nextId
    BY DEF Counted, TypeOK, OrderIds
  <2>4. \A i \in OrderIds : orders[i] # NoOrder => orders'[i] = orders[i]
    BY <2>2, <2>3 DEF TypeOK
  <2> QED
    BY <1>m, <2>1, <2>4 DEF OrdersGrow
<1>5. CASE InsertItem(w)
  <2>1. untied' = untied /\ pc[w] = "items" /\ done[w] < req[w].items
    BY <1>5 DEF InsertItem, history
  <2>2. CASE orders' = orders
    BY <1>m, <2>1, <2>2 DEF OrdersGrow
  <2>3. CASE orders' # orders
    <3>1. /\ conn[w] \notin inTx
          /\ orders' = [orders EXCEPT ![orderId[w]] = [Current(w) EXCEPT !.items = @ + 1]]
      BY <1>5, <2>3 DEF InsertItem, Write
    <3>2. Current(w) = [by |-> req[w], items |-> done[w]] /\ orders[orderId[w]] = Current(w)
      BY <2>1, <3>1 DEF Current, Progress, Written
    <3>3. done[w] \in Nat /\ req[w] \in Requests /\ orderId[w] \in OrderIds
      <4>1. done[w] \in Nat
        BY BoundsAssumption DEF TypeOK
      <4>2. req[w] \in Requests
        BY <2>1 DEF TypeOK, Numbered
      <4>3. orderId[w] \in OrderIds
        BY <2>1 DEF Progress, Written
      <4> QED
        BY <4>1, <4>2, <4>3
    <3>4. /\ orders'[orderId[w]] = [by |-> req[w], items |-> done[w] + 1]
          /\ \A i \in OrderIds : i # orderId[w] => orders'[i] = orders[i]
      BY <3>1, <3>2, <3>3 DEF TypeOK
    <3>5. orders'[orderId[w]].by = req[w] /\ orders'[orderId[w]] # NoOrder
      BY <3>3, <3>4, NoRequestFacts
    <3>6. orders[orderId[w]].by = req[w] /\ orders[orderId[w]].items # orders[orderId[w]].by.items
      <4>1. orders[orderId[w]].by = req[w] /\ orders[orderId[w]].items = done[w]
        BY <3>2
      <4>2. done[w] # req[w].items
        BY <2>1, <3>3, NoRequestFacts
      <4> QED
        BY <4>1, <4>2
    <3> QED
      BY <1>m, <2>1, <3>4, <3>5, <3>6 DEF OrdersGrow
  <2> QED
    BY <2>2, <2>3
<1>6. CASE Commit(w)
  <2>1. untied' = untied /\ pc[w] = "items" /\ conn[w] \in Conns
    BY <1>6 DEF Commit, Apart, Writing, TypeOK
  <2>2. CASE conn[w] \in inTx
    <3>1. /\ pending[conn[w]] = [id |-> orderId[w], row |-> [by |-> req[w], items |-> done[w]]]
          /\ orders[orderId[w]] = NoOrder
      BY <2>1, <2>2 DEF Progress, Written
    <3>2. \A i \in OrderIds : i # orderId[w] => orders'[i] = orders[i]
      BY <1>6, <3>1 DEF Commit, Flush, TypeOK
    <3> QED
      BY <1>m, <2>1, <3>1, <3>2 DEF OrdersGrow
  <2>3. CASE conn[w] \notin inTx
    <3>1. pending[conn[w]] = Nothing
      BY <2>1, <2>3 DEF Sessions
    <3> QED
      BY <1>1, <1>6, <2>1, <3>1 DEF Commit, Flush
  <2> QED
    BY <2>2, <2>3
<1> QED
  BY <1>2, <1>3, <1>4, <1>5, <1>6 DEF Placing, Step

LEMMA PlacingListInv ==
  ASSUME ListInv, NEW w \in Workers, Placing(w), Inv'
  PROVE  ListInv'
<1> USE DEF ListInv
<1>1. UNCHANGED queryVars /\ over' = over
  BY DEF Placing
<1>2. Grow /\ \A v \in Workers : Same(v)
  BY <1>1, PlacingGrows DEF Grow, TablesGrow, Same, queryVars
<1>3. \A v \in Workers : ListFor(v)'
  BY <1>2, GrowKeeps
<1>4. \A m \in told' : m.kind # "fail" => m.id \in OrderIds
  <2>1. told' = told \/ /\ pc[w] = "notify" \/ pc[w] = "succeed" \/ pc[w] = "fail"
                        /\ \E k \in {"store", pc[w]} : told' = told \cup {Message(w, k)}
                        /\ pc[w] = "fail" => told' = told \cup {Message(w, "fail")}
    BY DEF Placing, Step, Begin, LookUp, Connect, Start, InsertOrder, InsertItem, Throw, Rollback,
           Commit, Notify, Reply, history
  <2>2. pc[w] \in {"notify", "succeed"} => orderId[w] \in OrderIds
    BY DEF Inv, Outcome, Settled
  <2> QED
    BY <2>1, <2>2 DEF Kept, Message
<1>5. Spoken'
  BY <1>1 DEF Kept, Spoken, Agrees, queryVars
<1>6. Kept'
  BY <1>1, <1>4, <1>5 DEF Kept, queryVars
<1> QED
  BY <1>3, <1>6

(* A step of a request leaves the other workers' alone, and the orders. *)
Others(w) == \A v \in Workers : v # w => Same(v)

(* Where stores are set, what is owed shrinks, but for the news. *)
LEMMA SetOpenOwed ==
  ASSUME Kept, NEW w \in Workers, NEW news, news \subseteq [id : Nat, open : 0 .. 1],
         SetOpen(w, news) \/ UNCHANGED <<table, said, owed>>
  PROVE  /\ said' \subseteq said /\ owed' \in [Workers -> Debts]
         /\ \A v \in Workers : /\ owed'[v].orders = owed[v].orders /\ owed'[v].rows = owed[v].rows
                               /\ owed'[v].said \subseteq owed[v].said \cup (IF v = w THEN news ELSE {})
<1>1. CASE UNCHANGED <<table, said, owed>>
  BY <1>1 DEF Kept
<1>2. CASE ~UNCHANGED <<table, said, owed>>
  <2> DEFINE i == ask[w].store
             b == ask[w].row.open
             more(v) == IF v = w THEN news ELSE {}
  <2>1. /\ said' = Still(said, i, b)
        /\ owed' = [v \in Workers |-> [owed[v] EXCEPT !.said = Still(@, i, b) \cup more(v)]]
    BY <1>2 DEF SetOpen
  <2> HIDE DEF i, b
  <2>2. ASSUME NEW v \in Workers
        PROVE  /\ owed'[v] \in Debts
               /\ owed'[v].orders = owed[v].orders /\ owed'[v].rows = owed[v].rows
               /\ owed'[v].said \subseteq owed[v].said \cup more(v)
    <3>1. owed[v] \in Debts
      BY DEF Kept
    <3>2. owed'[v] = [owed[v] EXCEPT !.said = Still(owed[v].said, i, b) \cup more(v)]
      BY <2>1
    <3>3. /\ owed'[v].orders = owed[v].orders /\ owed'[v].rows = owed[v].rows
          /\ owed'[v].said = Still(owed[v].said, i, b) \cup more(v)
          /\ DOMAIN owed'[v] = DOMAIN owed[v]
      BY <3>1, <3>2 DEF Debts
    <3>4. Still(owed[v].said, i, b) \subseteq owed[v].said
      BY DEF Still
    <3>5. Still(owed[v].said, i, b) \cup more(v) \in SUBSET [id : Nat, open : 0 .. 1]
      BY <3>1, <3>4 DEF Debts
    <3>6. owed'[v] \in Debts
      BY <3>1, <3>2, <3>5 DEF Debts
    <3> QED
      BY <3>3, <3>4, <3>6
  <2>3. owed' \in [Workers -> Debts]
    BY <2>1, <2>2
  <2>4. said' \subseteq said
    BY <2>1 DEF Still
  <2> QED
    BY <2>2, <2>3, <2>4
<1> QED
  BY <1>1, <1>2

LEMMA ToggleOwed ==
  ASSUME Typed, Kept, NEW w \in Workers, Toggle(w)
  PROVE  /\ said' \subseteq said /\ owed' \in [Workers -> Debts]
         /\ \A v \in Workers : /\ owed'[v].orders = owed[v].orders /\ owed'[v].rows = owed[v].rows
                               /\ v # w => owed'[v].said \subseteq owed[v].said
<1> DEFINE news == {[id |-> ask[w].store, open |-> ask[w].row.open]}
<1>1. news \subseteq [id : Nat, open : 0 .. 1] /\ {} \subseteq [id : Nat, open : 0 .. 1]
  <2>1. ask[w] \in Asks
    BY DEF Toggle, Typed, QueryTypes
  <2> QED
    BY <2>1, AskFacts DEF TableRow
<1>2. SetOpen(w, news) \/ SetOpen(w, {}) \/ UNCHANGED <<table, said, owed>>
  BY DEF Toggle
<1> HIDE DEF news
<1> QED
  BY <1>1, <1>2, SetOpenOwed

LEMMA QuerySame ==
  ASSUME Typed, Kept, NEW w \in Workers, (\E a \in Asks : BeginQuery(w, a)) \/ Query(w)
  PROVE  Others(w) /\ OrdersGrow /\ told' = told /\ over' = over
<1>1. OrdersGrow /\ told' = told /\ over' = over
  <2>1. UNCHANGED <<orders, untied, told, missing, over>>
    BY DEF BeginQuery, Query, FindStores, Borrow, FindOwner, SelectRows, SelectItems, ItemsDone,
           InsertRow, SetFlag, Toggle, ReplyQuery, placing, history
  <2> QED
    BY <2>1 DEF OrdersGrow
<1>2. Others(w)
  <2> SUFFICES ASSUME NEW v \in Workers, v # w PROVE Same(v)
    BY DEF Others
  <2>1. \A x : AnswerWith(w, x) => at'[v] = at[v] /\ ok'[v] = ok[v]
    BY DEF AnswerWith, Move, Typed, QueryTypes
  <2>2. GivesUp(w) => at'[v] = at[v] /\ ok'[v] = ok[v] /\ cut'[v] = cut[v]
    BY <2>1 DEF GivesUp, Typed, QueryTypes
  <2>3. \A x : Move(w, x) => at'[v] = at[v]
    BY DEF Move, Typed, QueryTypes
  <2> USE DEF Same, Keeps, facts
  <2>4. ASSUME NEW a \in Asks, BeginQuery(w, a) PROVE Same(v)
    <3>1. ask'[v] = ask[v] /\ owed'[v] = owed[v]
      BY <2>4 DEF BeginQuery, Typed, QueryTypes, Kept
    <3> QED
      BY <2>3, <2>4, <3>1 DEF BeginQuery
  <2>5. CASE FindStores(w)
    <3>1. cut'[v] = cut[v]
      BY <2>5 DEF FindStores, Typed, QueryTypes
    <3> QED
      BY <2>1, <2>3, <2>5, <3>1 DEF FindStores
  <2>6. CASE Borrow(w)
    BY <2>2, <2>3, <2>6 DEF Borrow
  <2>7. CASE FindOwner(w)
    BY <2>2, <2>3, <2>7 DEF FindOwner
  <2>8. CASE SelectRows(w)
    <3>1. list'[v] = list[v] /\ todo'[v] = todo[v]
      BY <2>8 DEF SelectRows, Typed, QueryTypes
    <3> QED
      BY <2>1, <2>2, <2>3, <2>8, <3>1 DEF SelectRows
  <2>9. CASE SelectItems(w)
    BY <2>9 DEF SelectItems, Typed, QueryTypes
  <2>10. CASE ItemsDone(w)
    BY <2>1, <2>10 DEF ItemsDone
  <2>11. CASE InsertRow(w)
    <3>1. list'[v] = list[v]
      BY <2>11 DEF InsertRow, ExecuteUpdate, Typed, QueryTypes
    <3> QED
      BY <2>1, <2>2, <2>3, <2>11, <3>1 DEF InsertRow, ExecuteUpdate
  <2>12. CASE SetFlag(w)
    BY <2>1, <2>12 DEF SetFlag
  <2>13. CASE Toggle(w)
    <3>1. /\ owed'[v].orders = owed[v].orders /\ owed'[v].rows = owed[v].rows
          /\ owed'[v].said \subseteq owed[v].said
      BY <2>13, ToggleOwed
    <3> QED
      BY <2>1, <2>2, <2>13, <3>1 DEF Toggle
  <2>14. CASE ReplyQuery(w)
    BY <2>14 DEF ReplyQuery, Move, Typed, QueryTypes, Kept
  <2> QED
    BY <2>4, <2>5, <2>6, <2>7, <2>8, <2>9, <2>10, <2>11, <2>12, <2>13, <2>14 DEF Query
<1> QED
  BY <1>1, <1>2

(* What the other workers know survives a step under which all grows. *)
LEMMA QueryListInv ==
  ASSUME ListInv, NEW w \in Workers, Others(w), Grow, ListFor(w)', Kept', Inv'
  PROVE  ListInv'
BY GrowKeeps DEF ListInv, Others

(* An answer given early is a list that is known to be cut, or a failure. *)
LEMMA GivesUpKeeps ==
  ASSUME ListInv, NEW w \in Workers, GivesUp(w), ask' = ask, list' = list, todo' = todo, Grow,
         owed'[w].orders = owed[w].orders, owed'[w].rows = owed[w].rows
  PROVE  ListFor(w)'
<1> USE DEF ListInv, Inv, Typed, QueryTypes
<1>1. at'[w] = "reply" /\ cut'[w] = TRUE /\ ok'[w] = (ask[w].op \in Lists)
  BY DEF GivesUp, AnswerWith, Move
<1>2. ok'[w] /\ ask[w].op = "register" => FALSE
  BY <1>1 DEF Lists
<1>3. Routed(w)'
  BY <1>1 DEF Routed
<1>4. Numbers(w)' = Numbers(w)
  BY DEF Numbers
<1>5. /\ Table(w)' = Table(w) /\ Source(w)' = Source(w)
      /\ DOMAIN table[Table(w)] \subseteq DOMAIN table'[Table(w)]
      /\ DOMAIN table[Source(w)] \subseteq DOMAIN table'[Source(w)]
  BY GrowJoined DEF Grow
<1>6. Placed \subseteq Placed'
  BY DEF Grow, OrdersGrow, Placed
<1>7. Owes(w)'
  BY <1>5, <1>6 DEF ListFor, Owes
<1>8. Announces(w)'
  BY <1>1, <1>2, <1>4, <1>5 DEF ListFor, Announces
<1>9. Reads(w)' /\ ShowsRows(w)'
  BY <1>1 DEF Reads, ShowsRows
<1> QED
  BY <1>3, <1>7, <1>8, <1>9 DEF ListFor

(* What a list owes when it begins is there. *)
LEMMA BeginQueryLists ==
  ASSUME ListInv, NEW w \in Workers, NEW a \in Asks, BeginQuery(w, a)
  PROVE  Grow /\ ListFor(w)' /\ Kept'
<1> USE DEF ListInv, Inv, Typed, QueryTypes
<1> DEFINE answered == {m.id : m \in {n \in told : n.kind = "succeed" /\ n.by \notin unsure}}
           src == IF a.op = "menus" THEN "menu" ELSE "store"
           new == [orders |-> answered \ (IF a.op = "orders" THEN over ELSE {}),
                   rows   |-> promised[src],
                   said   |-> said]
<1>1. /\ at[w] = "idle" /\ at'[w] \in {"connect", "ids"} /\ (at'[w] = "ids" => a.op = "orders")
      /\ ask' = [ask EXCEPT ![w] = a] /\ ask'[w] = a /\ list'[w] = {}
      /\ owed' = [owed EXCEPT ![w] = new]
      /\ UNCHANGED <<orders, table, flagged, promised, said, unflagged, told, list, over, missing>>
  BY DEF BeginQuery, Move, placing, history, ListFor, Routed
<1>2. Grow
  <2>1. OrdersGrow
    BY QuerySame
  <2> QED
    BY <1>1, <2>1 DEF Grow, TablesGrow
<1>3. answered \subseteq Placed
  <2> SUFFICES ASSUME NEW m \in told, m.kind = "succeed", m.by \notin unsure
               PROVE  m.id \in Placed
    OBVIOUS
  <2>1. m.id \in OrderIds /\ m.by \in Requests
    BY DEF Kept, TypeOK
  <2>2. orders[m.id].by = m.by /\ orders[m.id].items = m.by.items
    BY DEF AnswersAreTrue, ToldOrdersExist
  <2>3. orders[m.id] # NoOrder /\ orders[m.id].items > 0
    BY <2>1, <2>2, NoRequestFacts, BoundsAssumption
  <2> QED
    BY <2>1, <2>2, <2>3 DEF Placed
<1> HIDE DEF answered, src
<1>4. src \in Tables /\ Source(w)' = src
  <2>1. src \in Tables
    BY TableNames DEF src
  <2>2. Source(w)' = src
    BY <1>1, Zenon DEF Source, src
  <2> QED
    BY <2>1, <2>2
<1>5. new \in Debts
  <2>1. new.orders \in SUBSET Nat
    <3>1. answered \subseteq OrderIds /\ OrderIds \subseteq Nat
      BY <1>3 DEF Placed, OrderIds
    <3> QED
      BY <3>1
  <2>2. promised[src] \in SUBSET Nat
    BY <1>4 DEF Kept
  <2>3. said \in SUBSET [id : Nat, open : 0 .. 1]
    BY DEF Kept
  <2> QED
    BY <2>1, <2>2, <2>3 DEF Debts
<1>6. owed'[w] = new /\ owed' \in [Workers -> Debts]
  <2> HIDE DEF new
  <2>1. owed \in [Workers -> Debts]
    BY DEF Kept
  <2> QED
    BY <1>1, <1>5, <2>1
<1>7. /\ owed'[w].orders \subseteq answered /\ owed'[w].rows = promised[src] /\ owed'[w].said = said
      /\ a.op = "orders" => owed'[w].orders \cap over = {}
  BY <1>6
<1> HIDE DEF new
<1>8. Owes(w)'
  <2>1. Placed' = Placed
    BY <1>1 DEF Placed
  <2>2. promised[src] \subseteq DOMAIN table[src]
    BY <1>4 DEF Kept
  <2>3. DOMAIN table'[Source(w)'] = DOMAIN table[src]
    BY <1>1, <1>4
  <2> QED
    BY <1>3, <1>7, <2>1, <2>2, <2>3 DEF Owes
<1>9. Routed(w)' /\ Announces(w)' /\ Reads(w)' /\ ShowsRows(w)'
  BY <1>1 DEF Routed, Announces, Numbers, Reads, ShowsRows, Listing
<1>10. Spoken'
  <2>1. ASSUME NEW v \in Workers, v # w
        PROVE  owed'[v] = owed[v] /\ ask'[v] = ask[v]
    BY <1>1, <2>1 DEF Kept
  <2>2. \A s : Agrees(s)' <=> Agrees(s)
    BY <1>1 DEF Agrees
  <2>3. ASSUME NEW v \in Workers
        PROVE  /\ \A s \in owed'[v].said : Agrees(s)'
               /\ ask'[v].op = "orders" => owed'[v].orders \cap over' = {}
    <3>1. CASE v = w
      BY <1>1, <1>7, <2>2, <3>1 DEF Kept, Spoken
    <3>2. CASE v # w
      BY <1>1, <2>1, <2>2, <3>2 DEF Kept, Spoken
    <3> QED
      BY <3>1, <3>2
  <2>4. \A s \in said' : Agrees(s)'
    BY <1>1, <2>2 DEF Kept, Spoken
  <2> QED
    BY <2>3, <2>4 DEF Spoken
<1>11. Kept'
  BY <1>1, <1>6, <1>10 DEF Kept
<1> QED
  BY <1>2, <1>8, <1>9, <1>11 DEF ListFor

(* The steps before the rows of a list are read, or a row is written. *)
LEMMA ApproachLists ==
  ASSUME ListInv, NEW w \in Workers, FindStores(w) \/ Borrow(w) \/ FindOwner(w)
  PROVE  Grow /\ ListFor(w)' /\ Kept'
<1> USE DEF ListInv, Inv, Typed, QueryTypes
<1>1. /\ UNCHANGED <<orders, table, flagged, promised, said, unflagged, told, ask, list, todo, owed,
                     over>>
      /\ at[w] \in {"ids", "connect", "owner"}
  BY DEF FindStores, Borrow, FindOwner, placing, history, facts
<1>2. Grow
  <2>1. OrdersGrow
    BY QuerySame DEF Query
  <2> QED
    BY <1>1, <2>1 DEF Grow, TablesGrow
<1>3. Kept'
  BY <1>1 DEF Kept, Spoken, Agrees
<1>4. ask[w] \in Asks /\ ask[w].op \in Lists \cup {"register", "menu", "toggle"}
  <2>1. at[w] # "idle"
    BY <1>1
  <2> QED
    BY <2>1, AskFacts
<1>5. \/ GivesUp(w)
      \/ ask[w].op = "orders" /\ at'[w] = "reply" /\ ok'[w] = FALSE
      \/ /\ at'[w] \in {"connect", "owner", "insert", "rows", "update"}
         /\ at'[w] = "insert" => ask[w].op \in {"register", "menu"}
         /\ at'[w] = "rows" => ask[w].op \in Lists
         /\ at'[w] = "update" => ask[w].op = "toggle"
  <2>1. CASE FindStores(w)
    BY <2>1 DEF FindStores, AnswerWith, Move, ListFor, Routed
  <2>2. CASE Borrow(w)
    BY <1>4, <2>2 DEF Borrow, Move, FirstStatement, Lists
  <2>3. CASE FindOwner(w)
    <3>1. ask[w].op \in {"register", "toggle", "mine"}
      BY <1>4, <2>3 DEF FindOwner, FirstStatement, Lists
    <3> QED
      BY <2>3, <3>1 DEF FindOwner, Move, AfterOwner, Lists
  <2> QED
    BY <2>1, <2>2, <2>3
<1>6. Owes(w)'
  BY <1>1 DEF ListFor, Owes, Placed, Source
<1>7. ~GivesUp(w) => Routed(w)' /\ Announces(w)' /\ Reads(w)' /\ ShowsRows(w)'
  <2>1. Numbers(w)' = Numbers(w) /\ Table(w)' = Table(w)
    BY <1>1 DEF Numbers, Table
  <2> QED
    BY <1>1, <1>5, <2>1 DEF ListFor, Routed, Announces, Reads, ShowsRows, Listing
<1> QED
  BY <1>1, <1>2, <1>3, <1>6, <1>7, GivesUpKeeps DEF ListFor

LEMMA WholeShows ==
  ASSUME Inv, NEW i \in Visible
  PROVE  \A op : /\ Items(op, orders[i]) = AllItems(op, i) \/ orders[i].by \in untied
                 /\ i \in Placed => Items(op, orders[i]) = AllItems(op, i)
<1>1. i \in OrderIds /\ orders[i] # NoOrder
  BY DEF Visible
<1>2. orders[i].items = orders[i].by.items \/ orders[i].by \in untied
  BY <1>1 DEF Inv, WholeOrders
<1>3. ASSUME NEW op, orders[i].items = orders[i].by.items
      PROVE  Items(op, orders[i]) = AllItems(op, i)
  BY <1>3 DEF Items, AllItems
<1> QED
  BY <1>2, <1>3 DEF Placed

(* The rows are read: what is owed is among them, or left out by the SELECT,    *)
(* or beside a row that is too wide.                                           *)
LEMMA SelectRowsLists ==
  ASSUME ListInv, NEW w \in Workers, SelectRows(w)
  PROVE  Grow /\ ListFor(w)' /\ Kept'
<1> USE DEF ListInv, Typed, QueryTypes
<1>0. Inv /\ Typed
  BY DEF Inv
<1>1. /\ UNCHANGED <<orders, untied, told, table, flagged, promised, said, unflagged, ask, owed,
                     over, missing>>
      /\ at[w] = "rows"
  BY DEF SelectRows, placing, history, facts
<1>2. Grow
  <2>1. OrdersGrow
    BY <1>0, QuerySame DEF Query
  <2> QED
    BY <1>1, <2>1 DEF Grow, TablesGrow
<1>3. Kept'
  BY <1>1 DEF Kept, Spoken, Agrees
<1>4. ask[w].op \in Lists
  BY <1>1 DEF ListFor, Routed
<1>5. CASE GivesUp(w) /\ UNCHANGED <<list, todo>>
  BY <1>1, <1>2, <1>3, <1>5, GivesUpKeeps
<1>6. ASSUME NEW rows \in Shown(w),
             list' = [list EXCEPT ![w] = rows],
             IF ask[w].op = "orders"
             THEN todo' = [todo EXCEPT ![w] = Open] /\ Move(w, "items") /\ Keeps
             ELSE AnswerWith(w, TRUE) /\ UNCHANGED todo
      PROVE  ListFor(w)'
  <2>1. /\ list'[w] = rows
        /\ ask[w].op = "orders" => todo'[w] = Open /\ at'[w] = "items"
        /\ ask[w].op # "orders" => at'[w] = "reply" /\ ok'[w] = TRUE
    BY <1>0, <1>6 DEF Move, AnswerWith
  <2>2. Owes(w)'
    BY <1>1 DEF ListFor, Owes, Placed, Source
  <2>3. Routed(w)' /\ Announces(w)'
    BY <1>1, <1>4, <2>1 DEF Routed, Announces, Lists
  <2>4. Visible' = Visible /\ Placed \subseteq Visible /\ owed[w].orders \subseteq Placed
        /\ Open \subseteq Visible
    BY <1>1 DEF Placed, Visible, ListFor, Owes, Open
  <2>5. \A op : \A i : AllItems(op, i)' = AllItems(op, i)
    BY <1>1 DEF AllItems, Items
  <2>6. Reads(w)'
    <3>1. CASE ask[w].op = "orders"
      <4>1. list'[w] = {[id |-> i, shows |-> {}] : i \in Open}
        BY <2>1, <3>1 DEF Shown
      <4>3. \A e \in list'[w] : e.id \in Open /\ e.shows = {}
        BY <4>1
      <4>4. Numbers(w)' = Open
        <5>1. ASSUME NEW i \in Open PROVE i \in {e.id : e \in list'[w]}
          <6>1. [id |-> i, shows |-> {}] \in list'[w] /\ [id |-> i, shows |-> {}].id = i
            BY <4>1
          <6> QED
            BY <6>1
        <5> QED
          BY <4>3, <5>1 DEF Numbers
      <4>5. owed[w].orders \cap over = {}
        BY <3>1 DEF Kept, Spoken
      <4>6. owed'[w].orders \subseteq Open
        BY <1>1, <2>4, <4>5 DEF Open
      <4> QED
        BY <1>1, <2>1, <2>4, <3>1, <4>3, <4>4, <4>6 DEF Reads
    <3>2. CASE ask[w].op = "history"
      <4> DEFINE H == {j \in Visible : Items("history", orders[j]) # {}}
      <4>1. list'[w] = {[id |-> i, shows |-> Items("history", orders[i])] : i \in H}
        BY <2>1, <3>2 DEF Shown
      <4>2. \A i : i \in H <=> i \in Visible /\ Items("history", orders[i]) # {}
        OBVIOUS
      <4> HIDE DEF H
      <4>3. \A e \in list'[w] : e.id \in H /\ e.shows = Items("history", orders[e.id])
        BY <4>1
      <4>4. Numbers(w)' = H
        <5>1. ASSUME NEW i \in H PROVE i \in {e.id : e \in list'[w]}
          <6> DEFINE r == [id |-> i, shows |-> Items("history", orders[i])]
          <6>1. r \in list'[w] /\ r.id = i
            BY <4>1
          <6> QED
            BY <6>1
        <5> QED
          BY <4>3, <5>1 DEF Numbers
      <4>5. ASSUME NEW i \in owed[w].orders, i \notin H PROVE AllItems("history", i) = {}
        <5>1. i \in Placed /\ i \in Visible
          BY <2>4, <4>5
        <5>2. Items("history", orders[i]) = {}
          BY <4>2, <4>5, <5>1
        <5> QED
          BY <1>0, <5>1, <5>2, WholeShows
      <4>6. ASSUME NEW e \in list'[w] PROVE e.id \in Visible' /\ Truly("history", e)'
        <5>1. e.id \in Visible /\ e.shows = Items("history", orders[e.id])
          BY <4>2, <4>3
        <5>2. e.shows = AllItems("history", e.id) \/ orders[e.id].by \in untied
          BY <1>0, <5>1, WholeShows
        <5> QED
          BY <1>1, <2>4, <2>5, <5>1, <5>2 DEF Truly
      <4>7. at'[w] = "reply"
        BY <2>1, <3>2
      <4> QED
        BY <1>1, <2>5, <3>2, <4>4, <4>5, <4>6, <4>7 DEF Reads
    <3>3. CASE ask[w].op \notin {"orders", "history"}
      BY <1>1, <2>1, <3>3 DEF Reads
    <3> QED
      BY <3>1, <3>2, <3>3
  <2>7. ShowsRows(w)'
    <3>0. Table(w)' = Table(w) /\ Joined(w)' = Joined(w) /\ (TooWide(w)' <=> TooWide(w))
      BY <1>1 DEF Table, Joined, TooWide
    <3> SUFFICES ASSUME ask[w].op \in {"stores", "mine", "menus"}
                 PROVE  /\ \A i \in owed[w].rows \ Numbers(w)' :
                              i \in DOMAIN table[Table(w)] /\ (i \in Joined(w) => TooWide(w))
                        /\ ask[w].op = "stores" =>
                              \A e \in list'[w] : \A s \in owed[w].said : s.id = e.id => e.shows = {s.open}
      BY <1>1, <3>0 DEF ShowsRows, Listing
    <3>1. Table(w) = Source(w)
      BY DEF Table, Source
    <3>2. PICK S \in Fetched(w) : list'[w] = {[id |-> i, shows |-> {table[Table(w)][i].open}] : i \in S}
      BY <2>1 DEF Shown
    <3>4. \A e \in list'[w] : e.id \in S /\ e.shows = {table[Table(w)][e.id].open}
      BY <3>2
    <3>5. Numbers(w)' = S
      <4>1. ASSUME NEW i \in S PROVE i \in {e.id : e \in list'[w]}
        <5> DEFINE r == [id |-> i, shows |-> {table[Table(w)][i].open}]
        <5>1. r \in list'[w] /\ r.id = i
          BY <3>2
        <5> QED
          BY <5>1
      <4> QED
        BY <3>4, <4>1 DEF Numbers
    <3>6. ASSUME NEW i \in owed[w].rows, i \notin S
          PROVE  i \in DOMAIN table[Table(w)] /\ (i \in Joined(w) => TooWide(w))
      <4>1. i \in DOMAIN table[Table(w)]
        BY <3>1 DEF ListFor, Owes
      <4>2. ASSUME i \in Joined(w) PROVE TooWide(w)
        <5>1. S # Joined(w)
          BY <3>6, <4>2
        <5>2. {j \in Joined(w) : table[Table(w)][j].wide} # {}
          BY <5>1 DEF Fetched
        <5> QED
          BY <5>2 DEF TooWide
      <4> QED
        BY <4>1, <4>2
    <3>7. ASSUME ask[w].op = "stores", NEW e \in list'[w], NEW s \in owed[w].said, s.id = e.id
          PROVE  e.shows = {s.open}
      <4>1. table["store"][s.id].open = s.open
        BY DEF Kept, Spoken, Agrees
      <4>2. Table(w) = "store"
        BY <3>7 DEF Table
      <4> QED
        BY <3>4, <3>7, <4>1, <4>2
    <3> QED
      BY <3>5, <3>6, <3>7
  <2> QED
    BY <2>2, <2>3, <2>6, <2>7 DEF ListFor
<1> QED
  BY <1>2, <1>3, <1>5, <1>6 DEF SelectRows

(* The items of the owner's orders, one order after the other. *)
LEMMA ItemsLists ==
  ASSUME ListInv, NEW w \in Workers, SelectItems(w) \/ ItemsDone(w)
  PROVE  Grow /\ ListFor(w)' /\ Kept'
<1> USE DEF ListInv, Typed, QueryTypes
<1>0. Inv /\ Typed
  BY DEF Inv
<1>1. /\ UNCHANGED <<orders, untied, told, table, flagged, promised, said, unflagged, ask, owed,
                     over, missing>>
      /\ at[w] = "items" /\ ask[w].op = "orders"
  BY DEF SelectItems, ItemsDone, placing, history, facts, ListFor, Routed
<1>2. Grow
  <2>1. OrdersGrow
    BY <1>0, QuerySame DEF Query
  <2> QED
    BY <1>1, <2>1 DEF Grow, TablesGrow
<1>3. Kept'
  BY <1>1 DEF Kept, Spoken, Agrees
<1>4. at'[w] \in {"items", "reply"}
  BY <1>0, <1>1 DEF SelectItems, ItemsDone, AnswerWith, Move
<1>5. Owes(w)'
  BY <1>1 DEF ListFor, Owes, Placed, Source
<1>6. Routed(w)' /\ Announces(w)' /\ ShowsRows(w)'
  BY <1>1, <1>4 DEF Routed, Announces, ShowsRows, Listing
<1>7. /\ Visible' = Visible
      /\ \A op : \A i : AllItems(op, i)' = AllItems(op, i)
      /\ \A op : \A e : Truly(op, e)' <=> Truly(op, e)
  BY <1>1 DEF Visible, Truly, AllItems, Items
<1>8. CASE ItemsDone(w)
  <2>1. todo[w] = {} /\ list' = list /\ cut' = cut /\ at'[w] = "reply"
    BY <1>0, <1>8 DEF ItemsDone, AnswerWith, Move
  <2>2. Numbers(w)' = Numbers(w)
    BY <2>1 DEF Numbers
  <2>3. Reads(w)'
    BY <1>1, <1>7, <2>1, <2>2 DEF ListFor, Reads
  <2> QED
    BY <1>2, <1>3, <1>5, <1>6, <2>3 DEF ListFor
<1>9. CASE SelectItems(w)
  <2>1. PICK i \in todo[w] :
           /\ todo' = [todo EXCEPT ![w] = @ \ {i}]
           /\ \/ /\ list' = [list EXCEPT ![w] = (@ \ {[id |-> i, shows |-> {}]})
                                                \cup {[id |-> i, shows |-> Items("orders", orders[i])]}]
                 /\ UNCHANGED cut
              \/ cut' = [cut EXCEPT ![w] = TRUE] /\ UNCHANGED list
    BY <1>9 DEF SelectItems
  <2>2. at'[w] = "items" /\ todo'[w] = todo[w] \ {i} /\ i \in OrderIds
    BY <1>0, <1>1, <1>9, <2>1 DEF SelectItems
  <2>3. CASE cut'[w]
    BY <2>3, <1>2, <1>3, <1>5, <1>6 DEF Reads, ListFor
  <2>4. CASE ~cut'[w]
    <3> DEFINE zero == [id |-> i, shows |-> {}]
               read == [id |-> i, shows |-> Items("orders", orders[i])]
    <3>1. list'[w] = (list[w] \ {zero}) \cup {read} /\ ~cut[w]
      BY <1>0, <2>1, <2>4
    <3>2. /\ \A j \in owed[w].orders \ Numbers(w) : FALSE
          /\ todo[w] \subseteq Visible
          /\ \A e \in list[w] :
                /\ e.id \in Visible
                /\ IF e.id \in todo[w] THEN e.shows = {} ELSE Truly("orders", e)
      BY <1>1, <3>1 DEF ListFor, Reads
    <3>3. Numbers(w) \subseteq Numbers(w)'
      <4>1. ASSUME NEW e \in list[w] PROVE e.id \in {x.id : x \in list'[w]}
        <5>1. CASE e = zero
          <6>1. read.id = e.id /\ read \in list'[w]
            BY <3>1, <5>1
          <6> QED
            BY <6>1
        <5>2. CASE e # zero
          BY <3>1, <5>2
        <5> QED
          BY <5>1, <5>2
      <4> QED
        BY <4>1 DEF Numbers
    <3>4. ASSUME NEW e \in list'[w]
          PROVE  e.id \in Visible /\ IF e.id \in todo'[w] THEN e.shows = {} ELSE Truly("orders", e)
      <4>1. CASE e \in list[w] /\ e # zero
        <5>1. CASE e.id = i
          <6>1. e.shows = {} /\ e \in [id : Nat, shows : SUBSET Nat]
            BY <1>0, <2>1, <3>2, <4>1, <5>1
          <6>2. e = zero
            BY <5>1, <6>1
          <6> QED
            BY <4>1, <6>2
        <5>2. CASE e.id # i
          BY <2>2, <3>2, <4>1, <5>2
        <5> QED
          BY <5>1, <5>2
      <4>2. CASE e = read
        <5>1. e.id = i /\ e.shows = Items("orders", orders[i])
          BY <4>2
        <5>2. i \in Visible
          BY <3>2
        <5>3. e.shows = AllItems("orders", i) \/ orders[i].by \in untied
          BY <1>0, <5>1, <5>2, WholeShows
        <5> QED
          BY <2>2, <5>1, <5>2, <5>3 DEF Truly
      <4> QED
        BY <3>1, <4>1, <4>2
    <3>5. Reads(w)'
      BY <1>1, <1>7, <2>2, <3>2, <3>3, <3>4 DEF Reads
    <3> QED
      BY <1>2, <1>3, <1>5, <1>6, <3>5 DEF ListFor
  <2> QED
    BY <2>3, <2>4
<1> QED
  BY <1>8, <1>9

(* A row is appended: nothing else in the tables changes. *)
LEMMA InsertGrows ==
  ASSUME Typed, NEW w \in Workers, Insert(w)
  PROVE  TablesGrow /\ OpenKept /\ Len(table'[Table(w)]) \in DOMAIN table'[Table(w)]
<1> DEFINE t == Table(w)
           row == ask[w].row
<1>1. table \in [Tables -> Seq(TableRow)] /\ t \in Tables /\ table[t] \in Seq(TableRow)
  BY TableNames DEF Typed, QueryTypes
<1> HIDE DEF t, row
<1>2. table' = [table EXCEPT ![t] = Append(@, row)]
  BY DEF Insert, t, row
<1>3. table'[t] = Append(table[t], row) /\ \A u \in Tables : u # t => table'[u] = table[u]
  BY <1>1, <1>2
<1>4. /\ DOMAIN table[t] = 1 .. Len(table[t]) /\ Len(table[t]) \in Nat
      /\ DOMAIN Append(table[t], row) = 1 .. Len(table[t]) + 1
      /\ Len(Append(table[t], row)) = Len(table[t]) + 1
      /\ \A i \in 1 .. Len(table[t]) : Append(table[t], row)[i] = table[t][i]
  <2>1. PICK s \in Seq(TableRow) : s = table[t]
    BY <1>1
  <2>2. /\ DOMAIN s = 1 .. Len(s) /\ Len(s) \in Nat
        /\ DOMAIN Append(s, row) = 1 .. Len(s) + 1
        /\ Len(Append(s, row)) = Len(s) + 1
        /\ \A i \in 1 .. Len(s) : Append(s, row)[i] = s[i]
    OBVIOUS
  <2> QED
    BY <2>1, <2>2
<1>5. /\ DOMAIN table[t] \subseteq DOMAIN table'[t] /\ Len(table'[t]) \in DOMAIN table'[t]
      /\ \A i \in DOMAIN table[t] : table'[t][i] = table[t][i]
  BY <1>3, <1>4
<1>6. \A u \in Tables : /\ DOMAIN table[u] \subseteq DOMAIN table'[u]
                        /\ \A i \in DOMAIN table[u] : table'[u][i] = table[u][i]
  BY <1>3, <1>5
<1>7. TablesGrow /\ OpenKept
  BY <1>6, TableNames DEF TablesGrow, OpenKept
<1>8. Len(table'[Table(w)]) \in DOMAIN table'[Table(w)]
  BY <1>5 DEF t
<1> QED
  BY <1>7, <1>8

(* A statement of a request that writes leaves what was promised true. *)
LEMMA WritingKeeps ==
  ASSUME ListInv, NEW w \in Workers, OrdersGrow, TablesGrow, OpenKept,
         UNCHANGED <<promised, said, owed, told, ask, over>>, flagged \/ unflagged => flagged' \/ unflagged'
  PROVE  Grow /\ Kept' /\ Owes(w)'
<1>1. \A t \in Tables : DOMAIN table[t] \subseteq DOMAIN table'[t]
  BY DEF TablesGrow
<1>2. Placed \subseteq Placed'
  BY DEF OrdersGrow, Placed
<1>3. Source(w)' = Source(w) /\ Source(w) \in Tables
  BY TableNames DEF Source
<1>4. ASSUME NEW s, Agrees(s) PROVE Agrees(s)'
  BY <1>1, <1>4, TableNames DEF Agrees, OpenKept
<1>5. Spoken'
  BY <1>4 DEF ListInv, Kept, Spoken
<1>6. Kept'
  BY <1>1, <1>5 DEF ListInv, Kept
<1>7. Owes(w)'
  <2>1. owed[w].orders \subseteq Placed /\ owed[w].rows \subseteq DOMAIN table[Source(w)]
    BY DEF ListInv, ListFor, Owes
  <2>2. DOMAIN table[Source(w)] \subseteq DOMAIN table'[Source(w)]
    BY <1>1, <1>3
  <2>3. DOMAIN table'[Source(w)'] = DOMAIN table'[Source(w)]
    BY <1>3
  <2> QED
    BY <1>2, <2>1, <2>2, <2>3 DEF Owes
<1> QED
  BY <1>6, <1>7 DEF Grow

(* A row is inserted: its number is what will be promised. *)
LEMMA InsertRowLists ==
  ASSUME ListInv, NEW w \in Workers, InsertRow(w)
  PROVE  Grow /\ ListFor(w)' /\ Kept'
<1>1. Typed /\ Kept /\ ListFor(w)
  BY DEF ListInv, Inv
<1>2. /\ at[w] = "insert" /\ ask[w].op \in {"register", "menu"}
      /\ UNCHANGED <<promised, said, owed, told, ask, todo, flagged, unflagged, over>>
  BY <1>1 DEF InsertRow, ExecuteUpdate, Insert, facts, placing, history, ListFor, Routed
<1>3. TablesGrow /\ OpenKept
  <2>1. CASE Insert(w)
    BY <1>1, <2>1, InsertGrows
  <2>2. CASE table' = table
    BY <2>2 DEF TablesGrow, OpenKept
  <2> QED
    BY <2>1, <2>2 DEF InsertRow, ExecuteUpdate
<1>4. OrdersGrow
  BY <1>1, QuerySame DEF Query
<1>5. Grow /\ Kept' /\ Owes(w)'
  BY <1>2, <1>3, <1>4, WritingKeeps
<1>6. CASE GivesUp(w) /\ UNCHANGED list
  BY <1>2, <1>5, <1>6, GivesUpKeeps
<1>7. CASE /\ Insert(w)
           /\ list' = [list EXCEPT ![w] = {[id |-> Len(table'[Table(w)]), shows |-> {1}]}]
           /\ IF ask[w].op = "register" THEN Move(w, "flag") /\ Keeps ELSE AnswerWith(w, TRUE)
  <2> DEFINE l == Len(table'[Table(w)])
             new == {[id |-> l, shows |-> {1}]}
  <2>1. list \in [Workers -> SUBSET [id : Nat, shows : SUBSET Nat]] /\ at \in [Workers -> Places]
    BY <1>1 DEF Typed, QueryTypes
  <2>2. list' = [list EXCEPT ![w] = new]
    BY <1>7
  <2>3. \/ at'[w] = "flag" /\ ask[w].op = "register"
        \/ at'[w] = "reply" /\ ask[w].op = "menu"
    <3>1. CASE ask[w].op = "register"
      <4>1. at' = [at EXCEPT ![w] = "flag"]
        BY <1>7, <3>1 DEF Move
      <4> QED
        BY <2>1, <3>1, <4>1
    <3>2. CASE ask[w].op # "register"
      <4>1. at' = [at EXCEPT ![w] = "reply"] /\ ask[w].op = "menu"
        BY <1>2, <1>7, <3>2 DEF Move, AnswerWith
      <4> QED
        BY <2>1, <4>1
    <3> QED
      BY <3>1, <3>2
  <2>4. Table(w)' = Table(w) /\ l \in DOMAIN table'[Table(w)]
    BY <1>1, <1>2, <1>7, InsertGrows DEF Table
  <2> HIDE DEF l
  <2>5. \A e \in new : e.id = l
    OBVIOUS
  <2> HIDE DEF new
  <2>6. list'[w] = new
    BY <2>1, <2>2
  <2>7. Numbers(w)' \subseteq DOMAIN table'[Table(w)]
    <3>1. Numbers(w)' = {e.id : e \in list'[w]}
      BY DEF Numbers
    <3> QED
      BY <2>4, <2>5, <2>6, <3>1
  <2>8. Announces(w)'
    BY <1>2, <2>3, <2>4, <2>7 DEF Announces
  <2>9. Routed(w)' /\ Reads(w)' /\ ShowsRows(w)'
    BY <1>2, <2>3 DEF Routed, Reads, ShowsRows, Listing
  <2> QED
    BY <1>5, <2>8, <2>9 DEF ListFor
<1> QED
  BY <1>6, <1>7 DEF InsertRow, ExecuteUpdate

(* The owner's flag is set, or known not to be. *)
LEMMA SetFlagLists ==
  ASSUME ListInv, NEW w \in Workers, SetFlag(w)
  PROVE  Grow /\ ListFor(w)' /\ Kept'
<1>1. Typed /\ Kept /\ ListFor(w)
  BY DEF ListInv, Inv
<1>2. /\ at[w] = "flag" /\ at'[w] = "reply" /\ ask[w].op = "register"
      /\ UNCHANGED <<promised, said, owed, told, ask, list, table, over>>
      /\ flagged' \/ unflagged'
  BY <1>1 DEF SetFlag, ExecuteUpdate, RaiseFlag, facts, placing, history, ListFor, Routed, AnswerWith,
              Move, Typed, QueryTypes
<1>3. TablesGrow /\ OpenKept
  BY <1>2 DEF TablesGrow, OpenKept
<1>4. OrdersGrow
  BY <1>1, QuerySame DEF Query
<1>5. Grow /\ Kept' /\ Owes(w)'
  BY <1>2, <1>3, <1>4, WritingKeeps
<1>6. Numbers(w)' = Numbers(w) /\ Table(w)' = Table(w) /\ table'[Table(w)] = table[Table(w)]
  BY <1>2 DEF Numbers, Table
<1>7. Announces(w)'
  BY <1>1, <1>2, <1>6 DEF ListFor, Announces
<1>8. Routed(w)' /\ Reads(w)' /\ ShowsRows(w)'
  BY <1>2 DEF Routed, Reads, ShowsRows, Listing
<1> QED
  BY <1>5, <1>7, <1>8 DEF ListFor

(* A store is set open or closed: what is still said of it is so. *)
LEMMA SetOpenGrows ==
  ASSUME Typed, NEW w \in Workers, NEW news, SetOpen(w, news), ask[w].store \in DOMAIN table["store"]
  PROVE  /\ TablesGrow
         /\ DOMAIN table'["store"] = DOMAIN table["store"]
         /\ table'["store"][ask[w].store].open = ask[w].row.open
         /\ \A j \in DOMAIN table["store"] : j # ask[w].store => table'["store"][j] = table["store"][j]
<1> DEFINE i == ask[w].store
           b == ask[w].row.open
<1>1. table \in [Tables -> Seq(TableRow)] /\ "store" \in Tables /\ table["store"] \in Seq(TableRow)
  BY TableNames DEF Typed, QueryTypes
<1>2. table' = [table EXCEPT !["store"][i].open = b] /\ i \in DOMAIN table["store"]
  BY DEF SetOpen
<1> HIDE DEF i, b
<1>3. table["store"] \in [1 .. Len(table["store"]) -> TableRow] /\ table["store"][i] \in TableRow
  BY <1>1, <1>2
<1>4. /\ table'["store"] = [table["store"] EXCEPT ![i].open = b]
      /\ \A u \in Tables : u # "store" => table'[u] = table[u]
  BY <1>1, <1>2
<1>5. /\ DOMAIN table'["store"] = DOMAIN table["store"]
      /\ \A j \in DOMAIN table["store"] : j # i => table'["store"][j] = table["store"][j]
      /\ table'["store"][i] = [table["store"][i] EXCEPT !.open = b]
  BY <1>2, <1>3, <1>4
<1>6. /\ table'["store"][i].wide = table["store"][i].wide
      /\ table'["store"][i].known = table["store"][i].known
      /\ table'["store"][i].open = b
  BY <1>3, <1>5 DEF TableRow
<1>7. TablesGrow
  BY <1>4, <1>5, <1>6 DEF TablesGrow
<1> QED
  BY <1>5, <1>6, <1>7 DEF i, b

LEMMA SetOpenSpoken ==
  ASSUME Typed, Kept, NEW w \in Workers, NEW news, SetOpen(w, news), UNCHANGED <<ask, over>>,
         \A s \in news : s.id = ask[w].store /\ s.open = ask[w].row.open,
         \A v \in Workers : owed'[v].orders = owed[v].orders
  PROVE  Spoken' /\ TablesGrow
<1>1. CASE ask[w].store \notin DOMAIN table["store"]
  <2>1. UNCHANGED <<table, said, owed>>
    BY <1>1 DEF SetOpen
  <2> QED
    BY <2>1 DEF Kept, Spoken, Agrees, TablesGrow
<1>2. CASE ask[w].store \in DOMAIN table["store"]
  <2> DEFINE i == ask[w].store
             b == ask[w].row.open
             more(v) == IF v = w THEN news ELSE {}
  <2>1. /\ TablesGrow
        /\ DOMAIN table'["store"] = DOMAIN table["store"] /\ i \in DOMAIN table["store"]
        /\ table'["store"][i].open = b
        /\ \A j \in DOMAIN table["store"] : j # i => table'["store"][j] = table["store"][j]
    BY <1>2, SetOpenGrows
  <2>2. /\ said' = Still(said, i, b)
        /\ owed' = [v \in Workers |-> [owed[v] EXCEPT !.said = Still(@, i, b) \cup more(v)]]
    BY <1>2 DEF SetOpen
  <2> HIDE DEF i, b
  <2>3. ASSUME NEW s, Agrees(s), s.id = i => s.open = b PROVE Agrees(s)'
    BY <2>1, <2>3 DEF Agrees
  <2>4. ASSUME NEW s \in said' PROVE Agrees(s)'
    BY <2>2, <2>3 DEF Still, Kept, Spoken
  <2>5. ASSUME NEW v \in Workers, NEW s \in owed'[v].said PROVE Agrees(s)'
    <3>1. owed[v] \in Debts /\ owed'[v] = [owed[v] EXCEPT !.said = Still(owed[v].said, i, b) \cup more(v)]
      BY <2>2 DEF Kept
    <3>2. owed'[v].said = Still(owed[v].said, i, b) \cup more(v)
      BY <3>1 DEF Debts
    <3>3. CASE s \in Still(owed[v].said, i, b)
      BY <2>3, <3>3 DEF Still, Kept, Spoken
    <3>4. CASE s \in more(v)
      <4>1. s.id = i /\ s.open = b
        BY <3>4 DEF i, b
      <4> QED
        BY <2>1, <4>1 DEF Agrees
    <3> QED
      BY <2>5, <3>2, <3>3, <3>4
  <2>6. \A v \in Workers : ask'[v].op = "orders" => owed'[v].orders \cap over' = {}
    BY DEF Kept, Spoken
  <2> QED
    BY <2>1, <2>4, <2>5, <2>6 DEF Spoken
<1> QED
  BY <1>1, <1>2

LEMMA ToggleLists ==
  ASSUME ListInv, NEW w \in Workers, Toggle(w)
  PROVE  Grow /\ ListFor(w)' /\ Kept'
<1>1. Typed /\ Kept /\ ListFor(w)
  BY DEF ListInv, Inv
<1>2. /\ at[w] = "update" /\ ask[w].op = "toggle"
      /\ UNCHANGED <<promised, told, ask, list, todo, flagged, unflagged, over>>
  BY <1>1 DEF Toggle, placing, history, ListFor, Routed
<1>3. /\ said' \subseteq said /\ owed' \in [Workers -> Debts]
      /\ \A v \in Workers : owed'[v].orders = owed[v].orders /\ owed'[v].rows = owed[v].rows
  BY <1>1, ToggleOwed
<1>4. OrdersGrow
  BY <1>1, QuerySame DEF Query
<1>5. Spoken' /\ TablesGrow
  <2> DEFINE news == {[id |-> ask[w].store, open |-> ask[w].row.open]}
  <2>1. /\ \A s \in news : s.id = ask[w].store /\ s.open = ask[w].row.open
        /\ \A s \in {} : s.id = ask[w].store /\ s.open = ask[w].row.open
    OBVIOUS
  <2>2. SetOpen(w, news) \/ SetOpen(w, {}) \/ UNCHANGED <<table, said, owed>>
    BY DEF Toggle
  <2> HIDE DEF news
  <2>3. CASE SetOpen(w, news)
    BY <1>1, <1>2, <1>3, <2>1, <2>3, SetOpenSpoken
  <2>4. CASE SetOpen(w, {})
    BY <1>1, <1>2, <1>3, <2>1, <2>4, SetOpenSpoken
  <2>5. CASE UNCHANGED <<table, said, owed>>
    BY <1>1, <1>2, <2>5 DEF Kept, Spoken, Agrees, TablesGrow
  <2> QED
    BY <2>2, <2>3, <2>4, <2>5
<1>6. Grow
  BY <1>2, <1>4, <1>5 DEF Grow
<1>7. Kept'
  <2>1. \A t \in Tables : promised'[t] \subseteq DOMAIN table'[t]
    BY <1>1, <1>2, <1>5 DEF Kept, TablesGrow
  <2> QED
    BY <1>1, <1>2, <1>3, <1>5, <2>1 DEF Kept
<1>8. ASSUME GivesUp(w) PROVE ListFor(w)'
  BY <1>2, <1>3, <1>6, <1>8, GivesUpKeeps
<1>9. ASSUME AnswerWith(w, TRUE) PROVE ListFor(w)'
  <2>1. at'[w] = "reply"
    BY <1>1, <1>9 DEF AnswerWith, Move, Typed, QueryTypes
  <2>2. Owes(w)'
    <3>1. Placed \subseteq Placed'
      BY <1>4 DEF OrdersGrow, Placed
    <3>2. DOMAIN table[Source(w)] \subseteq DOMAIN table'[Source(w)] /\ Source(w)' = Source(w)
      BY <1>2, <1>5, GrowJoined
    <3>3. DOMAIN table'[Source(w)'] = DOMAIN table'[Source(w)]
      BY <3>2
    <3> QED
      BY <1>1, <1>3, <3>1, <3>2, <3>3 DEF ListFor, Owes
  <2>3. Routed(w)' /\ Announces(w)' /\ Reads(w)' /\ ShowsRows(w)'
    BY <1>2, <2>1 DEF Routed, Announces, Reads, ShowsRows, Listing
  <2> QED
    BY <2>2, <2>3 DEF ListFor
<1> QED
  BY <1>6, <1>7, <1>8, <1>9 DEF Toggle

(* The answer: what it promises is there, and what it says is so. *)
LEMMA ReplyQueryLists ==
  ASSUME ListInv, NEW w \in Workers, ReplyQuery(w)
  PROVE  Grow /\ ListFor(w)' /\ Kept'
<1>1. Typed /\ Kept /\ ListFor(w)
  BY DEF ListInv, Inv
<1>2. /\ ask' = [ask EXCEPT ![w] = NoAsk] /\ owed' = [owed EXCEPT ![w] = Nothing_owed]
      /\ at'[w] = "idle" /\ ask'[w] = NoAsk /\ list'[w] = {}
      /\ UNCHANGED <<orders, table, flagged, unflagged, told, over, missing>>
      /\ at[w] = "reply"
  BY <1>1 DEF ReplyQuery, Move, placing, history, Typed, QueryTypes
<1>3. /\ promised' = IF ok[w] /\ ask[w].op \in {"register", "menu"}
                     THEN [promised EXCEPT ![Table(w)] = @ \cup Numbers(w)] ELSE promised
      /\ said' = IF ok[w] /\ ask[w].op = "toggle" THEN said \cup owed[w].said ELSE said
  BY DEF ReplyQuery
<1>4. /\ table \in [Tables -> Seq(TableRow)] /\ Table(w) \in Tables
      /\ \A t \in Tables : table[t] \in Seq(TableRow) /\ DOMAIN table[t] \subseteq Nat
  BY <1>1, TableNames DEF Typed, QueryTypes
<1>5. Grow
  <2>1. OrdersGrow
    BY <1>1, QuerySame DEF Query
  <2> QED
    BY <1>2, <2>1 DEF Grow, TablesGrow
<1>6. owed'[w].orders = {} /\ owed'[w].rows = {} /\ owed'[w].said = {}
      /\ owed' \in [Workers -> Debts] /\ ask'[w].op = "none"
      /\ \A v \in Workers : v # w => owed'[v] = owed[v] /\ ask'[v] = ask[v]
  <2>1. owed \in [Workers -> Debts] /\ Nothing_owed \in Debts /\ DOMAIN ask = Workers
    BY <1>1 DEF Kept, Debts, Nothing_owed, Typed, QueryTypes
  <2>2. owed'[w] = Nothing_owed /\ owed' \in [Workers -> Debts]
    BY <1>2, <2>1
  <2>3. \A v \in Workers : v # w => owed'[v] = owed[v] /\ ask'[v] = ask[v]
    BY <1>2, <2>1
  <2> QED
    BY <1>2, <2>2, <2>3 DEF Nothing_owed, NoAsk
<1>7. ListFor(w)'
  <2>1. Owes(w)'
    BY <1>6 DEF Owes
  <2>2. Routed(w)' /\ Announces(w)' /\ Reads(w)' /\ ShowsRows(w)'
    BY <1>2, <1>6 DEF Routed, Announces, Reads, ShowsRows, Listing, Lists
  <2> QED
    BY <2>1, <2>2 DEF ListFor
<1>8. /\ promised' \in [Tables -> SUBSET Nat]
      /\ \A t \in Tables : promised'[t] \subseteq DOMAIN table[t]
      /\ promised'["store"] # {} => flagged \/ unflagged
  <2>1. CASE promised' = promised
    BY <1>1, <2>1 DEF Kept
  <2>2. CASE promised' # promised
    <3>1. /\ ok[w] /\ ask[w].op \in {"register", "menu"}
          /\ promised' = [promised EXCEPT ![Table(w)] = @ \cup Numbers(w)]
      BY <1>3, <2>2
    <3>2. Numbers(w) \subseteq DOMAIN table[Table(w)] /\ (ask[w].op = "register" => flagged \/ unflagged)
      BY <1>1, <1>2, <3>1 DEF ListFor, Announces
    <3>3. ask[w].op = "menu" => Table(w) # "store"
      BY DEF Table
    <3> QED
      BY <1>1, <1>4, <3>1, <3>2, <3>3 DEF Kept
  <2> QED
    BY <2>1, <2>2
<1>9. said' \in SUBSET [id : Nat, open : 0 .. 1] /\ \A s \in said' : Agrees(s)
  <2>1. owed[w] \in Debts /\ said \in SUBSET [id : Nat, open : 0 .. 1]
    BY <1>1 DEF Kept
  <2>2. owed[w].said \in SUBSET [id : Nat, open : 0 .. 1]
    BY <2>1 DEF Debts
  <2>3. said' \subseteq said \cup owed[w].said
    BY <1>3
  <2> QED
    BY <1>1, <2>1, <2>2, <2>3 DEF Kept, Spoken
<1>10. Spoken'
  <2>1. \A s : Agrees(s)' <=> Agrees(s)
    BY <1>2 DEF Agrees
  <2>2. ASSUME NEW v \in Workers
        PROVE  /\ \A s \in owed'[v].said : Agrees(s)
               /\ ask'[v].op = "orders" => owed'[v].orders \cap over = {}
    <3>1. CASE v = w
      BY <1>6, <3>1
    <3>2. CASE v # w
      BY <1>1, <1>6, <3>2 DEF Kept, Spoken
    <3> QED
      BY <3>1, <3>2
  <2> QED
    BY <1>2, <1>9, <2>1, <2>2 DEF Spoken
<1>11. Kept'
  BY <1>1, <1>2, <1>6, <1>8, <1>9, <1>10 DEF Kept
<1> QED
  BY <1>5, <1>7, <1>11

(* An order ends, or is taken up again. *)
LEMMA SetStatusLists ==
  ASSUME ListInv, NEW i \in OrderIds, SetStatus(i)
  PROVE  Grow /\ (\A v \in Workers : Same(v)) /\ Kept'
<1>1. /\ UNCHANGED vars
      /\ UNCHANGED <<missing, table, flagged, at, ask, list, todo, ok, cut, promised, said, unflagged>>
  BY DEF SetStatus
<1>2. UNCHANGED <<orders, told, untied>>
  BY <1>1 DEF vars
<1>3. Grow
  BY <1>1, <1>2 DEF Grow, OrdersGrow, TablesGrow
<1>4. /\ \A s : Agrees(s)' <=> Agrees(s)
      /\ \A v \in Workers : owed[v] \in Debts
  BY <1>1 DEF Agrees, ListInv, Kept
<1>5. CASE i \in over /\ over' = over \ {i} /\ UNCHANGED owed
  <2>1. \A v \in Workers : Same(v)
    BY <1>1, <1>5 DEF Same
  <2>2. Spoken'
    BY <1>1, <1>4, <1>5 DEF Spoken, ListInv, Kept
  <2>3. Kept'
    BY <1>1, <1>2, <1>5, <2>2 DEF Kept, ListInv
  <2> QED
    BY <1>3, <2>1, <2>3
<1>6. CASE /\ over' = over \cup {i}
           /\ owed' = [v \in Workers |-> IF ask[v].op = "orders"
                                         THEN [owed[v] EXCEPT !.orders = @ \ {i}] ELSE owed[v]]
  <2>1. ASSUME NEW v \in Workers
        PROVE  /\ owed'[v] \in Debts /\ owed'[v].said = owed[v].said /\ owed'[v].rows = owed[v].rows
               /\ owed'[v].orders \subseteq owed[v].orders
               /\ ask[v].op = "orders" => i \notin owed'[v].orders
    <3>1. CASE ask[v].op = "orders"
      <4>1. owed'[v] = [owed[v] EXCEPT !.orders = owed[v].orders \ {i}]
        BY <1>6, <3>1
      <4>2. owed[v].orders \in SUBSET Nat
        BY <1>4 DEF Debts
      <4> QED
        BY <1>4, <4>1, <4>2 DEF Debts
    <3>2. CASE ask[v].op # "orders"
      BY <1>4, <1>6, <3>2
    <3> QED
      BY <3>1, <3>2
  <2>2. \A v \in Workers : Same(v)
    BY <1>1, <2>1 DEF Same
  <2>3. Spoken'
    BY <1>1, <1>4, <1>6, <2>1 DEF Spoken, ListInv, Kept
  <2>4. owed' \in [Workers -> Debts]
    BY <1>6, <2>1
  <2>5. Kept'
    BY <1>1, <1>2, <2>3, <2>4 DEF Kept, ListInv
  <2> QED
    BY <1>3, <2>2, <2>5
<1> QED
  BY <1>5, <1>6 DEF SetStatus

LEMMA InitListInv == QueriesInit => ListInv
<1> SUFFICES ASSUME QueriesInit PROVE ListInv
  OBVIOUS
<1>1. Inv
  BY InitInv
<1>2. table \in [Tables -> Seq(TableRow)] /\ "store" \in Tables /\ table["store"] \in Seq(TableRow)
  BY <1>1, TableNames DEF Inv, Typed, QueryTypes
<1>3. \A t \in Tables : DOMAIN table[t] \subseteq Nat
  <2> SUFFICES ASSUME NEW t \in Tables PROVE DOMAIN table[t] \subseteq Nat
    OBVIOUS
  <2>1. table[t] \in Seq(TableRow)
    BY <1>2
  <2> QED
    BY <2>1
<1>4. promised \in [Tables -> SUBSET Nat] /\ \A t \in Tables : promised[t] = DOMAIN table[t]
  BY <1>3 DEF QueriesInit
<1>5. owed \in [Workers -> Debts] /\ \A v \in Workers : owed[v] = Nothing_owed
  BY DEF QueriesInit, Nothing_owed, Debts
<1>6. \A v \in Workers : owed[v].orders = {} /\ owed[v].rows = {} /\ owed[v].said = {}
  BY <1>5 DEF Nothing_owed
<1>7. ASSUME NEW s \in said PROVE s \in [id : Nat, open : 0 .. 1] /\ Agrees(s)
  <2>1. PICK i \in DOMAIN table["store"] : s = [id |-> i, open |-> table["store"][i].open]
    BY <1>7 DEF QueriesInit
  <2>2. table["store"][i] \in TableRow /\ i \in Nat
    BY <1>2, <1>3
  <2>3. s.id = i /\ s.open = table["store"][i].open /\ table["store"][i].open \in 0 .. 1
    BY <2>1, <2>2 DEF TableRow
  <2> QED
    BY <2>1, <2>2, <2>3 DEF Agrees
<1>8. promised["store"] # {} => flagged \/ unflagged
  <2>1. promised["store"] # {} => table["store"] # <<>>
    BY <1>2, <1>4
  <2> QED
    BY <2>1 DEF QueriesInit
<1>9. Kept
  BY <1>4, <1>5, <1>6, <1>7, <1>8 DEF QueriesInit, Init, Kept, Spoken
<1>10. ASSUME NEW w \in Workers PROVE ListFor(w)
  <2>1. at[w] = "idle" /\ ask[w] = NoAsk /\ ask[w].op = "none" /\ list[w] = {}
    BY DEF QueriesInit, NoAsk
  <2> QED
    BY <1>6, <2>1 DEF ListFor, Routed, Owes, Announces, Reads, ShowsRows, Listing
<1> QED
  BY <1>1, <1>9, <1>10 DEF ListInv

LEMMA NextListInv == ListInv /\ [QueriesNext]_allVars => ListInv'
<1> SUFFICES ASSUME ListInv, [QueriesNext]_allVars PROVE ListInv'
  OBVIOUS
<1>1. Inv'
  BY NextInv DEF ListInv
<1>2. CASE UNCHANGED allVars
  <2>1. UNCHANGED vars /\ UNCHANGED queryVars /\ UNCHANGED <<missing, over>>
    BY <1>2 DEF allVars
  <2>2. Grow /\ \A w \in Workers : Same(w)
    BY <2>1 DEF vars, queryVars, Grow, OrdersGrow, TablesGrow, Same
  <2>3. Kept'
    BY <2>1 DEF vars, queryVars, ListInv, Kept, Spoken, Agrees
  <2> QED
    BY <1>1, <2>2, <2>3, GrowKeeps DEF ListInv
<1>3. ASSUME NEW w \in Workers, Placing(w) PROVE ListInv'
  BY <1>1, <1>3, PlacingListInv
<1>4. ASSUME NEW w \in Workers, (\E a \in Asks : BeginQuery(w, a)) \/ Query(w) PROVE ListInv'
  <2>1. Grow /\ ListFor(w)' /\ Kept'
    BY <1>4, BeginQueryLists, ApproachLists, SelectRowsLists, ItemsLists, InsertRowLists, SetFlagLists,
       ToggleLists, ReplyQueryLists DEF Query
  <2>2. Others(w)
    BY <1>4, QuerySame DEF ListInv, Inv
  <2> QED
    BY <1>1, <2>1, <2>2, QueryListInv
<1>5. ASSUME NEW i \in OrderIds, SetStatus(i) PROVE ListInv'
  BY <1>1, <1>5, SetStatusLists, GrowKeeps DEF ListInv
<1> QED
  BY <1>2, <1>3, <1>4, <1>5 DEF QueriesNext

(* Whoever was told of a success finds it in every list asked for after that:    *)
(* stores and menus, unless the SELECT joins them with a category that is not    *)
(* there or another row of the list does not fit DBHelper's buffers; orders with *)
(* all their items whose menu is there, unless the list is the owner's and the   *)
(* order is COMPLETED or CANCELLED, or the administrator's and the order names   *)
(* no store or no menu that is there; a store open or closed as its owner was    *)
(* told, as long as nobody has set it differently since; and the owner's flag is *)
(* set, unless its statement failed.                                             *)
THEOREM QueriesListsTrue == QueriesSpec => []ListsShowWhatWasTold
<1>1. ListInv => ListsShowWhatWasTold
  <2> SUFFICES ASSUME ListInv PROVE ListsShowWhatWasTold
    OBVIOUS
  <2>1. RowsAreShown
    BY DEF ListInv, ListFor, ShowsRows, TooWide, RowsAreShown
  <2>2. OrdersAreShown
    BY DEF ListInv, ListFor, Reads, Truly, Listing, OrdersAreShown
  <2> QED
    BY <2>1, <2>2 DEF ListInv, Kept, ListsShowWhatWasTold
<1>2. QueriesSpec => []ListInv
  BY InitListInv, NextListInv, PTL DEF QueriesSpec
<1> QED
  BY <1>1, <1>2, PTL
=============================================================================
