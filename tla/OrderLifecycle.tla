--------------------------- MODULE OrderLifecycle ---------------------------
(* The life of an order after it was placed: the requests of owners, riders,  *)
(* customers and administrators that read and change its row, as the workers  *)
(* execute them concurrently (OrderHandler, the use cases, OrderService,      *)
(* AdminService::processRefund, NotifyService).  Every SQL statement runs on  *)
(* a pooled connection in autocommit mode and is a step; a statement may      *)
(* fail, with or without having been executed by the server.  No handler      *)
(* checks who sends the request, so any request may come at any time.         *)
EXTENDS Integers, FiniteSets

CONSTANTS Workers,      \* worker threads
          Orders,       \* order_id values clients ask about
          Riders,       \* member_id values of riders
          NoRider,      \* rider_id IS NULL
          Ops,          \* the requests clients send
          MaxRequests,  \* bound: requests handled
          MaxFailures   \* bound: statements that fail

AllOps == {"cancel", "accept", "reject", "ready", "pickup", "done", "refund", "assign"}

ASSUME OpsAssumption == Ops \subseteq AllOps
ASSUME RidersAssumption == NoRider \notin Riders /\ Riders # {}
ASSUME BoundsAssumption == MaxRequests \in Nat /\ MaxFailures \in Nat

Statuses == {"PENDING", "COOKING", "READY", "DELIVERING", "COMPLETED", "CANCELLED"}

\* The status each request writes; an assignment writes rider_id only.
NewStatus == [cancel |-> "CANCELLED", accept |-> "COOKING", reject |-> "CANCELLED",
              ready |-> "READY", pickup |-> "DELIVERING", done |-> "COMPLETED",
              refund |-> "CANCELLED"]

Row     == [status : Statuses, rider : Riders \cup {NoRider}]
Missing == [status |-> "NONE", rider |-> NoRider]   \* no such row, or no answer

VARIABLES table,     \* the orders table
          pc,        \* where each worker is in its handler
          req,       \* the request it handles: operation, order, session's rider
          snap,      \* what its SELECT returned
          effect,    \* history: what its own UPDATE did: "none", "done", "maybe"
          barred,    \* history: its request had to be refused ever since it began
          notices,   \* history: status and dispatch notices that were attempted
          unclear,   \* history: <<order, value>> written by a failed statement
          requests,  \* requests begun
          failures   \* statements that failed

vars == <<table, pc, req, snap, effect, barred, notices, unclear, requests, failures>>

Locations == {"idle", "read", "write", "tell", "unassign", "tellRider",
              "assign", "tellDispatch", "succeed", "fail"}

\* Only an assignment uses the rider of its session.
Requests == {r \in [op : Ops, order : Orders, rider : Riders \cup {NoRider}] :
                (r.op = "assign") <=> (r.rider # NoRider)}
NoRequest == [op |-> "none"]

Notices == [to : {"customer", "store"} \cup Riders, order : Orders,
            text : Statuses \cup {"DISPATCHED", "newOrder", "newDelivery", "confirmed"},
            by : Ops]

Init ==
    /\ table = [o \in Orders |-> Missing]
    /\ pc = [w \in Workers |-> "idle"]
    /\ req = [w \in Workers |-> NoRequest]
    /\ snap = [w \in Workers |-> Missing]
    /\ effect = [w \in Workers |-> "none"]
    /\ barred = [w \in Workers |-> FALSE]
    /\ notices = {}
    /\ unclear = {}
    /\ requests = 0
    /\ failures = 0

Op(w)      == req[w].op
Order(w)   == req[w].order
CanFail    == failures < MaxFailures
Goto(w, l) == pc' = [pc EXCEPT ![w] = l]

Notice(w, to, text) == [to |-> to, order |-> Order(w), text |-> text, by |-> Op(w)]

----------------------------------------------------------------------------
(* When a request is refused: an assignment looks at nothing, every other      *)
(* request refuses an order that is not there, and two look at its status.    *)
CancelRefused(row) == row.status \in {"COMPLETED", "CANCELLED"}
RefundRefused(row) == row.status = "CANCELLED"

Refused(op, row) ==
    \/ op # "assign" /\ row = Missing
    \/ op = "cancel" /\ CancelRefused(row)
    \/ op = "refund" /\ RefundRefused(row)

\* The requests that are barred still, now that order o has this row.
StillBarred(o, row) ==
    [w \in Workers |-> barred[w] /\ (Order(w) = o => Refused(Op(w), row))]

(* Another worker commits createOrder (module OrderPlacement). *)
Place(o) ==
    /\ table[o] = Missing
    /\ table' = [table EXCEPT ![o] = [status |-> "PENDING", rider |-> NoRider]]
    /\ barred' = StillBarred(o, table'[o])
    /\ UNCHANGED <<pc, req, snap, effect, notices, unclear, requests, failures>>

\* A worker takes a request from the queue and enters its handler.
Begin(w, r) ==
    /\ pc[w] = "idle"
    /\ requests < MaxRequests
    /\ requests' = requests + 1
    /\ req' = [req EXCEPT ![w] = r]
    /\ barred' = [barred EXCEPT ![w] = Refused(r.op, table[r.order])]
    /\ Goto(w, IF r.op = "assign" THEN "assign" ELSE "read")
    /\ UNCHANGED <<table, snap, effect, notices, unclear, failures>>

\* The handler returns and its locals are gone.
Return(w) ==
    /\ Goto(w, "idle")
    /\ req' = [req EXCEPT ![w] = NoRequest]
    /\ snap' = [snap EXCEPT ![w] = Missing]
    /\ effect' = [effect EXCEPT ![w] = "none"]
    /\ barred' = [barred EXCEPT ![w] = FALSE]

\* Mutant: a cancellation does not look at the status.
AfterRead_NoGuard(op, row) ==
    IF row = Missing \/ (op = "refund" /\ RefundRefused(row)) THEN "fail" ELSE "write"

\* Where the handler goes on with the row it read.
AfterRead(op, row) == IF Refused(op, row) THEN "fail" ELSE "write"

\* getOrder, or the SELECT of processRefund.
Read(w) ==
    /\ pc[w] = "read"
    /\ \/ /\ snap' = [snap EXCEPT ![w] = table[Order(w)]]
          /\ UNCHANGED failures
       \/ /\ CanFail
          /\ failures' = failures + 1
          /\ snap' = [snap EXCEPT ![w] = Missing]
    /\ Goto(w, AfterRead(Op(w), snap'[w]))
    /\ UNCHANGED <<table, req, effect, barred, notices, unclear, requests>>

\* UPDATE ... WHERE order_id = o changes nothing, successfully, without a row.
WithStatus(o, s) == IF table[o] = Missing THEN table ELSE [table EXCEPT ![o].status = s]
WithRider(o, r)  == IF table[o] = Missing THEN table ELSE [table EXCEPT ![o].rider = r]

\* Mutant: the worker answers without going through the notification.
Write_NoNotice(w) ==
    /\ pc[w] = "write"
    /\ table' = WithStatus(Order(w), NewStatus[Op(w)])
    /\ effect' = [effect EXCEPT ![w] = "done"]
    /\ Goto(w, IF Op(w) = "cancel" /\ snap[w].rider # NoRider THEN "unassign" ELSE "succeed")
    /\ UNCHANGED <<req, snap, barred, notices, unclear, requests, failures>>

\* A rejection goes on whatever its UPDATE returned.
IgnoresResult(op) == op = "reject"

\* updateStatus, or the UPDATE of processRefund: unconditional.
Write(w) ==
    LET s == NewStatus[Op(w)]
        applied == table' = WithStatus(Order(w), s)
    IN
    /\ pc[w] = "write"
    /\ \/ /\ applied
          /\ effect' = [effect EXCEPT ![w] = "done"]
          /\ Goto(w, "tell")
          /\ UNCHANGED <<unclear, failures>>
       \/ /\ CanFail
          /\ failures' = failures + 1
          /\ Goto(w, IF IgnoresResult(Op(w)) THEN "tell" ELSE "fail")
          /\ \/ UNCHANGED <<table, effect, unclear>>
             \/ /\ applied
                /\ effect' = [effect EXCEPT ![w] = "maybe"]
                /\ unclear' = unclear \cup {<<Order(w), s>>}
    /\ barred' = StillBarred(Order(w), table'[Order(w)])
    /\ UNCHANGED <<req, snap, notices, requests>>

\* The notices of a written status; a target that is offline, or whose session
\* cannot be looked up, is skipped.  notifyStore and notifyRider replace the
\* message of their caller: "new order", "new delivery request".
StatusNotices(w) ==
    CASE Op(w) = "ready" ->
            IF snap[w].rider # NoRider THEN {Notice(w, snap[w].rider, "newDelivery")}
            ELSE {Notice(w, r, "READY") : r \in Riders}
      [] Op(w) = "done" -> {Notice(w, "customer", "COMPLETED"), Notice(w, "store", "newOrder")}
      [] OTHER -> {Notice(w, "customer", NewStatus[Op(w)])}

Tell(w) ==
    /\ pc[w] = "tell"
    /\ notices' = notices \cup StatusNotices(w)
    /\ Goto(w, IF Op(w) = "cancel" /\ snap[w].rider # NoRider
               THEN "unassign" ELSE "succeed")
    /\ UNCHANGED <<table, req, snap, effect, barred, unclear, requests, failures>>

\* Mutant: the rider column is cleared through the status column.
Unassign_Status(w) ==
    /\ pc[w] = "unassign"
    /\ table' = WithStatus(Order(w), NoRider)
    /\ Goto(w, "tellRider")
    /\ UNCHANGED <<req, snap, effect, barred, notices, unclear, requests, failures>>

\* unassignRider; its result is ignored.
Unassign(w) ==
    /\ pc[w] = "unassign"
    /\ \/ /\ table' = WithRider(Order(w), NoRider)
          /\ UNCHANGED failures
       \/ /\ CanFail
          /\ failures' = failures + 1
          /\ UNCHANGED table
    /\ Goto(w, "tellRider")
    /\ UNCHANGED <<req, snap, effect, barred, notices, unclear, requests>>

TellRider(w) ==
    /\ pc[w] = "tellRider"
    /\ notices' = notices \cup {Notice(w, snap[w].rider, "newDelivery")}
    /\ Goto(w, "succeed")
    /\ UNCHANGED <<table, req, snap, effect, barred, unclear, requests, failures>>

\* handleRiderAssign: without the rider's member id it returns silently;
\* assignRiderToOrder is unconditional.
Assign(w) ==
    LET applied == table' = WithRider(Order(w), req[w].rider)
    IN
    /\ pc[w] = "assign"
    /\ \/ /\ applied
          /\ effect' = [effect EXCEPT ![w] = "done"]
          /\ Goto(w, "tellDispatch")
          /\ UNCHANGED <<req, snap, barred, unclear, failures>>
       \/ /\ CanFail
          /\ failures' = failures + 1
          /\ \/ Return(w) /\ UNCHANGED <<table, unclear>>
             \/ Goto(w, "fail") /\ UNCHANGED <<table, req, snap, effect, barred, unclear>>
             \/ /\ Goto(w, "fail")
                /\ applied
                /\ effect' = [effect EXCEPT ![w] = "maybe"]
                /\ unclear' = unclear \cup {<<Order(w), req[w].rider>>}
                /\ UNCHANGED <<req, snap, barred>>
    /\ UNCHANGED <<notices, requests>>

\* notifyDispatchComplete reads the order again and tells store and customer;
\* without the row, or when the SELECT fails, it tells nobody.
TellDispatch(w) ==
    /\ pc[w] = "tellDispatch"
    /\ \/ /\ table[Order(w)] # Missing
          /\ notices' = notices \cup {Notice(w, "store", "DISPATCHED"),
                                     Notice(w, "customer", "DISPATCHED")}
          /\ UNCHANGED failures
       \/ /\ table[Order(w)] = Missing
          /\ UNCHANGED <<notices, failures>>
       \/ /\ CanFail
          /\ failures' = failures + 1
          /\ UNCHANGED notices
    /\ Goto(w, "succeed")
    /\ UNCHANGED <<table, req, snap, effect, barred, unclear, requests>>

\* Mutant: the rider gets no confirmation.
Reply_Silent(w) ==
    /\ pc[w] \in {"succeed", "fail"}
    /\ Return(w)
    /\ UNCHANGED <<table, notices, unclear, requests, failures>>

\* The answer to the requester; a rider learns that the dispatch is confirmed.
Reply(w) ==
    /\ pc[w] \in {"succeed", "fail"}
    /\ notices' = IF Op(w) = "assign" /\ pc[w] = "succeed"
                  THEN notices \cup {Notice(w, req[w].rider, "confirmed")}
                  ELSE notices
    /\ Return(w)
    /\ UNCHANGED <<table, unclear, requests, failures>>

----------------------------------------------------------------------------
Step(w) == \/ Read(w) \/ Write(w) \/ Tell(w) \/ Unassign(w) \/ TellRider(w)
           \/ Assign(w) \/ TellDispatch(w) \/ Reply(w)

Next == \/ \E o \in Orders : Place(o)
        \/ \E w \in Workers : (\E r \in Requests : Begin(w, r)) \/ Step(w)

Spec == Init /\ [][Next]_vars

----------------------------------------------------------------------------
(* Types.                                                                     *)
TypeOK ==
    /\ table \in [Orders -> Row \cup {Missing}]
    /\ pc \in [Workers -> Locations]
    /\ req \in [Workers -> Requests \cup {NoRequest}]
    /\ snap \in [Workers -> Row \cup {Missing}]
    /\ effect \in [Workers -> {"none", "done", "maybe"}]
    /\ barred \in [Workers -> BOOLEAN]
    /\ notices \subseteq Notices
    /\ unclear \subseteq Orders \X (Statuses \cup Riders)
    /\ requests \in 0 .. MaxRequests
    /\ failures \in 0 .. MaxFailures

(* A success is earned and a failure is true.  The status is read by one       *)
(* statement and written by another that names no status it expects, so a      *)
(* cancellation may hit an order that is completed meanwhile, and two that      *)
(* overlap may both refund it; but no request succeeds on an order that had to  *)
(* be refused at every moment since the request began, and a success was        *)
(* executed and a failure was not, or nobody can know.  The exception is a      *)
(* rejection, which ignores the result of its UPDATE.                           *)
SuccessIsEarned ==
    \A w \in Workers :
       /\ pc[w] \in {"write", "tell", "unassign", "tellRider", "succeed"} => ~barred[w]
       /\ pc[w] = "succeed" /\ Op(w) # "reject" => effect[w] = "done"
       /\ pc[w] = "fail" => effect[w] # "done"

\* Worker w has written s to order o and will still attempt the notice.
WillTell(w, o, s) ==
    pc[w] = "tell" /\ Order(w) = o /\ NewStatus[Op(w)] = s

(* No silent change of status: whatever status an order has, its customer (or *)
(* a rider, when it is READY) was notified of it, or the worker that wrote it *)
(* is still on its way to the notification, or the statement that wrote it    *)
(* was reported as failed.  This survives any number of other workers that    *)
(* write in between.                                                          *)
EveryChangeAnnounced ==
    \A o \in Orders :
       LET s == table[o].status
       IN  \/ s \in {"NONE", "PENDING"}
           \/ \E n \in notices : /\ n.order = o /\ n.by # "assign" /\ NewStatus[n.by] = s
                                 /\ n.to = "customer" \/ s = "READY"
           \/ \E w \in Workers : WillTell(w, o, s)
           \/ <<o, s>> \in unclear

(* Whoever holds the order was dispatched: rider_id names a rider that was    *)
(* told "confirmed", or whose handler will still tell it, or whose statement  *)
(* was reported as failed.                                                    *)
RiderIsInformed ==
    \A o \in Orders :
       LET r == table[o].rider
       IN  \/ r = NoRider
           \/ \E n \in notices : n.order = o /\ n.to = r /\ n.text = "confirmed"
           \/ \E w \in Workers : /\ Op(w) = "assign" /\ Order(w) = o /\ req[w].rider = r
                                 /\ pc[w] \in {"tellDispatch", "succeed"}
           \/ <<o, r>> \in unclear
=============================================================================
