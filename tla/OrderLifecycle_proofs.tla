------------------------ MODULE OrderLifecycle_proofs ------------------------
(* Proofs about the life of orders, for any workers, orders, riders, requests *)
(* and number of failing statements.                                          *)
EXTENDS OrderLifecycle, TLAPS

StatusOps == AllOps \ {"assign"}

(* Every request but an assignment writes a status. *)
LEMMA NewStatusType == \A op \in StatusOps : NewStatus[op] \in Statuses
BY DEF StatusOps, AllOps, NewStatus, Statuses

(* A request is of an operation the server knows, and tells it from no request. *)
LEMMA RequestFacts ==
  ASSUME NEW r \in Requests
  PROVE  /\ r.op \in Ops /\ r.op # "none"
         /\ r.order \in Orders /\ r.rider \in Riders \cup {NoRider}
         /\ r.op = "assign" => r.rider \in Riders
         /\ r.op # "assign" => r.op \in StatusOps
<1>1. r.op \in Ops /\ r.order \in Orders /\ r.rider \in Riders \cup {NoRider}
  BY DEF Requests
<1>2. r.op = "assign" => r.rider # NoRider
  BY DEF Requests
<1>3. r.op \in AllOps
  BY <1>1, OpsAssumption
<1> QED
  BY <1>1, <1>2, <1>3 DEF AllOps, StatusOps

\* Where a handler can be, given its request.
Reading == {"read", "write", "tell", "unassign", "tellRider"}

Control ==
    \A w \in Workers :
       /\ pc[w] # "idle" => req[w] \in Requests
       /\ pc[w] \in Reading => Op(w) \in StatusOps
       /\ pc[w] \in {"assign", "tellDispatch"} => Op(w) = "assign"
       /\ pc[w] \in {"unassign", "tellRider"} => snap[w].rider \in Riders

\* What the worker's own UPDATE has done, place by place.
EffectInv ==
    \A w \in Workers :
       /\ pc[w] \in {"read", "write", "assign"} => effect[w] = "none"
       /\ pc[w] \in {"tell", "unassign", "tellRider"} => effect[w] = "done" \/ Op(w) = "reject"
       /\ pc[w] = "tellDispatch" => effect[w] = "done"
       /\ pc[w] = "idle" => effect[w] = "none"

\* A barred request would be refused if it read the order now.
BarredInv ==
    \A w \in Workers : barred[w] => pc[w] # "idle" /\ Refused(Op(w), table[Order(w)])

Inv == /\ TypeOK /\ Control /\ EffectInv /\ BarredInv
       /\ SuccessIsEarned /\ EveryChangeAnnounced /\ RiderIsInformed

USE DEF Goto, Op, Order

LEMMA InitInv == Init => Inv
<1> SUFFICES ASSUME Init PROVE Inv
  OBVIOUS
<1>1. TypeOK
  BY BoundsAssumption DEF Init, TypeOK, Locations
<1>2. Control /\ EffectInv /\ BarredInv
  BY DEF Init, Control, EffectInv, BarredInv, Reading
<1>3. SuccessIsEarned /\ EveryChangeAnnounced /\ RiderIsInformed
  BY DEF Init, SuccessIsEarned, EveryChangeAnnounced, RiderIsInformed, Missing
<1> QED
  BY <1>1, <1>2, <1>3 DEF Inv

----------------------------------------------------------------------------
(* What a statement does to the row of an order. *)
LEMMA RowFacts ==
  ASSUME TypeOK, NEW o \in Orders, NEW s \in Statuses, NEW r \in Riders \cup {NoRider}
  PROVE  /\ WithStatus(o, s) \in [Orders -> Row \cup {Missing}]
         /\ WithRider(o, r) \in [Orders -> Row \cup {Missing}]
         /\ \A p \in Orders : p # o => WithStatus(o, s)[p] = table[p] /\ WithRider(o, r)[p] = table[p]
         /\ table[o] = Missing => WithStatus(o, s) = table /\ WithRider(o, r) = table
         /\ table[o] # Missing => /\ WithStatus(o, s)[o].status = s
                                  /\ WithStatus(o, s)[o].rider = table[o].rider
                                  /\ WithRider(o, r)[o].status = table[o].status
                                  /\ WithRider(o, r)[o].rider = r
                                  /\ table[o].status \in Statuses
  BY DEF TypeOK, WithStatus, WithRider, Row

(* The notices of a status are notices. *)
LEMMA StatusNoticesType ==
  ASSUME TypeOK, Control, NEW w \in Workers, pc[w] = "tell"
  PROVE  StatusNotices(w) \subseteq Notices
<1>1. req[w] \in Requests /\ req[w].op \in StatusOps /\ req[w].order \in Orders /\ req[w].op \in Ops
  BY RequestFacts DEF Control, Reading
<1>2. NewStatus[req[w].op] \in Statuses
  BY <1>1, NewStatusType
<1>3. snap[w].rider \in Riders \cup {NoRider}
  BY DEF TypeOK, Row, Missing
<1>4. CASE Op(w) = "ready"
  BY <1>1, <1>3, <1>4 DEF StatusNotices, Notices, Notice, Statuses
<1>5. CASE Op(w) = "done"
  BY <1>1, <1>5 DEF StatusNotices, Notices, Notice, Statuses
<1>6. CASE Op(w) \notin {"ready", "done"}
  BY <1>1, <1>2, <1>6 DEF StatusNotices, Notices, Notice
<1> QED
  BY <1>4, <1>5, <1>6

----------------------------------------------------------------------------
(* Types and places are kept by every step. *)
LEMMA TypeStep == TypeOK /\ Control /\ [Next]_vars => TypeOK' /\ Control'
<1> SUFFICES ASSUME TypeOK, Control, [Next]_vars PROVE TypeOK' /\ Control'
  OBVIOUS
<1> USE DEF Control, Reading, Locations
<1>n. MaxRequests \in Nat /\ MaxFailures \in Nat
  BY BoundsAssumption
<1>1. ASSUME NEW o \in Orders, Place(o) PROVE TypeOK' /\ Control'
  <2>1. table' \in [Orders -> Row \cup {Missing}] /\ barred' \in [Workers -> BOOLEAN]
    BY <1>1 DEF Place, TypeOK, Row, Statuses, StillBarred
  <2>2. UNCHANGED <<pc, req, snap, effect, notices, unclear, requests, failures>>
    BY <1>1 DEF Place
  <2> QED
    BY <2>1, <2>2 DEF TypeOK
<1>2. ASSUME NEW w \in Workers, NEW r \in Requests, Begin(w, r) PROVE TypeOK' /\ Control'
  <2>1. requests' \in 0 .. MaxRequests
    BY <1>2, <1>n DEF Begin, TypeOK
  <2>2. /\ r.op = "assign" \/ r.op \in StatusOps
        /\ req' = [req EXCEPT ![w] = r]
        /\ pc' = [pc EXCEPT ![w] = IF r.op = "assign" THEN "assign" ELSE "read"]
        /\ barred' = [barred EXCEPT ![w] = Refused(r.op, table[r.order])]
        /\ Refused(r.op, table[r.order]) \in BOOLEAN
        /\ UNCHANGED <<table, snap, effect, notices, unclear, failures>>
    BY <1>2, RequestFacts DEF Begin, Refused, CancelRefused, RefundRefused
  <2>3. TypeOK'
    BY <2>1, <2>2 DEF TypeOK
  <2>4. Control'
    BY <2>2 DEF TypeOK
  <2> QED
    BY <2>3, <2>4
<1>3. ASSUME NEW w \in Workers, Read(w) PROVE TypeOK' /\ Control'
  <2>1. failures' \in 0 .. MaxFailures
    BY <1>3, <1>n DEF Read, TypeOK, CanFail
  <2>2. /\ req[w] \in Requests /\ req[w].order \in Orders /\ req[w].op \in StatusOps
    BY <1>3, RequestFacts DEF Read
  <2>3. snap' \in [Workers -> Row \cup {Missing}] /\ \A v \in Workers : v # w => snap'[v] = snap[v]
    BY <1>3, <2>2 DEF Read, TypeOK
  <2>4. /\ pc' \in [Workers -> Locations] /\ pc'[w] \in {"write", "fail"}
        /\ \A v \in Workers : v # w => pc'[v] = pc[v]
        /\ UNCHANGED <<table, req, effect, barred, notices, unclear, requests>>
    BY <1>3 DEF Read, TypeOK, AfterRead
  <2>5. TypeOK'
    BY <2>1, <2>3, <2>4 DEF TypeOK
  <2>6. Control'
    BY <2>2, <2>3, <2>4
  <2> QED
    BY <2>5, <2>6
<1>4. ASSUME NEW w \in Workers, Write(w) PROVE TypeOK' /\ Control'
  <2>1. failures' \in 0 .. MaxFailures
    BY <1>4, <1>n DEF Write, TypeOK, CanFail
  <2>2. /\ req[w].order \in Orders /\ req[w].op \in StatusOps /\ NewStatus[req[w].op] \in Statuses
    BY <1>4, RequestFacts, NewStatusType DEF Write
  <2>3. table' \in [Orders -> Row \cup {Missing}]
    BY <1>4, <2>2, RowFacts, RidersAssumption DEF Write, TypeOK
  <2>4. /\ effect' \in [Workers -> {"none", "done", "maybe"}]
        /\ barred' \in [Workers -> BOOLEAN]
        /\ unclear' \subseteq Orders \X (Statuses \cup Riders)
    BY <1>4, <2>2 DEF Write, TypeOK, StillBarred
  <2>5. /\ pc' \in [Workers -> Locations] /\ pc'[w] \in {"tell", "fail"}
        /\ \A v \in Workers : v # w => pc'[v] = pc[v]
        /\ UNCHANGED <<req, snap, notices, requests>>
    BY <1>4 DEF Write, TypeOK
  <2>6. TypeOK'
    BY <2>1, <2>3, <2>4, <2>5 DEF TypeOK
  <2>7. Control'
    BY <1>4, <2>2, <2>5 DEF Write
  <2> QED
    BY <2>6, <2>7
<1>5. ASSUME NEW w \in Workers, Tell(w) PROVE TypeOK' /\ Control'
  <2>1. notices' \subseteq Notices
    BY <1>5, StatusNoticesType DEF Tell, TypeOK
  <2>2. TypeOK'
    BY <1>5, <2>1 DEF Tell, TypeOK
  <2>3. snap[w].rider # NoRider => snap[w].rider \in Riders
    BY DEF TypeOK, Row, Missing
  <2>4. Control'
    BY <1>5, <2>3 DEF Tell, TypeOK
  <2> QED
    BY <2>2, <2>4
<1>6. ASSUME NEW w \in Workers, Unassign(w) PROVE TypeOK' /\ Control'
  <2>1. failures' \in 0 .. MaxFailures
    BY <1>6, <1>n DEF Unassign, TypeOK, CanFail
  <2>2. req[w].order \in Orders
    BY <1>6, RequestFacts DEF Unassign
  <2>3. table' \in [Orders -> Row \cup {Missing}]
    BY <1>6, <2>2, RowFacts DEF Unassign, TypeOK, Statuses
  <2>4. TypeOK'
    BY <1>6, <2>1, <2>3 DEF Unassign, TypeOK
  <2>5. Control'
    BY <1>6 DEF Unassign, TypeOK
  <2> QED
    BY <2>4, <2>5
<1>7. ASSUME NEW w \in Workers, TellRider(w) PROVE TypeOK' /\ Control'
  <2>1. Notice(w, snap[w].rider, "newDelivery") \in Notices
    BY <1>7, RequestFacts DEF TellRider, Notice, Notices
  <2> QED
    BY <1>7, <2>1 DEF TellRider, TypeOK
<1>8. ASSUME NEW w \in Workers, Assign(w) PROVE TypeOK' /\ Control'
  <2>1. failures' \in 0 .. MaxFailures
    BY <1>8, <1>n DEF Assign, TypeOK, CanFail
  <2>2. req[w] \in Requests /\ req[w].order \in Orders /\ req[w].rider \in Riders /\ Op(w) = "assign"
    BY <1>8, RequestFacts DEF Assign
  <2>3. table' \in [Orders -> Row \cup {Missing}]
    BY <1>8, <2>2, RowFacts DEF Assign, TypeOK, Statuses
  <2>a. unclear' \subseteq Orders \X (Statuses \cup Riders)
    <3>1. unclear' = unclear \/ unclear' = unclear \cup {<<req[w].order, req[w].rider>>}
      BY <1>8 DEF Assign
    <3> QED
      BY <3>1, <2>2 DEF TypeOK
  <2>4. /\ effect' \in [Workers -> {"none", "done", "maybe"}]
        /\ snap' \in [Workers -> Row \cup {Missing}]
        /\ req' \in [Workers -> Requests \cup {NoRequest}]
        /\ barred' \in [Workers -> BOOLEAN]
    BY <1>8, <2>2 DEF Assign, Return, TypeOK
  <2>5. /\ pc' \in [Workers -> Locations]
        /\ pc'[w] = "idle" \/ (pc'[w] \in {"tellDispatch", "fail"} /\ req'[w] = req[w])
        /\ \A v \in Workers : v # w => pc'[v] = pc[v] /\ req'[v] = req[v] /\ snap'[v] = snap[v]
        /\ UNCHANGED <<notices, requests>>
    BY <1>8 DEF Assign, Return, TypeOK
  <2>6. TypeOK'
    BY <2>1, <2>3, <2>a, <2>4, <2>5 DEF TypeOK
  <2>7. Control'
    BY <2>2, <2>5
  <2> QED
    BY <2>6, <2>7
<1>9. ASSUME NEW w \in Workers, TellDispatch(w) PROVE TypeOK' /\ Control'
  <2>1. failures' \in 0 .. MaxFailures
    BY <1>9, <1>n DEF TellDispatch, TypeOK, CanFail
  <2>2. {Notice(w, "store", "DISPATCHED"), Notice(w, "customer", "DISPATCHED")} \subseteq Notices
    BY <1>9, RequestFacts DEF TellDispatch, Notice, Notices
  <2>3. TypeOK'
    BY <1>9, <2>1, <2>2 DEF TellDispatch, TypeOK
  <2>4. Control'
    BY <1>9 DEF TellDispatch, TypeOK
  <2> QED
    BY <2>3, <2>4
<1>10. ASSUME NEW w \in Workers, Reply(w) PROVE TypeOK' /\ Control'
  <2>1. Op(w) = "assign" => Notice(w, req[w].rider, "confirmed") \in Notices
    BY <1>10, RequestFacts DEF Reply, Notice, Notices
  <2>2. TypeOK'
    BY <1>10, <2>1 DEF Reply, Return, TypeOK
  <2>3. Control'
    BY <1>10 DEF Reply, Return, TypeOK
  <2> QED
    BY <2>2, <2>3
<1>11. CASE UNCHANGED vars
  BY <1>11 DEF vars, TypeOK
<1> QED
  BY <1>1, <1>2, <1>3, <1>4, <1>5, <1>6, <1>7, <1>8, <1>9, <1>10, <1>11 DEF Next, Step

----------------------------------------------------------------------------
(* A statement that writes the rider changes neither what a request is refused *)
(* for, nor the status of any order.                                           *)
LEMMA RiderKeepsRefusal ==
  ASSUME TypeOK, NEW o \in Orders, NEW r \in Riders \cup {NoRider},
         NEW p \in Orders, NEW op, Refused(op, table[p])
  PROVE  Refused(op, WithRider(o, r)[p])
<1>1. CASE p # o \/ table[o] = Missing
  BY <1>1, RowFacts DEF Statuses
<1>2. CASE p = o /\ table[o] # Missing
  BY <1>2, RowFacts DEF Statuses, Refused, CancelRefused, RefundRefused
<1> QED
  BY <1>1, <1>2

(* What a request was answered, and what it was barred from, is kept right. *)
LEMMA EarnedStep ==
  ASSUME TypeOK, Control, EffectInv, BarredInv, SuccessIsEarned, [Next]_vars
  PROVE  EffectInv' /\ BarredInv' /\ SuccessIsEarned'
<1> DEFINE Goal == EffectInv' /\ BarredInv' /\ SuccessIsEarned'
<1>o. \A w \in Workers : pc[w] # "idle" => req[w].order \in Orders
  BY RequestFacts DEF Control
<1>1. ASSUME NEW o \in Orders, Place(o) PROVE Goal
  <2>1. /\ \A p \in Orders : p # o => table'[p] = table[p]
        /\ barred' = [w \in Workers |-> barred[w] /\ (req[w].order = o => Refused(req[w].op, table'[o]))]
        /\ UNCHANGED <<pc, req, effect>>
    BY <1>1 DEF Place, TypeOK, StillBarred
  <2> QED
    BY <2>1, <1>o DEF EffectInv, BarredInv, SuccessIsEarned
<1>2. ASSUME NEW w \in Workers, NEW r \in Requests, Begin(w, r) PROVE Goal
  <2>1. /\ req' = [req EXCEPT ![w] = r] /\ pc[w] = "idle"
        /\ pc' = [pc EXCEPT ![w] = IF r.op = "assign" THEN "assign" ELSE "read"]
        /\ barred' = [barred EXCEPT ![w] = Refused(r.op, table[r.order])]
        /\ UNCHANGED <<table, effect>>
    BY <1>2 DEF Begin
  <2>2. effect[w] = "none"
    BY <1>2 DEF Begin, EffectInv
  <2>3. EffectInv'
    BY <2>1, <2>2 DEF EffectInv, TypeOK
  <2>4. BarredInv'
    BY <2>1 DEF BarredInv, TypeOK
  <2>5. SuccessIsEarned'
    BY <2>1 DEF SuccessIsEarned, TypeOK
  <2> QED
    BY <2>3, <2>4, <2>5
<1>3. ASSUME NEW w \in Workers, Read(w) PROVE Goal
  <2>1. /\ pc[w] = "read" /\ snap'[w] \in {table[req[w].order], Missing}
        /\ pc' = [pc EXCEPT ![w] = IF Refused(req[w].op, snap'[w]) THEN "fail" ELSE "write"]
        /\ UNCHANGED <<table, req, effect, barred>>
    BY <1>3 DEF Read, AfterRead, TypeOK
  <2>2. barred[w] => Refused(req[w].op, snap'[w])
    BY <2>1 DEF BarredInv, Control, Reading, StatusOps, Refused
  <2>3. EffectInv' /\ BarredInv'
    BY <2>1 DEF EffectInv, BarredInv, TypeOK
  <2>4. SuccessIsEarned'
    BY <2>1, <2>2 DEF SuccessIsEarned, EffectInv, TypeOK
  <2> QED
    BY <2>3, <2>4
<1>4. ASSUME NEW w \in Workers, Write(w) PROVE Goal
  <2>1. /\ pc[w] = "write" /\ req' = req
        /\ \/ effect' = [effect EXCEPT ![w] = "done"] /\ pc' = [pc EXCEPT ![w] = "tell"]
           \/ /\ effect'= effect \/ effect' = [effect EXCEPT ![w] = "maybe"]
              /\ pc' = [pc EXCEPT ![w] = IF req[w].op = "reject" THEN "tell" ELSE "fail"]
        /\ barred' = StillBarred(req[w].order, table'[req[w].order])
    BY <1>4 DEF Write, IgnoresResult
  <2>2. \A p \in Orders : p # req[w].order => table'[p] = table[p]
    BY <1>4, RowFacts, <1>o, NewStatusType, RidersAssumption DEF Write, Control, Reading
  <2>3. \A v \in Workers : barred'[v] => barred[v]
    BY <2>1 DEF StillBarred
  <2>4. EffectInv'
    BY <2>1 DEF EffectInv, TypeOK
  <2>5. BarredInv'
    BY <2>1, <2>2, <1>o DEF BarredInv, StillBarred, TypeOK
  <2>6. SuccessIsEarned'
    BY <2>1, <2>3 DEF SuccessIsEarned, EffectInv, TypeOK
  <2> QED
    BY <2>4, <2>5, <2>6
<1>5. ASSUME NEW w \in Workers, Tell(w) PROVE Goal
  BY <1>5 DEF Tell, EffectInv, BarredInv, SuccessIsEarned, TypeOK
<1>6. ASSUME NEW w \in Workers, Unassign(w) PROVE Goal
  <2>1. \A p \in Orders, op \in Ops : Refused(op, table[p]) => Refused(op, table'[p])
    BY <1>6, <1>o, RiderKeepsRefusal DEF Unassign
  <2>2. \A v \in Workers : pc[v] # "idle" => req[v].op \in Ops
    BY RequestFacts DEF Control
  <2>3. pc' = [pc EXCEPT ![w] = "tellRider"] /\ pc[w] = "unassign" /\ UNCHANGED <<req, effect, barred>>
    BY <1>6 DEF Unassign
  <2>4. EffectInv' /\ SuccessIsEarned'
    BY <2>3 DEF EffectInv, SuccessIsEarned, TypeOK
  <2>5. BarredInv'
    BY <1>o, <2>1, <2>2, <2>3 DEF BarredInv, TypeOK
  <2> QED
    BY <2>4, <2>5
<1>7. ASSUME NEW w \in Workers, TellRider(w) PROVE Goal
  BY <1>7 DEF TellRider, EffectInv, BarredInv, SuccessIsEarned, TypeOK
<1>8. ASSUME NEW w \in Workers, Assign(w) PROVE Goal
  <2>1. pc[w] = "assign" /\ req[w].rider \in Riders /\ req[w].order \in Orders
    BY <1>8, <1>o, RequestFacts DEF Assign, Control
  <2>2. \A p \in Orders, op \in Ops : Refused(op, table[p]) => Refused(op, table'[p])
    BY <1>8, <2>1, RiderKeepsRefusal DEF Assign
  <2>3. \A v \in Workers : pc[v] # "idle" => req[v].op \in Ops
    BY RequestFacts DEF Control
  <2>4. \/ /\ pc' = [pc EXCEPT ![w] = "tellDispatch"] /\ effect' = [effect EXCEPT ![w] = "done"]
           /\ UNCHANGED <<req, barred>>
        \/ /\ pc' = [pc EXCEPT ![w] = "idle"] /\ effect' = [effect EXCEPT ![w] = "none"]
           /\ barred' = [barred EXCEPT ![w] = FALSE] /\ req' = [req EXCEPT ![w] = NoRequest]
        \/ /\ pc' = [pc EXCEPT ![w] = "fail"] /\ UNCHANGED <<req, barred>>
           /\ effect' = effect \/ effect' = [effect EXCEPT ![w] = "maybe"]
    BY <1>8 DEF Assign, Return
  <2>5. EffectInv'
    BY <2>1, <2>4 DEF EffectInv, TypeOK
  <2>6. BarredInv'
    BY <1>o, <2>1, <2>2, <2>3, <2>4 DEF BarredInv, TypeOK
  <2>7. SuccessIsEarned'
    BY <2>1, <2>4 DEF SuccessIsEarned, EffectInv, TypeOK
  <2> QED
    BY <2>5, <2>6, <2>7
<1>9. ASSUME NEW w \in Workers, TellDispatch(w) PROVE Goal
  <2>1. barred[w] => FALSE
    BY <1>9 DEF TellDispatch, BarredInv, Control, Refused, CancelRefused, RefundRefused
  <2> QED
    BY <1>9, <2>1 DEF TellDispatch, EffectInv, BarredInv, SuccessIsEarned, TypeOK
<1>10. ASSUME NEW w \in Workers, Reply(w) PROVE Goal
  <2>1. /\ pc' = [pc EXCEPT ![w] = "idle"] /\ effect' = [effect EXCEPT ![w] = "none"]
        /\ barred' = [barred EXCEPT ![w] = FALSE] /\ req' = [req EXCEPT ![w] = NoRequest]
        /\ table' = table
    BY <1>10 DEF Reply, Return
  <2> QED
    BY <2>1 DEF EffectInv, BarredInv, SuccessIsEarned, TypeOK
<1>11. CASE UNCHANGED vars
  BY <1>11 DEF vars, EffectInv, BarredInv, SuccessIsEarned
<1> QED
  BY <1>1, <1>2, <1>3, <1>4, <1>5, <1>6, <1>7, <1>8, <1>9, <1>10, <1>11 DEF Next, Step
----------------------------------------------------------------------------
(* No step leaves a status behind that nobody was told of. *)
LEMMA AnnouncedStep ==
  ASSUME TypeOK, Control, EveryChangeAnnounced, [Next]_vars
  PROVE  EveryChangeAnnounced'
<1> DEFINE Announced(o) ==
      LET s == table[o].status
      IN  \/ s \in {"NONE", "PENDING"}
          \/ \E n \in notices : /\ n.order = o /\ n.by # "assign" /\ NewStatus[n.by] = s
                                /\ n.to = "customer" \/ s = "READY"
          \/ \E w \in Workers : WillTell(w, o, s)
          \/ <<o, s>> \in unclear
<1> SUFFICES ASSUME NEW o \in Orders PROVE Announced(o)'
  BY DEF EveryChangeAnnounced
<1>a. Announced(o)
  BY DEF EveryChangeAnnounced
<1>o. \A w \in Workers : pc[w] # "idle" => req[w].order \in Orders
  BY RequestFacts DEF Control
\* A step that does not touch the status and after which who will tell still will.
<1>k. ASSUME notices \subseteq notices', unclear \subseteq unclear',
             table'[o].status = table[o].status,
             \A v \in Workers : pc[v] = "tell" => pc'[v] = "tell" /\ req'[v] = req[v]
      PROVE  Announced(o)'
  BY <1>a, <1>k DEF WillTell
<1>1. ASSUME NEW p \in Orders, Place(p) PROVE Announced(o)'
  <2>1. CASE p = o
    BY <1>1, <2>1 DEF Place, TypeOK
  <2>2. CASE p # o
    BY <1>1, <1>k, <2>2 DEF Place, TypeOK
  <2> QED
    BY <2>1, <2>2
<1>2. ASSUME NEW w \in Workers, NEW r \in Requests, Begin(w, r) PROVE Announced(o)'
  BY <1>2, <1>k DEF Begin, TypeOK
<1>3. ASSUME NEW w \in Workers, Read(w) PROVE Announced(o)'
  BY <1>3, <1>k DEF Read, TypeOK
<1>4. ASSUME NEW w \in Workers, Write(w) PROVE Announced(o)'
  <2> DEFINE s == NewStatus[req[w].op]
  <2>1. /\ pc[w] = "write" /\ UNCHANGED <<req, notices>> /\ unclear \subseteq unclear'
        /\ req[w].order \in Orders /\ s \in Statuses
        /\ \A v \in Workers : pc[v] = "tell" => pc'[v] = "tell" /\ req'[v] = req[v]
    BY <1>4, <1>o, NewStatusType DEF Write, Control, Reading, TypeOK
  <2>2. \/ table' = WithStatus(req[w].order, s) /\ pc'[w] = "tell"
        \/ table' = WithStatus(req[w].order, s) /\ <<req[w].order, s>> \in unclear'
        \/ table' = table
    BY <1>4 DEF Write, TypeOK
  <2>3. CASE table'[o].status = table[o].status
    BY <1>k, <2>1, <2>3
  <2>4. CASE table'[o].status # table[o].status
    <3>1. table' = WithStatus(req[w].order, s) /\ req[w].order = o /\ table'[o].status = s
      BY <2>1, <2>2, <2>4, RowFacts, RidersAssumption
    <3>2. CASE pc'[w] = "tell"
      BY <2>1, <3>1, <3>2 DEF WillTell
    <3>3. CASE <<o, s>> \in unclear'
      BY <3>1, <3>3
    <3> QED
      BY <2>2, <2>4, <3>1, <3>2, <3>3
  <2> QED
    BY <2>3, <2>4
<1>5. ASSUME NEW w \in Workers, Tell(w) PROVE Announced(o)'
  <2>1. /\ pc[w] = "tell" /\ notices' = notices \cup StatusNotices(w)
        /\ UNCHANGED <<table, req, unclear>>
        /\ \A v \in Workers : v # w => pc'[v] = pc[v]
    BY <1>5 DEF Tell, TypeOK
  <2>2. CASE WillTell(w, o, table[o].status)
    <3>1. req[w].order = o /\ NewStatus[req[w].op] = table[o].status /\ req[w].op # "assign"
      BY <2>2 DEF WillTell, Control, Reading, StatusOps
    <3>2. CASE req[w].op = "ready" /\ snap[w].rider # NoRider
      <4>1. Notice(w, snap[w].rider, "newDelivery") \in notices'
        BY <2>1, <3>2 DEF StatusNotices
      <4> QED
        BY <2>1, <3>1, <3>2, <4>1 DEF Notice, NewStatus
    <3>3. CASE req[w].op = "ready" /\ snap[w].rider = NoRider
      <4>1. PICK r \in Riders : TRUE
        BY RidersAssumption
      <4>2. Notice(w, r, "READY") \in notices'
        BY <2>1, <3>3, <4>1 DEF StatusNotices
      <4> QED
        BY <2>1, <3>1, <3>3, <4>2 DEF Notice, NewStatus
    <3>4. CASE req[w].op = "done"
      <4>1. Notice(w, "customer", "COMPLETED") \in notices'
        BY <2>1, <3>4 DEF StatusNotices
      <4> QED
        BY <2>1, <3>1, <3>4, <4>1 DEF Notice
    <3>5. CASE req[w].op \notin {"ready", "done"}
      <4>1. Notice(w, "customer", NewStatus[req[w].op]) \in notices'
        BY <2>1, <3>5 DEF StatusNotices
      <4> QED
        BY <2>1, <3>1, <4>1 DEF Notice
    <3> QED
      BY <3>2, <3>3, <3>4, <3>5
  <2>3. CASE ~WillTell(w, o, table[o].status)
    BY <1>a, <2>1, <2>3 DEF WillTell
  <2> QED
    BY <2>2, <2>3
<1>6. ASSUME NEW w \in Workers, Unassign(w) PROVE Announced(o)'
  <2>1. table'[o].status = table[o].status
    BY <1>6, <1>o, RowFacts DEF Unassign, Statuses
  <2> QED
    BY <1>6, <1>k, <2>1 DEF Unassign, TypeOK
<1>7. ASSUME NEW w \in Workers, TellRider(w) PROVE Announced(o)'
  BY <1>7, <1>k DEF TellRider, TypeOK
<1>8. ASSUME NEW w \in Workers, Assign(w) PROVE Announced(o)'
  <2>1. pc[w] = "assign" /\ req[w].rider \in Riders /\ req[w].order \in Orders
    BY <1>8, <1>o, RequestFacts DEF Assign, Control
  <2>2. table'[o].status = table[o].status
    <3>1. table' = table \/ table' = WithRider(req[w].order, req[w].rider)
      BY <1>8 DEF Assign
    <3> QED
      BY <2>1, <3>1, RowFacts DEF Statuses
  <2>3. \A v \in Workers : v # w => pc'[v] = pc[v] /\ req'[v] = req[v]
    <3>1. \E l \in Locations : pc' = [pc EXCEPT ![w] = l]
      BY <1>8 DEF Assign, Return, Goto, Locations
    <3>2. req' = req \/ req' = [req EXCEPT ![w] = NoRequest]
      BY <1>8 DEF Assign, Return
    <3> QED
      BY <3>1, <3>2 DEF TypeOK
  <2>4. notices' = notices /\ unclear \subseteq unclear'
    BY <1>8 DEF Assign
  <2> QED
    BY <1>k, <2>1, <2>2, <2>3, <2>4
<1>9. ASSUME NEW w \in Workers, TellDispatch(w) PROVE Announced(o)'
  BY <1>9, <1>k DEF TellDispatch, TypeOK
<1>10. ASSUME NEW w \in Workers, Reply(w) PROVE Announced(o)'
  BY <1>10, <1>k DEF Reply, Return, TypeOK
<1>11. CASE UNCHANGED vars
  BY <1>11, <1>k DEF vars
<1> QED
  BY <1>1, <1>2, <1>3, <1>4, <1>5, <1>6, <1>7, <1>8, <1>9, <1>10, <1>11 DEF Next, Step

----------------------------------------------------------------------------
(* No step leaves a rider in a row who was not told. *)
LEMMA InformedStep ==
  ASSUME TypeOK, Control, RiderIsInformed, [Next]_vars
  PROVE  RiderIsInformed'
<1> DEFINE Tells(w, o, r) == /\ Op(w) = "assign" /\ Order(w) = o /\ req[w].rider = r
                             /\ pc[w] \in {"tellDispatch", "succeed"}
           Informed(o) ==
      LET r == table[o].rider
      IN  \/ r = NoRider
          \/ \E n \in notices : n.order = o /\ n.to = r /\ n.text = "confirmed"
          \/ \E w \in Workers : Tells(w, o, r)
          \/ <<o, r>> \in unclear
<1> SUFFICES ASSUME NEW o \in Orders PROVE Informed(o)'
  BY DEF RiderIsInformed
<1>a. Informed(o)
  BY DEF RiderIsInformed
<1>o. \A w \in Workers : pc[w] # "idle" => req[w].order \in Orders
  BY RequestFacts DEF Control
\* A step that does not touch the rider and after which who will tell still will.
<1>k. ASSUME notices \subseteq notices', unclear \subseteq unclear',
             table'[o].rider = table[o].rider,
             \A v \in Workers : Tells(v, o, table[o].rider) =>
                req'[v] = req[v] /\ pc'[v] \in {"tellDispatch", "succeed"}
      PROVE  Informed(o)'
  BY <1>a, <1>k
<1>1. ASSUME NEW p \in Orders, Place(p) PROVE Informed(o)'
  <2>1. CASE p = o
    BY <1>1, <2>1 DEF Place, TypeOK
  <2>2. CASE p # o
    BY <1>1, <1>k, <2>2 DEF Place, TypeOK
  <2> QED
    BY <2>1, <2>2
<1>2. ASSUME NEW w \in Workers, NEW r \in Requests, Begin(w, r) PROVE Informed(o)'
  BY <1>2, <1>k DEF Begin, TypeOK
<1>3. ASSUME NEW w \in Workers, Read(w) PROVE Informed(o)'
  BY <1>3, <1>k DEF Read, TypeOK
<1>4. ASSUME NEW w \in Workers, Write(w) PROVE Informed(o)'
  <2>1. req[w].order \in Orders /\ NewStatus[req[w].op] \in Statuses
    BY <1>4, <1>o, NewStatusType DEF Write, Control, Reading
  <2>2. table'[o].rider = table[o].rider
    BY <1>4, <2>1, RowFacts, RidersAssumption DEF Write
  <2>3. /\ unclear \subseteq unclear' /\ UNCHANGED <<req, notices>> /\ pc[w] = "write"
        /\ \A v \in Workers : v # w => pc'[v] = pc[v]
    BY <1>4 DEF Write, TypeOK
  <2> QED
    BY <1>k, <2>2, <2>3
<1>5. ASSUME NEW w \in Workers, Tell(w) PROVE Informed(o)'
  BY <1>5, <1>k DEF Tell, TypeOK
<1>6. ASSUME NEW w \in Workers, Unassign(w) PROVE Informed(o)'
  <2>1. table'[o].rider \in {table[o].rider, NoRider}
    BY <1>6, <1>o, RowFacts DEF Unassign, Statuses
  <2>2. CASE table'[o].rider = table[o].rider
    BY <1>6, <1>k, <2>2 DEF Unassign, TypeOK
  <2> QED
    BY <2>1, <2>2
<1>7. ASSUME NEW w \in Workers, TellRider(w) PROVE Informed(o)'
  BY <1>7, <1>k DEF TellRider, TypeOK
<1>8. ASSUME NEW w \in Workers, Assign(w) PROVE Informed(o)'
  <2>1. /\ pc[w] = "assign" /\ req[w].rider \in Riders /\ req[w].order \in Orders
        /\ req[w].op = "assign"
    BY <1>8, <1>o, RequestFacts DEF Assign, Control
  <2>2. /\ \A v \in Workers : v # w => pc'[v] = pc[v] /\ req'[v] = req[v]
        /\ notices' = notices /\ unclear \subseteq unclear'
    BY <1>8 DEF Assign, Return, TypeOK
  <2>3. CASE table'[o].rider = table[o].rider
    BY <1>k, <2>1, <2>2, <2>3
  <2>4. CASE table'[o].rider # table[o].rider
    <3>1. /\ req[w].order = o /\ table'[o].rider = req[w].rider
      <4>1. table' = table \/ table' = WithRider(req[w].order, req[w].rider)
        BY <1>8 DEF Assign
      <4>2. table' = WithRider(req[w].order, req[w].rider)
        BY <2>4, <4>1
      <4>3. req[w].order = o
        BY <2>1, <2>4, <4>2, RowFacts DEF Statuses
      <4>4. table[o] # Missing
        BY <2>1, <2>4, <4>2, <4>3, RowFacts DEF Statuses
      <4> QED
        BY <2>1, <4>2, <4>3, <4>4, RowFacts DEF Statuses
    <3>2. \/ pc'[w] = "tellDispatch" /\ req' = req
          \/ <<req[w].order, req[w].rider>> \in unclear'
      BY <1>8, <2>1, <2>4 DEF Assign, TypeOK
    <3> QED
      BY <2>1, <3>1, <3>2
  <2> QED
    BY <2>3, <2>4
<1>9. ASSUME NEW w \in Workers, TellDispatch(w) PROVE Informed(o)'
  BY <1>9, <1>k DEF TellDispatch, TypeOK
<1>10. ASSUME NEW w \in Workers, Reply(w) PROVE Informed(o)'
  <2>1. /\ UNCHANGED <<table, unclear>> /\ notices \subseteq notices'
        /\ pc[w] = "succeed" /\ req[w].op = "assign" => Notice(w, req[w].rider, "confirmed") \in notices'
        /\ \A v \in Workers : v # w => pc'[v] = pc[v] /\ req'[v] = req[v]
    BY <1>10 DEF Reply, Return, TypeOK
  <2>2. CASE Tells(w, o, table[o].rider)
    <3>1. Notice(w, req[w].rider, "confirmed") \in notices'
      BY <1>10, <2>1, <2>2 DEF Reply
    <3> QED
      BY <2>1, <2>2, <3>1 DEF Notice
  <2>3. CASE ~Tells(w, o, table[o].rider)
    BY <1>k, <2>1, <2>3
  <2> QED
    BY <2>2, <2>3
<1>11. CASE UNCHANGED vars
  BY <1>11, <1>k DEF vars
<1> QED
  BY <1>1, <1>2, <1>3, <1>4, <1>5, <1>6, <1>7, <1>8, <1>9, <1>10, <1>11 DEF Next, Step

----------------------------------------------------------------------------
LEMMA SpecInv == Spec => []Inv
<1>1. Inv /\ [Next]_vars => Inv'
  BY TypeStep, EarnedStep, AnnouncedStep, InformedStep DEF Inv
<1> QED
  BY <1>1, InitInv, PTL DEF Spec

(* Rows, requests and notices fit together in every state. *)
THEOREM OrderTypeOK == Spec => []TypeOK
<1>1. Inv => TypeOK
  BY DEF Inv
<1> QED
  BY <1>1, SpecInv, PTL

(* No request succeeds on an order that had to be refused as long as it ran, and *)
(* answers tell what the UPDATE did (CancelOrderUseCase.cpp:16-28,              *)
(* AdminService.cpp:261-266).                                                   *)
THEOREM OrdersSuccessIsEarned == Spec => []SuccessIsEarned
<1>1. Inv => SuccessIsEarned
  BY DEF Inv
<1> QED
  BY <1>1, SpecInv, PTL

(* Whatever status an order ends up with was announced or is about to be       *)
(* (UpdateStatusUseCase.cpp:11-52).                                            *)
THEOREM OrdersAnnounced == Spec => []EveryChangeAnnounced
<1>1. Inv => EveryChangeAnnounced
  BY DEF Inv
<1> QED
  BY <1>1, SpecInv, PTL

(* The rider in the row was told, or is about to be (OrderHandler.cpp:323-345). *)
THEOREM OrdersRiderInformed == Spec => []RiderIsInformed
<1>1. Inv => RiderIsInformed
  BY DEF Inv
<1> QED
  BY <1>1, SpecInv, PTL
=============================================================================
