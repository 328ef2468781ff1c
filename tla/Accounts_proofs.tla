--------------------------- MODULE Accounts_proofs ---------------------------
(* Proofs about the mailed codes and the owners' rows, for any workers,       *)
(* logins, passwords and requests.                                            *)
EXTENDS Accounts, FiniteSetTheorems, TLAPS

Request == [op : Ops, login : Logins, password : Passwords \cup {NoPassword},
            code : Codes \cup {0}, id : Codes]

Early  == {"connect", "select", "crypt", "crypting", "store"}
Places == Early \cup {"mail", "confirm", "insert", "insertStore", "delete", "succeed", "fail"}

(* Which requests come to which place. *)
Route(w) ==
    /\ pc[w] \in {"store", "mail"} => Op(w) \in {"register", "withdrawVerify"}
    /\ pc[w] = "confirm" => Op(w) = "verify"
    /\ pc[w] = "connect" => Op(w) # "register"
    /\ pc[w] = "select" => Op(w) \in LoginOps \cup {"withdrawVerify", "idCheck"}
    /\ pc[w] \in {"crypt", "crypting"} => Op(w) \notin {"register", "withdraw", "idCheck"}
    /\ pc[w] = "insert" => Op(w) \in {"verify"} \cup Registers
    /\ pc[w] = "insertStore" => Op(w) = "ownerRegister"
    /\ pc[w] = "delete" => Op(w) = "withdraw"
    /\ req[w].password = NoPassword => Op(w) \in NoSecrets \cup {"register"}

Control ==
    /\ pc \in [Workers -> {"idle"} \cup Places]
    /\ req \in [Workers -> {NoRequest} \cup Request]
    /\ \A w \in Workers : \/ pc[w] = "idle" /\ req[w] = NoRequest
                          \/ pc[w] \in Places /\ req[w] \in Request /\ Route(w)

(* Requests are numbered as they begin, and no code is from the future. *)
Numbers ==
    /\ \A w \in Workers : pc[w] # "idle" => req[w].id <= requests
    /\ \A v, w \in Workers : pc[v] # "idle" /\ pc[w] # "idle" /\ req[v].id = req[w].id => v = w
    /\ \A u \in Logins : entry[u].code <= requests
    /\ \A c \in confirmed : c <= requests

\* The code of this request was not stored yet.
Unstored(w) == Op(w) \in {"register", "withdrawVerify"} /\ pc[w] \in Early

(* A code is in one entry at most, and in none before it was stored or after  *)
(* it was confirmed.                                                          *)
Fresh ==
    /\ \A w \in Workers : Unstored(w) =>
          req[w].id \notin confirmed /\ \A u \in Logins : entry[u].code # req[w].id
    /\ \A u \in Logins : entry[u].code \notin confirmed
    /\ \A u, v \in Logins : entry[u].code = entry[v].code /\ entry[u] # NoEntry => u = v

Kept(c) == c \in gone \/ \E u \in Logins : entry[u].code = c

(* A code that is being mailed, or was, is in its entry unless it has gone.   *)
Pending == /\ \A w \in Workers : pc[w] = "mail" => Kept(req[w].id)
           /\ \A c \in mailed : Kept(c)

(* A confirmation that creates the account holds s_mutex, and with it the      *)
(* entry it found; inside crypt() and the INSERT it has a connection too.      *)
Holding ==
    \A w \in Workers :
       /\ Op(w) = "verify" /\ pc[w] \in {"connect", "crypt", "crypting", "insert"} =>
             mutex = w /\ Entry(w) # NoEntry /\ Entry(w).code = req[w].code
                       /\ Entry(w).password \in Passwords
       /\ Op(w) = "verify" /\ pc[w] \in {"crypt", "crypting", "insert"} => w \in conn

(* An owner keeps the row of the first INSERT while the second one runs, and  *)
(* both rows while the answer is on its way.                                  *)
Owners ==
    \A w \in Workers : Op(w) = "ownerRegister" =>
       /\ pc[w] \in {"insertStore", "succeed"} => member[Login(w)].role = "owner"
       /\ pc[w] = "succeed" => Login(w) \in store

Inv == TypeOK /\ Control /\ Numbers /\ Fresh /\ Pending /\ Holding /\ Owners

USE DEF Goto, Fails, codes, tables, counts, locals

(* NoRequest, NoRow, NoEntry and Garbled are none of what they stand beside.  *)
LEMMA NothingFacts ==
    /\ NoRequest.op = "none" /\ NoRow.role = "none" /\ NoEntry.code = 0 /\ 0 \notin Codes
    /\ Codes \subseteq Nat
    /\ Ops \subseteq AllOps
    /\ \A o \in AllOps : Role(o) \in {"customer", "owner", "rider"}
BY OpsAssumption, BoundsAssumption
   DEF NoRequest, NoRow, NoEntry, Codes, Role, AllOps, CustomerOps, LoginOps, Registers

AnEntry == [code : Codes, old : BOOLEAN, password : Passwords \cup {NoPassword}]

(* The codes in the entries, and those that were used. *)
LEMMA EntryFacts ==
  ASSUME Inv
  PROVE  /\ entry \in [Logins -> {NoEntry} \cup AnEntry]
         /\ \A u \in Logins : entry[u] \in {NoEntry} \cup AnEntry
         /\ mailed \subseteq Codes /\ gone \subseteq Codes /\ confirmed \subseteq Codes
BY DEF Inv, TypeOK, AnEntry

LEMMA CodeFacts ==
  ASSUME NEW e \in {NoEntry} \cup AnEntry
  PROVE  /\ e.code \in Nat /\ e.password \in Passwords \cup {NoPassword}
         /\ e = NoEntry <=> e.code = 0
         /\ e.code = 0 \/ e.code \in Codes
         /\ \A c \in Codes : c \in Nat
<1>1. \A c \in Codes : c \in Nat /\ c # 0
  BY NothingFacts
<1>2. e = NoEntry \/ (e.code \in Codes /\ e.password \in Passwords \cup {NoPassword})
  BY DEF AnEntry
<1>3. NoEntry.code = 0 /\ NoEntry.password = NoPassword
  BY DEF NoEntry
<1> QED
  BY <1>1, <1>2, <1>3

(* What is known of the worker that takes a step. *)
LEMMA WorkerFacts ==
  ASSUME Inv, NEW w \in Workers, pc[w] # "idle"
  PROVE  /\ pc[w] \in Places /\ req[w] \in Request /\ Route(w)
         /\ Op(w) \in AllOps /\ Login(w) \in Logins /\ req[w].id \in Codes
         /\ req[w].code \in Codes \cup {0}
         /\ req[w].password \in Passwords \cup {NoPassword}
         /\ Op(w) \notin NoSecrets \cup {"register"} => req[w].password \in Passwords
<1>1. pc[w] \in Places /\ req[w] \in Request /\ Route(w)
  BY DEF Inv, Control
<1> QED
  BY <1>1, NothingFacts, NamesAssumption DEF Request, Op, Login, Route

(* A worker that moves on to a place of its request. *)
LEMMA MoveControl ==
  ASSUME Inv, NEW w \in Workers, NEW l \in Places, pc[w] # "idle",
         pc' = [pc EXCEPT ![w] = l], req' = req, Route(w)'
  PROVE  Control'
<1>1. /\ pc' \in [Workers -> {"idle"} \cup Places] /\ pc'[w] = l
      /\ \A v \in Workers \ {w} : pc'[v] = pc[v]
  BY DEF Inv, Control
<1>2. \A v \in Workers \ {w} : Route(v)' <=> Route(v)
  BY <1>1 DEF Route, Op
<1>3. req[w] \in Request
  BY DEF Inv, Control
<1> QED
  BY <1>1, <1>2, <1>3 DEF Inv, Control

(* A step that leaves the codes alone, neither comes to the mail nor goes back *)
(* to before the code was stored.                                             *)
LEMMA MoveCodes ==
  ASSUME Inv, NEW w \in Workers, NEW l \in Places, pc[w] # "idle",
         pc' = [pc EXCEPT ![w] = l], req' = req, requests' = requests, UNCHANGED codes,
         l # "mail", l \in Early => pc[w] \in Early
  PROVE  (Numbers /\ Fresh /\ Pending)'
<1>1. /\ pc \in [Workers -> {"idle"} \cup Places] /\ pc'[w] = l
      /\ \A v \in Workers \ {w} : pc'[v] = pc[v]
      /\ \A v \in Workers : pc'[v] # "idle" <=> pc[v] # "idle"
  BY DEF Inv, Control, Places, Early
<1>2. Numbers'
  BY <1>1 DEF Inv, Numbers
<1>3. Fresh'
  <2>1. \A v \in Workers : Unstored(v)' => Unstored(v)
    BY <1>1 DEF Unstored, Op
  <2> QED
    BY <2>1 DEF Inv, Fresh
<1>4. Pending'
  BY <1>1 DEF Inv, Pending, Kept
<1> QED
  BY <1>2, <1>3, <1>4

(* A step that leaves the tables alone and tells no owner of success.         *)
LEMMA MoveOwners ==
  ASSUME Inv, NEW w \in Workers, NEW l \in Places,
         pc' = [pc EXCEPT ![w] = l], req' = req, UNCHANGED tables,
         Op(w) = "ownerRegister" => l \notin {"insertStore", "succeed"}
  PROVE  Owners'
<1>1. pc \in [Workers -> {"idle"} \cup Places] /\ pc'[w] = l
      /\ \A v \in Workers \ {w} : pc'[v] = pc[v]
  BY DEF Inv, Control
<1> QED
  BY <1>1 DEF Inv, Owners, Op, Login

(* A step that leaves s_mutex and the entries alone.                          *)
LEMMA MoveHolding ==
  ASSUME Inv, NEW w \in Workers, NEW l \in Places,
         pc' = [pc EXCEPT ![w] = l], req' = req, mutex' = mutex, entry' = entry,
         conn \ {w} \subseteq conn',
         Op(w) = "verify" /\ l \in {"connect", "crypt", "crypting", "insert"} =>
            /\ pc[w] \in {"connect", "crypt", "crypting", "insert"}
            /\ l # "connect" => w \in conn'
  PROVE  Holding'
<1>1. pc \in [Workers -> {"idle"} \cup Places] /\ pc'[w] = l
      /\ \A v \in Workers \ {w} : pc'[v] = pc[v]
  BY DEF Inv, Control
<1> SUFFICES ASSUME NEW v \in Workers, Op(v) = "verify"
             PROVE  /\ pc'[v] \in {"connect", "crypt", "crypting", "insert"} =>
                          mutex' = v /\ Entry(v)' # NoEntry /\ Entry(v)'.code = req'[v].code
                            /\ Entry(v)'.password \in Passwords
                    /\ pc'[v] \in {"crypt", "crypting", "insert"} => v \in conn'
  BY DEF Holding, Op
<1>2. Entry(v)' = Entry(v)
  BY DEF Entry, Login
<1>3. CASE v = w
  BY <1>1, <1>2, <1>3 DEF Inv, Holding
<1>4. CASE v # w
  BY <1>1, <1>2, <1>4 DEF Inv, Holding
<1> QED
  BY <1>3, <1>4

(* Where each request goes first, and where with a connection. *)
LEMMA RouteFacts ==
    /\ FirstStep("register") = "store" /\ FirstStep("verify") = "confirm"
    /\ \A o \in Registers : FirstStep(o) = "crypt" /\ AfterConnect(o) = "insert"
    /\ AfterConnect("verify") = "crypt" /\ AfterConnect("withdraw") = "delete"
    /\ \A o \in LoginOps \cup {"withdrawVerify", "idCheck", "withdraw"} :
          FirstStep(o) = "connect" /\ (o # "withdraw" => AfterConnect(o) = "select")
BY DEF FirstStep, AfterConnect, LoginOps, Registers

LEMMA BeginStep ==
  ASSUME Inv, NEW w \in Workers, NEW r \in Requests, Begin(w, r)
  PROVE  Inv'
<1> DEFINE new == [op |-> r.op, login |-> r.login, code |-> r.code,
                   password |-> r.password, id |-> requests + 1]
           l == FirstStep(r.op)
<1>a. /\ pc[w] = "idle" /\ requests < MaxRequests /\ requests' = requests + 1
      /\ req' = [req EXCEPT ![w] = new] /\ pc' = [pc EXCEPT ![w] = l]
      /\ UNCHANGED <<tables, codes, mutex, conn, leaked, calls, mixed, hash, failures>>
  BY DEF Begin
<1>b. requests \in 0 .. MaxRequests /\ MaxRequests \in Nat
  BY BoundsAssumption DEF Inv, TypeOK
<1>c. new \in Request
  <2>1. requests + 1 \in Codes
    BY <1>a, <1>b DEF Codes
  <2>2. mailed \subseteq Codes
    BY DEF Inv, TypeOK
  <2>3. /\ r.op \in Ops /\ r.login \in Logins /\ r.password \in Passwords \cup {NoPassword}
        /\ r.code \in Codes \cup {0}
    BY <2>2 DEF Requests
  <2> QED
    BY <2>1, <2>3 DEF Request
<1>d. /\ r.op \in CustomerOps \cup LoginOps \cup Registers
      /\ r.password = NoPassword => r.op \in NoSecrets \cup {"register"}
  <2>1. r.op \in Ops /\ (r.password = NoPassword => r.op \in NoSecrets \cup {"register"})
    BY DEF Requests
  <2> QED
    BY <2>1, OpsAssumption DEF AllOps
<1>e. /\ l \in {"store", "confirm", "crypt", "connect"}
      /\ l = "store" => r.op = "register"
      /\ l = "confirm" <=> r.op = "verify"
      /\ l = "connect" => r.op \notin {"register", "verify"}
      /\ l = "crypt" => r.op \in Registers
  BY <1>d, RouteFacts DEF CustomerOps, LoginOps, Registers
<1> HIDE DEF new, l
<1>f. /\ pc \in [Workers -> {"idle"} \cup Places] /\ req \in [Workers -> {NoRequest} \cup Request]
      /\ pc'[w] = l /\ req'[w] = new
      /\ \A v \in Workers \ {w} : pc'[v] = pc[v] /\ req'[v] = req[v]
  BY <1>a DEF Inv, Control
<1>g. /\ new.op = r.op /\ new.login = r.login /\ new.password = r.password
      /\ new.id = requests + 1
  BY DEF new
<1>1. TypeOK'
  BY <1>a, <1>b DEF Inv, TypeOK, AnEntry
<1>2. Control'
  <2>1. \A v \in Workers \ {w} : Route(v)' <=> Route(v)
    BY <1>f DEF Route, Op
  <2>2. Route(w)'
    BY <1>d, <1>e, <1>f, <1>g DEF Route, Op, Registers
  <2>3. l \in Places
    BY <1>e DEF Places, Early
  <2>4. req' \in [Workers -> {NoRequest} \cup Request]
    BY <1>a, <1>c DEF Inv, Control
  <2>5. pc' \in [Workers -> {"idle"} \cup Places]
    BY <1>a, <2>3 DEF Inv, Control
  <2> QED
    BY <1>c, <1>f, <2>1, <2>2, <2>3, <2>4, <2>5 DEF Inv, Control
<1>h. \A v \in Workers : pc[v] # "idle" => req[v].id \in Nat
  BY WorkerFacts, NothingFacts
<1>i. /\ \A u \in Logins : entry[u].code \in Nat
      /\ \A c \in confirmed : c \in Nat
  BY EntryFacts, CodeFacts
<1>3. Numbers'
  <2>n. requests \in Nat /\ Numbers
    BY <1>b DEF Inv
  <2> USE <2>n DEF Numbers
  <2>1. \A v \in Workers : pc[v] # "idle" => req[v].id < requests + 1
    BY <1>b, <1>h, <1>i
  <2>2. \A v \in Workers : pc'[v] # "idle" => req'[v].id <= requests + 1
    BY <1>b, <1>f, <1>g, <1>h, <1>i
  <2>3. \A u, v \in Workers : pc'[u] # "idle" /\ pc'[v] # "idle" /\ req'[u].id = req'[v].id => u = v
    BY <1>b, <1>f, <1>g, <1>h, <1>i, <2>1
  <2>4. /\ \A u \in Logins : entry[u].code <= requests + 1
        /\ \A c \in confirmed : c <= requests + 1
    BY <1>b, <1>i
  <2> QED
    BY <1>a, <2>2, <2>3, <2>4
<1>4. Fresh'
  <2>1. requests + 1 \notin confirmed /\ \A u \in Logins : entry[u].code # requests + 1
    BY <1>b, <1>i DEF Inv, Numbers
  <2>2. \A v \in Workers \ {w} : Unstored(v)' => Unstored(v)
    BY <1>f DEF Unstored, Op
  <2> QED
    BY <1>a, <1>f, <1>g, <2>1, <2>2 DEF Inv, Fresh
<1>5. Pending'
  BY <1>a, <1>e, <1>f DEF Inv, Pending, Kept
<1>6. Holding'
  BY <1>a, <1>e, <1>f, <1>g DEF Inv, Holding, Op, Entry, Login
<1>7. Owners'
  BY <1>a, <1>e, <1>f, <1>g DEF Inv, Owners, Op, Login
<1> QED
  BY <1>1, <1>2, <1>3, <1>4, <1>5, <1>6, <1>7 DEF Inv

LEMMA ReturnStep ==
  ASSUME Inv, NEW w \in Workers, Return(w)
  PROVE  Inv'
<1>a. /\ pc[w] \in {"succeed", "fail"} /\ pc' = [pc EXCEPT ![w] = "idle"]
      /\ mutex' = (IF mutex = w THEN Nobody ELSE mutex) /\ conn' = conn \ {w}
      /\ req' = [req EXCEPT ![w] = NoRequest] /\ hash' = [hash EXCEPT ![w] = Garbled]
      /\ UNCHANGED <<tables, codes, leaked, calls, mixed, counts>>
  BY DEF Return
<1>f. /\ pc \in [Workers -> {"idle"} \cup Places] /\ req \in [Workers -> {NoRequest} \cup Request]
      /\ pc'[w] = "idle" /\ req'[w] = NoRequest /\ Op(w)' = "none"
      /\ \A v \in Workers \ {w} : pc'[v] = pc[v] /\ req'[v] = req[v]
  BY <1>a, NothingFacts DEF Inv, Control, Op
<1>1. TypeOK'
  <2>1. Cardinality(conn') + leaked' <= PoolSize
    <3>1. IsFiniteSet(conn) /\ Cardinality(conn) \in Nat
      BY WorkersAssumption, FS_Subset, FS_CardinalityType DEF Inv, TypeOK
    <3>2. Cardinality(conn \ {w}) = Cardinality(conn) \/ Cardinality(conn \ {w}) = Cardinality(conn) - 1
      BY <3>1, FS_RemoveElement
    <3> QED
      BY <1>a, <3>1, <3>2, BoundsAssumption DEF Inv, TypeOK
  <2> QED
    BY <1>a, <2>1 DEF Inv, TypeOK, AnEntry
<1>2. Control'
  <2>1. \A v \in Workers \ {w} : Route(v)' <=> Route(v)
    BY <1>f DEF Route, Op
  <2> QED
    BY <1>a, <1>f, <2>1 DEF Inv, Control
<1>3. Numbers'
  BY <1>a, <1>f DEF Inv, Numbers
<1>4. Fresh'
  <2>2. \A v \in Workers : Unstored(v)' => Unstored(v)
    BY <1>f DEF Unstored, Op
  <2> QED
    BY <1>a, <1>f, <2>2 DEF Inv, Fresh, Unstored
<1>5. Pending'
  BY <1>a, <1>f DEF Inv, Pending, Kept
<1>6. Holding'
  BY <1>a, <1>f DEF Inv, Holding, Op, Entry, Login
<1>7. Owners'
  BY <1>a, <1>f DEF Inv, Owners, Op, Login
<1> QED
  BY <1>1, <1>2, <1>3, <1>4, <1>5, <1>6, <1>7 DEF Inv

LEMMA StoreStep ==
  ASSUME Inv, NEW w \in Workers, Store(w)
  PROVE  Inv'
<1> DEFINE new == [code |-> req[w].id, old |-> FALSE,
                   password |-> IF Op(w) = "register" THEN req[w].password ELSE NoPassword]
<1>a. /\ pc[w] = "store" /\ mutex = Nobody /\ entry' = [entry EXCEPT ![Login(w)] = new]
      /\ gone' = gone \cup ({Entry(w).code} \ {0}) /\ pc' = [pc EXCEPT ![w] = "mail"]
      /\ UNCHANGED <<tables, mutex, conn, leaked, calls, mixed, hash, req, mailed,
                     confirmed, counts>>
  BY DEF Store
<1>b. /\ req[w] \in Request /\ Login(w) \in Logins /\ req[w].id \in Codes
      /\ Op(w) \in {"register", "withdrawVerify"} /\ Unstored(w)
      /\ req[w].password \in Passwords \cup {NoPassword}
  <2>1. /\ req[w] \in Request /\ Login(w) \in Logins /\ req[w].id \in Codes /\ Route(w)
        /\ req[w].password \in Passwords \cup {NoPassword}
    BY <1>a, WorkerFacts
  <2>2. Op(w) \in {"register", "withdrawVerify"}
    BY <1>a, <2>1 DEF Route
  <2> QED
    BY <1>a, <2>1, <2>2 DEF Unstored, Early
<1>c. /\ new \in AnEntry
      /\ new.code = req[w].id /\ new # NoEntry
  BY <1>b, NothingFacts DEF NoEntry, AnEntry
<1> HIDE DEF new
<1>d. /\ entry'[Login(w)] = new
      /\ \A u \in Logins \ {Login(w)} : entry'[u] = entry[u]
  BY <1>a, <1>b, EntryFacts
<1>e. /\ pc' \in [Workers -> {"idle"} \cup Places] /\ pc'[w] = "mail"
      /\ \A v \in Workers \ {w} : pc'[v] = pc[v]
  BY <1>a DEF Inv, Control, Places
<1>f. Entry(w).code = 0 \/ Entry(w).code \in Codes
  <2>1. Entry(w) \in {NoEntry} \cup AnEntry
    BY <1>b, EntryFacts DEF Entry
  <2> QED
    BY <2>1, CodeFacts
<1>1. TypeOK'
  <2>1. entry' \in [Logins -> {NoEntry} \cup AnEntry]
    BY <1>a, <1>b, <1>c, EntryFacts
  <2>2. gone' \subseteq Codes
    BY <1>a, <1>f, EntryFacts
  <2> QED
    BY <1>a, <2>1, <2>2 DEF Inv, TypeOK, AnEntry
<1>2. Control'
  <2>1. Route(w)'
    BY <1>a, <1>b, <1>e, WorkerFacts DEF Route, Op
  <2> QED
    BY <1>a, <2>1, MoveControl DEF Places
<1>3. Numbers'
  <2>1. req[w].id <= requests
    BY <1>a DEF Inv, Numbers
  <2>2. \A u \in Logins : entry'[u].code <= requests
    BY <1>c, <1>d, <2>1 DEF Inv, Numbers
  <2>3. \A v \in Workers : pc'[v] # "idle" <=> pc[v] # "idle"
    BY <1>a, <1>e
  <2> QED
    BY <1>a, <2>2, <2>3 DEF Inv, Numbers
<1>4. Fresh'
  <2>1. \A u \in Logins : entry[u].code # req[w].id
    BY <1>b DEF Inv, Fresh
  <2>2. \A v \in Workers : Unstored(v)' => v # w /\ Unstored(v) /\ req[v].id # req[w].id
    BY <1>a, <1>e DEF Inv, Unstored, Op, Early, Numbers
  <2>3. \A v \in Workers : Unstored(v)' =>
          req'[v].id \notin confirmed' /\ \A u \in Logins : entry'[u].code # req'[v].id
    BY <1>a, <1>c, <1>d, <2>2 DEF Inv, Fresh
  <2>4. \A u \in Logins : entry'[u].code \notin confirmed'
    BY <1>a, <1>b, <1>c, <1>d DEF Inv, Fresh
  <2>5. \A u, v \in Logins : entry'[u].code = entry'[v].code /\ entry'[u] # NoEntry => u = v
    BY <1>c, <1>d, <2>1 DEF Inv, Fresh
  <2> QED
    BY <2>3, <2>4, <2>5 DEF Fresh
<1>5. Pending'
  <2>1. \A c \in Codes : Kept(c) => Kept(c)'
    <3> SUFFICES ASSUME NEW c \in Codes, Kept(c) PROVE Kept(c)'
      OBVIOUS
    <3>1. CASE c \in gone
      BY <1>a, <3>1 DEF Kept
    <3>2. ASSUME NEW u \in Logins, entry[u].code = c PROVE Kept(c)'
      <4>1. CASE u = Login(w)
        BY <1>a, <3>2, <4>1, NothingFacts DEF Kept, Entry
      <4>2. CASE u # Login(w)
        BY <1>d, <3>2, <4>2 DEF Kept
      <4> QED
        BY <4>1, <4>2
    <3> QED
      BY <3>1, <3>2 DEF Kept
  <2>2. Kept(req[w].id)'
    BY <1>a, <1>b, <1>c, <1>d DEF Kept
  <2>3. \A v \in Workers : pc'[v] = "mail" => Kept(req[v].id)'
    <3> SUFFICES ASSUME NEW v \in Workers, pc'[v] = "mail", v # w PROVE Kept(req[v].id)'
      BY <2>2
    <3>1. pc[v] = "mail"
      BY <1>e
    <3>2. req[v].id \in Codes
      BY <3>1, WorkerFacts
    <3>3. Kept(req[v].id)
      BY <3>1 DEF Inv, Pending
    <3>4. req' = req
      BY <1>a
    <3> QED
      BY <2>1, <3>2, <3>3, <3>4 DEF Kept
  <2>4. \A c \in mailed : Kept(c)'
    BY <2>1, EntryFacts DEF Inv, Pending
  <2> QED
    BY <1>a, <2>3, <2>4 DEF Pending, Kept
<1>6. Holding'
  <2>1. \A v \in Workers \ {w} : Op(v)' = Op(v) /\ pc'[v] = pc[v] /\ conn' = conn
    BY <1>a, <1>e DEF Op
  <2>2. \A v \in Workers : mutex # v
    BY <1>a, NamesAssumption
  <2>3. \A v \in Workers : Op(v) = "verify" => pc[v] \notin {"connect", "crypt", "crypting", "insert"}
    BY <2>2 DEF Inv, Holding
  <2>4. \A v \in Workers : Op(v)' = "verify" => pc'[v] \notin {"connect", "crypt", "crypting", "insert"}
    BY <1>e, <2>1, <2>3
  <2> QED
    BY <2>4 DEF Holding
<1>7. Owners'
  BY <1>a, MoveOwners DEF Places
<1> QED
  BY <1>1, <1>2, <1>3, <1>4, <1>5, <1>6, <1>7 DEF Inv

LEMMA MailStep ==
  ASSUME Inv, NEW w \in Workers, Mail(w)
  PROVE  Inv'
<1>a. /\ pc[w] = "mail" /\ UNCHANGED <<tables, entry, gone, confirmed, mutex, conn, leaked, calls,
                                       mixed, hash, req, requests>>
      /\ \/ mailed' = mailed \cup {req[w].id} /\ pc' = [pc EXCEPT ![w] = "succeed"] /\ failures' = failures
         \/ mailed' = mailed /\ pc' = [pc EXCEPT ![w] = "fail"] /\ failures' = failures + 1
            /\ failures < MaxFailures
  BY DEF Mail
<1>b. PICK l \in {"succeed", "fail"} : pc' = [pc EXCEPT ![w] = l]
  BY <1>a
<1>c. /\ req[w].id \in Codes /\ Op(w) \in {"register", "withdrawVerify"} /\ Route(w) /\ l \in Places
  BY <1>a, WorkerFacts DEF Route, Places
<1>d. /\ pc \in [Workers -> {"idle"} \cup Places] /\ pc'[w] = l
      /\ \A v \in Workers \ {w} : pc'[v] = pc[v]
  BY <1>b DEF Inv, Control
<1>1. TypeOK'
  <2>1. mailed' \subseteq Codes
    BY <1>a, <1>c, EntryFacts
  <2>2. failures' \in 0 .. MaxFailures
    BY <1>a, BoundsAssumption DEF Inv, TypeOK
  <2> QED
    BY <1>a, <2>1, <2>2 DEF Inv, TypeOK, AnEntry
<1>2. Control'
  <2>1. Route(w)'
    BY <1>a, <1>c, <1>d DEF Route, Op
  <2> QED
    BY <1>a, <1>b, <1>c, <2>1, MoveControl
<1>3. Numbers'
  <2>1. \A v \in Workers : pc'[v] # "idle" <=> pc[v] # "idle"
    BY <1>a, <1>d
  <2> QED
    BY <1>a, <2>1 DEF Inv, Numbers
<1>4. Fresh'
  <2>1. \A v \in Workers : Unstored(v)' => Unstored(v)
    BY <1>a, <1>d DEF Unstored, Op, Early
  <2> QED
    BY <1>a, <2>1 DEF Inv, Fresh
<1>5. Pending'
  BY <1>a, <1>d DEF Inv, Pending, Kept
<1>6. Holding'
  BY <1>a, <1>b, <1>c, MoveHolding
<1>7. Owners'
  BY <1>a, <1>b, <1>c, MoveOwners
<1> QED
  BY <1>1, <1>2, <1>3, <1>4, <1>5, <1>6, <1>7 DEF Inv

LEMMA ExpireStep ==
  ASSUME Inv, NEW u \in Logins, Expire(u)
  PROVE  Inv'
<1>a. /\ entry[u] # NoEntry /\ entry' = [entry EXCEPT ![u].old = TRUE]
      /\ UNCHANGED <<tables, mailed, gone, confirmed, mutex, conn, leaked, locals, counts>>
  BY DEF Expire
<1>b. entry[u] \in AnEntry
  BY <1>a, EntryFacts
<1>c. /\ entry' \in [Logins -> {NoEntry} \cup AnEntry]
      /\ \A v \in Logins : /\ entry'[v].code = entry[v].code
                           /\ entry'[v].password = entry[v].password
                           /\ entry'[v] = NoEntry <=> entry[v] = NoEntry
  <2>1. entry'[u] = [entry[u] EXCEPT !.old = TRUE] /\ \A v \in Logins \ {u} : entry'[v] = entry[v]
    BY <1>a, EntryFacts
  <2>2. /\ entry'[u] \in AnEntry
        /\ entry'[u].code = entry[u].code /\ entry'[u].password = entry[u].password
    BY <1>b, <2>1 DEF AnEntry
  <2>3. entry'[u] # NoEntry
    BY <2>2, NothingFacts DEF AnEntry
  <2>4. entry' \in [Logins -> {NoEntry} \cup AnEntry]
    <3>1. entry' = [entry EXCEPT ![u] = [entry[u] EXCEPT !.old = TRUE]]
      BY <1>a
    <3>2. [entry[u] EXCEPT !.old = TRUE] \in AnEntry
      BY <2>1, <2>2
    <3> HIDE DEF Expire
    <3> QED
      BY <3>1, <3>2, EntryFacts
  <2> QED
    BY <1>a, <2>1, <2>2, <2>3, <2>4
<1>1. TypeOK'
  BY <1>a, <1>c DEF Inv, TypeOK, AnEntry
<1>2. Control'
  BY <1>a DEF Inv, Control, Route, Op
<1>3. Numbers'
  BY <1>a, <1>c DEF Inv, Numbers
<1>4. Fresh'
  BY <1>a, <1>c DEF Inv, Fresh, Unstored, Op
<1>5. Pending'
  BY <1>a, <1>c DEF Inv, Pending, Kept
<1>6. Holding'
  <2>1. \A v \in Workers : pc[v] # "idle" => Login(v) \in Logins
    BY WorkerFacts
  <2> QED
    BY <1>a, <1>c, <2>1 DEF Inv, Holding, Entry, Op, Login
<1>7. Owners'
  BY <1>a DEF Inv, Owners, Op, Login
<1> QED
  BY <1>1, <1>2, <1>3, <1>4, <1>5, <1>6, <1>7 DEF Inv

(* Erasing the entry of a code that goes. *)
LEMMA EraseFacts ==
  ASSUME Inv, NEW u \in Logins, Erased(u), entry[u] # NoEntry,
         gone' = gone \cup {entry[u].code}, mailed' = mailed
  PROVE  /\ entry' \in [Logins -> {NoEntry} \cup AnEntry] /\ gone' \subseteq Codes
         /\ entry[u].code \in Codes
         /\ entry'[u] = NoEntry /\ \A v \in Logins \ {u} : entry'[v] = entry[v]
         /\ \A c \in Codes : Kept(c) => Kept(c)'
         /\ \A c \in mailed' : Kept(c)'
<1>1. entry' = [entry EXCEPT ![u] = NoEntry]
  BY DEF Erased
<1>2. entry' \in [Logins -> {NoEntry} \cup AnEntry]
  BY <1>1, EntryFacts
<1>3. entry'[u] = NoEntry /\ \A v \in Logins \ {u} : entry'[v] = entry[v]
  BY <1>1, EntryFacts
<1>4. entry[u].code \in Codes
  BY EntryFacts DEF AnEntry
<1>5. gone' \subseteq Codes
  BY <1>4, EntryFacts
<1>6. \A c \in Codes : Kept(c) => Kept(c)'
  BY <1>3, <1>4 DEF Kept
<1>7. \A c \in mailed' : Kept(c)'
  BY <1>6, EntryFacts DEF Inv, Pending
<1> QED
  BY <1>2, <1>3, <1>4, <1>5, <1>6, <1>7

(* The codes when a worker erases its entry and comes to its answer. *)
LEMMA EraseCodes ==
  ASSUME Inv, NEW w \in Workers, NEW l \in Places, pc[w] # "idle", pc' = [pc EXCEPT ![w] = l],
         l \notin Early, l # "mail", req' = req, requests' = requests, mailed' = mailed,
         Login(w) \in Logins, entry[Login(w)] # NoEntry, Erased(Login(w)),
         gone' = gone \cup {entry[Login(w)].code},
         confirmed' = confirmed \/ confirmed' = confirmed \cup {entry[Login(w)].code}
  PROVE  (Numbers /\ Fresh /\ Pending)'
<1>a. /\ entry[Login(w)].code \in Codes
      /\ entry'[Login(w)] = NoEntry /\ \A v \in Logins \ {Login(w)} : entry'[v] = entry[v]
      /\ entry' \in [Logins -> {NoEntry} \cup AnEntry]
      /\ \A c \in Codes : Kept(c) => Kept(c)'
      /\ \A c \in mailed' : Kept(c)'
  BY EraseFacts
<1>e. /\ pc \in [Workers -> {"idle"} \cup Places] /\ pc'[w] = l
      /\ \A v \in Workers \ {w} : pc'[v] = pc[v]
      /\ \A v \in Workers : pc'[v] # "idle" <=> pc[v] # "idle"
  BY DEF Inv, Control, Places, Early
<1>1. Numbers'
  <2>1. requests \in Nat
    BY BoundsAssumption DEF Inv, TypeOK
  <2>2. \A u \in Logins : entry'[u].code <= requests
    BY <1>a, <2>1, NothingFacts DEF Inv, Numbers
  <2>3. \A c \in confirmed' : c <= requests
    BY DEF Inv, Numbers
  <2> QED
    BY <1>e, <2>2, <2>3 DEF Inv, Numbers
<1>2. Fresh'
  <2>1. \A v \in Workers : Unstored(v)' => Unstored(v) /\ req'[v].id = req[v].id /\ pc[v] # "idle"
    BY <1>e DEF Unstored, Op, Early
  <2>2. \A v \in Workers : Unstored(v)' => req'[v].id \notin confirmed'
    BY <2>1 DEF Inv, Fresh
  <2>3. \A v \in Workers, u \in Logins : Unstored(v)' => entry'[u].code # req'[v].id
    <3>1. \A v \in Workers : Unstored(v)' => req'[v].id # 0
      BY <2>1, WorkerFacts, NothingFacts
    <3> QED
      BY <1>a, <2>1, <3>1, NothingFacts DEF Inv, Fresh
  <2>4. \A u \in Logins : entry'[u].code \notin confirmed'
    <3>1. 0 \notin confirmed'
      BY <1>a, EntryFacts, NothingFacts
    <3>2. \A u \in Logins \ {Login(w)} : entry[u].code \notin confirmed'
      BY DEF Inv, Fresh
    <3> QED
      BY <1>a, <3>1, <3>2, NothingFacts
  <2>5. \A u, v \in Logins : entry'[u].code = entry'[v].code /\ entry'[u] # NoEntry => u = v
    <3>1. \A u \in Logins : entry'[u] # NoEntry => entry'[u].code # 0
      BY <1>a, CodeFacts
    <3> QED
      BY <1>a, <3>1, NothingFacts DEF Inv, Fresh
  <2> QED
    BY <2>2, <2>3, <2>4, <2>5 DEF Fresh
<1>3. Pending'
  <2>1. \A v \in Workers : pc'[v] = "mail" => pc[v] = "mail" /\ req'[v].id = req[v].id
    BY <1>e
  <2>2. \A v \in Workers : pc[v] = "mail" => req[v].id \in Codes /\ Kept(req[v].id)
    BY WorkerFacts DEF Inv, Pending
  <2>3. \A v \in Workers : pc'[v] = "mail" => Kept(req[v].id)'
    BY <1>a, <2>1, <2>2
  <2> QED
    BY <1>a, <2>3 DEF Pending
<1> QED
  BY <1>1, <1>2, <1>3

LEMMA ConfirmStep ==
  ASSUME Inv, NEW w \in Workers, Confirm(w)
  PROVE  Inv'
<1>a. /\ pc[w] = "confirm" /\ mutex = Nobody
      /\ UNCHANGED <<tables, mailed, conn, leaked, calls, mixed, hash, req, counts>>
  BY DEF Confirm
<1>b. /\ Op(w) = "verify" /\ Route(w) /\ Login(w) \in Logins /\ req[w].code \in Codes \cup {0}
  BY <1>a, WorkerFacts DEF Route
<1>v. \A v \in Workers : Op(v) = "verify" => pc[v] \notin {"connect", "crypt", "crypting", "insert"}
  BY <1>a, NamesAssumption DEF Inv, Holding
<1>1. CASE /\ pc' = [pc EXCEPT ![w] = "fail"] /\ UNCHANGED <<entry, gone, mutex, confirmed>>
  <2>1. TypeOK'
    BY <1>a, <1>1 DEF Inv, TypeOK
  <2>2. Control'
    <3>1. Route(w)'
      BY <1>a, <1>b, <1>1 DEF Route, Op, Inv, Control
    <3> QED
      BY <1>a, <1>1, <3>1, MoveControl DEF Places
  <2>3. (Numbers /\ Fresh /\ Pending)'
    BY <1>a, <1>1, MoveCodes DEF Places, Early
  <2>4. Holding'
    BY <1>a, <1>1, MoveHolding DEF Places
  <2>5. Owners'
    BY <1>a, <1>1, MoveOwners DEF Places
  <2> QED
    BY <2>1, <2>2, <2>3, <2>4, <2>5 DEF Inv
<1>2. CASE /\ Entry(w) # NoEntry /\ Entry(w).code = req[w].code /\ Entry(w).password # NoPassword
           /\ mutex' = w /\ pc' = [pc EXCEPT ![w] = "connect"] /\ UNCHANGED <<entry, gone, confirmed>>
  <2>1. TypeOK'
    BY <1>a, <1>2 DEF Inv, TypeOK
  <2>2. Control'
    <3>1. Route(w)'
      BY <1>a, <1>b, <1>2 DEF Route, Op, Inv, Control
    <3> QED
      BY <1>a, <1>2, <3>1, MoveControl DEF Places, Early
  <2>e. /\ pc \in [Workers -> {"idle"} \cup Places] /\ pc'[w] = "connect"
        /\ \A v \in Workers \ {w} : pc'[v] = pc[v]
    BY <1>2 DEF Inv, Control
  <2>3. (Numbers /\ Fresh /\ Pending)'
    <3>1. Numbers'
      <4>1. \A v \in Workers : pc'[v] # "idle" <=> pc[v] # "idle"
        BY <1>a, <2>e
      <4> QED
        BY <1>a, <1>2, <4>1 DEF Inv, Numbers
    <3>2. Fresh'
      <4>1. \A v \in Workers : Unstored(v)' => Unstored(v)
        BY <1>a, <1>b, <2>e DEF Unstored, Op
      <4> QED
        BY <1>a, <1>2, <4>1 DEF Inv, Fresh
    <3>3. Pending'
      BY <1>a, <1>2, <2>e DEF Inv, Pending, Kept
    <3> QED
      BY <3>1, <3>2, <3>3
  <2>4. Holding'
    <3>1. Entry(w)' = Entry(w) /\ req'[w] = req[w] /\ Op(w)' = Op(w)
      BY <1>a, <1>2 DEF Entry, Login, Op
    <3>2. Entry(w).password \in Passwords
      BY <1>b, <1>2, EntryFacts, CodeFacts DEF Entry
    <3>3. \A v \in Workers \ {w} : Op(v)' = "verify" => pc'[v] \notin {"connect", "crypt", "crypting", "insert"}
      BY <1>a, <1>v, <2>e DEF Op
    <3> QED
      BY <1>2, <2>e, <3>1, <3>2, <3>3 DEF Holding
  <2>5. Owners'
    BY <1>a, <1>2, MoveOwners DEF Places, Early
  <2> QED
    BY <2>1, <2>2, <2>3, <2>4, <2>5 DEF Inv
<1>3. ASSUME NEW l \in {"succeed", "fail"}, pc' = [pc EXCEPT ![w] = l], mutex' = mutex,
             Entry(w) # NoEntry, Erased(Login(w)), gone' = gone \cup {Entry(w).code},
             confirmed' = confirmed \/ confirmed' = confirmed \cup {Entry(w).code}
      PROVE  Inv'
  <2>a. /\ entry' \in [Logins -> {NoEntry} \cup AnEntry] /\ gone' \subseteq Codes
        /\ Entry(w).code \in Codes
        /\ entry'[Login(w)] = NoEntry /\ \A v \in Logins \ {Login(w)} : entry'[v] = entry[v]
        /\ \A c \in Codes : Kept(c) => Kept(c)'
        /\ \A c \in mailed' : Kept(c)'
    BY <1>a, <1>b, <1>3, EraseFacts DEF Entry
  <2>e. /\ pc \in [Workers -> {"idle"} \cup Places] /\ pc'[w] = l /\ l \in Places
        /\ \A v \in Workers \ {w} : pc'[v] = pc[v]
    BY <1>3 DEF Inv, Control, Places
  <2>1. TypeOK'
    <3>1. confirmed' \subseteq Codes
      BY <1>3, <2>a, EntryFacts
    <3> QED
      BY <1>a, <1>3, <2>a, <3>1 DEF Inv, TypeOK, AnEntry
  <2>2. Control'
    <3>1. Route(w)'
      BY <1>a, <1>b, <2>e DEF Route, Op
    <3> QED
      BY <1>a, <1>3, <2>e, <3>1, MoveControl
  <2>3. (Numbers /\ Fresh /\ Pending)'
    <3>1. l \notin Early /\ l # "mail"
      BY DEF Early
    <3> QED
      BY <1>a, <1>b, <1>3, <2>e, <3>1, EraseCodes DEF Entry
  <2>6. Holding'
    <3>1. \A v \in Workers : Op(v)' = "verify" => pc'[v] \notin {"connect", "crypt", "crypting", "insert"}
      BY <1>a, <1>3, <1>v, <2>e DEF Op
    <3> QED
      BY <3>1 DEF Holding
  <2>7. Owners'
    BY <1>a, <1>b, <1>3, <2>e, MoveOwners
  <2> QED
    BY <2>1, <2>2, <2>3, <2>6, <2>7 DEF Inv
<1> QED
  BY <1>1, <1>2, <1>3 DEF Confirm

LEMMA ConnectStep ==
  ASSUME Inv, NEW w \in Workers, Connect(w)
  PROVE  Inv'
<1>a. /\ pc[w] = "connect" /\ Cardinality(conn) + leaked < PoolSize
      /\ UNCHANGED <<tables, codes, mutex, leaked, calls, mixed, hash, req, requests>>
  BY DEF Connect
<1>b. /\ Op(w) \in AllOps /\ Op(w) # "register" /\ Route(w)
  BY <1>a, WorkerFacts DEF Route
<1>c. AfterConnect(Op(w)) \in {"crypt", "insert", "delete", "select"}
  BY <1>b, RouteFacts DEF AllOps, CustomerOps
<1>1. PICK l \in {"crypt", "insert", "delete", "select", "fail"} :
        /\ pc' = [pc EXCEPT ![w] = l]
        /\ \/ l = AfterConnect(Op(w)) /\ conn' = conn \cup {w} /\ failures' = failures
           \/ l = "fail" /\ conn' = conn /\ failures < MaxFailures /\ failures' = failures + 1
  BY <1>c DEF Connect
<1>e. /\ pc \in [Workers -> {"idle"} \cup Places] /\ pc'[w] = l /\ l \in Places
  BY <1>1 DEF Inv, Control, Places, Early
<1>2. TypeOK'
  <2>1. Cardinality(conn') + leaked' <= PoolSize
    <3>1. IsFiniteSet(conn) /\ Cardinality(conn) \in Nat
      BY WorkersAssumption, FS_Subset, FS_CardinalityType DEF Inv, TypeOK
    <3>2. Cardinality(conn \cup {w}) = Cardinality(conn) \/ Cardinality(conn \cup {w}) = Cardinality(conn) + 1
      BY <3>1, FS_AddElement
    <3>3. leaked \in Nat /\ PoolSize \in Nat /\ leaked' = leaked
      BY <1>a, BoundsAssumption DEF Inv, TypeOK
    <3>4. Cardinality(conn') = Cardinality(conn) \/ Cardinality(conn') = Cardinality(conn) + 1
      BY <1>1, <3>2
    <3> QED
      BY <1>a, <3>1, <3>3, <3>4
  <2>2. failures' \in 0 .. MaxFailures
    BY <1>1, BoundsAssumption DEF Inv, TypeOK
  <2>3. conn' \subseteq Workers
    BY <1>1 DEF Inv, TypeOK
  <2> QED
    BY <1>a, <2>1, <2>2, <2>3 DEF Inv, TypeOK
<1>3. Control'
  <2>1. Op(w) \in {"verify", "withdraw"} \cup Registers \cup LoginOps \cup {"withdrawVerify", "idCheck"}
    BY <1>b DEF AllOps, CustomerOps
  <2>2. /\ l = "crypt" => Op(w) = "verify"
        /\ l = "insert" => Op(w) \in Registers
        /\ l = "delete" => Op(w) = "withdraw"
        /\ l = "select" => Op(w) \in LoginOps \cup {"withdrawVerify", "idCheck"}
    <3>1. CASE l = "fail"
      BY <3>1
    <3>2. CASE l # "fail"
      BY <1>1, <2>1, <3>2, RouteFacts
    <3> QED
      BY <3>1, <3>2
  <2>3. Op(w)' = Op(w) /\ req'[w] = req[w]
    BY <1>a DEF Op
  <2>4. Route(w)'
    BY <1>b, <1>e, <2>2, <2>3 DEF Route
  <2> QED
    BY <1>a, <1>1, <1>e, <2>4, MoveControl
<1>4. (Numbers /\ Fresh /\ Pending)'
  BY <1>a, <1>1, <1>e, MoveCodes DEF Early
<1>5. Holding'
  BY <1>a, <1>1, <1>e, MoveHolding
<1>6. Owners'
  BY <1>a, <1>1, <1>e, MoveOwners
<1> QED
  BY <1>2, <1>3, <1>4, <1>5, <1>6 DEF Inv

LEMMA SelectStep ==
  ASSUME Inv, NEW w \in Workers, Select(w)
  PROVE  Inv'
<1>a. /\ pc[w] = "select"
      /\ UNCHANGED <<tables, codes, mutex, conn, leaked, calls, mixed, req, requests>>
  BY DEF Select
<1>b. /\ Op(w) \in LoginOps \cup {"withdrawVerify", "idCheck"} /\ Route(w) /\ Login(w) \in Logins
  BY <1>a, WorkerFacts DEF Route
<1>1. PICK l \in {"crypt", "succeed", "fail"} :
        /\ pc' = [pc EXCEPT ![w] = l]
        /\ l = "crypt" => Op(w) # "idCheck"
        /\ hash' = hash \/ hash' = [hash EXCEPT ![w] = member[Login(w)].hash]
        /\ failures' = failures \/ (failures < MaxFailures /\ failures' = failures + 1)
  BY DEF Select, WithRow, WithoutRow
<1>e. /\ pc \in [Workers -> {"idle"} \cup Places] /\ pc'[w] = l /\ l \in Places
  BY <1>1 DEF Inv, Control, Places, Early
<1>2. TypeOK'
  <2>1. member[Login(w)].hash \in Hash \cup {Garbled}
    <3>1. member[Login(w)] \in {NoRow} \cup [role : {"customer", "owner", "rider"},
                                             hash : Hash \cup {Garbled}]
      BY <1>b DEF Inv, TypeOK
    <3> QED
      BY <3>1 DEF NoRow
  <2>2. hash' \in [Workers -> Hash \cup {Garbled}]
    BY <1>1, <2>1 DEF Inv, TypeOK
  <2>3. failures' \in 0 .. MaxFailures
    BY <1>1, BoundsAssumption DEF Inv, TypeOK
  <2> QED
    BY <1>a, <2>2, <2>3 DEF Inv, TypeOK
<1>3. Control'
  <2>1. Route(w)'
    BY <1>a, <1>b, <1>1, <1>e DEF Route, Op, LoginOps
  <2> QED
    BY <1>a, <1>1, <1>e, <2>1, MoveControl
<1>4. (Numbers /\ Fresh /\ Pending)'
  BY <1>a, <1>1, <1>e, MoveCodes DEF Early
<1>5. Holding'
  BY <1>a, <1>b, <1>1, <1>e, MoveHolding DEF LoginOps
<1>6. Owners'
  BY <1>a, <1>b, <1>1, <1>e, MoveOwners DEF LoginOps
<1> QED
  BY <1>2, <1>3, <1>4, <1>5, <1>6 DEF Inv

LEMMA StartCryptStep ==
  ASSUME Inv, NEW w \in Workers, StartCrypt(w)
  PROVE  Inv'
<1>a. /\ pc[w] = "crypt" /\ calls' = [calls EXCEPT ![w] = Computing(w)]
      /\ mixed' = [v \in Workers |-> CASE v = w -> {calls[x] : x \in InCrypt}
                                       [] v \in InCrypt -> mixed[v] \cup {Computing(w)}
                                       [] OTHER -> mixed[v]]
      /\ pc' = [pc EXCEPT ![w] = "crypting"]
      /\ UNCHANGED <<tables, codes, mutex, conn, leaked, hash, req, counts>>
  BY DEF StartCrypt
<1>b. /\ Op(w) \notin {"register", "withdraw", "idCheck"} /\ Route(w) /\ Login(w) \in Logins
      /\ req[w].id \in Codes
      /\ Op(w) # "verify" => req[w].password \in Passwords
  BY <1>a, WorkerFacts DEF Route, NoSecrets
<1>c. Computing(w) \in Hash \cup {Garbled}
  <2>1. hash[w] \in Hash \cup {Garbled}
    BY DEF Inv, TypeOK
  <2>2. PICK p \in Passwords :
          p = IF Op(w) = "verify" THEN Entry(w).password ELSE req[w].password
    <3>1. Op(w) = "verify" => Entry(w).password \in Passwords
      BY <1>a DEF Inv, Holding
    <3>2. CASE Op(w) = "verify"
      BY <3>1, <3>2
    <3>3. CASE Op(w) # "verify"
      BY <1>b, <3>3
    <3> QED
      BY <3>2, <3>3
  <2>3. CASE Compares(Op(w)) /\ hash[w] = Garbled
    BY <2>3 DEF Computing
  <2>4. CASE Compares(Op(w)) /\ hash[w] # Garbled
    <3>1. Computing(w) = [salt |-> hash[w].salt, password |-> p]
      BY <2>2, <2>4 DEF Computing
    <3> QED
      BY <2>1, <2>4, <3>1 DEF Hash
  <2>5. CASE ~Compares(Op(w))
    <3>1. Computing(w) = [salt |-> req[w].id, password |-> p]
      BY <2>2, <2>5 DEF Computing
    <3> QED
      BY <1>b, <3>1 DEF Hash
  <2> QED
    BY <2>3, <2>4, <2>5
<1>1. TypeOK'
  <2>1. calls' \in [Workers -> Hash \cup {Garbled}]
    BY <1>a, <1>c DEF Inv, TypeOK
  <2>2. mixed' \in [Workers -> SUBSET (Hash \cup {Garbled})]
    <3> DEFINE m(v) == CASE v = w -> {calls[x] : x \in InCrypt}
                         [] v \in InCrypt -> mixed[v] \cup {Computing(w)}
                         [] OTHER -> mixed[v]
    <3>1. /\ \A v \in Workers : mixed[v] \subseteq Hash \cup {Garbled}
          /\ {calls[x] : x \in InCrypt} \subseteq Hash \cup {Garbled}
      BY DEF Inv, TypeOK, InCrypt
    <3>2. \A v \in Workers : m(v) \in {{calls[x] : x \in InCrypt}, mixed[v], mixed[v] \cup {Computing(w)}}
      <4> TAKE v \in Workers
      <4>1. CASE v = w
        BY <4>1
      <4>2. CASE v # w /\ v \in InCrypt
        BY <4>2
      <4>3. CASE v # w /\ v \notin InCrypt
        BY <4>3
      <4> QED
        BY <4>1, <4>2, <4>3
    <3>3. mixed' = [v \in Workers |-> m(v)]
      BY <1>a
    <3> HIDE DEF m
    <3>4. \A v \in Workers : m(v) \in SUBSET (Hash \cup {Garbled})
      BY <1>c, <3>1, <3>2
    <3> QED
      BY <3>3, <3>4
  <2> QED
    BY <1>a, <2>1, <2>2 DEF Inv, TypeOK
<1>2. Control'
  <2>1. Route(w)'
    BY <1>a, <1>b DEF Route, Op, Inv, Control
  <2> QED
    BY <1>a, <2>1, MoveControl DEF Places, Early
<1>3. (Numbers /\ Fresh /\ Pending)'
  BY <1>a, MoveCodes DEF Places, Early
<1>4. Holding'
  <2>1. Op(w) = "verify" => w \in conn
    BY <1>a DEF Inv, Holding
  <2> QED
    BY <1>a, <2>1, MoveHolding DEF Places, Early
<1>5. Owners'
  BY <1>a, MoveOwners DEF Places, Early
<1> QED
  BY <1>1, <1>2, <1>3, <1>4, <1>5 DEF Inv

LEMMA EndCryptStep ==
  ASSUME Inv, NEW w \in Workers, EndCrypt(w)
  PROVE  Inv'
<1>a. /\ pc[w] = "crypting" /\ calls' = [calls EXCEPT ![w] = Garbled]
      /\ mixed' = [mixed EXCEPT ![w] = {}]
      /\ UNCHANGED <<tables, codes, mutex, req, requests>>
  BY DEF EndCrypt
<1>b. /\ Op(w) \in {"verify", "withdrawVerify"} \cup Registers \cup LoginOps /\ Route(w)
      /\ Op(w) = "verify" => w \in conn
  <2>1. Op(w) \in AllOps /\ Op(w) \notin {"register", "withdraw", "idCheck"} /\ Route(w)
    BY <1>a, WorkerFacts DEF Route
  <2> QED
    BY <1>a, <2>1 DEF AllOps, CustomerOps, Inv, Holding
<1>1. PICK l \in {"insert", "connect", "store", "succeed", "fail"} :
        /\ pc' = [pc EXCEPT ![w] = l]
        /\ l = "insert" => Op(w) = "verify"
        /\ l = "connect" => Op(w) \in Registers \/ ~(Op(w) = "verify" \/ Compares(Op(w)))
        /\ l = "store" => Op(w) = "withdrawVerify"
        /\ l = "succeed" => Compares(Op(w))
        /\ hash' = hash \/ \E h \in Results(w) : hash' = [hash EXCEPT ![w] = h]
        /\ failures' = failures \/ (failures < MaxFailures /\ failures' = failures + 1)
        /\ \/ conn' = conn /\ leaked' = leaked
           \/ l = "fail" /\ Op(w) = "verify" /\ conn' = conn \ {w} /\ leaked' = leaked + 1
  BY DEF EndCrypt
<1>e. /\ pc \in [Workers -> {"idle"} \cup Places] /\ pc'[w] = l /\ l \in Places
  BY <1>1 DEF Inv, Control, Places, Early
<1>2. TypeOK'
  <2>1. Results(w) \subseteq Hash \cup {Garbled}
    <3>1. calls[w] \in Hash \cup {Garbled} /\ mixed[w] \subseteq Hash \cup {Garbled}
      BY DEF Inv, TypeOK
    <3> QED
      BY <3>1 DEF Results
  <2>2. hash' \in [Workers -> Hash \cup {Garbled}]
    BY <1>1, <2>1 DEF Inv, TypeOK
  <2>3. failures' \in 0 .. MaxFailures
    BY <1>1, BoundsAssumption DEF Inv, TypeOK
  <2>4. /\ calls' \in [Workers -> Hash \cup {Garbled}]
        /\ mixed' \in [Workers -> SUBSET (Hash \cup {Garbled})]
    BY <1>a DEF Inv, TypeOK
  <2>5. conn' \subseteq Workers /\ leaked' \in Nat /\ Cardinality(conn') + leaked' <= PoolSize
    <3>1. IsFiniteSet(conn) /\ Cardinality(conn) \in Nat
      BY WorkersAssumption, FS_Subset, FS_CardinalityType DEF Inv, TypeOK
    <3>2. w \in conn => Cardinality(conn \ {w}) = Cardinality(conn) - 1
      BY <3>1, FS_RemoveElement
    <3>3. conn \subseteq Workers /\ leaked \in Nat /\ PoolSize \in Nat /\ Cardinality(conn) + leaked <= PoolSize
      BY BoundsAssumption DEF Inv, TypeOK
    <3>4. CASE conn' = conn /\ leaked' = leaked
      BY <3>3, <3>4
    <3>5. CASE Op(w) = "verify" /\ conn' = conn \ {w} /\ leaked' = leaked + 1
      <4>1. Cardinality(conn') = Cardinality(conn) - 1
        BY <1>b, <3>2, <3>5
      <4>2. Cardinality(conn') + leaked' <= PoolSize
        BY <3>1, <3>3, <3>5, <4>1
      <4> QED
        BY <3>3, <3>5, <4>2
    <3> QED
      BY <1>1, <3>4, <3>5
  <2> QED
    BY <1>a, <2>2, <2>3, <2>4, <2>5 DEF Inv, TypeOK
<1>3. Control'
  <2>1. Route(w)'
    BY <1>a, <1>b, <1>1, <1>e DEF Route, Op, LoginOps, Compares, Registers
  <2> QED
    BY <1>a, <1>1, <1>e, <2>1, MoveControl
<1>4. (Numbers /\ Fresh /\ Pending)'
  BY <1>a, <1>1, <1>e, MoveCodes DEF Early
<1>5. Holding'
  <2>1. conn \ {w} \subseteq conn'
    BY <1>1
  <2>2. Op(w) = "verify" /\ l \in {"connect", "crypt", "crypting", "insert"} => l = "insert" /\ w \in conn'
    BY <1>b, <1>1 DEF Registers
  <2> QED
    BY <1>a, <1>1, <1>e, <2>1, <2>2, MoveHolding
<1>6. Owners'
  BY <1>a, <1>b, <1>1, <1>e, MoveOwners DEF Registers, Compares, LoginOps
<1> QED
  BY <1>2, <1>3, <1>4, <1>5, <1>6 DEF Inv

(* A row that is written or deleted takes no row from an owner.               *)
LEMMA RowFacts ==
  ASSUME Inv, NEW w \in Workers, NEW l \in Places, pc' = [pc EXCEPT ![w] = l], req' = req,
         NEW row, NEW u \in Logins, member[u].role # "owner",
         member' = [member EXCEPT ![u] = row], store \subseteq store',
         Op(w) = "ownerRegister" /\ l \in {"insertStore", "succeed"} =>
            u = Login(w) /\ row.role = "owner" /\ (l = "succeed" => Login(w) \in store')
  PROVE  Owners'
<1>1. pc \in [Workers -> {"idle"} \cup Places] /\ pc'[w] = l
      /\ \A v \in Workers \ {w} : pc'[v] = pc[v]
  BY DEF Inv, Control
<1>2. member'[u] = row /\ \A x \in Logins \ {u} : member'[x] = member[x]
  BY DEF Inv, TypeOK
<1> SUFFICES ASSUME NEW v \in Workers, Op(v) = "ownerRegister", pc'[v] \in {"insertStore", "succeed"}
             PROVE  /\ member'[Login(v)].role = "owner"
                    /\ pc'[v] = "succeed" => Login(v) \in store'
  BY DEF Owners, Op, Login
<1>3. CASE v = w
  BY <1>1, <1>2, <1>3
<1>4. CASE v # w
  <2>1. /\ pc[v] \in {"insertStore", "succeed"} /\ member[Login(v)].role = "owner"
        /\ pc'[v] = "succeed" => Login(v) \in store
    BY <1>1, <1>4 DEF Inv, Owners
  <2>2. Login(v) \in Logins
    BY <2>1, WorkerFacts
  <2> QED
    BY <1>2, <2>1, <2>2
<1> QED
  BY <1>3, <1>4

LEMMA InsertStep ==
  ASSUME Inv, NEW w \in Workers, Insert(w)
  PROVE  Inv'
<1> DEFINE row == [role |-> Role(Op(w)), hash |-> hash[w]]
           inserted == member' = [member EXCEPT ![Login(w)] = row]
           free == member[Login(w)] = NoRow
<1>a. /\ pc[w] = "insert"
      /\ UNCHANGED <<store, mailed, mutex, leaked, calls, mixed, hash, req, requests>>
  BY DEF Insert
<1>b. /\ Op(w) \in {"verify"} \cup Registers /\ Route(w) /\ Login(w) \in Logins
      /\ req[w].code \in Codes \cup {0}
  BY <1>a, WorkerFacts DEF Route
<1>c. /\ row \in [role : {"customer", "owner", "rider"}, hash : Hash \cup {Garbled}]
      /\ Op(w) = "ownerRegister" => row.role = "owner"
  <2>1. Op(w) \in AllOps
    BY <1>a, WorkerFacts
  <2>2. Role(Op(w)) \in {"customer", "owner", "rider"} /\ hash[w] \in Hash \cup {Garbled}
    BY <2>1, NothingFacts DEF Inv, TypeOK
  <2>3. Role("ownerRegister") = "owner"
    BY DEF Role
  <2> QED
    BY <2>2, <2>3
<1>d. PICK l \in {"insertStore", "succeed", "fail"} :
        /\ pc' = [pc EXCEPT ![w] = l]
        /\ l = "insertStore" => free /\ inserted /\ Op(w) = "ownerRegister"
        /\ l = "succeed" => Op(w) # "ownerRegister"
        /\ member' = member \/ (free /\ inserted)
        /\ conn' = conn \/ conn' = conn \ {w}
        /\ failures' = failures \/ (failures < MaxFailures /\ failures' = failures + 1)
        /\ \/ UNCHANGED <<entry, gone, confirmed>>
           \/ /\ Op(w) = "verify" /\ l = "succeed" /\ Erased(Login(w))
              /\ gone' = gone \cup {req[w].code} /\ confirmed' = confirmed \cup {req[w].code}
  BY DEF Insert
<1> HIDE DEF row
<1>e. /\ pc \in [Workers -> {"idle"} \cup Places] /\ pc'[w] = l /\ l \in Places
      /\ \A v \in Workers \ {w} : pc'[v] = pc[v]
  BY <1>d DEF Inv, Control, Places, Early
<1>v. Op(w) = "verify" => /\ mutex = w /\ Entry(w) # NoEntry /\ Entry(w).code = req[w].code
  BY <1>a DEF Inv, Holding
<1>o. /\ UNCHANGED <<entry, gone, confirmed>>
      \/ /\ Erased(Login(w)) /\ entry[Login(w)] # NoEntry /\ Op(w) = "verify" /\ l = "succeed"
         /\ gone' = gone \cup {entry[Login(w)].code}
         /\ confirmed' = confirmed \cup {entry[Login(w)].code}
  BY <1>d, <1>v DEF Entry
<1>1. TypeOK'
  <2>1. member' \in [Logins -> {NoRow} \cup [role : {"customer", "owner", "rider"},
                                             hash : Hash \cup {Garbled}]]
    <3>1. member \in [Logins -> {NoRow} \cup [role : {"customer", "owner", "rider"},
                                             hash : Hash \cup {Garbled}]]
      BY DEF Inv, TypeOK
    <3> QED
      BY <1>c, <1>d, <3>1
  <2>2. entry' \in [Logins -> {NoEntry} \cup AnEntry] /\ gone' \subseteq Codes /\ confirmed' \subseteq Codes
    <3>1. CASE UNCHANGED <<entry, gone, confirmed>>
      BY <3>1, EntryFacts
    <3>2. CASE ~UNCHANGED <<entry, gone, confirmed>>
      <4>1. /\ entry' \in [Logins -> {NoEntry} \cup AnEntry] /\ gone' \subseteq Codes
            /\ entry[Login(w)].code \in Codes
        BY <1>a, <1>b, <1>o, <3>2, EraseFacts
      <4> QED
        BY <1>o, <3>2, <4>1, EntryFacts
    <3> QED
      BY <3>1, <3>2
  <2>3. conn' \subseteq Workers /\ Cardinality(conn') + leaked' <= PoolSize
    <3>1. IsFiniteSet(conn) /\ Cardinality(conn) \in Nat
      BY WorkersAssumption, FS_Subset, FS_CardinalityType DEF Inv, TypeOK
    <3>2. Cardinality(conn \ {w}) = Cardinality(conn) \/ Cardinality(conn \ {w}) = Cardinality(conn) - 1
      BY <3>1, FS_RemoveElement
    <3>3. /\ leaked \in Nat /\ PoolSize \in Nat /\ leaked' = leaked /\ conn \subseteq Workers
          /\ Cardinality(conn) + leaked <= PoolSize
      BY <1>a, BoundsAssumption DEF Inv, TypeOK
    <3>4. Cardinality(conn') = Cardinality(conn) \/ Cardinality(conn') = Cardinality(conn) - 1
      BY <1>d, <3>2
    <3>5. Cardinality(conn') + leaked' <= PoolSize
      BY <3>1, <3>3, <3>4
    <3> QED
      BY <1>d, <3>3, <3>5
  <2>4. failures' \in 0 .. MaxFailures
    BY <1>d, BoundsAssumption DEF Inv, TypeOK
  <2> QED
    BY <1>a, <2>1, <2>2, <2>3, <2>4 DEF Inv, TypeOK, AnEntry
<1>2. Control'
  <2>1. Route(w)'
    BY <1>a, <1>b, <1>d, <1>e DEF Route, Op
  <2> QED
    BY <1>a, <1>d, <1>e, <2>1, MoveControl
<1>3. (Numbers /\ Fresh /\ Pending)'
  <2>1. CASE UNCHANGED <<entry, gone, confirmed>>
    BY <1>a, <1>d, <1>e, <2>1, MoveCodes DEF Early
  <2>2. CASE ~UNCHANGED <<entry, gone, confirmed>>
    <3>a. /\ Erased(Login(w)) /\ entry[Login(w)] # NoEntry
          /\ gone' = gone \cup {entry[Login(w)].code}
          /\ confirmed' = confirmed \cup {entry[Login(w)].code}
      BY <1>o, <2>2
    <3>1. l \notin Early /\ l # "mail"
      BY DEF Early
    <3> QED
      BY <1>a, <1>b, <1>d, <1>e, <3>a, <3>1, EraseCodes
  <2> QED
    BY <2>1, <2>2
<1>4. Holding'
  <2>1. CASE UNCHANGED <<entry, gone, confirmed>>
    BY <1>a, <1>d, <1>e, <2>1, MoveHolding
  <2>2. CASE ~UNCHANGED <<entry, gone, confirmed>>
    <3>1. Op(w) = "verify" /\ mutex = w /\ pc'[w] = "succeed"
      BY <1>o, <1>v, <1>e, <2>2
    <3>2. \A v \in Workers \ {w} : Op(v) = "verify" => pc[v] \notin {"connect", "crypt", "crypting", "insert"}
      BY <3>1 DEF Inv, Holding
    <3>3. \A v \in Workers : Op(v)' = "verify" => pc'[v] \notin {"connect", "crypt", "crypting", "insert"}
      BY <1>a, <1>e, <3>1, <3>2 DEF Op
    <3> QED
      BY <3>3 DEF Holding
  <2> QED
    BY <2>1, <2>2
<1>5. Owners'
  <2>1. CASE member' = member /\ l # "insertStore"
    BY <1>a, <1>d, <1>e, <2>1, MoveOwners
  <2>2. CASE free /\ inserted
    <3>1. member[Login(w)].role # "owner"
      BY <2>2, NothingFacts
    <3> QED
      BY <1>a, <1>b, <1>c, <1>d, <1>e, <2>2, <3>1, RowFacts
  <2> QED
    BY <1>d, <2>1, <2>2
<1> QED
  BY <1>1, <1>2, <1>3, <1>4, <1>5 DEF Inv

LEMMA InsertStoreStep ==
  ASSUME Inv, NEW w \in Workers, InsertStore(w)
  PROVE  Inv'
<1>a. /\ pc[w] = "insertStore"
      /\ UNCHANGED <<member, codes, mutex, conn, leaked, calls, mixed, hash, req, requests>>
  BY DEF InsertStore
<1>b. Op(w) = "ownerRegister" /\ Route(w) /\ Login(w) \in Logins
  BY <1>a, WorkerFacts DEF Route
<1>1. PICK l \in {"succeed", "fail"} :
        /\ pc' = [pc EXCEPT ![w] = l]
        /\ l = "succeed" => store' = store \cup {Login(w)}
        /\ store' = store \/ store' = store \cup {Login(w)}
        /\ failures' = failures \/ (failures < MaxFailures /\ failures' = failures + 1)
  BY DEF InsertStore
<1>e. /\ pc \in [Workers -> {"idle"} \cup Places] /\ pc'[w] = l /\ l \in Places
      /\ \A v \in Workers \ {w} : pc'[v] = pc[v]
  BY <1>1 DEF Inv, Control, Places
<1>2. TypeOK'
  <2>1. failures' \in 0 .. MaxFailures /\ store' \subseteq Logins
    BY <1>b, <1>1, BoundsAssumption DEF Inv, TypeOK
  <2> QED
    BY <1>a, <2>1 DEF Inv, TypeOK
<1>3. Control'
  <2>1. Route(w)'
    BY <1>a, <1>b, <1>1, <1>e DEF Route, Op
  <2> QED
    BY <1>a, <1>1, <1>e, <2>1, MoveControl
<1>4. (Numbers /\ Fresh /\ Pending)'
  BY <1>a, <1>1, <1>e, MoveCodes DEF Early
<1>5. Holding'
  BY <1>a, <1>1, <1>e, MoveHolding
<1>6. Owners'
  BY <1>a, <1>b, <1>1, <1>e DEF Inv, Owners, Op, Login
<1> QED
  BY <1>2, <1>3, <1>4, <1>5, <1>6 DEF Inv

LEMMA DeleteStep ==
  ASSUME Inv, NEW w \in Workers, Delete(w)
  PROVE  Inv'
<1>a. /\ pc[w] = "delete"
      /\ UNCHANGED <<store, codes, mutex, conn, leaked, calls, mixed, hash, req, requests>>
  BY DEF Delete
<1>b. Op(w) = "withdraw" /\ Route(w) /\ Login(w) \in Logins
  BY <1>a, WorkerFacts DEF Route
<1>1. PICK l \in {"succeed", "fail"} :
        /\ pc' = [pc EXCEPT ![w] = l]
        /\ member' = member \/ (Found(w) /\ member' = [member EXCEPT ![Login(w)] = NoRow])
        /\ failures' = failures \/ (failures < MaxFailures /\ failures' = failures + 1)
  BY DEF Delete
<1>e. /\ pc \in [Workers -> {"idle"} \cup Places] /\ pc'[w] = l /\ l \in Places
  BY <1>1 DEF Inv, Control, Places
<1>2. TypeOK'
  <2>1. failures' \in 0 .. MaxFailures
    BY <1>1, BoundsAssumption DEF Inv, TypeOK
  <2>2. member' \in [Logins -> {NoRow} \cup [role : {"customer", "owner", "rider"},
                                             hash : Hash \cup {Garbled}]]
    <3>1. member \in [Logins -> {NoRow} \cup [role : {"customer", "owner", "rider"},
                                             hash : Hash \cup {Garbled}]]
      BY DEF Inv, TypeOK
    <3> QED
      BY <1>1, <3>1
  <2> QED
    BY <1>a, <2>1, <2>2 DEF Inv, TypeOK
<1>3. Control'
  <2>1. Route(w)'
    BY <1>a, <1>b, <1>1, <1>e DEF Route, Op
  <2> QED
    BY <1>a, <1>1, <1>e, <2>1, MoveControl
<1>4. (Numbers /\ Fresh /\ Pending)'
  BY <1>a, <1>1, <1>e, MoveCodes DEF Early
<1>5. Holding'
  BY <1>a, <1>1, <1>e, MoveHolding
<1>6. Owners'
  <2>1. CASE member' = member
    BY <1>a, <1>b, <1>1, <1>e, <2>1, MoveOwners
  <2>2. CASE Found(w) /\ member' = [member EXCEPT ![Login(w)] = NoRow]
    <3>1. member[Login(w)].role # "owner"
      <4>1. Role("withdraw") = "customer"
        BY DEF Role
      <4> QED
        BY <1>b, <2>2, <4>1 DEF Found
    <3> QED
      BY <1>a, <1>b, <1>1, <1>e, <2>2, <3>1, RowFacts
  <2> QED
    BY <1>1, <2>1, <2>2
<1> QED
  BY <1>2, <1>3, <1>4, <1>5, <1>6 DEF Inv

(* The invariant holds at the start and every step keeps it. *)
LEMMA InvAlways == Spec => []Inv
<1>1. Init => Inv
  <2> SUFFICES ASSUME Init PROVE Inv
    OBVIOUS
  <2>1. member \in [Logins -> {NoRow} \cup [role : {"customer", "owner", "rider"},
                                            hash : Hash \cup {Garbled}]]
    <3>1. CASE member \in [Logins -> {NoRow}]
      BY <3>1
    <3>2. ASSUME NEW r \in {"customer", "owner"}, NEW p \in Passwords,
                 member = [u \in Logins |-> [role |-> r, hash |-> [salt |-> u, password |-> p]]]
          PROVE  member \in [Logins -> {NoRow} \cup [role : {"customer", "owner", "rider"},
                                                     hash : Hash \cup {Garbled}]]
      BY <3>2 DEF Hash
    <3> QED
      BY <3>1, <3>2 DEF Init
  <2>2. TypeOK
    <3>1. Cardinality(conn) + leaked <= PoolSize
      BY FS_EmptySet, BoundsAssumption DEF Init
    <3> QED
      BY <2>1, <3>1, BoundsAssumption DEF Init, TypeOK
  <2>3. Control
    BY DEF Init, Control
  <2>4. Numbers
    BY NothingFacts DEF Init, Numbers
  <2>5. Fresh
    BY DEF Init, Fresh, Unstored, Early
  <2>6. Pending /\ Holding /\ Owners
    BY DEF Init, Pending, Holding, Owners
  <2> QED
    BY <2>2, <2>3, <2>4, <2>5, <2>6 DEF Inv
<1>2. Inv /\ [Next]_vars => Inv'
  <2> SUFFICES ASSUME Inv, [Next]_vars PROVE Inv'
    OBVIOUS
  <2>1. CASE UNCHANGED vars
    <3> USE <2>1 DEF vars
    <3>1. TypeOK'
      BY DEF Inv, TypeOK
    <3>2. (Control /\ Numbers /\ Fresh)'
      BY DEF Inv, Control, Route, Op, Numbers, Fresh, Unstored
    <3>3. (Pending /\ Holding /\ Owners)'
      BY DEF Inv, Pending, Kept, Holding, Owners, Op, Entry, Login
    <3> QED
      BY <3>1, <3>2, <3>3 DEF Inv
  <2>2. ASSUME NEW w \in Workers, Step(w) PROVE Inv'
    BY <2>2, StoreStep, MailStep, ConfirmStep, ConnectStep, SelectStep, StartCryptStep,
       EndCryptStep, InsertStep, InsertStoreStep, DeleteStep, ReturnStep DEF Step
  <2> QED
    BY <2>1, <2>2, BeginStep, ExpireStep DEF Next
<1> QED
  BY <1>1, <1>2, PTL DEF Spec

(* The variables keep their types; no more connections are out, or lost, than  *)
(* the pool has.                                                              *)
THEOREM AccountsTyped == Spec => []TypeOK
<1>1. Inv => TypeOK
  BY DEF Inv
<1> QED
  BY <1>1, InvAlways, PTL

(* A mailed code can be confirmed until it is replaced, expires or was used:  *)
(* processRegister stores before it mails, and only these three erase.        *)
THEOREM AccountsMailedCodeWorks == Spec => []MailedCodeWorks
<1>1. Inv => MailedCodeWorks
  BY DEF Inv, Pending, Kept, MailedCodeWorks
<1> QED
  BY <1>1, InvAlways, PTL

(* An owner told of success has both rows, with any requests beside it. *)
THEOREM AccountsOwnerIsComplete == Spec => []OwnerIsComplete
<1>1. Inv => OwnerIsComplete
  BY DEF Inv, Owners, OwnerIsComplete
<1> QED
  BY <1>1, InvAlways, PTL

(* A code is confirmed once and for its own entry: s_mutex is held from the    *)
(* look-up to the erase, and the one other way to succeed is a single step.   *)
THEOREM AccountsCodeUsedOnce == Spec => CodeUsedOnce
<1>1. Inv /\ [Next]_vars =>
        [\A w \in Workers :
            Op(w) = "verify" /\ pc[w] # "succeed" /\ pc'[w] = "succeed" =>
               req[w].code \notin confirmed /\ Entry(w).code = req[w].code]_vars
  <2> SUFFICES ASSUME Inv, Next, NEW w \in Workers,
                      Op(w) = "verify", pc[w] # "succeed", pc'[w] = "succeed"
               PROVE  req[w].code \notin confirmed /\ Entry(w).code = req[w].code
    OBVIOUS
  <2>a. pc \in [Workers -> {"idle"} \cup Places] /\ pc[w] # "idle"
    <3>1. req[w] # NoRequest
      BY NothingFacts DEF Op
    <3>2. Control
      BY DEF Inv
    <3> QED
      BY <3>1, <3>2 DEF Control, Places, Early
  <2>1. Step(w)
    <3>1. ASSUME NEW v \in Workers, v # w, Step(v) \/ \E r \in Requests : Begin(v, r) PROVE FALSE
      <4>1. \E l : pc' = [pc EXCEPT ![v] = l]
        BY <3>1 DEF Step, Store, Mail, Confirm, Connect, Select, StartCrypt, EndCrypt, Insert,
                    InsertStore, Delete, Return, Begin
      <4> QED
        BY <2>a, <3>1, <4>1
    <3>2. ASSUME NEW u \in Logins, Expire(u) PROVE FALSE
      BY <3>2 DEF Expire
    <3>3. ~ \E r \in Requests : Begin(w, r)
      BY <2>a DEF Begin
    <3> QED
      BY <3>1, <3>2, <3>3 DEF Next
  <2>2. Route(w) /\ pc[w] \in Places
    BY <2>a, WorkerFacts
  <2>3. pc[w] \in {"confirm", "connect", "crypt", "crypting", "insert", "fail"}
    BY <2>2 DEF Route, Places, Early, Registers, LoginOps
  <2>4. Confirm(w) \/ Insert(w)
    <3>1. ~(pc[w] \in {"connect", "crypt", "crypting", "fail"})
      BY <2>1, <2>a, <2>2 DEF Step, Store, Mail, Confirm, Connect, AfterConnect, Select, StartCrypt,
         EndCrypt, Compares, LoginOps, Insert, InsertStore, Delete, Return
    <3> QED
      BY <2>1, <2>3, <3>1 DEF Step, Store, Mail, Connect, Select, StartCrypt,
         EndCrypt, InsertStore, Delete, Return
  <2>5. Entry(w).code = req[w].code
    <3>1. CASE Confirm(w)
      BY <2>a, <3>1 DEF Confirm
    <3>2. CASE Insert(w)
      BY <3>2 DEF Insert, Inv, Holding
    <3> QED
      BY <2>4, <3>1, <3>2
  <2>6. Login(w) \in Logins
    BY <2>a, WorkerFacts
  <2> QED
    BY <2>5, <2>6 DEF Inv, Fresh, Entry
<1>2. Spec => [][\A w \in Workers :
            Op(w) = "verify" /\ pc[w] # "succeed" /\ pc'[w] = "succeed" =>
               req[w].code \notin confirmed /\ Entry(w).code = req[w].code]_vars
  BY <1>1, InvAlways, PTL DEF Spec
<1> QED
  BY <1>2 DEF CodeUsedOnce

=============================================================================
