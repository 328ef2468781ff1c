------------------------------ MODULE Accounts ------------------------------
(* Accounts: registration with a mailed code, owner and rider registration,   *)
(* log-in, withdrawal and the check for a free id (AuthHandler, Customer-,    *)
(* Boss- and RiderAuthService), as the workers execute them concurrently.     *)
(* They meet in the table of members, in s_verifyMap under s_mutex, in the    *)
(* pool's connections, and in the static buffer of crypt(3).                  *)
EXTENDS Integers, FiniteSets

CONSTANTS Workers,      \* worker threads
          Logins,       \* login ids
          Passwords,    \* what clients send as a password
          NoPassword,   \* password and name are empty, as in an entry for a withdrawal
          Nobody,       \* s_mutex is free
          Ops,          \* the requests clients send
          PoolSize,     \* connections of the pool
          MaxRequests,  \* bound: requests handled
          MaxFailures   \* bound: statements, mails and hashes that fail

CustomerOps == {"register", "verify", "withdrawVerify", "withdraw", "idCheck"}
LoginOps    == {"login", "ownerLogin", "riderLogin"}
Registers   == {"ownerRegister", "riderRegister"}
NoSecrets   == {"verify", "withdraw", "idCheck"}   \* come without a password
AllOps      == CustomerOps \cup LoginOps \cup Registers

ASSUME OpsAssumption == Ops \subseteq AllOps
ASSUME WorkersAssumption == IsFiniteSet(Workers)
ASSUME NamesAssumption == NoPassword \notin Passwords /\ Nobody \notin Workers
ASSUME BoundsAssumption == PoolSize \in Nat /\ MaxRequests \in Nat /\ MaxFailures \in Nat

Codes == 1 .. MaxRequests    \* a code, and a salt, is the request that drew it

\* A bcrypt string: the salt it was made with and the password it is made of.
Hash    == [salt : Codes \cup Logins, password : Passwords]
Garbled == [salt |-> 0, password |-> NoPassword]   \* matches no password
NoRow   == [role |-> "none", hash |-> Garbled]
NoEntry == [code |-> 0, password |-> NoPassword, old |-> FALSE]
NoRequest == [op |-> "none"]

VARIABLES member,     \* the member table: role and password hash of each login
          store,      \* owners with a row in the store table
          entry,      \* s_verifyMap
          mutex,      \* the holder of s_mutex
          conn,       \* the workers that hold a connection
          leaked,     \* connections nobody will ever return
          calls,      \* what each worker is computing inside crypt()
          mixed,      \* what other calls may have left in its buffer meanwhile
          hash,       \* the hash a worker read or computed
          pc, req,    \* where each worker is, and the request it handles
          mailed,     \* codes that reached a mailbox
          gone,       \* history: codes replaced, expired or confirmed
          confirmed,  \* history: codes answered with success
          requests,   \* requests begun
          failures    \* failures so far

vars == <<member, store, entry, mutex, conn, leaked, calls, mixed, hash, pc, req,
          mailed, gone, confirmed, requests, failures>>
locals == <<pc, req, hash, calls, mixed>>
tables == <<member, store>>
codes  == <<entry, mailed, gone, confirmed>>
counts == <<requests, failures>>

Op(w)      == req[w].op
Login(w)   == req[w].login
Entry(w)   == entry[Login(w)]
Goto(w, l) == pc' = [pc EXCEPT ![w] = l]
Fails      == failures < MaxFailures /\ failures' = failures + 1

Role(op) == CASE op \in {"ownerRegister", "ownerLogin"} -> "owner"
              [] op \in {"riderRegister", "riderLogin"} -> "rider"
              [] OTHER -> "customer"

\* The code a client can enter: one that was mailed, or a wrong one.  Nothing
\* keeps it from registering with an empty password and name.
Requests == {r \in [op : Ops, login : Logins, password : Passwords \cup {NoPassword},
                    code : mailed \cup {0}] :
               /\ r.code # 0 => r.op = "verify"
               /\ r.op \in NoSecrets => r.password = NoPassword
               /\ r.password = NoPassword => r.op \in NoSecrets \cup {"register"}}

\* The tables outlive the server, so accounts may be there from before.
Init ==
    /\ member \in [Logins -> {NoRow}] \cup
         {[u \in Logins |-> [role |-> r, hash |-> [salt |-> u, password |-> p]]] :
             r \in {"customer", "owner"}, p \in Passwords}
    /\ store = {u \in Logins : member[u].role = "owner"}
    /\ entry = [u \in Logins |-> NoEntry]
    /\ mutex = Nobody
    /\ conn = {}
    /\ leaked = 0
    /\ calls = [w \in Workers |-> Garbled]
    /\ mixed = [w \in Workers |-> {}]
    /\ hash = [w \in Workers |-> Garbled]
    /\ pc = [w \in Workers |-> "idle"]
    /\ req = [w \in Workers |-> NoRequest]
    /\ mailed = {} /\ gone = {} /\ confirmed = {}
    /\ requests = 0 /\ failures = 0

----------------------------------------------------------------------------
FirstStep(op) == CASE op = "register" -> "store"
                   [] op = "verify" -> "confirm"
                   [] op \in Registers -> "crypt"
                   [] OTHER -> "connect"

\* A worker takes a request; its number names the code and the salt it draws.
Begin(w, r) ==
    /\ pc[w] = "idle"
    /\ requests < MaxRequests
    /\ requests' = requests + 1
    /\ req' = [req EXCEPT ![w] = [op |-> r.op, login |-> r.login, code |-> r.code,
                                  password |-> r.password, id |-> requests']]
    /\ Goto(w, FirstStep(r.op))
    /\ UNCHANGED <<tables, codes, mutex, conn, leaked, calls, mixed, hash, failures>>

\* Mutant: a failing service returns without unlocking s_mutex.
Return_KeepsLock(w) ==
    /\ pc[w] \in {"succeed", "fail"}
    /\ Goto(w, "idle")
    /\ mutex' = IF mutex = w /\ pc[w] = "succeed" THEN Nobody ELSE mutex
    /\ conn' = conn \ {w}
    /\ req' = [req EXCEPT ![w] = NoRequest]
    /\ hash' = [hash EXCEPT ![w] = Garbled]
    /\ UNCHANGED <<tables, codes, leaked, calls, mixed, counts>>

\* The service returns: the guard of s_mutex and the connection are released,
\* and the handler answers.
Return(w) ==
    /\ pc[w] \in {"succeed", "fail"}
    /\ Goto(w, "idle")
    /\ mutex' = IF mutex = w THEN Nobody ELSE mutex
    /\ conn' = conn \ {w}
    /\ req' = [req EXCEPT ![w] = NoRequest]
    /\ hash' = [hash EXCEPT ![w] = Garbled]
    /\ UNCHANGED <<tables, codes, leaked, calls, mixed, counts>>

\* Mutant of Store: emplace, which keeps the entry that is there.
Store_Emplace(w) ==
    /\ pc[w] = "store"
    /\ mutex = Nobody
    /\ entry' = IF Entry(w) # NoEntry THEN entry
                ELSE [entry EXCEPT ![Login(w)] =
                       [code |-> req[w].id, old |-> FALSE, password |-> req[w].password]]
    /\ Goto(w, "mail")
    /\ UNCHANGED <<tables, mutex, conn, leaked, calls, mixed, hash, req, mailed, gone,
                   confirmed, counts>>

\* The new entry replaces the one of an earlier request for this login; an
\* entry for a withdrawal is recognised by its empty password and name, and so is
\* a registration without both.
Store(w) ==
    /\ pc[w] = "store"
    /\ mutex = Nobody
    /\ entry' = [entry EXCEPT ![Login(w)] =
          [code |-> req[w].id, old |-> FALSE,
           password |-> IF Op(w) = "register" THEN req[w].password ELSE NoPassword]]
    /\ gone' = gone \cup ({Entry(w).code} \ {0})
    /\ Goto(w, "mail")
    /\ UNCHANGED <<tables, mutex, conn, leaked, calls, mixed, hash, req, mailed,
                   confirmed, counts>>

\* The code is mailed after the lock was released; if that fails the entry stays.
Mail(w) ==
    /\ pc[w] = "mail"
    /\ \/ mailed' = mailed \cup {req[w].id} /\ Goto(w, "succeed") /\ UNCHANGED failures
       \/ Fails /\ Goto(w, "fail") /\ UNCHANGED mailed
    /\ UNCHANGED <<tables, entry, gone, confirmed, mutex, conn, leaked, calls, mixed,
                   hash, req, requests>>

\* Thirty seconds pass.
Expire(u) ==
    /\ entry[u] # NoEntry
    /\ entry' = [entry EXCEPT ![u].old = TRUE]
    /\ UNCHANGED <<tables, mailed, gone, confirmed, mutex, conn, leaked, locals, counts>>

Erased(u) == entry' = [entry EXCEPT ![u] = NoEntry]

\* Mutant: the entry of a withdrawal is not erased.
Confirm_KeepsEntry(w) ==
    /\ pc[w] = "confirm"
    /\ mutex = Nobody
    /\ Entry(w) # NoEntry /\ Entry(w).code = req[w].code /\ Entry(w).password = NoPassword
    /\ confirmed' = confirmed \cup {req[w].code}
    /\ Goto(w, "succeed")
    /\ UNCHANGED <<tables, entry, mailed, gone, mutex, conn, leaked, calls, mixed, hash,
                   req, counts>>

\* processVerify up to the connection: s_mutex stays locked while the account
\* is created, and is released with every other outcome.
Confirm(w) ==
    LET e == Entry(w)
        valid == e # NoEntry /\ ~e.old /\ e.code = req[w].code
    IN
    /\ pc[w] = "confirm"
    /\ mutex = Nobody
    /\ \/ /\ e # NoEntry /\ e.old
          /\ Erased(Login(w)) /\ gone' = gone \cup {e.code}
          /\ Goto(w, "fail")
          /\ UNCHANGED <<mutex, confirmed>>
       \/ /\ e = NoEntry \/ (~e.old /\ e.code # req[w].code)
          /\ Goto(w, "fail")
          /\ UNCHANGED <<entry, gone, mutex, confirmed>>
       \/ /\ valid /\ e.password = NoPassword
          /\ Erased(Login(w)) /\ gone' = gone \cup {e.code}
          /\ confirmed' = confirmed \cup {e.code}
          /\ Goto(w, "succeed")
          /\ UNCHANGED mutex
       \/ /\ valid /\ e.password # NoPassword
          /\ mutex' = w
          /\ Goto(w, "connect")
          /\ UNCHANGED <<entry, gone, confirmed>>
    /\ UNCHANGED <<tables, mailed, conn, leaked, calls, mixed, hash, req, counts>>

----------------------------------------------------------------------------
(* Connections and statements.                                               *)
AfterConnect(op) == CASE op = "verify" -> "crypt"
                      [] op \in Registers -> "insert"
                      [] op = "withdraw" -> "delete"
                      [] OTHER -> "select"

\* getConnection waits for a connection (module DBConnectionPool) and returns
\* NULL when the server does not answer.
Connect(w) ==
    /\ pc[w] = "connect"
    /\ Cardinality(conn) + leaked < PoolSize
    /\ \/ conn' = conn \cup {w} /\ Goto(w, AfterConnect(Op(w))) /\ UNCHANGED failures
       \/ Fails /\ Goto(w, "fail") /\ UNCHANGED conn
    /\ UNCHANGED <<tables, codes, mutex, leaked, calls, mixed, hash, req, requests>>

\* Does the SELECT of this request find the row?  Only idCheck takes any role.
Found(w) == /\ member[Login(w)] # NoRow
            /\ Op(w) = "idCheck" \/ member[Login(w)].role = Role(Op(w))

\* A password is compared with the row's; an id that has a row is not free,
\* and a SELECT that fails looks like one without a row.
WithRow(op)    == IF op = "idCheck" THEN "fail" ELSE "crypt"
WithoutRow(op) == IF op = "idCheck" THEN "succeed" ELSE "fail"

Select(w) ==
    /\ pc[w] = "select"
    /\ \/ /\ Found(w)
          /\ hash' = [hash EXCEPT ![w] = member[Login(w)].hash]
          /\ Goto(w, WithRow(Op(w)))
          /\ UNCHANGED failures
       \/ /\ (~Found(w) /\ UNCHANGED failures) \/ Fails
          /\ Goto(w, WithoutRow(Op(w)))
          /\ UNCHANGED hash
    /\ UNCHANGED <<tables, codes, mutex, conn, leaked, calls, mixed, req, requests>>

Compares(op) == op \in LoginOps \cup {"withdrawVerify"}

\* What this worker gives to crypt(): a fresh salt and the password to hash,
\* or the salt of the stored hash and the password to compare; a garbled hash
\* has no salt that crypt() accepts.
Computing(w) ==
    IF Compares(Op(w)) /\ hash[w] = Garbled THEN Garbled
    ELSE [salt |-> IF Compares(Op(w)) THEN hash[w].salt ELSE req[w].id,
          password |-> IF Op(w) = "verify" THEN Entry(w).password ELSE req[w].password]

InCrypt == {v \in Workers : pc[v] = "crypting"}

\* crypt() works in one static buffer: calls that overlap may see each other's.
StartCrypt(w) ==
    /\ pc[w] = "crypt"
    /\ calls' = [calls EXCEPT ![w] = Computing(w)]
    /\ mixed' = [v \in Workers |-> CASE v = w -> {calls[x] : x \in InCrypt}
                                     [] v \in InCrypt -> mixed[v] \cup {Computing(w)}
                                     [] OTHER -> mixed[v]]
    /\ Goto(w, "crypting")
    /\ UNCHANGED <<tables, codes, mutex, conn, leaked, hash, req, counts>>

\* What crypt() may return: its own result, or, after an overlap, that of
\* another call or a string made of both.
Results(w) == {calls[w]} \cup mixed[w] \cup (IF mixed[w] = {} THEN {} ELSE {Garbled})

\* bcryptHash and bcryptVerify.  processVerify forgets its connection when no
\* hash comes back.
EndCrypt(w) ==
    /\ pc[w] = "crypting"
    /\ calls' = [calls EXCEPT ![w] = Garbled]
    /\ mixed' = [mixed EXCEPT ![w] = {}]
    /\ \/ \E h \in Results(w) :
            /\ ~Compares(Op(w))
            /\ hash' = [hash EXCEPT ![w] = h]
            /\ Goto(w, IF Op(w) = "verify" THEN "insert" ELSE "connect")
            /\ UNCHANGED <<conn, leaked, failures>>
       \/ \E h \in Results(w) :
            /\ Compares(Op(w))
            /\ Goto(w, IF h # hash[w] \/ h = Garbled THEN "fail"
                       ELSE IF Op(w) = "withdrawVerify" THEN "store" ELSE "succeed")
            /\ UNCHANGED <<hash, conn, leaked, failures>>
       \/ /\ Fails
          /\ Goto(w, "fail")
          /\ conn' = IF Op(w) = "verify" THEN conn \ {w} ELSE conn
          /\ leaked' = IF Op(w) = "verify" THEN leaked + 1 ELSE leaked
          /\ UNCHANGED hash
    /\ UNCHANGED <<tables, codes, mutex, req, requests>>

\* Mutant: the password itself is stored.
Insert_Clear(w) ==
    /\ pc[w] = "insert"
    /\ member[Login(w)] = NoRow
    /\ member' = [member EXCEPT ![Login(w)] =
                     [role |-> Role(Op(w)), hash |-> req[w].password]]
    /\ Goto(w, "succeed")
    /\ UNCHANGED <<store, codes, mutex, conn, leaked, calls, mixed, hash, req, counts>>

\* INSERT INTO member; login_id is unique.  A confirmed entry is erased.
Insert(w) ==
    LET inserted == member' = [member EXCEPT ![Login(w)] =
                                  [role |-> Role(Op(w)), hash |-> hash[w]]]
        free == member[Login(w)] = NoRow
        refused == Goto(w, "fail") /\ UNCHANGED <<entry, gone, confirmed>>
    IN
    /\ pc[w] = "insert"
    /\ \/ free /\ inserted /\ Goto(w, "insertStore") /\ Op(w) = "ownerRegister"
          /\ UNCHANGED <<entry, gone, confirmed, conn, failures>>
       \/ free /\ inserted /\ Goto(w, "succeed") /\ Op(w) = "riderRegister"
          /\ conn' = conn \ {w}
          /\ UNCHANGED <<entry, gone, confirmed, failures>>
       \/ free /\ inserted /\ Goto(w, "succeed") /\ Op(w) = "verify"
          /\ conn' = conn \ {w}
          /\ Erased(Login(w))
          /\ gone' = gone \cup {req[w].code}
          /\ confirmed' = confirmed \cup {req[w].code}
          /\ UNCHANGED failures
       \/ ~free /\ refused /\ conn' = conn \ {w} /\ UNCHANGED <<member, failures>>
       \/ Fails /\ refused /\ conn' = conn \ {w}
          /\ (UNCHANGED member \/ (free /\ inserted))
    /\ UNCHANGED <<store, mailed, mutex, leaked, calls, mixed, hash, req, requests>>

\* Mutant: the result of the second INSERT is ignored.
InsertStore_Ignored(w) ==
    /\ pc[w] = "insertStore"
    /\ Goto(w, "succeed")
    /\ \/ store' = store \cup {Login(w)} /\ UNCHANGED failures
       \/ Fails /\ UNCHANGED store
    /\ UNCHANGED <<member, codes, mutex, conn, leaked, calls, mixed, hash, req, requests>>

\* INSERT INTO store, in no transaction with the member's row.
InsertStore(w) ==
    /\ pc[w] = "insertStore"
    /\ \/ store' = store \cup {Login(w)} /\ Goto(w, "succeed") /\ UNCHANGED failures
       \/ Fails /\ Goto(w, "fail") /\ (UNCHANGED store \/ store' = store \cup {Login(w)})
    /\ UNCHANGED <<member, codes, mutex, conn, leaked, calls, mixed, hash, req, requests>>

\* DELETE of a customer; without such a row it succeeds as well.
Delete(w) ==
    LET deleted == member' = IF Found(w) THEN [member EXCEPT ![Login(w)] = NoRow]
                             ELSE member
    IN
    /\ pc[w] = "delete"
    /\ \/ deleted /\ Goto(w, "succeed") /\ UNCHANGED failures
       \/ Fails /\ Goto(w, "fail") /\ (UNCHANGED member \/ deleted)
    /\ UNCHANGED <<store, codes, mutex, conn, leaked, calls, mixed, hash, req, requests>>

----------------------------------------------------------------------------
Step(w) == \/ Store(w) \/ Mail(w) \/ Confirm(w) \/ Connect(w) \/ Select(w)
           \/ StartCrypt(w) \/ EndCrypt(w) \/ Insert(w) \/ InsertStore(w)
           \/ Delete(w) \/ Return(w)

Next == \/ \E w \in Workers : (\E r \in Requests : Begin(w, r)) \/ Step(w)
        \/ \E u \in Logins : Expire(u)

Spec == Init /\ [][Next]_vars

\* A worker goes on; nothing makes a client send a request or a code expire.
FairSpec == Spec /\ \A w \in Workers : WF_vars(Step(w))

----------------------------------------------------------------------------
(* Types.                                                                     *)
TypeOK ==
    LET AnyHash == Hash \cup {Garbled} IN
    /\ member \in [Logins -> {NoRow} \cup [role : {"customer", "owner", "rider"},
                                            hash : AnyHash]]
    /\ store \subseteq Logins
    /\ entry \in [Logins -> {NoEntry} \cup [code : Codes, old : BOOLEAN,
                                            password : Passwords \cup {NoPassword}]]
    /\ mutex \in Workers \cup {Nobody}
    /\ conn \subseteq Workers /\ Cardinality(conn) + leaked <= PoolSize
    /\ leaked \in Nat
    /\ calls \in [Workers -> AnyHash] /\ mixed \in [Workers -> SUBSET AnyHash]
    /\ hash \in [Workers -> AnyHash]
    /\ mailed \subseteq Codes /\ gone \subseteq Codes /\ confirmed \subseteq Codes
    /\ requests \in 0 .. MaxRequests /\ failures \in 0 .. MaxFailures

(* A confirmation succeeds once per code, and for the registration or           *)
(* withdrawal the code was made for: whatever other requests of the same login  *)
(* run while it waits for a connection and hashes, nobody replaces its entry or *)
(* confirms it too, since processVerify holds s_mutex from the look-up to the   *)
(* erase.                                                                       *)
CodeUsedOnce ==
    [][\A w \in Workers :
         Op(w) = "verify" /\ pc[w] # "succeed" /\ pc'[w] = "succeed" =>
            req[w].code \notin confirmed /\ Entry(w).code = req[w].code]_vars

(* A code that reached a mailbox can be confirmed, unless it was replaced by a *)
(* later request, expired, or was confirmed before: the entry is stored before *)
(* the mail is sent, and a second registration replaces the first.            *)
MailedCodeWorks ==
    \A c \in mailed : c \in gone \/ \E u \in Logins : entry[u].code = c

(* An owner who is told that the registration succeeded has both rows.  The   *)
(* two INSERTs are not in one transaction, and other requests for the same    *)
(* login, a withdrawal among them, run meanwhile.                             *)
OwnerIsComplete ==
    \A w \in Workers :
       Op(w) = "ownerRegister" /\ pc[w] = "succeed" =>
          member[Login(w)].role = "owner" /\ Login(w) \in store

(* Every request is answered: no worker waits for ever for s_mutex or for a   *)
(* connection.  A confirmation waits for a connection while it holds s_mutex  *)
(* and a withdrawal for s_mutex while it holds a connection, so this rests on *)
(* the pool having a connection to spare for every worker.                    *)
EveryRequestAnswered ==
    \A w \in Workers : pc[w] # "idle" ~> pc[w] = "idle"

----------------------------------------------------------------------------
(* CustomerAuthService.cpp:36: bcryptHash returns the hash of its password,   *)
(* so the row of a new account matches the password it was registered with.   *)
HashIsOfPassword ==
    [][\A w \in Workers :
         Insert(w) /\ pc'[w] # "fail" => hash[w].password = Computing(w).password]_vars
=============================================================================
