------------------------------- MODULE Queries -------------------------------
(* What owners, customers and administrators read from the database and what  *)
(* owners write about their stores, next to the placing of orders (module     *)
(* OrderPlacement), on the same connections: StoreService, MenuService,       *)
(* ClientService, the lists of OrderService and AdminService, and DBHelper,   *)
(* through which most of them go.  Every statement here runs in autocommit    *)
(* mode.  One owner and one store with orders stand for all, and a list is of  *)
(* one that meets the request's own filters.                                  *)
EXTENDS OrderPlacement, Sequences

CONSTANTS OldTables,  \* what the tables may hold when the server starts
          QueryOps,   \* the requests of this module that clients send
          NewRows,    \* the rows owners register
          Sizes,      \* how many items an order has
          Unmatched   \* what an order may name that never has a row, such as the
                      \* default number 0: 0 for its store, k for the menu of
                      \* its item k

Tables == {"store", "menu"}
Lists  == {"orders", "history", "stores", "mine", "menus"}

\* Whether a text column of the row is longer than the buffer DBHelper gives
\* it (100 bytes for a name), whether its category has a row, and is_open.
TableRow == [wide : BOOLEAN, known : BOOLEAN, open : 0 .. 1]
NoRow    == [wide |-> FALSE, known |-> TRUE, open |-> 0]

ASSUME OldTablesAssumption == OldTables \subseteq [Tables -> Seq(TableRow)]
ASSUME QueryOpsAssumption == QueryOps \subseteq Lists \cup {"register", "menu", "toggle"}
ASSUME NewRowsAssumption == NewRows \subseteq {r \in TableRow : r.open = 1}
ASSUME SizesAssumption == Sizes \subseteq 1 .. MaxItems
ASSUME UnmatchedAssumption == Unmatched \subseteq SUBSET (0 .. MaxItems)

\* A list needs no more; a new row may have a long name, a new store any
\* category number, and is open; an owner may open and close any store number
\* (0 stands for every is_open but 1).
StoreIds == 1 .. MaxRequests
Asks == [op : QueryOps \cap Lists, row : {NoRow}, store : {0}]
        \cup [op : QueryOps \cap {"register"}, row : NewRows, store : {0}]
        \cup [op : QueryOps \cap {"menu"}, row : {r \in NewRows : r.known}, store : {0}]
        \cup [op : QueryOps \cap {"toggle"}, row : {r \in TableRow : r.known /\ ~r.wide},
              store : StoreIds]
NoAsk == [op |-> "none", row |-> NoRow, store |-> 0]

VARIABLES missing,  \* what each order request names that has no row
          over,     \* the orders that are COMPLETED or CANCELLED
          table,    \* the store rows of the owner and the menu rows of the store
          flagged,  \* owner.shop_registered
          at, ask,  \* where each worker is in such a request, and the request
          borrowed, \* its connection
          list,     \* the rows it has read or written: number and what is shown
          todo,     \* orders of the list whose items are not read yet
          ok,       \* the status it will answer
          owed,     \* history: what a list has to show, as known when it began
          cut,      \* history: the request could not read something
          promised, \* history: rows whose registration was answered with success
          said,     \* history: the state owners were told their stores have,
                    \* and nobody has changed since
          unflagged \* history: setting the owner's flag has failed

queryVars == <<table, flagged, at, ask, borrowed, list, todo, ok, owed, cut, promised,
               said, unflagged>>
allVars   == <<vars, missing, over, queryVars>>
placing   == <<orders, nextId, inTx, pending, pc, req, conn, done, orderId, history, throws,
               missing, over>>
facts     == <<owed, promised, said>>

Places == {"idle", "ids", "connect", "owner", "rows", "items", "insert", "flag",
           "update", "reply"}
Holding == {"owner", "rows", "items", "insert", "flag", "update"}

Nothing_owed == [orders |-> {}, rows |-> {}, said |-> {}]

\* What the tables hold at the start was confirmed by an earlier run of the server.
QueriesInit ==
    /\ Init
    /\ missing = [r \in 1 .. MaxRequests |-> {}] /\ over = {}
    /\ table \in OldTables
    /\ flagged = (table["store"] # <<>>)
    /\ at = [w \in Workers |-> "idle"]
    /\ ask = [w \in Workers |-> NoAsk]
    /\ borrowed = [w \in Workers |-> NoConn]
    /\ list = [w \in Workers |-> {}]
    /\ todo = [w \in Workers |-> {}]
    /\ ok = [w \in Workers |-> FALSE]
    /\ owed = [w \in Workers |-> Nothing_owed]
    /\ cut = [w \in Workers |-> FALSE]
    /\ promised = [t \in Tables |-> DOMAIN table[t]]
    /\ said = {[id |-> i, open |-> table["store"][i].open] : i \in DOMAIN table["store"]}
    /\ unflagged = FALSE

Move(w, p) == at' = [at EXCEPT ![w] = p]
Table(w)   == IF ask[w].op \in {"menu", "menus"} THEN "menu" ELSE "store"

\* The connection is released and the handler answers: a list is always a
\* success, however little of it could be read.
AnswerWith(w, status) ==
    /\ free' = IF borrowed[w] = NoConn THEN free ELSE free \cup {borrowed[w]}
    /\ borrowed' = [borrowed EXCEPT ![w] = NoConn]
    /\ ok' = [ok EXCEPT ![w] = status]
    /\ Move(w, "reply")

GivesUp(w) ==
    /\ AnswerWith(w, ask[w].op \in Lists)
    /\ cut' = [cut EXCEPT ![w] = TRUE]

Keeps == UNCHANGED <<free, borrowed, ok>>

----------------------------------------------------------------------------
\* mysql_query and mysql_store_result: all that is visible to others.
Visible == {i \in OrderIds : orders[i] # NoOrder}

\* The customers' lists of stores join the category; the other lists do not.
Joined(w) == {i \in DOMAIN table[Table(w)] : ask[w].op = "stores" => table[Table(w)][i].known}

(* DBHelper: executeSelectMultipleRows reads rows, in the order in which the   *)
(* database gives them, until one does not fit its buffers, which ends the     *)
(* list like the end of the result does.                                       *)
Fetched(w) ==
    LET tooWide == {i \in Joined(w) : table[Table(w)][i].wide}
    IN  IF tooWide = {} THEN {Joined(w)} ELSE SUBSET (Joined(w) \ tooWide)

BeginQuery(w, a) ==
    /\ pc[w] = "idle" /\ at[w] = "idle"
    /\ requests < MaxRequests
    /\ requests' = requests + 1
    /\ ask' = [ask EXCEPT ![w] = a]
    /\ owed' = [owed EXCEPT ![w] =
          [orders |-> {m.id : m \in {n \in told : n.kind = "succeed" /\ n.by \notin unsure}}
                      \ (IF a.op = "orders" THEN over ELSE {}),
           rows   |-> promised[IF a.op = "menus" THEN "menu" ELSE "store"],
           said   |-> said]]
    /\ \/ Move(w, "connect")
       \/ a.op = "orders" /\ Move(w, "ids")
    /\ UNCHANGED <<placing, free, failures, table, flagged, borrowed, list, todo, ok, cut,
                   promised, said, unflagged>>

\* Mutant: the connection of the look-up is not released when there is a store.
FindStores_KeepsConn(w) ==
    /\ at[w] = "ids"
    /\ \/ /\ table["store"] # <<>>
          /\ \E c \in free : free' = free \ {c}
          /\ Move(w, "connect")
          /\ UNCHANGED <<borrowed, ok>>
       \/ table["store"] = <<>> /\ free # {} /\ AnswerWith(w, FALSE)
    /\ UNCHANGED <<placing, requests, failures, table, flagged, ask, list, todo, cut, facts,
                   unflagged>>

\* An owner who names no store: getStoreIdsByOwnerLoginId, on a connection of
\* its own.
FindStores(w) ==
    /\ at[w] = "ids"
    /\ free # {}
    /\ \/ table["store"] # <<>> /\ Move(w, "connect") /\ Keeps /\ UNCHANGED <<cut, failures>>
       \/ table["store"] = <<>> /\ AnswerWith(w, FALSE) /\ UNCHANGED <<cut, failures>>
       \/ Fails /\ AnswerWith(w, FALSE) /\ cut' = [cut EXCEPT ![w] = TRUE]
    /\ UNCHANGED <<placing, requests, table, flagged, ask, list, todo, facts, unflagged>>

FirstStatement(op) ==
    CASE op \in {"register", "toggle", "mine"} -> "owner"
      [] op = "menu" -> "insert"
      [] OTHER -> "rows"

Borrow(w) ==
    /\ at[w] = "connect"
    /\ \E c \in free :
          \/ /\ free' = free \ {c}
             /\ borrowed' = [borrowed EXCEPT ![w] = c]
             /\ Move(w, FirstStatement(ask[w].op))
             /\ UNCHANGED <<ok, cut, failures>>
          \/ Fails /\ GivesUp(w)
    /\ UNCHANGED <<placing, requests, table, flagged, ask, list, todo, facts, unflagged>>

AfterOwner == [register |-> "insert", toggle |-> "update", mine |-> "rows"]

\* The member_id of the session's owner, with executeSelectOneString; there is
\* none if somebody else is logged in.
FindOwner(w) ==
    /\ at[w] = "owner"
    /\ \/ Move(w, AfterOwner[ask[w].op]) /\ Keeps /\ UNCHANGED cut
       \/ GivesUp(w)
    /\ UNCHANGED <<placing, requests, failures, table, flagged, ask, list, todo, facts, unflagged>>

\* The owner's list is of the orders that are not over.
Open == Visible \ over

\* The items of a row of orders that a list shows: both lists join each with its
\* menu, and the administrator's joins the order with its store.
Items(op, row) ==
    IF op = "history" /\ 0 \in missing[row.by.number] THEN {}
    ELSE (1 .. row.items) \ missing[row.by.number]

Shown(w) ==
    CASE ask[w].op = "orders"  -> {{[id |-> i, shows |-> {}] : i \in Open}}
      [] ask[w].op = "history" ->
            {{[id |-> i, shows |-> Items("history", orders[i])] :
                 i \in {j \in Visible : Items("history", orders[j]) # {}}}}
      [] OTHER -> {{[id |-> i, shows |-> {table[Table(w)][i].open}] : i \in S} : S \in Fetched(w)}

\* The SELECT of a list; that of the owner's orders is followed by one for the
\* items of each.
SelectRows(w) ==
    /\ at[w] = "rows"
    /\ \/ /\ \E rows \in Shown(w) : list' = [list EXCEPT ![w] = rows]
          /\ IF ask[w].op = "orders"
             THEN todo' = [todo EXCEPT ![w] = Open] /\ Move(w, "items") /\ Keeps
             ELSE AnswerWith(w, TRUE) /\ UNCHANGED todo
          /\ UNCHANGED <<cut, failures>>
       \/ Fails /\ GivesUp(w) /\ UNCHANGED <<list, todo>>
    /\ UNCHANGED <<placing, requests, table, flagged, ask, facts, unflagged>>

SelectItems(w) ==
    /\ at[w] = "items"
    /\ \E i \in todo[w] :
          /\ \A j \in todo[w] : i <= j
          /\ todo' = [todo EXCEPT ![w] = @ \ {i}]
          /\ \/ /\ list' = [list EXCEPT ![w] = (@ \ {[id |-> i, shows |-> {}]})
                                 \cup {[id |-> i, shows |-> Items("orders", orders[i])]}]
                /\ UNCHANGED <<cut, failures>>
             \/ Fails /\ cut' = [cut EXCEPT ![w] = TRUE] /\ UNCHANGED list
    /\ UNCHANGED <<placing, free, requests, table, flagged, at, ask, borrowed, ok, facts, unflagged>>

ItemsDone(w) ==
    /\ at[w] = "items" /\ todo[w] = {}
    /\ AnswerWith(w, TRUE)
    /\ UNCHANGED <<placing, requests, failures, table, flagged, ask, list, todo, cut, facts, unflagged>>

----------------------------------------------------------------------------
(* Stores and menus *)
Insert(w) ==
    /\ table' = [table EXCEPT ![Table(w)] = Append(@, ask[w].row)]
    /\ UNCHANGED flagged

\* Mutant: a store that could not be inserted is not noticed, like the flag.
InsertRow_Ignored(w) ==
    /\ at[w] = "insert"
    /\ list' = [list EXCEPT ![w] = {[id |-> Len(table[Table(w)]) + 1, shows |-> {1}]}]
    /\ \/ Insert(w) /\ UNCHANGED failures
       \/ Fails /\ UNCHANGED <<table, flagged>>
    /\ Keeps /\ Move(w, "flag")
    /\ UNCHANGED <<placing, requests, ask, todo, cut, facts, unflagged>>

\* DBHelper::executeUpdate: true, or false with or without the effect E.
ExecuteUpdate(E, isTrue, isFalse) ==
    \/ E /\ isTrue /\ UNCHANGED failures
    \/ Fails /\ isFalse /\ (E \/ UNCHANGED <<table, flagged>>)

InsertRow(w) ==
    /\ at[w] = "insert"
    /\ ExecuteUpdate(
          Insert(w),
          /\ list' = [list EXCEPT ![w] = {[id |-> Len(table'[Table(w)]), shows |-> {1}]}]
          /\ IF ask[w].op = "register" THEN Move(w, "flag") /\ Keeps ELSE AnswerWith(w, TRUE)
          /\ UNCHANGED cut,
          GivesUp(w) /\ UNCHANGED list)
    /\ UNCHANGED <<placing, requests, ask, todo, facts, unflagged>>

\* Mutant: the connection is not released when the flag could not be set.
SetFlag_KeepsConn(w) ==
    /\ at[w] = "flag"
    /\ \/ /\ flagged' = TRUE /\ AnswerWith(w, TRUE)
          /\ UNCHANGED <<failures, unflagged>>
       \/ /\ Fails /\ unflagged' = TRUE /\ UNCHANGED flagged
          /\ ok' = [ok EXCEPT ![w] = TRUE] /\ Move(w, "reply")
          /\ UNCHANGED <<free, borrowed>>
    /\ UNCHANGED <<placing, requests, table, ask, list, todo, cut, facts>>

RaiseFlag == flagged' = TRUE /\ UNCHANGED table

\* The owner's flag; a failure is only logged.
SetFlag(w) ==
    /\ at[w] = "flag"
    /\ ExecuteUpdate(RaiseFlag, UNCHANGED unflagged, unflagged' = TRUE)
    /\ AnswerWith(w, TRUE)
    /\ UNCHANGED <<placing, requests, ask, list, todo, cut, facts>>

\* What can be said of the stores when store i has been set to b.
Still(news, i, b) == {s \in news : s.id = i => s.open = b}

\* The UPDATE of is_open: what was said of the store before and differs is no
\* longer so.  A store that is not there is not noticed.
SetOpen(w, news) ==
    LET i == ask[w].store
        b == ask[w].row.open
    IN  IF i \in DOMAIN table["store"]
        THEN /\ table' = [table EXCEPT !["store"][i].open = b]
             /\ said' = Still(said, i, b)
             /\ owed' = [v \in Workers |-> [owed[v] EXCEPT !.said =
                            Still(@, i, b) \cup (IF v = w THEN news ELSE {})]]
        ELSE UNCHANGED <<table, said, owed>>

\* toggleStoreStatus opens or closes a store.
Toggle(w) ==
    /\ at[w] = "update"
    /\ \/ /\ SetOpen(w, {[id |-> ask[w].store, open |-> ask[w].row.open]})
          /\ AnswerWith(w, TRUE)
          /\ UNCHANGED <<cut, failures>>
       \/ /\ Fails /\ GivesUp(w)
          /\ SetOpen(w, {}) \/ UNCHANGED <<table, said, owed>>
    /\ UNCHANGED <<placing, requests, flagged, ask, list, todo, promised, unflagged>>

Numbers(w) == {e.id : e \in list[w]}

ReplyQuery(w) ==
    /\ at[w] = "reply"
    /\ promised' = IF ok[w] /\ ask[w].op \in {"register", "menu"}
                   THEN [promised EXCEPT ![Table(w)] = @ \cup Numbers(w)] ELSE promised
    /\ said' = IF ok[w] /\ ask[w].op = "toggle" THEN said \cup owed[w].said ELSE said
    /\ Move(w, "idle")
    /\ ask' = [ask EXCEPT ![w] = NoAsk]
    /\ list' = [list EXCEPT ![w] = {}]
    /\ todo' = [todo EXCEPT ![w] = {}]
    /\ ok' = [ok EXCEPT ![w] = FALSE]
    /\ owed' = [owed EXCEPT ![w] = Nothing_owed]
    /\ cut' = [cut EXCEPT ![w] = FALSE]
    /\ UNCHANGED <<placing, free, requests, failures, table, flagged, borrowed, unflagged>>

----------------------------------------------------------------------------
(* The other writers of an order's status (module OrderLifecycle): updateStatus *)
(* sets any status of any order, whatever it was.                              *)
SetStatus(i) ==
    /\ \/ /\ i \in over
          /\ over' = over \ {i}
          /\ UNCHANGED owed
       \/ /\ i \in Open
          /\ over' = over \cup {i}
          /\ owed' = [w \in Workers |-> IF ask[w].op = "orders"
                                        THEN [owed[w] EXCEPT !.orders = @ \ {i}] ELSE owed[w]]
    /\ UNCHANGED <<vars, missing, table, flagged, at, ask, borrowed, list, todo, ok, cut,
                   promised, said, unflagged>>

----------------------------------------------------------------------------
Query(w) == \/ FindStores(w) \/ Borrow(w) \/ FindOwner(w) \/ SelectRows(w) \/ SelectItems(w)
            \/ ItemsDone(w) \/ InsertRow(w) \/ SetFlag(w) \/ Toggle(w) \/ ReplyQuery(w)

\* Placing an order, of a store and menus that have a row or not: createOrder
\* looks at neither.
Placing(w) ==
    /\ at[w] = "idle"
    /\ \/ /\ \E n \in Sizes : Begin(w, n)
          /\ \E names \in Unmatched : missing' = [missing EXCEPT ![requests'] = names]
       \/ Step(w) /\ UNCHANGED missing
    /\ UNCHANGED <<over, queryVars>>

QueriesNext ==
    \/ \E w \in Workers : Placing(w) \/ (\E a \in Asks : BeginQuery(w, a)) \/ Query(w)
    \/ \E i \in OrderIds : SetStatus(i)

QueriesSpec == QueriesInit /\ [][QueriesNext]_allVars

\* A worker that is handling a request goes on.
QueriesFairSpec ==
    /\ QueriesSpec
    /\ \A w \in Workers : WF_allVars(Query(w) \/ (Step(w) /\ UNCHANGED <<missing, over, queryVars>>))

----------------------------------------------------------------------------
OrderTypes ==
    /\ missing \in [1 .. MaxRequests -> SUBSET (0 .. MaxItems)]
    /\ over \subseteq OrderIds

QueryTypes ==
    /\ table \in [Tables -> Seq(TableRow)]
    /\ flagged \in BOOLEAN
    /\ at \in [Workers -> Places]
    /\ ask \in [Workers -> Asks \cup {NoAsk}]
    /\ borrowed \in [Workers -> Conns \cup {NoConn}]
    /\ list \in [Workers -> SUBSET [id : Nat, shows : SUBSET Nat]]
    /\ todo \in [Workers -> SUBSET OrderIds]
    /\ ok \in [Workers -> BOOLEAN] /\ cut \in [Workers -> BOOLEAN]
    /\ \A w \in Workers : /\ at[w] # "idle" => ask[w] \in Asks
                          /\ at[w] = "owner" => FirstStatement(ask[w].op) = "owner"

Held ==
    \A w \in Workers : /\ borrowed[w] # NoConn <=> at[w] \in Holding
                       /\ borrowed[w] \notin free

(* Types; a worker holds a connection exactly from getConnection to the        *)
(* release, on every path of the services.                                    *)
QueriesTypeOK == TypeOK /\ OrderTypes /\ QueryTypes /\ Held

Listing(w, ops) == at[w] = "reply" /\ ask[w].op \in ops

\* A store or menu somebody was told is registered is in the list, unless the
\* list joins it with a category that has no row, or another row of the list does
\* not fit DBHelper's buffers; and a store is shown open or closed as its owner
\* was told, if nobody has set it differently since.
RowsAreShown ==
    \A w \in Workers : Listing(w, {"stores", "mine", "menus"}) /\ ~cut[w] =>
       /\ \A i \in owed[w].rows \ Numbers(w) :
             /\ i \in DOMAIN table[Table(w)]
             /\ i \in Joined(w) => \E j \in Joined(w) : table[Table(w)][j].wide
       /\ ask[w].op = "stores" =>
             \A e \in list[w] : \A s \in owed[w].said : s.id = e.id => e.shows = {s.open}

\* What a list has to show of an order when all its items are in.
AllItems(op, i) == Items(op, [by |-> orders[i].by, items |-> orders[i].by.items])

\* The owner's list and the administrator's show every order a customer was told
\* is placed, the owner's unless it is or becomes COMPLETED or CANCELLED, the
\* administrator's unless it names no menu, or a store, that is there; and an
\* order is shown with all its items whose menu is there.
OrdersAreShown ==
    \A w \in Workers : Listing(w, {"orders", "history"}) /\ ~cut[w] /\ ok[w] =>
       /\ \A i \in owed[w].orders \ Numbers(w) :
             ask[w].op = "history" /\ AllItems("history", i) = {}
       /\ \A e \in list[w] : \/ e.shows = AllItems(ask[w].op, e.id)
                             \/ orders[e.id].by \in untied

(* Whoever is told of a success finds it in every list asked for after that,   *)
(* although each statement runs on another connection, lists are read in        *)
(* several statements, and others write meanwhile.  The exceptions are a list   *)
(* with a failed statement, which is answered as a success; one with a row that *)
(* is too wide, which hides any of the others (DBHelper.cpp:212); what the      *)
(* SELECTs leave out: an order that is over (OrderService.cpp:274), and rows    *)
(* they join with a menu, store or category that is not there (312 there,       *)
(* AdminService.cpp:116-119, ClientService.cpp:30); and an order whose START    *)
(* TRANSACTION or COMMIT failed.  An owner with a store has the flag, unless    *)
(* its INSERT failed.                                                           *)
ListsShowWhatWasTold ==
    /\ RowsAreShown
    /\ OrdersAreShown
    /\ promised["store"] # {} => flagged \/ unflagged

(* Every request ends, although each takes up to four connections one after    *)
(* the other: none is held while the next is waited for, and as long as        *)
(* malformed items have not emptied the pool one comes back.                   *)
EveryRequestEnds ==
    \A w \in Workers : pc[w] # "idle" \/ at[w] # "idle" ~> pc[w] = "idle" /\ at[w] = "idle"
=============================================================================
