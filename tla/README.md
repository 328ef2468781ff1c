# A TLA+ development of the Kkokkiyo delivery server

The repository is a food-delivery system: a C++20 server that customers, store owners, riders
and administrators talk to over TCP from console programs (`src/tcp-server`), and a FastAPI server that stores the
pictures of menus (`src/img-server`). Both keep their data in one MySQL database. This
directory holds TLA+ modules that model the server's concurrent core and those programs, the TLC configurations
that check them on small instances, and proofs, checked by TLAPS, that the most important
properties hold for every instance.

`PROJECT.json` is the index: the components, the runs, the source lines each definition stands
for, a mutant for every property (a plausible bug that makes the property fail), the hazards of
the code, the findings and the theorems.

    tlasany M.tla                                  parse module M
    tlc -workers 2 -config M.cfg MC_M.tla          model-check
    tlapm M_proofs.tla                             check the proofs (`Clients_proofs` takes nine minutes)

## 1. Inventory

One process of the TCP server is: the **epoll thread** (accepts, reads, cuts frames, pushes
packets, disconnects), **eight workers** (take a packet, route it to a handler, which runs SQL
on a pooled connection and sends frames), and what they share: the queue, the pool, the roster
of sessions, the mutex per socket, the table of pending confirmations, and a static buffer
inside `crypt(3)`. Everything else is shared through the database, where most statements are
in autocommit mode.

    client ==TCP==> ConnectionManager --push--> WorkQueue --pop--> worker
                          |                                          |
                          | removeSession, removeFd                  | MessageRouter -> handler
                          v                                          v
                    SessionManager <--add/lookup-- use cases, services --> DBConnectionPool --> MySQL
                    PacketHandler  <--sendPacket-- replies, NotifyService

| component | state | operations | what is hard about it | what makes it correct |
|---|---|---|---|---|
| DB connection pool (`DBConnectionPool.cpp`) | queue of `MYSQL *`, mutex, condition variable | init, getConnection, releaseConnection | notify after the unlock, ping with failure, callers that never release, exhaustion | exclusive ownership, nothing lost, no lost wake-up, every call answered |
| Work queue (`WorkQueue.hpp`) | deque, `stop_`, mutex, condition variable, threads | push, worker loop, destructor | notify after the unlock, handlers that throw, stop while packets are queued | each packet once and in order, drained at the stop, no sleeping worker left behind |
| Connections (`ConnectionManager.cpp`) | `connections_`, sockets, epoll set | accept, onReadable, disconnectClient | edge triggering, fd numbers reused by the kernel, a worker that closes sockets too | every hang-up cleaned up, every request read |
| Roster (`SessionManager.cpp`) | fd number → session | addSession, removeSession, look-ups | the key outlives what it stands for | a session belongs to the client behind its socket |
| Sending (`PacketHandler.cpp`, `SocketIO.cpp`) | fd number → mutex | sendPacket, removeFd | several senders, two writes per frame, non-blocking sockets, mutexes dropped while in use | streams of whole frames |
| Accounts (`CustomerAuthService`, `BossAuthService`, `RiderAuthService`) | `member`, `store`, `s_verifyMap`, `crypt()`'s buffer | registration by mailed code, log-in, withdrawal | waits for a connection under a lock and for the lock with a connection; two INSERTs without a transaction | a code works and works once, accounts are complete, every request answered |
| Login, ban, chat (`AuthHandler`, `AdminService`, `NotifyService`, `ChatHandler`) | `is_banned`, roster | login, ban, unban, message | check-then-act between the database and the roster | a banned user is out |
| Order placement (`OrderHandler`, `PlaceOrderUseCase`, `OrderService::createOrder`) | `orders`, `order_item`, the session's transaction | place an order | statements whose results are ignored, lost sessions, exceptions inside the transaction | whole orders or none, truthful answers, clean connections |
| Order lifecycle (`OrderHandler`, use cases, `OrderService`, `AdminService`) | one row per order | cancel, accept, reject, ready, pickup, done, refund, assign | status read by one statement and written by another, unconditional, one | answers tell what happened, changes are announced, the rider in the row knows |
| Image server (`menu_image.py`, `image_service.py`) | file store, `menu.img_path`, which the TCP server writes too | upload, download, static mount; registration of a menu | the old path is read three awaits before it is used; file and row are not one write; a client may register a menu with any path | an uploaded file is there while a row names it, but for paths that clients shared; replaced files go |
| Framing (`ConnectionManager.cpp` 118-225) | receive buffer per fd number | read, append, cut frames | TCP cuts the stream anywhere, signed lengths, bursts beyond 2 MiB, data and end of file in one event, a buffer that survives a ban | frames as the client sent them, in order, none left lying |
| Console clients (`clients/*.cpp`) | menu state, socket, receiving thread | log in, register, ask, exit | two threads on one socket, answers without a number, notices between them | they believe what happened, and they end |
| Stores, menus, lists (`StoreService`, `MenuService`, `ClientService`, `OrderService`, `AdminService`, `DBHelper`) | `store`, `menu`, `owner.shop_registered` | register, open and close, list | several statements per request, failures taken for the end of a list, buffers of fixed size, joins with rows that may not be there | what was confirmed is listed, but for what the SELECTs leave out |
| Broadcasts, addresses and names, administrators' log-in, fixtures, protocol constants, `json.hpp` | none, or rows nobody else writes | | little | see section 8 |

## 2. Modules

The most important behaviour first: the two pieces of synchronisation every request depends on,
the orders, the sockets, the accounts, the images, and then what goes over the wire and through
the lists.

| module | models | builds on |
|---|---|---|
| `ConnectionLease` | abstract: a connection is free or leased to one thread | |
| `DBConnectionPool` | the pool, mutex and condition variable included | implements `ConnectionLease` |
| `Dispatcher` | abstract: packets are accepted in an order and begun once, in that order | |
| `WorkQueue` | the queue and its workers, up to the destructor | implements `Dispatcher` |
| `OrderLifecycle` | status and rider of orders, with their notices | |
| `OrderPlacement` | `createOrder` in its MySQL session, the notice to the store, the answer | |
| `Queries` | stores, menus, and every list that shows them or orders | extends `OrderPlacement` |
| `PacketHandler` | mutexes per fd number, frames on the wire | |
| `ConnectionManager` | epoll thread, roster, log-in, ban, chat, the sender of an order | |
| `FrameChannel` | abstract: frames arrive as sent, connections end for a cause | |
| `Framing` | the stream from `sendPacket` of a client to the work queue | implements `FrameChannel` |
| `ConsoleClient` | the console programs and a worker that answers them | extends `Framing` |
| `Accounts` | registration, log-in, withdrawal | |
| `ImageStore` | uploads and downloads of menu pictures | |
| `Clients_proofs` | the theorems about what clients rely on (section 6) | `ConsoleClient`, `ImageStore` |
| `*_proofs` (seven more) | the other theorems of section 6 | the module they are named after |
| `MC_*` | small constants for TLC | the module they are named after |

Interactions are modelled at the interface. A handler in `Accounts`, `OrderPlacement` or `Queries`
takes a connection in one step, which waits until there is one, or gets NULL: that is what
`ConnectionLease` promises and `DBConnectionPool` is shown to implement. A worker of
`ConnectionManager` takes one item at a time in the order of arrival: that is `Dispatcher`,
which `WorkQueue` is shown to implement. `Send` of `ConnectionManager` is one call of
`PacketHandler`'s `sendPacket`, and what its `OnReadable` takes from a socket are the frames
`Framing` cuts. `Place` of `OrderLifecycle` is the commit of `OrderPlacement`. Two compositions
are checked as a whole: `Queries` runs on the same connections, tables and failures as
`OrderPlacement`, so that lists are read while orders are being written and a connection passes
from one kind of request to the other; and `ConsoleClient` puts programs with two threads, TCP,
the epoll thread, a worker, notices and bans into one state space.

### How state and actions correspond to the code

Variables carry the names of the code's variables where there is one (`connectionQueue`,
`fdMutexMap`, `sessions`, `queue`, `stop`); `pc` says between which two points of its function
a thread is, and a local variable that survives such a point is a function from threads
(`conn`, `item`, `target`, `snap`). A step runs from one point where another thread can
interfere to the next: a critical section of a mutex is one step, a SQL statement is one step,
a `write` on a socket is one step. Requests, messages and rows are records of the fields the
properties tell apart. Variables marked *history* are not in the code; no guard reads them.

- **DBConnectionPool.** `OpenOk`/`OpenFail`: one turn of `init`'s loop. `Call`, `Look`: entering
  `getConnection` and evaluating the wait's predicate under the mutex, either going to sleep or
  popping a connection. `PingOk`/`PingFail`: `mysql_ping` with the mutex held: nobody else looks
  at the queue meanwhile; a failed ping pushes the connection back, notifies and returns NULL.
  `Release` and `Notify`: the push, and `notify_one` after the unlock. `Forget`: the callers
  that return or throw without releasing. `Spurious`: a spurious wake-up.
- **WorkQueue.** `Push` and `NotifyOne` (after the unlock); `Wait`, `Take`, `Exit`: the three
  outcomes of a worker's look at the queue under the mutex; `Finish`: the handler returns or
  throws, both leave the worker in its loop;
  `Stop`, `NotifyAll`, `Join`: the destructor.
- **OrderLifecycle.** `Begin`, `Read` (the SELECT of the status, where the use case has one),
  `Write` (the UPDATE, which names no status it expects), `Tell` (the notices), `Unassign` and
  `TellRider` (the cancellation of an order that had a rider), `Assign` (the UPDATE of `rider_id`,
  unconditional too), `TellDispatch`, `Reply`. A statement may fail, executed or not.
- **PacketHandler.** `GetFdMutex`, `Lock`, `WriteHeader`, `WriteBody`, as `sendPacket` does them; `RemoveFd`
  before `Close`, as `disconnectClient` does; `KickClose` from a worker. A write reaches
  whoever is behind the number now, nobody, or finds the buffer full.
- **ConnectionManager.** `Accept`, `EpollWait`, `OnReadable`, `Disconnect`, `Close` of the epoll
  thread; `Take`, `CheckLogin`, `AddSession`, `CheckBan`, `SetBan`, `LookUp`, `Send`,
  `DropSession`, `Kick`, `Identify` (who sent this order?) and `Act` of the workers. `sock` is
  the kernel's table: closing a number makes it available to the next client, and epoll forgets
  its event.
- **Accounts.** One action per critical section or statement: `Store` and `Mail` of a code,
  `Confirm` with `s_mutex` held to the end of the handler, `Connect`, `Select`, `StartCrypt` and
  `EndCrypt` (calls that overlap may see each other's buffer), `Insert`, `InsertStore`,
  `Delete`, `Return`. `Expire` lets thirty seconds pass. A hash that fails in `processVerify`
  loses its connection, as the code's early return does.
- **OrderPlacement.** `LookUp` (the SELECTs of member and store before the transaction), `Start`,
  `InsertOrder`, `InsertItem`, `Commit`, `Rollback` on a session
  that is in a transaction or not (`inTx`), with what it has not committed (`pending`). A
  statement that fails may have lost the session and its transaction; `Start` commits what is
  pending, and both `Start` and `Commit` go on after a failure, as the code does. `Throw` is a
  malformed item. `Notify` tells the store, `Reply` the customer.
- **Queries.** `BeginQuery` takes a request; `FindStores`, `Borrow`, `FindOwner`, `SelectRows`,
  `SelectItems`, `ItemsDone`, `InsertRow`, `SetFlag`, `Toggle` are its statements, each on the
  connection the code uses for it, and `ReplyQuery` answers. `Open` is the WHERE clause of the
  owner's list, `Items` and `Joined` are the joins with menu, store and category. What an order
  names that has no row is drawn when it is placed (`missing`), and `SetStatus` is any of the
  handlers of `OrderLifecycle` that write the status of an order: it is over, or no longer
  (`over`). `Fetched` is the loop of
  `DBHelper::executeSelectMultipleRows`, which ends at a row that does not fit as at the last one;
  `ExecuteUpdate` is `DBHelper::executeUpdate`, whose false may hide an effect.
- **Framing.** `Send` writes header and body, `Arrive` brings any first part of what is under way,
  `Read` is a read to EAGAIN, `ReadEnds` each reason to end the connection there; `ExtractWaits`,
  `ExtractEnds`, `ExtractSkips` and `ExtractRoutes` are the four outcomes of a turn of the loop in
  `extractAndRoutePackets`. `Kick` is a ban's `close`, which leaves the buffer to the next client.
  `FrameChannel` knows frames by their number and `Kind` only (with a payload, empty, illegal):
  `Deliver` hands over the first frame with a payload that has not been, and none behind an
  illegal length; `End` needs a cause.
- **ConsoleClient.** The main thread of a program: `AskAndWait`, `TakeAnswer`, `Ask`, `Exit`,
  `Join`, `Leave`; its receiving thread: `ReceiverChecks`, `ReceiverGets`, `ReceiverFails`. Raw
  clients send and hang up as they like. `Handle` and `Answer` are a worker, `Notice` and `Ban`
  others, `Network` the epoll thread of `Framing`.
- **ImageStore.** The steps between the awaits of an upload (`Select`, `Save`, `Update`,
  `Delete`) and a download (`ReadPath`, `LookForFile`, and `OpenFile`, when the response is sent),
  plus `Crash` of the process at any of them. There are no menus at first: `Register` is
  `MenuService::registerMenu` of the TCP server, which stores the path the client sends, whether
  it is empty, names no file (`Strays`), or names one that another menu has or had (`Published`).
  A path stands for the file name it ends in, as `os.path.basename` takes it.

## 3. The checks

All runs finish within minutes on two cores. Every property of a passing run has a mutant in
`PROJECT.json` that violates it under the same bounds, so none of them holds for want of states.

| run | instance | states | what it shows |
|---|---|---|---|
| `pool` | 3 threads, 2 connections, 2 calls each, any of them forgetful | 9 538 | `OnePlace`: a connection is in one place only and never vanishes inside the pool. `NoLostWakeup`: while a thread sleeps, each idle connection has a thread on the way to it, although the notification comes after the unlock. `LeaseSpec`: the refinement. `EveryCallAnswered`: each call returns while one opened connection has not been dropped by its borrower |
| `workqueue` | 3 workers, 4 packets, a stop at any time | 2 108 | `DrainedOnExit`, `NoLostWakeup`, `DispatchSpec`: each packet once, in order, none left at the stop; `EveryPacketHandled` and `StopCompletes` without relying on spurious wake-ups |
| `orders_safety` | 2 workers, 1 order, 2 riders, 8 kinds of request, 4 requests, 1 failure | 1 175 892 | `SuccessIsEarned`: whoever is told of a success has changed the row, out of a status that did not forbid it when it was read (a rejection, which ignores the result, excepted). `EveryChangeAnnounced`: whatever status survives the interleaving was, or is about to be, announced. `RiderIsInformed`: the rider in the row was told |
| `placement` | 2 workers, 2 connections, 2 items, 2 requests of any of nine kinds, 2 failures, 1 exception, orders and stores that name rows that are not there | 476 664 | `WholeOrders`, `AnswersAreTrue`: all items or no order, and notices and answers that say which. `CleanSessions`: a connection goes back without a transaction. `ListsShowWhatWasTold`: what was confirmed to somebody is in every list asked for later, but for what the SELECT of the list leaves out and what a failure the code ignores has cost. `EveryRequestEnds`: although requests take up to four connections one after the other |
| `packets_safety` | 1 fd number, 2 connections, 2 senders, 3 frames, 1 full buffer | 230 263 | `NoTornFrames`: while mutexes and numbers come and go, frames to a live client do not mix |
| `connections` | 1 fd number, 3 connections, 2 users, 2 workers, 2 requests of five kinds | 321 091 | `NumbersMeanClients`: a session, a number that was looked up and the sender of an order mean the client they stood for, or a known step came between. `EventsAreSeen`: edge triggering loses no request and no end of file, although a worker may close the socket the epoll thread is looking at |
| `wire` | 1 fd number, 2 connections, 4 pairs of clients, headers of 2 units and payloads up to 3, lengths -1, 0, 1, 3, 4, 2 frames, 1 ban, 1 notice | 364 408 | `ChannelSpec`: the refinement of `FrameChannel`. `FramesArrive`: no frame that has arrived stays in the buffer for ever. `BelievesRightly`: a program that says it is logged in is. `ExitEnds`: a program told to exit ends as soon as the server sends or closes |
| `accounts` | 2 workers, 1 login, 7 kinds of request, 3 requests, 3 connections, 1 failure | 491 880 | `CodeUsedOnce`: a confirmation cannot be doubled, nor its entry replaced under it. `MailedCodeWorks`: a code in a mailbox works until it is replaced, used or old. `OwnerIsComplete`. `EveryRequestAnswered`: mutex and pool do not block each other while there is a connection to spare |
| `images` | 3 uploads on 2 menus that clients register with any path, 1 download, 2 failures or crashes | 467 263 | `PathHasFile`: the file of an upload is there as long as a row names it, unless two rows have shared it and it was replaced in one. `MissingMeansReplaced`: a download misses its file only for a replacement, or because a client made the path up. `ReplacedFileGoes` |
| `packets_partial`, `connections_kick`, `accounts_crypt` | as above, one property each | | the disagreements of section 4 |

### Bounds, and why they are enough

- Threads. Two workers show every race between two handlers; the pool and the queue have three,
  because their races need one thread that sleeps, one that was notified and one that overtakes
  it. A third worker in the other modules adds only a longer queue for the same mutex.
- Resources. Two connections for three threads (`pool`), so that threads sleep; two for two
  workers (`placement`), so that a connection passes from one order to the next while another is
  being written; three for two (`accounts`), because the code holds one connection while it
  waits for the mutex whose holder waits for another: the reserve is the point, and one leak
  uses it up.
- `MaxRequests`, `MaxSends`, `MaxConns`, `MaxItems`. Each race of the list of hazards needs two
  requests; a third and a fourth fall between any two steps of the first. Two connections on one
  fd number are one that leaves work behind and one that inherits it; the third of `connections`
  comes after a late log-in of the first met the second. One exception of `NumbersMeanClients`, a
  connection closed by a ban meant for another, takes three requests to occur; the run has two,
  for which the property holds without it, and the theorem covers any number.
- `HeaderSize`, `MaxPayload`. A header of two units can be cut in the middle; two short frames fit
  the buffer together, two of the largest do not fit with what is behind them; the lengths are
  both sides of each comparison in the code.
- `MaxFailures`, `MaxFull`, `MaxThrows`. One failure reaches each error path; `placement` has
  two, since the interesting order is one whose START TRANSACTION failed and in which a later
  statement fails too.
- `OldTables`, `NewRows`. No store, or two: one like any other, and one with a category that has
  no row and a name that does not fit the 100 bytes of a column; new rows have one of the two, or
  neither. `Sizes`, `Unmatched`. An order has two items, so that it can be cut between them, and
  names rows that are all there, or neither its store nor the menu of its first item, so that
  one list shows a part of it and another nothing.
- `Strays`. One name that no file has; two rows can share one by naming the same upload.
- `DbFails`. The statements of a ban and of the look-up of a member may fail, except in
  `connections_kick`, whose question is the race and not the failure.
- `Init` of `Accounts` has no account, a customer or an owner, which stand for longer histories.
- Symmetry is used in runs without liveness properties only.
- Deadlock is not checked: in every module the bounded input runs out, and then nothing is left
  to do. What must not block is a liveness property instead.

### Fairness

Weak fairness only, and only of what the code itself keeps doing: each pool thread's and
worker's next step, the opening loop of `init`, the epoll loop, the notifications and the join
of the destructor, and the threads of a console program. Nothing obliges a client to send, hang
up or wait, anybody to type, TCP to deliver what was sent, a code to expire, the
owner of the queue to push or stop, or the system to wake a thread spuriously. A handler is
assumed to return: client sockets are non-blocking and the database connections have timeouts.
Contended mutexes and the pool are covered by weak fairness because the number of requests is
bounded; against an endless stream of newcomers nothing in the code protects a waiter from being
overtaken, and no run claims it.

## 4. Findings

Each is a violation run: TLC finds the counterexample in what the code does.

- `packets_partial` (`NothingAfterPiece`). `writeAll` gives up when the socket buffer is full
  (`SocketIO.cpp:29-32`) although a part of the frame may be out. The connection is used on, and
  the next frame follows the piece. `tcp-server/ReadMe.md:72` calls it a defence against
  partial writes.
- `connections_kick` (`BannedIsKicked`). A login reads `is_banned`, the ban commits and looks
  the user up in the roster, the login enters its session. `README.md:38` promises that a banned
  user is thrown out.
- `accounts_crypt` (`HashIsOfPassword`). `crypt()` returns one static buffer and is called
  without a lock by eight workers; a registration may store another's hash, against the comment
  at `CustomerAuthService.cpp:36`.

The models also reach states that are not violation runs of their own. Some of them a document
comes close to ruling out, and is quoted with them; the others no document speaks of. The list
of hazards has their lines:

- an order that completed between the SELECT and the UPDATE of a cancellation becomes CANCELLED,
  and two refunds of one order can both succeed;
- after START TRANSACTION failed and the library reconnected, an order is written without a
  transaction, and a later failure leaves part of it; after COMMIT failed, customer and store are
  told of an order that may not exist;
- an owner whose second INSERT failed is told to have failed and can not register again, but can
  log in, without a store, and register one with packet 4940;
- every failing hash of a confirmation and every malformed item of an order takes a connection
  out of the pool for good; once the pool has no reserve left, a confirmation that holds
  `s_mutex` and a withdrawal that holds the last connection wait for each other;
- a reply goes to whoever is behind an fd number when it is written, a login that finishes late
  is entered under a number whose client has gone, and an order that is still queued when its
  client goes is carried out in the name of the next one on the number;
- the customers' program can never log in: the server answers with `USER_LOGIN_RES` (2008), and
  `user_client.cpp:159` expects `SC_LOGIN_RES` (101), against `tcp-server/ReadMe.md:26-34`;
- a program that takes the next packet for its answer takes a notice, or the answer to the former
  client of its number, for its own log-in;
- a program told to exit waits for its receiving thread, which waits for the server to say
  something;
- the first part of a frame of a client that was banned stays in the receive buffer, and the next
  client on the number starts behind it, against the exact framing of `tcp-server/ReadMe.md:149`;
- legal frames that arrive in one burst of more than 2 MiB end the connection
  (`ConnectionManager.cpp:152-155`), and requests that arrive together with the end of file are
  dropped (`:136`);
- one store or menu whose name is longer than 100 bytes (34 Korean characters) hides every row
  behind it from all lists; a list one of whose statements failed is answered with success; and
  opening or closing a store that does not exist succeeds (`StoreService.cpp:31-32`);
- an order that names a menu that is not there, or a store with a category that is not there (an
  id the client leaves out is stored as 0, `OrderService.cpp:31`, `StoreHandler.cpp:48`), is
  confirmed, and the joins hide its items, or the whole of it, from the lists;
- a menu registered with the path of another menu's picture loses it when that menu gets a new
  one, and one registered with a path that names no file never had one (`MenuService.cpp:16-22`);
  a file deleted between the check of a download and its opening ends in an error that is not
  the 404 (`menu_image.py:134-141`).

## 5. Where the properties carry exceptions

| property | exception |
|---|---|
| `SuccessIsEarned` | a rejection, whose UPDATE's result is ignored |
| `WholeOrders`, `AnswersAreTrue` | requests whose START TRANSACTION (`untied`) or COMMIT (`unsure`) failed |
| `ListsShowWhatWasTold` | lists with a failed statement (`cut`); lists of stores and menus with a row that is too wide; orders that are, or become meanwhile, COMPLETED or CANCELLED, in the owner's list (`over`); orders without a store or a menu that is there, in the administrator's, and items without a menu, in both (`missing`); stores without a category that is there (`known`), in the customers'; a store somebody has opened or closed since; `untied` and `unsure` orders; a flag whose INSERT failed (`unflagged`) |
| `PathHasFile` | a file whose path a client registered a menu with, and that an upload has replaced since in some row; paths that no upload wrote |
| `MissingMeansReplaced` | the same replacement, by an upload of another menu; paths that no upload wrote, at the check |
| `NumbersMeanClients` | late log-ins, connections closed by a ban, connections cleaned up |
| `NoTornFrames` | a client that is being disconnected, whose buffer filled up, or whose number was called for its predecessor |
| `ChannelSpec` | clients that inherit a buffer, flood it or send an illegal length |
| `BelievesRightly` | programs that took a packet meant for another (`misled`) |
| `EveryCallAnswered`, `EveryRequestEnds` | a pool all of whose connections its callers have dropped |

Each exception is a variable set by exactly the step named, so what is claimed is that
these are the *only* causes. Some of them are the very outcome of a hazard, which the code does
not prevent; there the property says how far the damage goes, and nothing holds against the
hazard itself. `SuccessIsEarned` lets an order be cancelled that was completed after it was
read, and refunded twice; `RiderIsInformed` speaks of the rider in the row, and neither of the
one it replaced nor of a cancellation; `BelievesRightly` leaves out the program that took a
notice for its answer; `ChannelSpec` leaves out the client that inherits a buffer, and counts
a burst beyond the limit as a cause; `OwnerIsComplete` says what a success is worth, and nothing
of the account that a reported failure leaves; `AnswersAreTrue` and `WholeOrders` leave out the orders
without a transaction; `ListsShowWhatWasTold` the list that was cut, and what the joins hide;
`PathHasFile` and `MissingMeansReplaced` the file that was shared. And `EveryRequestAnswered` is
checked where each worker finds a connection: the mutual wait of a confirmation and a withdrawal
behind an exhausted pool takes more requests than the run has. The hazards carry notes that say
so.

## 6. What is proved

TLAPS checks these for all values of the constants: any number of threads, workers, connections,
clients, frames, packets, orders, rows, uploads and failures. Every safety property of every
passing run is among them, and all three refinements.

| theorem | states |
|---|---|
| `PoolTypeOK`, `PoolSafety` | `TypeOK`, `OnePlace` always |
| `PoolNoLostWakeup` | `NoLostWakeup` always |
| `PoolImplementsLease` | `Spec => LeaseSpec` |
| `QueueTypeOK`, `QueueExactlyOnce` | `TypeOK`; `ExactlyOnce`: a packet is waiting, being handled or done, never twice |
| `QueueDrained`, `QueueNoLostWakeup` | `DrainedOnExit`, `NoLostWakeup` always |
| `QueueImplementsDispatcher` | `Spec => DispatchSpec` |
| `OrderTypeOK`, `OrdersSuccessIsEarned`, `OrdersAnnounced`, `OrdersRiderInformed` | the four invariants of `OrderLifecycle` |
| `QueriesTyped`, `QueriesCleanSessions`, `QueriesWholeOrders`, `QueriesAnswersAreTrue` | the invariants of `OrderPlacement`, with `Queries` on the same connections |
| `QueriesListsTrue` | `ListsShowWhatWasTold` always |
| `PacketsTyped`, `FramesStayWhole` | `TypeOK`, `NoTornFrames` always |
| `ConnectionsTyped`, `NumbersStayTrue` | `TypeOK`, `NumbersMeanClients` always |
| `AccountsTyped`, `AccountsMailedCodeWorks`, `AccountsOwnerIsComplete` | the invariants of `Accounts` |
| `AccountsCodeUsedOnce` | the action property `CodeUsedOnce` |
| `ClientsTyped`, `RightlyBelieved` | `TypeOK`, `BelievesRightly` of `ConsoleClient` always |
| `FramesWhole` | `Spec => ChannelSpec`: framing, with programs, workers and bans around it, implements `FrameChannel` |
| `StreamsWhole` | `FlowInv`: buffer, socket and wire of an fd number hold one stream of whole frames |
| `RequestsOnce` | `Once /\ Distinct`: a request is under way, queued, with a worker or answered, one of these and once |
| `RequestsGoOnward` | the action property `Onward`: no step takes a request back to a place it has left |
| `ImagesTyped`, `NamedFilesExist`, `MissingWasReplaced`, `ReplacedFilesGo` | the invariants of `ImageStore` |

**Assumptions.** `Threads` of the pool and `Workers` of the queue are finite and not empty, those
of `Accounts` and `OrderPlacement` finite; `PoolSize` and the bounds are natural numbers (an order
has at least one item); a header has a length, and a maximal payload is not shorter (four bytes
and a mebibyte in the code); the programs write legal lengths; `Forgetful \subseteq Threads`; there is a rider; "none" is no user, and
`NoRider`, `NoConn`, `NoPassword`, `NoImage` are none of what they stand in for; uploads and
downloads are different things, and a name a client makes up is that of no upload; the requests clients send are those the module knows. TLC evaluates all of them in the runs.

**The pool.** `OnePlace` is `Exclusive` and `Conserved`, which are not inductive: `OpenOk` pushes
a connection, and nothing in them says that it is a new one. `Fresh` adds that what is open has a smaller number
than the one being opened; `Inv` is `TypeOK`, `Exclusive`, `Conserved`, `Fresh`. `PingFail` and
`Release` push the thread's connection in the same way, which is one step of the proof that both
use. For the wake-ups, `WakeInv` adds `Startup` (while `init` runs no thread has called, so
nobody sleeps): then the count of idle connections against active threads is
compared before and after each action. A push raises both by one, because the releaser stays
active until it has notified; a notification that finds a sleeper moves the activity to it; one
that finds none makes the claim void. Refinement: a step is `Open`, `Grant`, `Return`, `Lose` of
the lease, or leaves it alone; `Exclusive` gives the guards.

**The queue.** `Inv` is `TypeOK`, `ExactlyOnce` and `Control`, which ties `stop` and `main` to
the workers that have left: without it a worker could leave while packets are queued, or
the join return before the drain. `begun` is defined from the state (`pushed - Len(queue)`),
and the proof maps each step to `Accept`, `Begin`, `Finish` or a stutter.

**The images.** `PathHasFile` rests on who may delete what: `ImageInv` says that the row and the file an
upload is about to change and to name exist (`SavedInv`), that a row and a path that was read name an
upload that will not write a row any more, of the same menu unless a client has registered
one with the path, the path that was read being current or replaced (`RowInv`,
`PathInv`), that an upload at its deletion is about to delete a path that was replaced, and that is
nowhere current unless it was registered (`DeleteInv`),
and that who replaced and who was replaced are past their UPDATE (`ReplacedInv`): file names are
unique per upload, so a replaced name comes back only if a client sends it. `ReadInv` says that a
download that looks for a file has read a path, and one that opens it the path of an upload.

**The orders.** `Control` says which request a worker can be handling where; `EffectInv` that a
worker past its UPDATE has changed the row, unless it rejects; `BarredInv` that a request that was
refused for the status it would find is refused still. The proof that a change is announced
follows the last writer: its notices are out, or it is on its way to them, and a later writer
takes the duty over.

**Placing and listing.** `Apart` says that a connection is with one worker or in the pool;
`Sessions` that nothing is pending outside a transaction, and that whoever may still start one has
none open; `Numbered` and `Counted` that no two requests share a number and that there is a number
for every order that may still be inserted (a cardinality argument); `Progress` what of an order
is where after how many statements, in the transaction or for all to see; `Outcome` that an order
that has failed so far is not there and one that has not is. For the lists, `Kept` says that what
was promised is in the tables, `Owes` that what a list owes is, `Announces` the same of what is
about to be promised, `Reads` and `ShowsRows` what a list has shown so far, with orders whose
items are not read yet shown empty. `Spoken`, a part of `Kept`, says that what owners were told of
their stores agrees with the rows, and that no order a list owes is over: whoever opens or closes a
store, or ends an order, takes what is no longer so out of what is owed, in the same step. `Grow`
is the other half: no step of anybody takes a row, an item, or an order's number back
(`OrdersGrow`, `TablesGrow`), so whatever a worker knows stays true while others write; the state
of a store is the one thing that changes both ways, and `OpenKept` says which steps leave it.

**Frames.** `Sockets` says that fd numbers and connections belong together one to one; `Locks`
that a mutex is held by one sender; `OneMutexPerClient` that whoever looked a mutex up for the
client that is still behind the fd has the one in the map, unless that client is being
disconnected; `Streams` that a client's stream is whole frames, with a header at its end exactly
while its sender is between the two writes. Whether a stream has an even or an odd number of parts
is what the lemmas on `Append` are about.

**Numbers.** `Arrived` says that an item in the queue or in a worker came from its client under its
number; `Closing` that the number being closed has no session; `LateIsGone` that whoever entered
late had been cleaned up; `LookedUp` that what a worker looked up was in the roster. Together they
give the three halves of `NumbersMeanClients`: the session, the target and the sender.

**Accounts.** `Control` says which requests come to which place; `Numbers` and `Fresh` that no code
is from the future, in two entries, or in one after it was confirmed; `Pending` that a code that
was mailed is in its entry unless it has gone; `Holding` that whoever confirms holds `s_mutex` and
the entry it found, and inside `crypt` and the INSERT a connection too; `Owners` what the two rows
of an owner say while the second is written and the answer is on its way. `CodeUsedOnce` is an
action property and follows from the invariant in the state before the step.

**The stream.** `ChannelSpec` says nothing of bytes, and its guards say that the frame that is
handed over is the next one: to take such a step, whatever is at the front of the buffer must be
that frame and whole. So the invariant has to know what is in the buffer, and what will come
behind it. `FlowAt` looks at buffer, socket and wire laid end to end. Each unit carries the number
of its frame and its place in it, and `Placed` says for each unit alone that it stands at its place
in its frame and what its neighbour is; nothing is summed up over the frames, which would take an
induction over data. `Complete` says that the stream of a client that can still send ends
with its last frame, `Upto` that the frames before the first unit are legal and have been handed over,
and those from it on have not. A read moves the border between socket and buffer and an arrival that
between wire and socket: the stream is the same, which is all that `\o` and its associativity are
needed for. A turn of the loop cuts a frame off the front, a hang-up, a ban or a disconnection
cuts off the end. `Sorted` (no unit twice, each connection's in order) is kept for the clients that inherit a
buffer too, of which the rest does not speak. `HandedSent` bounds the numbers in `delivered`, and
`Flood` makes the disconnection for a full buffer excused: more than `Limit` can only come by an
arrival, which notes it.

**The programs.** Whether a program believes rightly depends on no other answer being on its way than the
one it waits for. A request's way is followed by its token, the last unit of its frame: `InStream`,
`InQueue`, `InJob`, `InInbox`. `Once` and `Distinct` say that these exclude each other; a frame that is
routed loses its token, since `Sorted` lets no unit come twice. `Truthful` says that an answer
is to a request that was sent and that a success was entered; `Waits` that a program in its first menu
has nothing pending and one that waits has only its last request, unless it was `misled`. So the
next packet that is addressed to the program at all answers its last request, and if it is a
success, `Truthful` gives the claim. `Onward` is an action property and follows from the invariant in
the state before the step: what has left a place does not come back, although fd numbers and
buffers do. `Typed` is the type invariant and what else the steps need of
the parts (`Shape`, `Asked`).

**Only model-checked.** The liveness properties: `EveryCallAnswered`, `EveryPacketHandled`,
`StopCompletes`, `EveryRequestEnds`, `EventsAreSeen`, `FramesArrive`, `ExitEnds`,
`EveryRequestAnswered` (fairness and ENABLED are out of the prover's reach). Statements by
induction over data are out of reach too; the modules use no RECURSIVE operator. The
three violation runs are counterexamples and need no proof.

## 7. What the models take on trust

- MySQL: a statement executes atomically or not at all; a client that sees an error may or may
  not have changed the row; a lost session rolls back its transaction; `login_id` is unique (no
  schema is in the repository; `AuthHandler.cpp:142` relies on it); the image server commits
  every statement (`db.py:14`).
- The kernel: a closed fd number may be given to the next connection; edge-triggered epoll
  reports an event once and forgets it at the close.
- Sockets: a `close` of a socket another thread is blocked on neither wakes that thread nor sends
  a FIN until its `recv` returns.
- The client library: the server links libmariadb, whose `mysql_fetch_row` and
  `mysql_free_result` accept NULL.
- C++ threads: mutexes exclude, condition variables may wake spuriously and `notify_one` picks
  any waiter; no order of admission is assumed.
- `crypt(3)`: overlapping calls may return either result or a mixture.

## 8. What is not modelled, and why

- MessageRouter: a stateless switch that catches every exception; its effect (no answer, the
  worker goes on) is in the modules that need it. Start-up: its only state is the pool's.
- Administrators' log-in: the steps of the other log-ins on a table of its own (`admin_log`).
- Addresses and names, searches and statistics: single statements on rows no other operation reads
  in between. Refusals of requests with missing fields change no state.
- `ConsoleClient` has one worker for the log-ins and registrations of all clients, where the code
  has eight: the answers to two clients come in the order of their requests. A program has one such
  request under way at a time, and a late answer to the former client of its number is there too.
  Torn frames (`packets_partial`) do not reach its programs, which may however fail to read any packet.
- Broadcasts: a copy of the roster under its lock, then one send per target; each such send is
  `Send` of `ConnectionManager` with its stale number.
- `processPlaceOrder`, `processGetOrderList` and `assignRider` are never called.
- The image server's checks of extension, size and owner and its start-up change no state; its
  static mount opens files without the database. A registered `img_path` that ends in a slash names
  the upload directory itself, and is left out.
- The destructor of the pool runs only at process exit; `totalProcessed_` is only printed.
- `InMemoryUserRepository`, `protocol.hpp`, `HttpClient` and `json.hpp` are a fixture, constants,
  a thin wrapper of a library and a vendored library. The last has 25 526 lines, more than three
  quarters of the repository; of the rest, about 7 100 lines, the map names half.

## 9. What could come next

1. Administrators' log-in, with its own table.
2. Broadcasts with several fd numbers: a copy of the roster that is stale in more than one place.
3. Proofs of action properties next to the invariants of the other components, as `Onward` is one of
   the programs': what no step of a worker takes back from orders, accounts and files.
