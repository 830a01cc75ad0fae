# Verification of chat_api_server

TLA+ models of the chat server (C++, Boost.Asio/Beast, pqxx, jwt-cpp), TLC
configurations that check them on small instances, and proofs, checked by
TLAPS, that every safety property of those runs holds for every number of
workers, connections, requests and messages.

## The system

`main.cpp` builds an `io_context` run by one thread, a `ThreadPool` of 150
workers, a `TcpServer` (chat, port 12345) and a `RestServer` (accounts, port
8080). Each server accepts clients in the io_context thread and enqueues a task
per accepted client; a worker runs the task with blocking reads and writes. Both
servers call the singleton `DatabaseManager`, which borrows one of 150
connections from `ConnectionPool` for each call.

    io_context thread --accept--> TcpServer / RestServer --enqueueTask--> ThreadPool
    worker: handleClient / handleRequest --> handlers --> DatabaseManager --> ConnectionPool
                                      \--> clients_ under clientsMutex_ (TcpServer)

| component | state | operations | what is hard | what makes it correct |
|---|---|---|---|---|
| ThreadPool | `tasks`, `stop`, `queueMutex`, `condition`, threads | constructor, enqueueTask, workerThread, destructor | wait/notify against push, stop and spurious wakeups; shutdown with work queued | each task runs once and in order; no lost wakeup; the destructor drains and returns |
| ConnectionPool | `pool_`, `mutex_`, `condition_` | getConnection, releaseConnection | the same, and connections that are never given back | exclusive loans; no lost wakeup; nobody waits while the pool is large enough |
| DatabaseManager | the instance and its once-flag; per connection the transaction registered with the object and the transaction of the session | 21 methods with the same envelope, three more that call executeQuery | failures at each statement; the connection is released before the transaction is closed | a call's result tells what is stored; connections come back; calls end |
| TcpServer | `socket_`, `clients_`, `clientsMutex_` | doAccept, handleClient, processMessage, seven handlers, three senders | one socket object shared by listener and workers; the mutex held across database calls | an accepted client is served; what is sent reaches its recipient; handlers end |
| RestServer | the tables behind it | handleRequest, routed handlers, token check | check-then-act across transactions; partial failure | races leave few duplicates; tokens and statuses agree with the tables; requests are answered |
| Message framing | the bytes read and not yet handled | handleClient's read loop | segments cut and joined by TCP; several workers on one connection | no message handled twice; none lost that the client sends alone |
| main | the objects of the process | construction, run(), unwinding | tasks that outlive the objects they use | lifetimes nest around the join; the process ends |
| Utils | - | generateToken, checkPassword, hashPassword | - | as used by RestServer |
| Database schema | external | - | not in the repository | a unique constraint on `users.email` is an assumption (`UniqueEmail`) |

### Reading of the source

This commit does not compile as it stands: `TcpServer::isTokenValid` is defined
with one parameter (TcpServer.cpp:284) and declared and called with two,
`user` and `userId` are declared twice in one scope (lines 140 and 151), and
`~DatabaseManager` is private to the `unique_ptr` that owns it. The models read
the source with the smallest repairs that make it compile: the second parameter
added, the second pair of declarations made assignments, the destructor made
reachable. None changes the order of calls.

Functions that run off their end (`getMessages`, `getUserById`) return
something undefined: the caller may see any result, which the models represent
by a free choice. Unsynchronised access to the socket object by the io_context
thread and the workers is modelled with atomic `open`, `close` and `is_open`,
the outcomes the library can produce on one flag.

Columns that a query does not select make pqxx throw when they are read:
`getUserByEmail` throws whenever the user exists, and so do the three methods
that list friends, on their first row. `getRoomById` is refused by the database
(a comma is missing). `updateFriendRequest` uses its transaction after the
commit and throws after having stored the relation.

## Modules

| module | models | correspondence |
|---|---|---|
| `Monitor` | std::mutex and std::condition_variable | external: what the C++ standard guarantees, spurious wakeups included |
| `TaskQueue` | what ThreadPool promises | abstract specification: tasks start in order and once, termination only when closed and drained |
| `ThreadPool` | ThreadPool.cpp, the main thread | one action per atomic step: `Enqueue`/`EnqueueNotify`, `Stop`/`StopNotify`/`Join`, and for a worker `Acquire`, `Check`, `Sleep`, `Wakeup`, `Exit`, `Take`, `Return` |
| `ServerLifecycle` | main.cpp, `getInstance` and its call_once, RestServer's constructor and accept loop | EXTENDS ThreadPool: main's steps in the order of declarations and unwinding, and inside a running task the objects it uses; everything else in it is a step of ThreadPool |
| `ConnectionLeases` | what ConnectionPool promises | abstract specification: a connection is free, leased to one worker or lost |
| `ConnectionPool` | ConnectionPool.cpp | getConnection split at its lock, predicate and wait; `ReleaseConnection` whole, since it notifies under the lock; `Drop` when a caller lets the pointer go |
| `ConnectionBudget` | what DatabaseManager is to its callers | abstract specification: a number of connections, taken, given back or lost; implemented by `DatabaseManager`. The counters of connections in `TcpServer` and `RestServer` are this budget by definition, which is what the refinement entitles them to |
| `DatabaseManager` | DatabaseManager.cpp | EXTENDS ConnectionPool; `Call`, `Connect`, `Begin`, `Exec`, `Commit`, `Release`, `Return` are the lines of the common envelope, `Throw` its catch clause, `Unregister` and `Rollback` the two halves of the destructor of a transaction that was not committed; what differs between methods is in the sets `Committing`, `Malformed`, `QueriesAfterCommit`, `ConvertsLate`, `WritesTwice`, `FallsOffEnd` |
| `TcpServer` | TcpServer.cpp | listener, read loop, one action per handler outcome; a handler is the list of its calls (`CallsOf`), database calls and senders; the database is reduced to the number of connections in its pool |
| `TcpDelivery` | the same, with its senders | EXTENDS TcpServer with a record of who connected where and who was written to |
| `MessageStream` | handleClient's read loop on one connection | positions in the byte stream instead of bytes; `ReadSome` takes what there is, up to the buffer; `Process` or `ParseError` as the chunk is one message or not |
| `RestServer` | RestServer.cpp and the tables it uses | one action per database call of each handler, two for `updateFriendRequest`; `AnswerError` for early returns, `CallThrows` for calls that throw and lose their connection |
| `ThreadPoolProofs`, `ConnectionPoolProofs`, `DatabaseManagerProofs`, `TcpServerProofs`, `TcpDeliveryProofs`, `RestServerProofs`, `MessageStreamProofs`, `ServerLifecycleProofs` | - | the proofs about the module each is named after, which it EXTENDS |
| `MC...` | - | instances and symmetry sets for TLC |

In each module the operators introduced as "Mutant" are plausible mistakes in
the definition that follows them; they are not part of the specification. Each
property is checked to fail when one of them takes that definition's place.

The critical sections of a worker are split where other threads can observe
something: the mutex is taken in one step, the predicate evaluated in another,
and so on. Critical sections without a blocking call inside (`enqueueTask`,
the destructor's, `releaseConnection`, `handleConnect`) are one step, guarded by
the mutex being free. `notify_one` after the unlock is a step of its own.

In DatabaseManager a transaction exists twice: registered with its connection
object (`work`; pqxx refuses a second one meanwhile), and in the session, from
BEGIN to COMMIT or ROLLBACK (`inTransaction`, `writes`). A method that only reads
releases its connection inside the try block (line 146, say) with its `pqxx::work`
alive. The destructor runs later, unregisters first (`Unregister`) and sends
ROLLBACK then (`Rollback`). Another worker may have taken the connection: before
`Unregister` its `Begin` has only `Throw` left; between the two it may begin,
execute and even commit, and the ROLLBACK ends whatever transaction the session
is in by then. `disturbed` records who was hit that way and appears in no guard.

Two threads then use one `pqxx::connection` without a lock, which is undefined.
The model takes the commands they send to reach the session whole and one at a
time; any command may fail, and a ROLLBACK sent while another worker has the
connection may also be lost. Worse outcomes of the race are not modelled, and what
the proofs say holds of executions without them.

In TcpServer a worker blocked in `read_some` is blocked on the connection that
`socket_` was open on when it called (`from`); closing and reopening the object
does not move it. `async_accept` refuses an open object, so `DoAccept` leaves no
accept outstanding unless the object is closed; the busy loop of immediate
`already_open` completions is a stutter.

ServerLifecycle splits a task into waiting for its client, `getInstance`, and
the use of the database; `std::call_once` is a flag that is free, held or set,
and freed again when the constructor throws. The pool's own steps are ThreadPool's
actions, so `ImplementsThreadPool` (fairness included) carries its properties
over, and `EveryTaskStarts` and `ImplementsTaskQueue` are checked in the whole
process. The objects alive are a set. RestServer's tasks own their socket and
touch no member of the server; TcpServer's do, and `TasksUseLiveObjects` says
when its members can be gone: inside the destructor of the pool only. That a
task may be running then is the state of the source, not excluded by anything.

MessageStream has no JSON: a chunk parses exactly if it is one whole message,
which is so when messages are flat objects. `crowded` records the messages that
were in the kernel in part or together with others, which is what a client can
avoid by waiting; it appears in no guard.

RestServer takes a database call that returns as stored, which is what
`ResultTellsStored` gives with its exception: what it says of rows and statuses is
about executions in which no transaction was hit by another call's ROLLBACK
(finding 3). The email `handleLogout` decodes is not verified, so a string the
server did not sign may name any user (`SetOffline`), and nothing keeps a user
from inviting himself (`Pairs`).

In RestServer an invitation is a read (`SelectRelation`) and a write with its
commit (`StoreRelation`) of one read-committed transaction. Users are named by
the request's body, not by its token, and the row is stored accepted at once. The
query after the commit always throws, so the answer is an error and the
connection is lost. Constraints the schema may have on relation_user are covered
by `CallThrows`.

## Runs

| run | instance | shows |
|---|---|---|
| `ThreadPoolSafety` | 3 workers, 4 tasks | type, `IndInv` (the invariant of the proofs), `NoLostWakeup`, `StopReachesAll`, `ExactlyOnce`, `DestructorDrains`; no deadlock |
| `ServerLifecycle` | 2 workers, 3 tasks, task 2 hangs | type, `SingleDatabase`, `TasksUseLiveObjects`, `GetInstanceEnds`, `MainReturns`, `EveryTaskStarts`, refinement of `ThreadPool` and of `TaskQueue`, both with fairness |
| `ConnectionPool` | 3 workers, 3 connections | type, `ExclusiveLoans`, `PoolNoLostWakeup`, `WaitsOnlyWhenShort`, refinement of `ConnectionLeases` |
| `DatabaseManager` | 2 workers, 3 connections, 4 methods | type, `ResultTellsStored`, `WritesStayWithHolder`, `OnlyErrorsLoseConnections`, `CallsEnd`, refinement of `ConnectionBudget` |
| `DatabaseLostWrites` | 2 workers, 2 connections, a read and a write | violation of `ReturnedMeansStored` (finding 3) |
| `DatabaseErrors` | 2 workers, 2 connections | violation of `ErrorsReleaseConnections` (finding 1) |
| `TcpServer` | 2 workers, 3 clients, 1 user, 2 connections | type, `OpenSocketIsServed`, `StuckForGood`, `AcceptsWhenClosed`, `HandlersReturn` |
| `TcpServerStarvation` | 2 workers, 2 clients | violation of `EveryClientIsAccepted` (finding 2) |
| `TcpMisdelivery` | 2 workers, 2 clients, 2 users | violation of `SentToRecipient` (finding 4) |
| `RestServer` | 2 workers, 2 emails, 4 requests, 3 connections | without the unique constraint: type, `AccountsAreBounded`, `SignedInUsersHaveStatus`, `DuplicatesAreBounded`, `RequestsAreAnswered` |
| `MessageStream` | 4 messages of 2, 1, 3, 1 bytes, buffer of 2, 2 readers | type, `HandledOnceInOrder`, `LossNeedsCrowding`, `AloneIsHeard` |
| `MessageFraming` | the same | violation of `EveryMessageIsProcessed` (finding 5) |

### Bounds

* `MaxTasks` 4 with 3 workers, 3 with 2: more tasks than workers, so that the queue
  fills while all workers are busy, and enough for two pushes to precede one
  wakeup. The proofs remove this bound.
* In `ConnectionPool`, `poolSize_` equals the number of workers, the proportion of
  main.cpp and DatabaseManager.cpp:30 (150 and 150): connections are short exactly
  when some were lost, and any number may be lost. `DatabaseManager` has one
  connection more, so that `CallsEnd` asks for progress after a loss too.
* Methods in `DatabaseManager`: `getPasswordHash` stands for the reads, with its
  late conversion; `getRoomById` for a statement that is refused; `registerUser`
  for the methods that commit, with its two statements; `updateFriendRequest`
  for the query after the commit. A released connection goes to the end of the
  queue: another worker gets it only when those before it were taken or lost. With
  the two connections of `DatabaseLostWrites` that is soon; with 150 it needs a
  pool that is nearly empty, by load or by the losses of finding 1.
* Three client connections in `TcpServer`: a worker can be left reading the
  second one while a stale worker closes it and the listener opens the third.
  `clients_` needs no bound: it is the set of emails that list the socket object,
  since all entries are that one object.
* Two database connections in `TcpServer`: a handler that loses one
  leaves one, so that progress is asked with and without losses.
* Four requests in `RestServer`: two racing registrations, a login and a use of
  the token; or a registration, two racing invitations of a pair and a third,
  which would find a second way to insert. Three database connections, since
  every invitation loses one: with two the third could not run.
* `MessageStream`: a message longer than the buffer between shorter ones, one of
  the buffer's size and one (2) whose token does not verify, so that the reader
  that handles it closes the socket while the other is reading.
* `ServerLifecycle`: three tasks for two workers, so that one is queued when the
  destructor starts; failures of the database's constructor are not bounded.

### Fairness

* ThreadPool: weak fairness of each thread's own steps, which
  stands for a scheduler that runs runnable threads. A spurious wakeup, a new
  task or a call is never forced. `Return` is fair only for tasks not in
  `Hanging`.
* DatabaseManager: the database answers, hence weak fairness of the steps of a
  call; strong fairness of taking the pool's mutex, which others keep taking
  and releasing. While there is a connection for each worker none ever waits for
  one, so no fairness of the condition variable is assumed.
* TcpServer: weak fairness of the listener and of each worker, strong fairness
  of taking `clientsMutex_` and a database connection. Clients owe nothing: they
  may connect, be silent or leave at any time.
* RestServer: strong fairness of each handler's steps, since the connection a
  call waits for may be taken by others again and again. Requests are not forced.
* ServerLifecycle: weak fairness of main and of each worker, strong fairness of
  the destructor's steps, which compete with workers for `queueMutex`. Nothing
  makes clients come, `run()` end, or a task need the database.
* MessageStream: weak fairness of each reader. The client may stop anywhere.

CHECK_DEADLOCK is off where the system may rest: no client connects any more,
every connection is lost, the client's stream has ended, or a hung task holds up
the destructor. In
`ThreadPoolSafety` it is on: the pool must always reach the end of the
destructor.

## Findings

1. `handleError` always throws (DatabaseManager.cpp:608-611), so the
   `releaseConnection` after it in every catch clause is dead code and each
   failing call loses a connection. Lines 66 and 137 say it is released.
   `WaitsOnlyWhenShort` and `CallsEnd` show what the loss costs: with none lost
   nobody ever waits, and with every one lost one more worker may wait for ever.
2. `TcpServer` accepts into the one object `socket_`, which stays open when its
   client leaves (TcpServer.cpp:48). From then on `async_accept` fails at once,
   for ever (`StuckForGood`), although line 36 says "Continue to accept new
   connections". What closes the object is a message with an invalid token, or a
   connect message that `handleConnect` throws on (line 112); neither is what a
   client that leaves sends. Even before, while the first client is merely
   silent, its open object keeps every other client out.
3. A method that only reads releases its connection before the destructor of its
   transaction sends ROLLBACK (DatabaseManager.cpp:146 and the other reads). A
   worker that took the connection meanwhile has its statements rolled back, its
   COMMIT raises a warning only, and its call returns as if they were stored,
   although line 55 says that the transaction is committed when the function
   exits. `ResultTellsStored` and `WritesStayWithHolder` say what is safe: nothing
   of a transaction that was not hit is lost, and no call commits for another.
   Since the release comes too early only in methods that do not commit, writers
   among themselves are safe (`WritersAloneAreTrue`).
4. Every entry of `clients_` is the one object `socket_` (TcpServer.cpp:33, 106),
   so what is sent to a user goes to the client that was accepted last, whoever
   that is; line 214 says it is sent "to the clients in the same room". The run
   takes the outcome of `getUserById` in which the caller gets the row: in any
   other nothing is ever sent.
5. What one `read_some` returns is parsed as one message (TcpServer.cpp:47-53).
   Fragments and messages that arrive together are dropped, although line 10
   says the server "processes the messages received from the clients".
   `LossNeedsCrowding` and `AloneIsHeard` say what is safe: a message that arrives
   in one piece when nothing else is unread.

Facts that need no run: `handleLogout` says "Invalidate the token"
(RestServer.cpp:289), but nothing ever reads `token_blacklist`. And the models show
without a sentence in the repository to set against: an invitation is always stored and always answered with an error, and
each request to users, messages, invite or accept-invite costs a database
connection for ever (`RequestsAreAnswered` holds only until the last is lost). And
`handleDisconnect` would deadlock with itself at TcpServer.cpp:165, where a sender
locks the mutex the handler holds; `HandlersReturn` holds because
`getUserByEmail` throws before.

## Proofs

Every safety invariant that a passing run checks is a theorem, and so are the
action properties and the safety part of the refinements. A proof has the same
shape throughout: an inductive invariant, which holds initially (`...Init`) and
is kept by every action (one step per action, one lemma per conjunct), and the
properties as its consequences. Each inductive invariant was model-checked on
the instances of the runs before it was proved; `IndInv` of the thread pool is
also checked by its run.

| module | theorems |
|---|---|
| `ThreadPoolProofs` | `Safety`, `TypeCorrect`, `TasksRunExactlyOnce`, `WakeupsAreNotLost`, `StopWakesEveryone`, `ShutdownDrains`, `Implementation` (of `TaskQueue`) |
| `ServerLifecycleProofs` | `LifeSafety`, `LifeTypeCorrect`, `OneDatabaseIsBuilt`, `ObjectsOutliveTasks`, `ProcessRunsThreadPool` |
| `ConnectionPoolProofs` | `PoolSafety`, `PoolTypeCorrect`, `LoansAreExclusive`, `PoolWakeupsAreNotLost`, `WaitingNeedsLosses`, `PoolImplementsLeases` |
| `DatabaseManagerProofs` | `DbSafety`, `DbTypeCorrect`, `NoForeignCommit`, `ResultsAreTrue`, `WritersAloneAreTrue`, `PoolInDatabase`, `OnlyThrowsLose`, `DbImplementsBudget` |
| `TcpServerProofs` | `TcpSafety`, `TcpTypeCorrect`, `OpenConnectionsAreServed`, `RegistryIsNotRelocked`, `StuckIsForGood` |
| `TcpDeliveryProofs` | `DeliverySafety`, `StrangersAreNotWrittenTo` |
| `RestServerProofs` | `RestSafety`, `RestTypeCorrect`, `AccountsBounded`, `RegistrationSucceedsOnce`, `SignedInHaveStatus`, `DuplicatesBounded` |
| `MessageStreamProofs` | `StreamSafety`, `StreamTypeCorrect`, `MessagesAreHandledOnce`, `OnlyCrowdedMessagesAreLost` |

### Assumptions

* The set of workers is finite where something is counted (main.cpp:16 asks for
  150 threads), and the marks for "nobody" (`NoThread`, "free", "set") are not
  workers.
* Bounds of the runs (`MaxTasks`, `MaxConnections`, `MaxRequests`) and sizes are
  any natural numbers. The proofs do not assume that the pool has a connection for
  each worker; `WaitsOnlyWhenShort` says how many must be lost, whatever both are.
* `UniqueEmail`, the constraint the schema may have on `users.email`, may hold
  or not; only `OneRegistrationSucceeds`, which no run checks since the repository has
  no schema, has it as a premise.
* Messages have at least one byte and the buffer too (`StreamAssumption`).

### ThreadPool

None of the five properties is inductive alone. `ControlOK` adds what the lock
and the flow of control imply: the mutex is owned by exactly the worker between
lock and unlock; sleepers are inside `wait`; `stop` is the main thread's position
in the destructor; and a worker that found the queue empty and not stopped still
finds it so when it goes to sleep, because it has held the lock since. The last
point is what `StopReachesAll` and `NoLostWakeup` need at `Sleep`: no task is
queued then, so the inequality holds although one worker fewer is awake. At
`Enqueue` the queue grows by one and so does the right-hand side
(`main = "notify"`); at `EnqueueNotify` the pending notification becomes an awake
worker, or nobody sleeps; at `Take` both sides lose one. The cardinality steps
rest on FiniteSetTheorems. `ExactlyOnce` numbers the queue from the tasks
already taken, which makes `Take` and `Return` arithmetic; `DestructorDrains`
follows from it and from `ControlOK`, which says that a worker leaves only when
the queue is empty.

### ServerLifecycle

Every step of the process is a step of the pool or leaves the pool alone
(`PoolSteps`), so `ProcessRunsThreadPool` gives it `IndInv` and everything above.
`CalledOnce` is the flag of `std::call_once`: a worker is in the constructor
exactly if it holds the flag, and an instance was built exactly if it is set.
`Lifetimes` says which objects are alive at each line of main's unwinding. What
makes the lifetimes safe is the lemma `Joined`: once main has joined, the
pool's invariant says that nothing is queued and every worker is gone, so that
what is destroyed afterwards has no user left. `tcpServer`, destroyed before the
join, is the exception `TasksUseLiveObjects` names.

### ConnectionPool and DatabaseManager

`WaitsOnlyWhenShort` says that whoever waits does so in a pool from which
connections were lost. It is not inductive, since the worker that waits and the
connections on loan change at different times. `LeftAreFew` replaces it: while
someone waits, the connections not lost (in the pool or on loan) are fewer than
the workers. A loan or a return leaves that sum alone, a loss lowers it, and at
`Sleep` it follows from the pool being empty and the caller itself not holding
one. `PoolControl` is the analogue of `ControlOK`.
`PoolImplementsLeases` maps a connection to free, lost or its borrower.

All that DatabaseManager does to the pool are steps of `ConnectionPool`
(`DbPoolSteps`), so `PoolInv` holds in it for nothing (`PoolInDatabase`).
`DbInv` adds three things about a worker's transaction. `Registered`: between
`Begin` and `Commit` the connection it holds has its transaction registered, so a
stale destructor can only be past `Unregister`. `InOwnTransaction`: the session
is in a transaction meanwhile, which has all the statements executed so far.
`StoredSoFar`: nothing of the call is stored before its commit, and all of it
after. The last two hold unless another call's ROLLBACK came in, which is what
`disturbed` records; the hard case is `Rollback` by a worker whose former
connection somebody else now holds. `WritesStayWithHolder` is needed at `Commit` and
`Rollback`: what they store or discard belongs to the one worker that holds the
connection. `WritersAloneAreTrue` is the same invariant with `disturbed` and `closing`
empty, which they are while every method called commits.
`OnlyThrowsLose` and `DbImplementsBudget` rest on `PoolInv`: since loans are
exclusive, a connection leaves both the pool and the loans only by a drop.

### TcpServer

`OpenSocketIsServed` needs `AcceptsOnlyClosed`: an accept is outstanding only
while the socket object is closed, so an accept that completes never replaces a
connection somebody reads. `WithinBudget` (available and borrowed connections
are at most the pool's size) makes `CallReturns` stay in the type. `HolderIsAboutToThrow` is what
`RegistryIsNotRelocked` states of the code: a worker that keeps `clientsMutex_`
across a database call is in handleDisconnect, before `getUserByEmail`, which
always throws; the second lock of the same mutex further down is never reached.
The theorem stops holding on the day `getUserByEmail` selects the column it
reads, as the mutant of `HandlersReturn` shows.

`TcpDelivery` only adds a record to these steps, and is a `TcpServer` by
construction. Finding 4 says that a message may go out on the wrong
connection; `StrangersAreNotWrittenTo` is what remains true: it is sent only for
users who said connect themselves. The invariant follows an email from the
connect message (`ConnectsAreRecorded`) to the registry and to the write.

### RestServer

Handlers of different requests race between their check and their insert, so
nothing a handler has checked is still true when it inserts. What is true is a
sum: what a table counts and what the workers under way may still add
to it. `UsersBounded` (rows of an email, and workers that may still insert one,
at most the requests), `AccountsAreBounded` (the same, at most the workers: once
there is a row nobody new gets past `emailExists`), `RegisteredBounded` (successes and workers that may still
answer one, at most the rows), `RelationBounded` and `LostBounded` (lost
connections and workers in a transaction, at most the pool) are of that form.
`CountChange` is the lemma about cardinalities they all use: one worker at most
changes kind in a step. `OneRegistrationSucceeds` is then `RegisteredBounded`
with `RowsAreUnique`. `DuplicatesAreBounded` adds to the rows of a pair, in either
direction, the workers between select and insert of it; once there is a row
nobody new gets there, so the sum never exceeds the number of workers.
`SignedInUsersHaveStatus` needs `HasRow`: past its check, a handler's user has a
row, because rows are never deleted.

### MessageStream

Who hears what is ordered by the bytes: `ChunksApart`, `HeardWasRead` and
`HeardApart` say that the chunks in the workers' hands and the messages handled
are disjoint intervals below `read`, and that a worker's chunk comes after all it
handled itself. `HandledOnceInOrder` follows at `Process`. `LossNeedsCrowding`
is the consequence of `UncrowdedIsKept`, in which a message that is not crowded is
still to come, alone in the kernel, or read in one piece and handled or in hand.

`Ends`, the position where each message ends, is a recursive function, and that
it satisfies its equation and grows must be proved by induction. The library's
induction theorems take an operator as parameter, which the provers cannot
instantiate. `SetInduction` is induction about a set of numbers instead, proved
from the well-foundedness of the order on Nat (WellFoundedInduction); with it
`EndsExists`, `EndsDef` and `EndsGrow` follow as usual.

### Only model-checked

* Liveness and fairness, which the prover does not reach: `CallsEnd`,
  `AcceptsWhenClosed`, `HandlersReturn`, `RequestsAreAnswered`,
  `GetInstanceEnds`, `MainReturns`, `EveryTaskStarts`, `AloneIsHeard`, and the
  fairness conditions inside `ImplementsTaskQueue` and `ImplementsThreadPool`.
* The counterexamples of the findings, which are behaviours of an instance.

## Plan

In order:

1. done: `Monitor`, `TaskQueue`, `ThreadPool`, `ThreadPoolProofs`,
   `ConnectionLeases`, `ConnectionPool`, `ConnectionBudget`, `DatabaseManager`,
   `TcpServer`, `TcpDelivery`, `MessageStream`, `RestServer`, `ServerLifecycle`.
2. done: proofs of every safety property of the runs, of the action properties
   and of the safety part of each refinement.
3. Next: that a call of `DatabaseManager` that meets no error gives its
   connection back; `RestServer` with transactions that another call's ROLLBACK
   may undo.

## Not modelled

* The progress of an `async_write`: two may be in progress on one socket, and the
  buffer refers to a string the caller destroys. What the client then receives
  is undefined, and there is nothing to check of it; `TcpDelivery` follows where
  writes go.
* The RestServer handlers that no route reaches (`handleGetFriend`,
  `handleGetPendingInvitedFriend`, `handleGetFriendIniviteRequest`,
  `handleAcceptInviteFriend`) and `broadcastMessage`, which nothing calls: no
  state of the program enters them.
* A thread that cannot be created in ThreadPool's constructor, which ends the
  process through `std::terminate`.
* A reset connection in `MessageStream`: bytes are then lost by TCP, not by the
  server (`TcpServer` has the reset, `ReadEnd`).
* The tables behind `saveMessage`, rooms and messages: no routed handler gets
  an answer out of them that depends on an interleaving.
* What else two threads on one `pqxx::connection` may do (see Modules).
* HTTP parsing, JSON fields, SQL text, token signatures, and wording of answers.
