------------------------------- MODULE TcpServer -------------------------------
(***************************************************************************)
(* TcpServer.cpp: the chat server.  The io_context thread accepts clients, *)
(* always into the one socket object socket_, and enqueues a handleClient  *)
(* task for each; the worker that runs the task reads messages from        *)
(* socket_ until the client is gone and handles them one by one.           *)
(*                                                                         *)
(* A client connection is its number in order of arrival.  A message is    *)
(* its type and the email its token was issued for.  Of the database only  *)
(* the number of pooled connections is kept: a method blocks when there is *)
(* none, and loses the one it took when it throws (see DatabaseManager).   *)
(***************************************************************************)
EXTENDS Naturals, Sequences, FiniteSets

CONSTANTS
  Workers,         \* the threads of the pool
  NoThread,        \* the owner of a free mutex
  Emails,          \* the users
  MaxConnections,  \* bound on the client connections
  poolSize_        \* the database connections

ASSUME ServerAssumption ==
  /\ IsFiniteSet(Workers) /\ NoThread \notin Workers
  /\ MaxConnections \in Nat /\ poolSize_ \in Nat

VARIABLES
  arrived,        \* how many clients connected to the port
  gone,           \* the connections closed or reset by their client
  accepted,       \* how many of them the server accepted
  accepting,      \* an async_accept is waiting for a client
  socket_,        \* the connection the socket object is open on, or 0
  queued,         \* the handleClient tasks not yet started
  workers,        \* where each worker is
  from,           \* the connection each worker is blocked on
  message,        \* the message each worker has to handle
  calls,          \* the database calls left to each handler
  clients_,       \* the emails that list the socket object, once or more
  clientsMutex_,  \* the owner of the mutex
  available       \* database connections in their pool

listenerVars == <<arrived, gone, accepted, accepting, socket_, queued>>
handlerVars == <<from, message, calls>>
sharedVars == <<clients_, clientsMutex_, available>>
vars == <<listenerVars, workers, handlerVars, sharedVars>>

(* "typing" stands for stopTyping too; Other is what is handled without    *)
(* effect: messageReceipt, an unknown type, what is not JSON or lacks a    *)
(* field.  Unverified is what closes the socket: a message of any type     *)
(* whose token does not verify, or a connect message handleConnect throws  *)
(* on, since its catch clause closes the socket too.                       *)
Other == [type |-> "other"]
Unverified == [type |-> "unverified"]
NoMessage == [type |-> "none"]

Messages ==
  [type : {"connect", "disconnect", "message", "typing", "userStatus"}, token : Emails]
    \union {Other, Unverified}

(* What the handler of each type calls, in order.                          *)
Sends == {"sendMessageToClient", "sendMessageToMultipleClients"}

CallsOf(type) ==
  CASE type = "disconnect" -> <<"getUserByEmail", "updateUserStatus", "getUserByEmail",
                                "getFriends", "sendMessageToMultipleClients">>
    [] type = "message" -> <<"getUserByEmail", "getRoomByUserIds", "saveMessage",
                             "getUserById", "sendMessageToClient">>
    [] type = "userStatus" -> <<"updateUserStatus", "getUserByEmail", "getFriends",
                                "sendMessageToMultipleClients">>
    [] type = "typing" -> <<"getUserById", "sendMessageToClient">>

(* Mutant: getUserByEmail selects user_id and returns the user.            *)
NothingFails == {}

(* getUserByEmail reads a column that it did not select, and throws when   *)
(* the user exists, as the user of a token does.                           *)
AlwaysThrow == {"getUserByEmail"}

Init ==
  /\ arrived = 0 /\ gone = {} /\ accepted = 0
  /\ accepting = TRUE /\ socket_ = 0 /\ queued = 0
  /\ workers = [w \in Workers |-> "idle"]
  /\ from = [w \in Workers |-> 0]
  /\ message = [w \in Workers |-> NoMessage]
  /\ calls = [w \in Workers |-> <<>>]
  /\ clients_ = {}
  /\ clientsMutex_ = NoThread
  /\ available = poolSize_

------------------------------------------------------------------------------
(* The clients                                                             *)

Arrive ==
  /\ arrived < MaxConnections
  /\ arrived' = arrived + 1
  /\ UNCHANGED <<gone, accepted, accepting, socket_, queued, workers, handlerVars, sharedVars>>

(* A client that leaves before it is accepted is accepted all the same.    *)
HangUp ==
  /\ \E c \in (1..accepted) \ gone : gone' = gone \union {c}
  /\ UNCHANGED <<arrived, accepted, accepting, socket_, queued, workers, handlerVars, sharedVars>>

------------------------------------------------------------------------------
(* The io_context thread                                                   *)

(* Mutant: accept into the socket object even when it is open.             *)
DoAcceptAlways == accepting' = TRUE

(* async_accept refuses a socket object that is open: its handler is then  *)
(* called with already_open at once, and calls doAccept again.             *)
DoAccept == accepting' = (socket_' = 0)

Accept ==
  /\ accepting /\ accepted < arrived
  /\ accepted' = accepted + 1
  /\ socket_' = accepted'
  /\ queued' = queued + 1
  /\ DoAccept
  /\ UNCHANGED <<arrived, gone, workers, handlerVars, sharedVars>>

(* Mutant: the handler returns on an error and does not accept again.      *)
AcceptErrorAndReturn ==
  UNCHANGED <<listenerVars, workers, handlerVars, sharedVars>>

AcceptError ==
  /\ UNCHANGED <<arrived, gone, accepted, socket_, queued, workers, handlerVars, sharedVars>>
  /\ DoAccept

------------------------------------------------------------------------------
(* handleClient                                                            *)

Goto(w, from_, to) == workers[w] = from_ /\ workers' = [workers EXCEPT ![w] = to]

StartTask(w) ==
  /\ Goto(w, "idle", "loop")
  /\ queued > 0 /\ queued' = queued - 1
  /\ UNCHANGED <<arrived, gone, accepted, accepting, socket_, handlerVars, sharedVars>>

(* read_some blocks on the connection that is open when it is called.      *)
Read(w) ==
  /\ socket_ # 0
  /\ Goto(w, "loop", "reading")
  /\ from' = [from EXCEPT ![w] = socket_]
  /\ UNCHANGED <<listenerVars, message, calls, sharedVars>>

ReadClosed(w) ==
  /\ socket_ = 0
  /\ Goto(w, "loop", "idle")
  /\ UNCHANGED <<listenerVars, handlerVars, sharedVars>>

Receive(w, m) ==
  /\ from[w] \notin gone
  /\ Goto(w, "reading", "handle")
  /\ from' = [from EXCEPT ![w] = 0]
  /\ message' = [message EXCEPT ![w] = m]
  /\ UNCHANGED <<listenerVars, calls, sharedVars>>

(* End of file or an error: the task ends, socket_ stays open.             *)
ReadEnd(w) ==
  /\ from[w] \in gone
  /\ Goto(w, "reading", "idle")
  /\ from' = [from EXCEPT ![w] = 0]
  /\ UNCHANGED <<listenerVars, message, calls, sharedVars>>

------------------------------------------------------------------------------
(* processMessage and the handlers                                         *)

Type(w) == message[w].type

(* The handler is entered, and needs the message no more after this step.  *)
Handle(w, to) ==
  /\ Goto(w, "handle", to)
  /\ message' = [message EXCEPT ![w] = NoMessage]

(* Every handler closes the socket when the token does not verify.         *)
Reject(w) ==
  /\ Type(w) = "unverified"
  /\ Handle(w, "loop")
  /\ socket_' = 0
  /\ UNCHANGED <<arrived, gone, accepted, accepting, queued, from, calls, sharedVars>>

(* Mutant: handleClient reads one message only.                            *)
IgnoreAndEnd(w) ==
  /\ Type(w) = "other"
  /\ Handle(w, "idle")
  /\ UNCHANGED <<listenerVars, from, calls, sharedVars>>

Ignore(w) ==
  /\ Type(w) = "other"
  /\ Handle(w, "loop")
  /\ UNCHANGED <<listenerVars, from, calls, sharedVars>>

HandleConnect(w) ==
  /\ Type(w) = "connect"
  /\ Handle(w, "loop")
  /\ clientsMutex_ = NoThread
  /\ clients_' = clients_ \union {message[w].token}
  /\ UNCHANGED <<listenerVars, from, calls, clientsMutex_, available>>

(* All entries of an email are the same socket object, so removing it      *)
(* empties the list; the database is then called with the mutex held.      *)
HandleDisconnect(w) ==
  /\ Type(w) = "disconnect"
  /\ Handle(w, "query")
  /\ clientsMutex_ = NoThread /\ clientsMutex_' = w
  /\ clients_' = clients_ \ {message[w].token}
  /\ calls' = [calls EXCEPT ![w] = CallsOf(Type(w))]
  /\ UNCHANGED <<listenerVars, from, available>>

(* handleMessage, handleTyping, handleStopTyping and handleUserStatus.     *)
HandleQuery(w) ==
  /\ Type(w) \in {"message", "typing", "userStatus"}
  /\ Handle(w, "query")
  /\ calls' = [calls EXCEPT ![w] = CallsOf(Type(w))]
  /\ UNCHANGED <<listenerVars, from, sharedVars>>

TakeConnection(w) ==
  /\ Goto(w, "query", "busy")
  /\ available > 0 /\ available' = available - 1
  /\ UNCHANGED <<listenerVars, handlerVars, clients_, clientsMutex_>>

AfterCall(w) == IF calls[w][2] \in Sends THEN "send" ELSE "query"

(* Mutant: the connection is given back twice.                             *)
CallReturnsTwice(w) ==
  /\ Goto(w, "busy", AfterCall(w))
  /\ Head(calls[w]) \notin AlwaysThrow
  /\ available' = available + 2
  /\ calls' = [calls EXCEPT ![w] = Tail(@)]
  /\ UNCHANGED <<listenerVars, from, message, clients_, clientsMutex_>>

CallReturns(w) ==
  /\ Goto(w, "busy", AfterCall(w))
  /\ Head(calls[w]) \notin AlwaysThrow
  /\ available' = available + 1
  /\ calls' = [calls EXCEPT ![w] = Tail(@)]
  /\ UNCHANGED <<listenerVars, from, message, clients_, clientsMutex_>>

(* The exception releases the mutex on its way to processMessage, which    *)
(* catches it; the database connection is lost.                            *)
CallThrows(w) ==
  /\ Goto(w, "busy", "loop")
  /\ calls' = [calls EXCEPT ![w] = <<>>]
  /\ clientsMutex_' = IF clientsMutex_ = w THEN NoThread ELSE clientsMutex_
  /\ UNCHANGED <<listenerVars, from, message, clients_, available>>

(* The senders lock the registry, which blocks a handler that holds it     *)
(* already for ever.  getUserById runs off its end, so its result is       *)
(* undefined: the row it read, whose email is sent to, or one without an   *)
(* email.  getFriends throws on the first friend: who gets further has     *)
(* nobody to send to.                                                      *)
EndOfHandler(w) == Goto(w, "send", "loop") /\ calls' = [calls EXCEPT ![w] = <<>>]

Send(w) ==
  /\ EndOfHandler(w)
  /\ clientsMutex_ = NoThread
  /\ UNCHANGED <<listenerVars, from, message, sharedVars>>

NoRecipient(w) ==
  /\ EndOfHandler(w)
  /\ Head(calls[w]) = "sendMessageToClient"
  /\ UNCHANGED <<listenerVars, from, message, sharedVars>>

------------------------------------------------------------------------------
ListenerStep == Accept \/ AcceptError

LockStep(w) == HandleConnect(w) \/ HandleDisconnect(w) \/ Send(w)

WorkerStep(w) ==
  \/ StartTask(w) \/ Read(w) \/ ReadClosed(w) \/ ReadEnd(w)
  \/ Reject(w) \/ Ignore(w) \/ HandleQuery(w) \/ LockStep(w)
  \/ TakeConnection(w) \/ CallReturns(w) \/ CallThrows(w)

Next ==
  \/ Arrive \/ HangUp \/ ListenerStep
  \/ \E w \in Workers : WorkerStep(w) \/ NoRecipient(w)
                        \/ \E m \in Messages : Receive(w, m)

Spec == Init /\ [][Next]_vars

(* The threads run and blocking calls that keep being possible succeed;    *)
(* clients may be silent for ever.                                         *)
FairSpec ==
  /\ Spec
  /\ WF_vars(Accept) /\ WF_vars(AcceptError)
  /\ \A w \in Workers :
       WF_vars(WorkerStep(w)) /\ SF_vars(LockStep(w)) /\ SF_vars(TakeConnection(w))

------------------------------------------------------------------------------
(* Properties                                                              *)

(* The shape of the state.                                                 *)
TypeOK ==
  /\ arrived \in 0..MaxConnections /\ accepted \in 0..arrived
  /\ gone \subseteq 1..arrived
  /\ accepting \in BOOLEAN
  /\ socket_ \in {0, accepted}
  /\ queued \in 0..accepted
  /\ workers \in [Workers -> {"idle", "loop", "reading", "handle", "query", "busy", "send"}]
  /\ from \in [Workers -> 0..accepted]
  /\ message \in [Workers -> Messages \union {NoMessage}]
  /\ clients_ \subseteq Emails
  /\ clientsMutex_ \in Workers \union {NoThread}
  /\ available \in 0..poolSize_

(* Although all tasks share one socket object, which any worker may close  *)
(* and the listener reopen behind another's back, the connection it is     *)
(* open on has a worker or a queued task that reads it until its client    *)
(* is gone.                                                                *)
OpenSocketIsServed ==
  socket_ # 0 /\ socket_ \notin gone =>
    \/ queued > 0
    \/ \E w \in Workers : \/ workers[w] \notin {"idle", "reading"}
                          \/ workers[w] = "reading" /\ from[w] = socket_

(* The last client is gone and its worker has noticed.                     *)
Stuck == socket_ \in gone /\ queued = 0 /\ \A w \in Workers : workers[w] = "idle"

(* The server does not recover from that: socket_ stays open, and no       *)
(* client is accepted any more.                                            *)
StuckForGood == [][Stuck => Stuck' /\ accepted' = accepted]_vars

(* Once a handler closed the socket the next client is accepted.           *)
AcceptsWhenClosed == (socket_ = 0 /\ accepted < arrived) ~> socket_ # 0

(* A handler ends, and with it its hold of the mutex, unless failing calls *)
(* lost every database connection.  handleDisconnect never comes to lock   *)
(* the registry for the second time, only because a call before throws.    *)
Exhausted == available = 0 /\ \A w \in Workers : workers[w] # "busy"
HandlersReturn ==
  \A w \in Workers :
    workers[w] \in {"handle", "query", "busy", "send"}
      ~> (workers[w] \in {"loop", "reading", "idle"} \/ Exhausted)

(* TcpServer.cpp:36: "Continue to accept new connections".                 *)
EveryClientIsAccepted == \A c \in 1..MaxConnections : arrived >= c ~> accepted >= c
================================================================================
