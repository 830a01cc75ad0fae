------------------------------- MODULE RestServer -------------------------------
(***************************************************************************)
(* RestServer.cpp: a worker reads one HTTP request from a connection of    *)
(* its own, runs the handler the route names and writes the answer.  The   *)
(* handlers are sequences of DatabaseManager calls, each a transaction of  *)
(* its own that may fail, and interleave with those of other workers.      *)
(* That a call that returns has stored what it wrote is taken from         *)
(* ResultTellsStored of DatabaseManager, with the exception stated there:  *)
(* nothing here is about transactions that got another call's ROLLBACK.    *)
(*                                                                         *)
(* Kept of the database: the rows of `users' (with `authentication', the   *)
(* same transaction writes both), their status, `token_blacklist', the     *)
(* rows of `relation_user', and how many pooled connections failing calls  *)
(* lost (see DatabaseManager).  A user's id and email are one value.       *)
(* A token is the number of the answer that carried it; 0 is any string    *)
(* this server did not sign, which may decode as a token all the same.     *)
(***************************************************************************)
EXTENDS Naturals, Sequences, FiniteSets

CONSTANTS
  Workers,      \* the threads of the pool
  Emails,       \* the emails of the requests
  MaxRequests,  \* bound on the requests
  UniqueEmail,  \* the schema, which is not in the repository, has a unique
                \* constraint on users.email
  poolSize_     \* the database connections

ASSUME RestAssumption ==
  /\ IsFiniteSet(Workers)
  /\ MaxRequests \in Nat /\ UniqueEmail \in BOOLEAN /\ poolSize_ \in Nat

VARIABLES
  users,       \* how many rows each email has
  status,      \* the status last written to each email's rows, or "null"
  blacklist,   \* the tokens in token_blacklist
  relation,    \* how many rows of relation_user each <<user, friend>> has
  lost,        \* how many database connections were lost
  tokens,      \* the emails of the tokens given out, in order
  workers,     \* the step each worker's handler is at, "idle" without one
  request,     \* the request each worker handles
  requests,    \* how many requests came in
  registered   \* how many registrations of each email were answered success

accounts == <<users, status, blacklist>>
database == <<accounts, relation, lost>>
vars == <<database, tokens, workers, request, requests, registered>>

Pairs == Emails \X Emails   \* nothing keeps users from inviting themselves

(* The routes.  "invite" stands for accept-invite too, which calls the     *)
(* same handler; whom it relates is in the body of the request, whoever's  *)
(* the token is.                                                           *)
Accounts == [route : {"register", "login"}, email : Emails]
Sessions == [route : {"logout", "users", "rooms", "messages"}, token : 0..Len(tokens)]
Invites  == [route : {"invite"}, token : 0..Len(tokens), pair : Pairs]

NoRequest == [route |-> "none"]

Route(w) == request[w].route

Email(w) ==
  IF Route(w) \in {"register", "login"} THEN request[w].email
                                        ELSE tokens[request[w].token]

Init ==
  /\ users = [e \in Emails |-> 0]
  /\ status = [e \in Emails |-> "null"]
  /\ blacklist = {}
  /\ relation = [p \in Pairs |-> 0]
  /\ lost = 0
  /\ tokens = <<>>
  /\ workers = [w \in Workers |-> "idle"]
  /\ request = [w \in Workers |-> NoRequest]
  /\ requests = 0
  /\ registered = [e \in Emails |-> 0]

Goto(w, from, to) == workers[w] = from /\ workers' = [workers EXCEPT ![w] = to]

(* handleRequest routes to the handler, whose first step this is.          *)
FirstStep(route) ==
  CASE route \in {"register", "login"} -> "emailExists"
    [] route = "logout" -> "invalidateToken"
    [] OTHER -> "isTokenValid"

Receive(w) ==
  /\ requests < MaxRequests /\ requests' = requests + 1
  /\ \E r \in Accounts \union Sessions \union Invites :
       request' = [request EXCEPT ![w] = r] /\ Goto(w, "idle", FirstStep(r.route))
  /\ UNCHANGED <<database, tokens, registered>>

(* A call is one step, except updateFriendRequest, whose transaction the   *)
(* worker has open between its statements.  Each needs a connection.       *)
InTransaction == {w \in Workers : workers[w] \in {"insert", "update"}}

(* Mutant: the wait for a connection is satisfied by more than one only.   *)
ConnectedOffByOne == lost + Cardinality(InTransaction) + 1 < poolSize_

Connected == lost + Cardinality(InTransaction) < poolSize_

(* The answer is written and the task ends.                                *)
Answer(w, from) == Goto(w, from, "idle") /\ request' = [request EXCEPT ![w] = NoRequest]

(* Mutant: the task ends with its request still there.                     *)
AnswerErrorKeeping(w) ==
  /\ \E s \in {"emailExists", "getPasswordHash", "invalidateToken", "isTokenValid",
               "getRoomsByUserId", "getMessages", "select"} : Goto(w, s, "idle")
  /\ UNCHANGED <<database, tokens, request, requests, registered>>

(* A request that cannot be parsed, an early return, a conversion that     *)
(* fails: an error answer, without a database call that failed.            *)
AnswerError(w) ==
  /\ \E s \in {"emailExists", "getPasswordHash", "invalidateToken", "isTokenValid",
               "getRoomsByUserId", "getMessages", "select"} : Answer(w, s)
  /\ UNCHANGED <<database, tokens, requests, registered>>

(* The catch clause every handler has, after a call that threw: nothing    *)
(* that was done so far is undone, and the call's connection is lost.      *)
CallThrows(w) ==
  /\ \/ /\ \E s \in {"emailExists", "registerUser", "getPasswordHash", "updateUserStatus",
                     "invalidateToken", "getUserByEmail", "getRoomsByUserId",
                     "getMessages", "getRoomById", "select"} : Answer(w, s)
        /\ Connected
     \/ \E s \in {"insert", "update"} : Answer(w, s)
  /\ lost' = lost + 1
  /\ UNCHANGED <<accounts, relation, tokens, requests, registered>>

(* A call that is committed may still throw, when the connection breaks    *)
(* under the commit; the handler answers an error.                         *)
InDoubt(w, from) == Answer(w, from) /\ lost' = lost + 1

Proceed(w, from, to) == Goto(w, from, to) /\ UNCHANGED <<request, tokens, requests, registered>>

------------------------------------------------------------------------------
(* handleRegister and handleLogin                                          *)

(* Mutant: the check decides nothing.                                      *)
EmailExistsIgnored(w) ==
  /\ Proceed(w, "emailExists", IF Route(w) = "register" THEN "registerUser"
                                                        ELSE "getPasswordHash")
  /\ Connected
  /\ UNCHANGED database

(* The handlers answer an error when the check goes the other way.         *)
EmailExists(w) ==
  /\ \/ /\ Proceed(w, "emailExists", "registerUser")
        /\ Route(w) = "register" /\ users[Email(w)] = 0
     \/ /\ Proceed(w, "emailExists", "getPasswordHash")
        /\ Route(w) = "login" /\ users[Email(w)] > 0
  /\ Connected
  /\ UNCHANGED database

(* Mutant: the transaction is not committed.                               *)
RegisterUserUncommitted(w) ==
  /\ Goto(w, "registerUser", "updateUserStatus")
  /\ UNCHANGED <<database, tokens, request, requests, registered>>

(* The insert fails on a unique constraint.                                *)
RegisterUser(w) ==
  /\ \/ Goto(w, "registerUser", "updateUserStatus") /\ UNCHANGED <<request, lost>>
     \/ InDoubt(w, "registerUser")
  /\ Connected
  /\ ~(UniqueEmail /\ users[Email(w)] > 0)
  /\ users' = [users EXCEPT ![Email(w)] = @ + 1]
  /\ UNCHANGED <<status, blacklist, relation, tokens, requests, registered>>

(* The subquery of getPasswordHash fails on more rows than one.            *)
(* Utils::checkPassword accepts every password.                            *)
GetPasswordHash(w) ==
  /\ Proceed(w, "getPasswordHash", "updateUserStatus")
  /\ Connected
  /\ users[Email(w)] <= 1
  /\ UNCHANGED database

(* UPDATE changes the rows there are.  A success answer to a registration  *)
(* or a login carries a new token.                                         *)
SetStatus(e, s) == status' = IF users[e] > 0 THEN [status EXCEPT ![e] = s] ELSE status

SignIn(w) ==
  /\ Answer(w, "updateUserStatus")
  /\ Route(w) \in {"register", "login"}
  /\ Connected
  /\ SetStatus(Email(w), "online")
  /\ tokens' = Append(tokens, Email(w))
  /\ registered' = IF Route(w) = "register"
                   THEN [registered EXCEPT ![Email(w)] = @ + 1] ELSE registered
  /\ UNCHANGED <<users, blacklist, relation, lost, requests>>

(* The email handleLogout decodes is not verified: what the server did not *)
(* sign may name anybody.                                                  *)
SetOffline(w) ==
  \E e \in (IF request[w].token = 0 THEN Emails ELSE {Email(w)}) : SetStatus(e, "offline")

(* In any handler that updates the status.                                 *)
UpdateInDoubt(w) ==
  /\ InDoubt(w, "updateUserStatus")
  /\ Connected
  /\ IF Route(w) = "logout" THEN SetOffline(w) ELSE SetStatus(Email(w), "online")
  /\ UNCHANGED <<users, blacklist, relation, tokens, requests, registered>>

------------------------------------------------------------------------------
(* handleLogout: any string is blacklisted, then it is decoded without     *)
(* being verified, which throws when it has not the form of a token.       *)

InvalidateToken(w) ==
  /\ \/ /\ Goto(w, "invalidateToken", "updateUserStatus")
        /\ UNCHANGED <<request, lost>>
     \/ /\ Answer(w, "invalidateToken")
        /\ request[w].token = 0 /\ UNCHANGED lost
     \/ InDoubt(w, "invalidateToken")
  /\ Connected
  /\ blacklist' = blacklist \union {request[w].token}
  /\ UNCHANGED <<users, status, relation, tokens, requests, registered>>

SignOut(w) ==
  /\ Answer(w, "updateUserStatus")
  /\ Route(w) = "logout"
  /\ Connected
  /\ SetOffline(w)
  /\ UNCHANGED <<users, blacklist, relation, lost, tokens, requests, registered>>

------------------------------------------------------------------------------
(* The handlers that check the token and query                             *)

FirstCall(route) ==
  CASE route = "users" -> "getUserByEmail"
    [] route = "rooms" -> "getRoomsByUserId"
    [] route = "messages" -> "getMessages"
    [] route = "invite" -> "select"

(* isTokenValid: signature, issuer and expiry; AnswerError when expired.   *)
IsTokenValid(w) ==
  /\ Proceed(w, "isTokenValid", FirstCall(Route(w)))
  /\ request[w].token # 0
  /\ UNCHANGED database

GetRooms(w) ==
  /\ Answer(w, "getRoomsByUserId")
  /\ Connected
  /\ UNCHANGED <<database, tokens, requests, registered>>

(* What getMessages returns is undefined and not used but for the answer,  *)
(* which is replaced by an error: getRoomById, like the getUserByEmail of  *)
(* handleGetUsers, can only throw.                                         *)
GetMessages(w) ==
  /\ Proceed(w, "getMessages", "getRoomById")
  /\ Connected
  /\ UNCHANGED database

------------------------------------------------------------------------------
(* handleInviteFriend, which calls updateFriendRequest                     *)

Reverse(p) == <<p[2], p[1]>>

(* The rows that relate the two users of p, either way.                    *)
Rows(p) == IF p[1] = p[2] THEN relation[p] ELSE relation[p] + relation[Reverse(p)]

(* Mutant: only the relation in the direction of the request is looked up. *)
SelectOneWay(w) ==
  /\ Proceed(w, "select", IF relation[request[w].pair] = 0 THEN "insert" ELSE "update")
  /\ Connected
  /\ UNCHANGED database

(* The transaction reads what is committed, and locks no row or gap.       *)
SelectRelation(w) ==
  /\ Proceed(w, "select", IF Rows(request[w].pair) = 0 THEN "insert" ELSE "update")
  /\ Connected
  /\ UNCHANGED database

(* INSERT or UPDATE, and commit.  The query after the commit is refused:   *)
(* whoever got this far is answered an error.                              *)
StoreRelation(w) ==
  /\ \/ InDoubt(w, "insert") /\ relation' = [relation EXCEPT ![request[w].pair] = @ + 1]
     \/ InDoubt(w, "update") /\ UNCHANGED relation
  /\ UNCHANGED <<accounts, tokens, requests, registered>>

------------------------------------------------------------------------------
HandlerStep(w) ==
  \/ AnswerError(w) \/ CallThrows(w)
  \/ EmailExists(w) \/ RegisterUser(w) \/ GetPasswordHash(w) \/ SignIn(w)
  \/ UpdateInDoubt(w)
  \/ InvalidateToken(w) \/ SignOut(w)
  \/ IsTokenValid(w) \/ GetRooms(w) \/ GetMessages(w)
  \/ SelectRelation(w) \/ StoreRelation(w)

Next == \E w \in Workers : Receive(w) \/ HandlerStep(w)

Spec == Init /\ [][Next]_vars

(* The threads run, the database answers, and a call that again and again  *)
(* could have a connection gets one.                                       *)
FairSpec == Spec /\ \A w \in Workers : SF_vars(HandlerStep(w))

------------------------------------------------------------------------------
(* Properties                                                              *)

(* The shape of the state.                                                 *)
TypeOK ==
  /\ users \in [Emails -> 0..MaxRequests]
  /\ status \in [Emails -> {"null", "online", "offline"}]
  /\ blacklist \subseteq 0..Len(tokens)
  /\ relation \in [Pairs -> 0..MaxRequests]
  /\ lost \in 0..poolSize_
  /\ tokens \in Seq(Emails)
  /\ workers \in [Workers -> {"idle", "emailExists", "registerUser", "getPasswordHash",
                              "updateUserStatus", "isTokenValid", "invalidateToken",
                              "getUserByEmail", "getRoomsByUserId", "getMessages",
                              "getRoomById", "select", "insert", "update"}]
  /\ request \in [Workers -> Accounts \union Sessions \union Invites \union {NoRequest}]
  /\ \A w \in Workers : workers[w] = "idle" <=> request[w] = NoRequest
  /\ requests \in 0..MaxRequests
  /\ registered \in [Emails -> 0..MaxRequests]

(* However registrations of one email race between emailExists and         *)
(* registerUser, at most one of them is answered success (with a unique    *)
(* constraint on users.email).                                             *)
OneRegistrationSucceeds == UniqueEmail => \A e \in Emails : registered[e] <= 1

(* Registrations of one email, however they race, do not pile up rows even *)
(* without the constraint: only handlers that were past emailExists when   *)
(* the first row was committed add one each.                               *)
AccountsAreBounded ==
  \A e \in Emails :
    users[e] + Cardinality({w \in Workers : /\ workers[w] = "registerUser"
                                            /\ request[w].email = e})
      <= Cardinality(Workers)

(* Whoever was given a token has a row in users, whose status was set by   *)
(* then: the status update finds the row, in every interleaving with other *)
(* handlers and whichever of them failed half way.                         *)
SignedInUsersHaveStatus ==
  \A n \in 1..Len(tokens) : users[tokens[n]] > 0 /\ status[tokens[n]] # "null"

(* Invitations of one pair, in either direction and however they race, do  *)
(* not pile up rows: only handlers that were in updateFriendRequest before *)
(* the first row was committed add one each, so there are never more rows  *)
(* than workers.                                                           *)
DuplicatesAreBounded ==
  \A p \in Pairs :
    Rows(p) + Cardinality({w \in Workers : /\ workers[w] = "insert"
                                           /\ request[w].pair \in {p, Reverse(p)}})
      <= Cardinality(Workers)

(* Every request is answered, whatever fails, unless failing calls lost    *)
(* all database connections: then those that need one wait for ever.       *)
RequestsAreAnswered ==
  \A w \in Workers : workers[w] # "idle" ~> (workers[w] = "idle" \/ lost = poolSize_)
==============================================================================
