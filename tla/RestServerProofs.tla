--------------------------- MODULE RestServerProofs ---------------------------
(***************************************************************************)
(* Proofs about RestServer, for every number of workers, emails, requests  *)
(* and database connections, with or without the unique constraint.        *)
(*                                                                         *)
(* The handlers race, so what they count is bounded by what is counted     *)
(* already and what the workers under way may still add: every bound below *)
(* is about such a sum.                                                    *)
(***************************************************************************)
EXTENDS RestServer, FiniteSetTheorems, SequenceTheorems, TLAPS

Handling == {"emailExists", "registerUser", "getPasswordHash", "updateUserStatus",
             "isTokenValid", "invalidateToken", "getUserByEmail", "getRoomsByUserId",
             "getMessages", "getRoomById", "select", "insert", "update"}

(* Each step belongs to the handlers of some routes.                       *)
OnRoute ==
  \A w \in Workers :
    /\ workers[w] = "emailExists" => Route(w) \in {"register", "login"}
    /\ workers[w] = "registerUser" => Route(w) = "register"
    /\ workers[w] = "getPasswordHash" => Route(w) = "login"
    /\ workers[w] = "invalidateToken" => Route(w) = "logout"
    /\ workers[w] = "updateUserStatus" => Route(w) \in {"register", "login", "logout"}
    /\ workers[w] = "isTokenValid" => Route(w) \in {"users", "rooms", "messages", "invite"}
    /\ workers[w] \in {"select", "insert", "update"} => Route(w) = "invite"

(* Past its check or its insert, a handler's user has a row.               *)
HasRow ==
  \A w \in Workers :
    workers[w] \in {"getPasswordHash", "updateUserStatus"} /\ Route(w) \in {"register", "login"}
      => users[request[w].email] > 0

RowsAreUnique == UniqueEmail => \A e \in Emails : users[e] <= 1

(* The workers that may still insert a row for e.                          *)
Registering(e) ==
  {w \in Workers : workers[w] \in {"emailExists", "registerUser"} /\ request[w].email = e}

UsersBounded == \A e \in Emails : users[e] + Cardinality(Registering(e)) <= requests

(* The workers whose registration of e passed the check.                   *)
Adding(e) == {w \in Workers : workers[w] = "registerUser" /\ request[w].email = e}

(* The workers that inserted a row for e and may still answer success.     *)
Answering(e) ==
  {w \in Workers : workers[w] = "updateUserStatus" /\ Route(w) = "register"
                                                   /\ request[w].email = e}

RegisteredBounded == \A e \in Emails : registered[e] + Cardinality(Answering(e)) <= users[e]

(* The workers that may still relate the pair p.                           *)
Inviting(p) == {w \in Workers : Route(w) = "invite" /\ request[w].pair = p}

RelationBounded == \A p \in Pairs : relation[p] + Cardinality(Inviting(p)) <= requests

Inserting(p) ==
  {w \in Workers : workers[w] = "insert" /\ request[w].pair \in {p, Reverse(p)}}

LostBounded == lost + Cardinality(InTransaction) <= poolSize_

RestInv ==
  /\ TypeOK /\ OnRoute /\ HasRow /\ RowsAreUnique
  /\ UsersBounded /\ RegisteredBounded /\ RelationBounded /\ LostBounded
  /\ AccountsAreBounded /\ SignedInUsersHaveStatus /\ DuplicatesAreBounded

------------------------------------------------------------------------------
(* The number of workers of a kind, when at most one of them changes kind. *)
LEMMA CountChange ==
  ASSUME NEW A \in SUBSET Workers, NEW B \in SUBSET Workers, NEW w \in Workers,
         \A v \in Workers : v # w => (v \in A <=> v \in B)
  PROVE  /\ Cardinality(A) \in Nat /\ Cardinality(B) \in Nat
         /\ (w \in A <=> w \in B) => Cardinality(B) = Cardinality(A)
         /\ w \in A /\ w \notin B => Cardinality(B) = Cardinality(A) - 1
         /\ w \notin A /\ w \in B => Cardinality(B) = Cardinality(A) + 1
<1>1. IsFiniteSet(A) /\ IsFiniteSet(B)
  BY RestAssumption, FS_Subset
<1>2. Cardinality(A) \in Nat /\ Cardinality(B) \in Nat
  BY <1>1, FS_CardinalityType
<1>3. (w \in A <=> w \in B) => B = A
  OBVIOUS
<1>4. w \in A /\ w \notin B => B = A \ {w}
  OBVIOUS
<1>5. w \notin A /\ w \in B => B = A \union {w}
  OBVIOUS
<1> QED BY <1>1, <1>2, <1>3, <1>4, <1>5, FS_AddElement, FS_RemoveElement

(* What a request of each route carries.                                   *)
LEMMA RequestFields ==
  ASSUME TypeOK, NEW w \in Workers
  PROVE  /\ Route(w) \in {"register", "login"} => request[w].email \in Emails
         /\ Route(w) \in {"logout", "users", "rooms", "messages", "invite"}
              => request[w].token \in 0..Len(tokens)
         /\ Route(w) = "invite" => request[w].pair \in Pairs
         /\ request[w] = NoRequest => Route(w) = "none"
BY DEF TypeOK, Route, Accounts, Sessions, Invites, NoRequest

LEMMA Pair ==
  ASSUME NEW p \in Pairs
  PROVE  Reverse(p) \in Pairs /\ Reverse(Reverse(p)) = p /\ (Reverse(p) = p <=> p[1] = p[2])
BY DEF Pairs, Reverse

USE DEF Goto, Answer, InDoubt, Proceed

Answered(w) ==
  /\ workers' = [workers EXCEPT ![w] = "idle"]
  /\ request' = [request EXCEPT ![w] = NoRequest]

Moved(w, from, to) ==
  /\ workers[w] = from /\ workers' = [workers EXCEPT ![w] = to]
  /\ request' = request

(* A worker that handles a request answers it or goes on with it, and      *)
(* these are the ways to go on; nobody else moves.                         *)
LEMMA HandlerMoves ==
  ASSUME RestInv, NEW w \in Workers, HandlerStep(w)
  PROVE  /\ workers[w] \in Handling
         /\ \/ Answered(w)
            \/ /\ Moved(w, "emailExists", "registerUser")
               /\ Route(w) = "register"
            \/ /\ Moved(w, "emailExists", "getPasswordHash")
               /\ Route(w) = "login" /\ users[request[w].email] > 0
            \/ Moved(w, "registerUser", "updateUserStatus") /\ RegisterUser(w)
            \/ Moved(w, "getPasswordHash", "updateUserStatus")
            \/ Moved(w, "invalidateToken", "updateUserStatus")
            \/ /\ Moved(w, "isTokenValid", "select")
               /\ Route(w) = "invite"
            \/ \E to \in {"getUserByEmail", "getRoomsByUserId", "getMessages"} :
                 Moved(w, "isTokenValid", to)
            \/ Moved(w, "getMessages", "getRoomById")
            \/ Moved(w, "select", "insert") /\ SelectRelation(w)
            \/ Moved(w, "select", "update") /\ SelectRelation(w)
<1> USE DEF Handling, Answered, Moved
<1>1. CASE AnswerError(w)
  BY <1>1 DEF AnswerError
<1>2. CASE CallThrows(w)
  BY <1>2 DEF CallThrows
<1>3. CASE EmailExists(w)
  BY <1>3 DEF EmailExists, Email
<1>4. CASE RegisterUser(w)
  <2>1. \/ Moved(w, "registerUser", "updateUserStatus")
        \/ Answered(w) /\ workers[w] = "registerUser"
    BY <1>4 DEF RegisterUser
  <2> QED BY <1>4, <2>1
<1>5. CASE SignIn(w) \/ UpdateInDoubt(w) \/ SignOut(w) \/ GetRooms(w)
  BY <1>5 DEF SignIn, UpdateInDoubt, SignOut, GetRooms
<1>6. CASE GetPasswordHash(w) \/ GetMessages(w) \/ InvalidateToken(w)
  BY <1>6 DEF GetPasswordHash, GetMessages, InvalidateToken
<1>7. CASE IsTokenValid(w)
  <2>1. Route(w) \in {"users", "rooms", "messages", "invite"}
    BY <1>7 DEF IsTokenValid, RestInv, OnRoute
  <2>2. \/ Route(w) = "invite" /\ FirstCall(Route(w)) = "select"
        \/ FirstCall(Route(w)) \in {"getUserByEmail", "getRoomsByUserId", "getMessages"}
    BY <2>1 DEF FirstCall
  <2>3. Moved(w, "isTokenValid", FirstCall(Route(w)))
    BY <1>7 DEF IsTokenValid
  <2> QED BY <2>2, <2>3
<1>8. CASE SelectRelation(w)
  <2>1. Moved(w, "select", "insert") \/ Moved(w, "select", "update")
    BY <1>8 DEF SelectRelation
  <2> QED BY <1>8, <2>1
<1>9. CASE StoreRelation(w)
  BY <1>9 DEF StoreRelation
<1> QED BY <1>1, <1>2, <1>3, <1>4, <1>5, <1>6, <1>7, <1>8, <1>9 DEF HandlerStep

(* What else a step of a handler changes.                                  *)
LEMMA HandlerEffects ==
  ASSUME NEW w \in Workers, HandlerStep(w)
  PROVE  /\ requests' = requests
         /\ RegisterUser(w) \/ users' = users
         /\ StoreRelation(w) \/ relation' = relation
         /\ SignIn(w) \/ UNCHANGED <<registered, tokens>>
         /\ \/ status' = status
            \/ \E e : SetStatus(e, "online")
            \/ \E e : SetStatus(e, "offline")
         /\ InvalidateToken(w) \/ blacklist' = blacklist
<1> USE DEF database, accounts
<1>1. CASE AnswerError(w) \/ CallThrows(w) \/ EmailExists(w) \/ GetPasswordHash(w)
  BY <1>1 DEF AnswerError, CallThrows, EmailExists, GetPasswordHash
<1>2. CASE RegisterUser(w) \/ StoreRelation(w) \/ SelectRelation(w)
  BY <1>2 DEF RegisterUser, StoreRelation, SelectRelation
<1>3. CASE SignIn(w)
  BY <1>3 DEF SignIn
<1>4. CASE UpdateInDoubt(w)
  <2>1. SetOffline(w) \/ SetStatus(Email(w), "online")
    BY <1>4 DEF UpdateInDoubt
  <2>2. SetOffline(w) => \E e : SetStatus(e, "offline")
    BY DEF SetOffline
  <2> QED BY <1>4, <2>1, <2>2 DEF UpdateInDoubt
<1>5. CASE SignOut(w)
  <2>1. \E e : SetStatus(e, "offline")
    BY <1>5 DEF SignOut, SetOffline
  <2> QED BY <1>5, <2>1 DEF SignOut
<1>6. CASE InvalidateToken(w) \/ IsTokenValid(w) \/ GetRooms(w) \/ GetMessages(w)
  BY <1>6 DEF InvalidateToken, IsTokenValid, GetRooms, GetMessages
<1> QED BY <1>1, <1>2, <1>3, <1>4, <1>5, <1>6 DEF HandlerStep

(* A new request, and where its handler begins.                            *)
LEMMA ReceiveStep ==
  ASSUME RestInv, NEW w \in Workers, Receive(w)
  PROVE  /\ workers[w] = "idle" /\ request[w] = NoRequest
         /\ requests' = requests + 1 /\ requests' \in 0..MaxRequests
         /\ UNCHANGED <<database, tokens, registered>>
         /\ \E r \in Accounts \union Sessions \union Invites :
              /\ request' = [request EXCEPT ![w] = r] /\ r # NoRequest
              /\ workers' = [workers EXCEPT ![w] = FirstStep(r.route)]
              /\ FirstStep(r.route) \in Handling
              /\ r.route \in {"register", "login"} => FirstStep(r.route) = "emailExists"
              /\ r.route = "logout" => FirstStep(r.route) = "invalidateToken"
              /\ r.route \in {"users", "rooms", "messages", "invite"}
                   => FirstStep(r.route) = "isTokenValid"
              /\ r.route \in {"register", "login", "logout", "users", "rooms",
                              "messages", "invite"}
<1>1. PICK r \in Accounts \union Sessions \union Invites :
        request' = [request EXCEPT ![w] = r] /\ Goto(w, "idle", FirstStep(r.route))
  BY DEF Receive
<1>2. /\ r.route \in {"register", "login", "logout", "users", "rooms", "messages", "invite"}
      /\ r # NoRequest
  BY DEF Accounts, Sessions, Invites, NoRequest
<1>3. /\ FirstStep(r.route) \in Handling
      /\ r.route \in {"register", "login"} => FirstStep(r.route) = "emailExists"
      /\ r.route = "logout" => FirstStep(r.route) = "invalidateToken"
      /\ r.route \in {"users", "rooms", "messages", "invite"}
           => FirstStep(r.route) = "isTokenValid"
  BY <1>2 DEF FirstStep, Handling
<1>4. workers[w] = "idle" /\ request[w] = NoRequest
  BY <1>1 DEF RestInv, TypeOK
<1>5. /\ requests' = requests + 1 /\ requests' \in 0..MaxRequests
      /\ UNCHANGED <<database, tokens, registered>>
  BY RestAssumption DEF Receive, RestInv, TypeOK
<1> QED BY <1>1, <1>2, <1>3, <1>4, <1>5

(* Any step is a request that comes in or a step of a handler.             *)
LEMMA RestSteps ==
  ASSUME [Next]_vars
  PROVE  UNCHANGED vars \/ \E w \in Workers : Receive(w) \/ HandlerStep(w)
BY DEF Next

(* The other workers stay where they are.                                  *)
LEMMA OthersStay ==
  ASSUME RestInv, NEW w \in Workers, Receive(w) \/ HandlerStep(w)
  PROVE  /\ \A v \in Workers : v # w => workers'[v] = workers[v] /\ request'[v] = request[v]
         /\ \A v \in Workers : v # w => Route(v)' = Route(v)
<1>1. \A v \in Workers : v # w => workers'[v] = workers[v] /\ request'[v] = request[v]
  <2>a. DOMAIN workers = Workers /\ DOMAIN request = Workers
    BY DEF RestInv, TypeOK
  <2>1. CASE Receive(w)
    BY <2>1, <2>a, ReceiveStep
  <2>2. CASE HandlerStep(w)
    BY <2>2, <2>a, HandlerMoves DEF Answered, Moved
  <2> QED BY <2>1, <2>2
<1> QED BY <1>1 DEF Route

------------------------------------------------------------------------------
LEMMA RestInit == Init => RestInv
<1> SUFFICES ASSUME Init PROVE RestInv
  OBVIOUS
<1> USE DEF Init
<1>1. TypeOK
  BY RestAssumption, EmptySeq DEF TypeOK
<1>2. OnRoute /\ HasRow /\ RowsAreUnique
  BY DEF OnRoute, HasRow, RowsAreUnique
<1>3. /\ InTransaction = {}
      /\ \A e \in Emails : Registering(e) = {} /\ Answering(e) = {} /\ Adding(e) = {}
      /\ \A p \in Pairs : Inviting(p) = {} /\ Inserting(p) = {}
  BY DEF InTransaction, Registering, Answering, Adding, Inviting, Inserting, Route,
         NoRequest
<1>a. /\ Cardinality(InTransaction) = 0
      /\ \A e \in Emails : /\ Cardinality(Registering(e)) = 0
                            /\ Cardinality(Answering(e)) = 0 /\ Cardinality(Adding(e)) = 0
      /\ \A p \in Pairs : Cardinality(Inviting(p)) = 0 /\ Cardinality(Inserting(p)) = 0
  BY <1>3, FS_EmptySet, Zenon
<1>4. UsersBounded /\ RegisteredBounded /\ RelationBounded /\ LostBounded
  BY <1>a, RestAssumption
     DEF UsersBounded, RegisteredBounded, RelationBounded, LostBounded
<1>5. SignedInUsersHaveStatus
  BY EmptySeq DEF SignedInUsersHaveStatus
<1>6. DuplicatesAreBounded
  <2>1. Cardinality(Workers) \in Nat
    BY RestAssumption, FS_CardinalityType
  <2>2. \A p \in Pairs : Rows(p) = 0
    BY Pair DEF Rows
  <2>3. \A p \in Pairs : Rows(p) + Cardinality(Inserting(p)) <= Cardinality(Workers)
    BY <1>a, <2>1, <2>2
  <2> QED BY <2>3 DEF DuplicatesAreBounded, Inserting
<1>7. AccountsAreBounded
  <2>1. Cardinality(Workers) \in Nat
    BY RestAssumption, FS_CardinalityType
  <2>2. \A e \in Emails : users[e] + Cardinality(Adding(e)) <= Cardinality(Workers)
    BY <1>a, <2>1
  <2> QED BY <2>2 DEF AccountsAreBounded, Adding
<1> QED BY <1>1, <1>2, <1>4, <1>5, <1>6, <1>7 DEF RestInv

LEMMA OnRouteStep == RestInv /\ [Next]_vars => OnRoute'
<1> SUFFICES ASSUME RestInv, [Next]_vars PROVE OnRoute'
  OBVIOUS
<1> USE DEF OnRoute, Route
<1>a. OnRoute /\ request \in [Workers -> Accounts \union Sessions \union Invites \union {NoRequest}]
      /\ workers \in [Workers -> Handling \union {"idle"}]
  BY DEF RestInv, TypeOK, Handling
<1>1. CASE UNCHANGED vars
  BY <1>1, <1>a DEF vars
<1>2. ASSUME NEW w \in Workers, Receive(w) PROVE OnRoute'
  <2>1. PICK r \in Accounts \union Sessions \union Invites :
          /\ request' = [request EXCEPT ![w] = r]
          /\ workers' = [workers EXCEPT ![w] = FirstStep(r.route)]
          /\ r.route \in {"register", "login"} => FirstStep(r.route) = "emailExists"
          /\ r.route = "logout" => FirstStep(r.route) = "invalidateToken"
          /\ r.route \in {"users", "rooms", "messages", "invite"}
               => FirstStep(r.route) = "isTokenValid"
          /\ r.route \in {"register", "login", "logout", "users", "rooms",
                          "messages", "invite"}
    BY <1>2, ReceiveStep
  <2> QED BY <1>a, <2>1
<1>3. ASSUME NEW w \in Workers, HandlerStep(w) PROVE OnRoute'
  <2>1. \A v \in Workers : v # w => workers'[v] = workers[v] /\ request'[v] = request[v]
    BY <1>3, OthersStay
  <2>2. CASE Answered(w)
    BY <1>a, <2>1, <2>2 DEF Answered
  <2>3. CASE ~Answered(w)
    BY <1>3, <1>a, <2>1, <2>3, HandlerMoves DEF Moved
  <2> QED BY <2>2, <2>3
<1> QED BY <1>1, <1>2, <1>3, RestSteps

LEMMA RegisterUserStep ==
  ASSUME RestInv, NEW w \in Workers, RegisterUser(w)
  PROVE  /\ request[w].email \in Emails /\ Route(w) = "register"
         /\ workers[w] = "registerUser"
         /\ users' = [users EXCEPT ![request[w].email] = @ + 1]
         /\ UniqueEmail => users[request[w].email] = 0
<1>1. workers[w] = "registerUser" /\ Route(w) = "register"
  BY DEF RegisterUser, RestInv, OnRoute
<1>2. request[w].email \in Emails /\ Email(w) = request[w].email
  BY <1>1, RequestFields DEF RestInv, Email
<1> QED BY <1>1, <1>2, RestAssumption DEF RegisterUser, RestInv, TypeOK

(* Rows are only ever added.                                               *)
LEMMA UsersGrow ==
  ASSUME RestInv, [Next]_vars
  PROVE  users' \in [Emails -> Nat] /\ \A e \in Emails : users[e] <= users'[e]
<1>a. users \in [Emails -> Nat]
  BY RestAssumption DEF RestInv, TypeOK
<1>1. users' = users \/ \E w \in Workers : RegisterUser(w)
  BY RestSteps, HandlerEffects, ReceiveStep DEF vars, database, accounts
<1> QED BY <1>a, <1>1, RegisterUserStep

LEMMA HasRowStep == RestInv /\ [Next]_vars => HasRow' /\ RowsAreUnique'
<1> SUFFICES ASSUME RestInv, [Next]_vars PROVE HasRow' /\ RowsAreUnique'
  OBVIOUS
<1>a. /\ HasRow /\ OnRoute /\ users \in [Emails -> Nat]
      /\ request \in [Workers -> Accounts \union Sessions \union Invites \union {NoRequest}]
      /\ workers \in [Workers -> Handling \union {"idle"}]
      /\ users' \in [Emails -> Nat] /\ \A e \in Emails : users[e] <= users'[e]
      /\ \A w \in Workers :
           Route(w) \in {"register", "login"} => request[w].email \in Emails
  <2>1. TypeOK /\ HasRow /\ OnRoute
    BY DEF RestInv
  <2>2. /\ users \in [Emails -> Nat]
        /\ request \in [Workers -> Accounts \union Sessions \union Invites \union {NoRequest}]
        /\ workers \in [Workers -> Handling \union {"idle"}]
    BY <2>1, RestAssumption DEF TypeOK, Handling
  <2> QED BY <2>1, <2>2, UsersGrow, RequestFields
<1>1. RowsAreUnique'
  <2>1. users' = users \/ \E w \in Workers : RegisterUser(w)
    BY RestSteps, HandlerEffects, ReceiveStep DEF vars, database, accounts
  <2> QED BY <1>a, <2>1, RegisterUserStep DEF RestInv, RowsAreUnique
<1> USE DEF HasRow, Route
<1>2. CASE UNCHANGED vars
  <2>1. UNCHANGED <<users, workers, request>>
    BY <1>2 DEF vars, database, accounts
  <2> QED BY <1>a, <1>1, <2>1
<1>3. ASSUME NEW w \in Workers, Receive(w) PROVE HasRow'
  <2>1. /\ \A v \in Workers : v # w => workers'[v] = workers[v] /\ request'[v] = request[v]
        /\ workers'[w] \in {"emailExists", "invalidateToken", "isTokenValid"}
        /\ users' = users
    BY <1>3, <1>a, ReceiveStep, OthersStay DEF database, accounts
  <2> QED BY <1>a, <2>1
<1>4. ASSUME NEW w \in Workers, HandlerStep(w) PROVE HasRow'
  <2>1. \A v \in Workers : v # w => workers'[v] = workers[v] /\ request'[v] = request[v]
    BY <1>4, OthersStay
  <2>2. ASSUME NEW v \in Workers, v # w,
               workers[v] \in {"getPasswordHash", "updateUserStatus"},
               Route(v) \in {"register", "login"}
        PROVE  users'[request[v].email] > 0
    BY <1>a, <2>2
  <2>3. ASSUME workers'[w] \in {"getPasswordHash", "updateUserStatus"},
               request'[w].route \in {"register", "login"}
        PROVE  users'[request'[w].email] > 0
    <3>1. ~Answered(w)
      BY <2>3, <1>a DEF Answered
    <3>2. request' = request /\ Route(w) \in {"register", "login"} /\ request[w].email \in Emails
      BY <1>4, <1>a, <2>3, <3>1, HandlerMoves DEF Moved
    <3>3. CASE RegisterUser(w)
      BY <1>a, <3>2, <3>3, RegisterUserStep
    <3>4. CASE users[request[w].email] > 0
      BY <1>a, <3>2, <3>4
    <3>5. RegisterUser(w) \/ users[request[w].email] > 0
      BY <1>4, <1>a, <2>3, <3>1, <3>2, HandlerMoves DEF Moved, OnRoute
    <3> QED BY <3>2, <3>3, <3>4, <3>5
  <2> QED BY <2>1, <2>2, <2>3
<1> QED BY <1>1, <1>2, <1>3, <1>4, RestSteps

------------------------------------------------------------------------------
(* The sums.                                                               *)

(* A worker becomes able to insert a row for e when its request comes in,  *)
(* and only then.                                                          *)
LEMMA UsersBoundedStep == RestInv /\ [Next]_vars => UsersBounded'
<1> SUFFICES ASSUME RestInv, [Next]_vars, NEW e \in Emails
             PROVE  users'[e] + Cardinality(Registering(e)') <= requests'
  BY DEF UsersBounded
<1>a. /\ users[e] + Cardinality(Registering(e)) <= requests
      /\ users \in [Emails -> Nat] /\ requests \in Nat
      /\ DOMAIN workers = Workers /\ DOMAIN request = Workers
  BY RestAssumption DEF RestInv, TypeOK, UsersBounded
<1>b. Registering(e) \in SUBSET Workers /\ Registering(e)' \in SUBSET Workers
  BY DEF Registering
<1>1. CASE UNCHANGED vars
  <2>1. UNCHANGED <<users, requests>> /\ Registering(e)' = Registering(e)
    BY <1>1 DEF vars, database, accounts, Registering
  <2> QED BY <1>a, <2>1
<1>2. ASSUME NEW w \in Workers, Receive(w) \/ HandlerStep(w)
      PROVE  /\ Cardinality(Registering(e)) \in Nat /\ Cardinality(Registering(e)') \in Nat
             /\ (w \in Registering(e) <=> w \in Registering(e)')
                  => Cardinality(Registering(e)') = Cardinality(Registering(e))
             /\ w \in Registering(e) /\ w \notin Registering(e)'
                  => Cardinality(Registering(e)') = Cardinality(Registering(e)) - 1
             /\ w \notin Registering(e) /\ w \in Registering(e)'
                  => Cardinality(Registering(e)') = Cardinality(Registering(e)) + 1
  <2>1. \A v \in Workers : v # w => (v \in Registering(e) <=> v \in Registering(e)')
    BY <1>2, OthersStay DEF Registering
  <2> QED BY <1>b, <2>1, CountChange
<1>3. ASSUME NEW w \in Workers, Receive(w)
      PROVE  users'[e] + Cardinality(Registering(e)') <= requests'
  <2>1. w \notin Registering(e) /\ requests' = requests + 1 /\ users' = users
    BY <1>3, ReceiveStep DEF Registering, database, accounts
  <2>2. /\ Cardinality(Registering(e)) \in Nat /\ Cardinality(Registering(e)') \in Nat
        /\ Cardinality(Registering(e)') <= Cardinality(Registering(e)) + 1
    BY <1>2, <1>3, <2>1
  <2> QED BY <1>a, <2>1, <2>2
<1>4. ASSUME NEW w \in Workers, HandlerStep(w)
      PROVE  users'[e] + Cardinality(Registering(e)') <= requests'
  <2>1. requests' = requests
    BY <1>4, HandlerEffects
  <2>2. w \in Registering(e)' => w \in Registering(e)
    BY <1>4, <1>a, HandlerMoves DEF Registering, Answered, Moved
  <2>3. CASE users' = users
    BY <1>2, <1>4, <1>a, <2>1, <2>2, <2>3
  <2>4. CASE RegisterUser(w)
    <3>1. w \notin Registering(e)'
      BY <1>a, <2>4 DEF RegisterUser, Registering
    <3>2. CASE request[w].email = e
      <4>1. w \in Registering(e) /\ users'[e] = users[e] + 1
        BY <1>a, <2>4, <3>2, RegisterUserStep DEF Registering
      <4> QED BY <1>2, <1>4, <1>a, <2>1, <3>1, <4>1
    <3>3. CASE request[w].email # e
      <4>1. users'[e] = users[e]
        BY <1>a, <2>4, <3>3, RegisterUserStep
      <4> QED BY <1>2, <1>4, <1>a, <2>1, <2>2, <4>1
    <3> QED BY <3>2, <3>3
  <2> QED BY <1>4, <2>3, <2>4, HandlerEffects
<1> QED BY <1>1, <1>3, <1>4, RestSteps

(* Once there is a row nobody new passes the check, and who passed it adds *)
(* one at most.                                                            *)
LEMMA AccountsStep == RestInv /\ [Next]_vars => AccountsAreBounded'
<1> SUFFICES ASSUME RestInv, [Next]_vars, NEW e \in Emails
             PROVE  users'[e] + Cardinality(Adding(e)') <= Cardinality(Workers)
  BY DEF AccountsAreBounded, Adding
<1>a. /\ users[e] + Cardinality(Adding(e)) <= Cardinality(Workers)
      /\ users \in [Emails -> Nat]
      /\ DOMAIN workers = Workers /\ DOMAIN request = Workers
  <2>1. users \in [Emails -> Nat] /\ DOMAIN workers = Workers /\ DOMAIN request = Workers
    BY RestAssumption DEF RestInv, TypeOK
  <2> QED BY <2>1 DEF RestInv, AccountsAreBounded, Adding
<1>b. Adding(e) \in SUBSET Workers /\ Adding(e)' \in SUBSET Workers
  BY DEF Adding
<1>1. CASE UNCHANGED vars
  <2>1. UNCHANGED users /\ Adding(e)' = Adding(e)
    BY <1>1 DEF vars, database, accounts, Adding
  <2> QED BY <1>a, <2>1
<1>2. ASSUME NEW w \in Workers, Receive(w) \/ HandlerStep(w)
      PROVE  /\ Cardinality(Adding(e)) \in Nat /\ Cardinality(Adding(e)') \in Nat
             /\ (w \in Adding(e) <=> w \in Adding(e)')
                  => Cardinality(Adding(e)') = Cardinality(Adding(e))
             /\ w \in Adding(e) /\ w \notin Adding(e)'
                  => Cardinality(Adding(e)') = Cardinality(Adding(e)) - 1
  <2>1. \A v \in Workers : v # w => (v \in Adding(e) <=> v \in Adding(e)')
    BY <1>2, OthersStay DEF Adding
  <2> QED BY <1>b, <2>1, CountChange
<1>3. /\ Cardinality(Workers) \in Nat
      /\ Cardinality(Adding(e)') <= Cardinality(Workers)
  BY <1>b, RestAssumption, FS_Subset, FS_CardinalityType
<1>4. ASSUME NEW w \in Workers, Receive(w)
      PROVE  users'[e] + Cardinality(Adding(e)') <= Cardinality(Workers)
  <2>1. w \notin Adding(e) /\ users' = users
    BY <1>4, ReceiveStep DEF Adding, database, accounts
  <2>2. w \notin Adding(e)'
    BY <1>4, <1>a, ReceiveStep DEF Adding
  <2> QED BY <1>2, <1>4, <1>a, <2>1, <2>2
<1>5. ASSUME NEW w \in Workers, HandlerStep(w)
      PROVE  users'[e] + Cardinality(Adding(e)') <= Cardinality(Workers)
  <2>1. CASE RegisterUser(w)
    <3>1. w \notin Adding(e)'
      BY <1>a, <2>1 DEF RegisterUser, Adding
    <3>2. CASE request[w].email = e
      <4>1. w \in Adding(e) /\ users'[e] = users[e] + 1
        BY <1>a, <2>1, <3>2, RegisterUserStep DEF Adding
      <4> QED BY <1>2, <1>5, <1>a, <1>3, <3>1, <4>1
    <3>3. CASE request[w].email # e
      <4>1. users'[e] = users[e] /\ w \notin Adding(e)
        BY <1>a, <2>1, <3>3, RegisterUserStep DEF Adding
      <4> QED BY <1>2, <1>5, <1>a, <3>1, <4>1
    <3> QED BY <3>2, <3>3
  <2>2. CASE ~RegisterUser(w) /\ (w \in Adding(e)' => w \in Adding(e))
    <3>1. users' = users
      BY <1>5, <2>2, HandlerEffects
    <3>2. Cardinality(Adding(e)') <= Cardinality(Adding(e))
      BY <1>2, <1>5, <2>2
    <3> QED BY <1>2, <1>5, <1>a, <1>3, <3>1, <3>2
  <2>3. CASE ~RegisterUser(w) /\ w \in Adding(e)' /\ w \notin Adding(e)
    <3>1. users' = users
      BY <1>5, <2>3, HandlerEffects
    <3>2. workers[w] = "emailExists" /\ request' = request /\ EmailExists(w)
      <4>1. ~Answered(w)
        BY <1>a, <2>3 DEF Answered, Adding
      <4>2. workers[w] = "emailExists" /\ request' = request
        BY <1>5, <1>a, <2>3, <4>1, HandlerMoves DEF Moved, Adding
      <4>3. workers'[w] = "registerUser"
        BY <2>3 DEF Adding
      <4>4. EmailExists(w)
        BY <1>5, <1>a, <4>2, <4>3
           DEF HandlerStep, AnswerError, CallThrows, RegisterUser, GetPasswordHash, SignIn,
               UpdateInDoubt, InvalidateToken, SignOut, IsTokenValid, GetRooms, GetMessages,
               SelectRelation, StoreRelation
      <4> QED BY <4>2, <4>4
    <3>3. users[e] = 0
      BY <1>a, <2>3, <3>2 DEF EmailExists, Email, Adding
    <3> QED BY <1>2, <1>3, <1>5, <3>1, <3>3
  <2> QED BY <2>1, <2>2, <2>3
<1> QED BY <1>1, <1>4, <1>5, RestSteps

(* Whoever may still answer success for e inserted a row for it before.    *)
LEMMA RegisteredBoundedStep == RestInv /\ [Next]_vars => RegisteredBounded'
<1> SUFFICES ASSUME RestInv, [Next]_vars, NEW e \in Emails
             PROVE  registered'[e] + Cardinality(Answering(e)') <= users'[e]
  BY DEF RegisteredBounded
<1>a. /\ registered[e] + Cardinality(Answering(e)) <= users[e]
      /\ users \in [Emails -> Nat] /\ registered \in [Emails -> Nat]
      /\ DOMAIN workers = Workers /\ DOMAIN request = Workers
  BY RestAssumption DEF RestInv, TypeOK, RegisteredBounded
<1>b. Answering(e) \in SUBSET Workers /\ Answering(e)' \in SUBSET Workers
  BY DEF Answering
<1>1. CASE UNCHANGED vars
  <2>1. UNCHANGED <<users, registered>> /\ Answering(e)' = Answering(e)
    BY <1>1 DEF vars, database, accounts, Answering, Route
  <2> QED BY <1>a, <2>1
<1>2. ASSUME NEW w \in Workers, Receive(w) \/ HandlerStep(w)
      PROVE  /\ Cardinality(Answering(e)) \in Nat /\ Cardinality(Answering(e)') \in Nat
             /\ (w \in Answering(e) <=> w \in Answering(e)')
                  => Cardinality(Answering(e)') = Cardinality(Answering(e))
             /\ w \in Answering(e) /\ w \notin Answering(e)'
                  => Cardinality(Answering(e)') = Cardinality(Answering(e)) - 1
             /\ w \notin Answering(e) /\ w \in Answering(e)'
                  => Cardinality(Answering(e)') = Cardinality(Answering(e)) + 1
  <2>1. \A v \in Workers : v # w => (v \in Answering(e) <=> v \in Answering(e)')
    BY <1>2, OthersStay DEF Answering
  <2> QED BY <1>b, <2>1, CountChange
<1>3. ASSUME NEW w \in Workers, Receive(w)
      PROVE  registered'[e] + Cardinality(Answering(e)') <= users'[e]
  <2>1. /\ w \notin Answering(e) /\ w \notin Answering(e)'
        /\ UNCHANGED <<users, registered>>
    BY <1>3, <1>a, ReceiveStep DEF Answering, database, accounts, Route
  <2> QED BY <1>2, <1>3, <1>a, <2>1
<1>4. ASSUME NEW w \in Workers, HandlerStep(w)
      PROVE  registered'[e] + Cardinality(Answering(e)') <= users'[e]
  <2>1. CASE RegisterUser(w)
    <3>1. w \notin Answering(e) /\ registered' = registered
      BY <2>1, RegisterUserStep DEF Answering, RegisterUser
    <3>2. CASE request[w].email = e
      <4>1. users'[e] = users[e] + 1
        BY <1>a, <2>1, <3>2, RegisterUserStep
      <4> QED BY <1>2, <1>4, <1>a, <3>1, <4>1
    <3>3. CASE request[w].email # e
      <4>1. users'[e] = users[e]
        BY <1>a, <2>1, <3>3, RegisterUserStep
      <4>2. w \notin Answering(e)'
        BY <1>4, <1>a, <2>1, <3>3, HandlerMoves DEF Answering, Answered, Moved
      <4> QED BY <1>2, <1>4, <1>a, <3>1, <4>1, <4>2
    <3> QED BY <3>2, <3>3
  <2>2. CASE SignIn(w)
    <3>1. users' = users /\ w \notin Answering(e)'
      BY <1>a, <2>2 DEF SignIn, Answering
    <3>2. CASE w \in Answering(e)
      <4>1. registered'[e] = registered[e] + 1
        BY <1>a, <2>2, <3>2 DEF SignIn, Answering, Email
      <4> QED BY <1>2, <1>4, <1>a, <3>1, <3>2, <4>1
    <3>3. CASE w \notin Answering(e)
      <4>1. registered'[e] = registered[e]
        <5>1. workers[w] = "updateUserStatus"
          BY <2>2 DEF SignIn
        <5>2. Route(w) # "register" \/ request[w].email # e
          BY <3>3, <5>1 DEF Answering
        <5> QED BY <1>a, <2>2, <5>2 DEF SignIn, Email
      <4> QED BY <1>2, <1>4, <1>a, <3>1, <3>3, <4>1
    <3> QED BY <3>2, <3>3
  <2>3. CASE ~RegisterUser(w) /\ ~SignIn(w)
    <3>1. users' = users /\ registered' = registered
      BY <1>4, <2>3, HandlerEffects
    <3>2. w \notin Answering(e)'
      <4>1. CASE Answered(w)
        BY <1>a, <4>1 DEF Answering, Answered
      <4>2. CASE ~Answered(w)
        BY <1>4, <1>a, <2>3, <4>2, HandlerMoves DEF Answering, Moved, RestInv, OnRoute, Route
      <4> QED BY <4>1, <4>2
    <3> QED BY <1>2, <1>4, <1>a, <3>1, <3>2
  <2> QED BY <2>1, <2>2, <2>3
<1> QED BY <1>1, <1>3, <1>4, RestSteps

LEMMA StoreRelationStep ==
  ASSUME RestInv, NEW w \in Workers, StoreRelation(w)
  PROVE  /\ Answered(w) /\ Route(w) = "invite" /\ request[w].pair \in Pairs
         /\ \/ /\ workers[w] = "insert"
               /\ relation' = [relation EXCEPT ![request[w].pair] = @ + 1]
            \/ workers[w] = "update" /\ relation' = relation
<1>1. Answered(w) /\ workers[w] \in {"insert", "update"}
  BY DEF StoreRelation, Answered
<1>2. Route(w) = "invite" /\ request[w].pair \in Pairs
  BY <1>1, RequestFields DEF RestInv, OnRoute
<1> QED BY <1>1, <1>2 DEF StoreRelation

LEMMA RelationBoundedStep == RestInv /\ [Next]_vars => RelationBounded'
<1> SUFFICES ASSUME RestInv, [Next]_vars, NEW p \in Pairs
             PROVE  relation'[p] + Cardinality(Inviting(p)') <= requests'
  BY DEF RelationBounded
<1>a. /\ relation[p] + Cardinality(Inviting(p)) <= requests
      /\ relation \in [Pairs -> Nat] /\ requests \in Nat
      /\ DOMAIN workers = Workers /\ DOMAIN request = Workers
  BY RestAssumption DEF RestInv, TypeOK, RelationBounded
<1>b. Inviting(p) \in SUBSET Workers /\ Inviting(p)' \in SUBSET Workers
  BY DEF Inviting
<1>1. CASE UNCHANGED vars
  <2>1. UNCHANGED <<relation, requests>> /\ Inviting(p)' = Inviting(p)
    BY <1>1 DEF vars, database, Inviting, Route
  <2> QED BY <1>a, <2>1
<1>2. ASSUME NEW w \in Workers, Receive(w) \/ HandlerStep(w)
      PROVE  /\ Cardinality(Inviting(p)) \in Nat /\ Cardinality(Inviting(p)') \in Nat
             /\ (w \in Inviting(p) <=> w \in Inviting(p)')
                  => Cardinality(Inviting(p)') = Cardinality(Inviting(p))
             /\ w \in Inviting(p) /\ w \notin Inviting(p)'
                  => Cardinality(Inviting(p)') = Cardinality(Inviting(p)) - 1
             /\ w \notin Inviting(p) /\ w \in Inviting(p)'
                  => Cardinality(Inviting(p)') = Cardinality(Inviting(p)) + 1
  <2>1. \A v \in Workers : v # w => (v \in Inviting(p) <=> v \in Inviting(p)')
    BY <1>2, OthersStay DEF Inviting
  <2> QED BY <1>b, <2>1, CountChange
<1>3. ASSUME NEW w \in Workers, Receive(w)
      PROVE  relation'[p] + Cardinality(Inviting(p)') <= requests'
  <2>1. w \notin Inviting(p) /\ requests' = requests + 1 /\ relation' = relation
    BY <1>3, ReceiveStep DEF Inviting, Route, NoRequest, database
  <2>2. /\ Cardinality(Inviting(p)) \in Nat /\ Cardinality(Inviting(p)') \in Nat
        /\ Cardinality(Inviting(p)') <= Cardinality(Inviting(p)) + 1
    BY <1>2, <1>3, <2>1
  <2> QED BY <1>a, <2>1, <2>2
<1>4. ASSUME NEW w \in Workers, HandlerStep(w)
      PROVE  relation'[p] + Cardinality(Inviting(p)') <= requests'
  <2>1. requests' = requests
    BY <1>4, HandlerEffects
  <2>2. Answered(w) => w \notin Inviting(p)'
    BY <1>a DEF Inviting, Answered, Route, NoRequest
  <2>3. CASE relation' = relation
    <3>1. w \in Inviting(p)' => w \in Inviting(p)
      BY <1>4, <2>2, HandlerMoves DEF Inviting, Moved, Route
    <3> QED BY <1>2, <1>4, <1>a, <2>1, <2>3, <3>1
  <2>4. CASE StoreRelation(w) /\ relation' # relation
    <3>1. /\ w \notin Inviting(p)'
          /\ relation' = [relation EXCEPT ![request[w].pair] = @ + 1]
          /\ w \in Inviting(p) <=> request[w].pair = p
      BY <2>2, <2>4, StoreRelationStep DEF Inviting
    <3>2. CASE request[w].pair = p
      <4>1. relation'[p] = relation[p] + 1
        BY <1>a, <3>1, <3>2
      <4> QED BY <1>2, <1>4, <1>a, <2>1, <3>1, <3>2, <4>1
    <3>3. CASE request[w].pair # p
      <4>1. relation'[p] = relation[p]
        BY <1>a, <3>1, <3>3
      <4> QED BY <1>2, <1>4, <1>a, <2>1, <3>1, <3>3, <4>1
    <3> QED BY <3>2, <3>3
  <2> QED BY <1>4, <2>3, <2>4, HandlerEffects
<1> QED BY <1>1, <1>3, <1>4, RestSteps

------------------------------------------------------------------------------
(* A call that throws had a connection, or its transaction held one.       *)
LEMMA LostEffects ==
  ASSUME RestInv, NEW w \in Workers, HandlerStep(w)
  PROVE  \/ lost' = lost /\ (w \in InTransaction' => w \in InTransaction)
         \/ lost' = lost /\ Connected
         \/ lost' = lost + 1 /\ w \notin InTransaction' /\ (Connected \/ w \in InTransaction)
<1>a. DOMAIN workers = Workers
  BY DEF RestInv, TypeOK
<1> USE <1>a DEF InTransaction, database
<1>1. CASE AnswerError(w) \/ EmailExists(w) \/ GetPasswordHash(w)
  BY <1>1 DEF AnswerError, EmailExists, GetPasswordHash
<1>2. CASE CallThrows(w)
  BY <1>2 DEF CallThrows
<1>3. CASE RegisterUser(w) \/ InvalidateToken(w)
  BY <1>3 DEF RegisterUser, InvalidateToken
<1>4. CASE SignIn(w) \/ UpdateInDoubt(w) \/ SignOut(w)
  BY <1>4 DEF SignIn, UpdateInDoubt, SignOut
<1>5. CASE IsTokenValid(w)
  <2>1. FirstCall(Route(w)) \notin {"insert", "update"}
    BY <1>5 DEF IsTokenValid, RestInv, OnRoute, FirstCall
  <2> QED BY <1>5, <2>1 DEF IsTokenValid
<1>6. CASE GetRooms(w) \/ GetMessages(w) \/ SelectRelation(w)
  BY <1>6 DEF GetRooms, GetMessages, SelectRelation
<1>7. CASE StoreRelation(w)
  BY <1>7 DEF StoreRelation
<1> QED BY <1>1, <1>2, <1>3, <1>4, <1>5, <1>6, <1>7 DEF HandlerStep

LEMMA LostBoundedStep == RestInv /\ [Next]_vars => LostBounded' /\ lost' \in 0..poolSize_
<1> SUFFICES ASSUME RestInv, [Next]_vars
             PROVE  /\ lost' + Cardinality(InTransaction') <= poolSize_
                    /\ lost' \in 0..poolSize_
  BY DEF LostBounded
<1>a. /\ lost + Cardinality(InTransaction) <= poolSize_
      /\ lost \in Nat /\ poolSize_ \in Nat /\ DOMAIN workers = Workers
  BY RestAssumption DEF RestInv, TypeOK, LostBounded
<1>b. InTransaction \in SUBSET Workers /\ InTransaction' \in SUBSET Workers
  BY DEF InTransaction
<1>1. CASE UNCHANGED vars
  <2>1. lost' = lost /\ InTransaction' = InTransaction
    BY <1>1 DEF vars, database, InTransaction
  <2>2. lost \in 0..poolSize_
    BY DEF RestInv, TypeOK
  <2> QED BY <1>a, <2>1, <2>2
<1>2. ASSUME NEW w \in Workers, Receive(w) \/ HandlerStep(w)
      PROVE  /\ Cardinality(InTransaction) \in Nat /\ Cardinality(InTransaction') \in Nat
             /\ (w \in InTransaction <=> w \in InTransaction')
                  => Cardinality(InTransaction') = Cardinality(InTransaction)
             /\ w \in InTransaction /\ w \notin InTransaction'
                  => Cardinality(InTransaction') = Cardinality(InTransaction) - 1
             /\ w \notin InTransaction /\ w \in InTransaction'
                  => Cardinality(InTransaction') = Cardinality(InTransaction) + 1
  <2>1. \A v \in Workers : v # w => (v \in InTransaction <=> v \in InTransaction')
    BY <1>2, OthersStay DEF InTransaction
  <2> QED BY <1>b, <2>1, CountChange
<1>3. ASSUME NEW w \in Workers, Receive(w)
      PROVE  lost' + Cardinality(InTransaction') <= poolSize_ /\ lost' \in 0..poolSize_
  <2>1. w \notin InTransaction /\ w \notin InTransaction' /\ lost' = lost
    BY <1>3, <1>a, ReceiveStep DEF InTransaction, database
  <2> QED BY <1>2, <1>3, <1>a, <2>1
<1>4. ASSUME NEW w \in Workers, HandlerStep(w)
      PROVE  lost' + Cardinality(InTransaction') <= poolSize_ /\ lost' \in 0..poolSize_
  <2>1. CASE lost' = lost /\ (w \in InTransaction' => w \in InTransaction)
    BY <1>2, <1>4, <1>a, <2>1
  <2>2. CASE lost' = lost /\ Connected
    BY <1>2, <1>4, <1>a, <2>2 DEF Connected
  <2>3. CASE /\ lost' = lost + 1 /\ w \notin InTransaction'
             /\ Connected \/ w \in InTransaction
    BY <1>2, <1>4, <1>a, <2>3 DEF Connected
  <2> QED BY <1>4, <2>1, <2>2, <2>3, LostEffects
<1> QED BY <1>1, <1>3, <1>4, RestSteps

------------------------------------------------------------------------------
(* A worker starts to insert only while there is no row: then the rows to  *)
(* come are as many as the workers that insert, and each insert turns one  *)
(* of these workers into one row.                                          *)
LEMMA DuplicatesStep == RestInv /\ [Next]_vars => DuplicatesAreBounded'
<1> SUFFICES ASSUME RestInv, [Next]_vars, NEW p \in Pairs
             PROVE  Rows(p)' + Cardinality(Inserting(p)') <= Cardinality(Workers)
  BY DEF DuplicatesAreBounded, Inserting
<1>a. /\ Rows(p) + Cardinality(Inserting(p)) <= Cardinality(Workers)
      /\ relation \in [Pairs -> Nat]
      /\ DOMAIN workers = Workers /\ DOMAIN request = Workers
  <2>1. relation \in [Pairs -> Nat] /\ DOMAIN workers = Workers /\ DOMAIN request = Workers
    BY RestAssumption DEF RestInv, TypeOK
  <2> QED BY <2>1 DEF RestInv, DuplicatesAreBounded, Inserting
<1>b. Inserting(p) \in SUBSET Workers /\ Inserting(p)' \in SUBSET Workers
  BY DEF Inserting
<1>c. /\ Reverse(p) \in Pairs /\ Reverse(Reverse(p)) = p
      /\ Reverse(p) = p => Rows(p) = relation[p] /\ Rows(p)' = relation'[p]
      /\ Reverse(p) # p => /\ Rows(p) = relation[p] + relation[Reverse(p)]
                           /\ Rows(p)' = relation'[p] + relation'[Reverse(p)]
      /\ Rows(p) \in Nat
  BY <1>a, Pair DEF Rows
<1>d. relation' = relation => Rows(p)' = Rows(p)
  BY <1>c
<1>1. CASE UNCHANGED vars
  <2>1. Inserting(p)' = Inserting(p) /\ Rows(p)' = Rows(p)
    BY <1>1, <1>c DEF vars, database, Inserting
  <2> QED BY <1>a, <2>1
<1>2. ASSUME NEW w \in Workers, Receive(w) \/ HandlerStep(w)
      PROVE  /\ Cardinality(Inserting(p)) \in Nat /\ Cardinality(Inserting(p)') \in Nat
             /\ (w \in Inserting(p) <=> w \in Inserting(p)')
                  => Cardinality(Inserting(p)') = Cardinality(Inserting(p))
             /\ w \in Inserting(p) /\ w \notin Inserting(p)'
                  => Cardinality(Inserting(p)') = Cardinality(Inserting(p)) - 1
  <2>1. \A v \in Workers : v # w => (v \in Inserting(p) <=> v \in Inserting(p)')
    BY <1>2, OthersStay DEF Inserting
  <2> QED BY <1>b, <2>1, CountChange
<1>3. /\ Cardinality(Workers) \in Nat /\ Cardinality(Inserting(p)') \in Nat
      /\ Cardinality(Inserting(p)') <= Cardinality(Workers)
  BY <1>b, RestAssumption, FS_Subset, FS_CardinalityType
<1>6. ASSUME NEW w \in Workers, HandlerStep(w), Rows(p)' = Rows(p), w \notin Inserting(p)'
      PROVE  Rows(p)' + Cardinality(Inserting(p)') <= Cardinality(Workers)
  <2>1. CASE w \in Inserting(p)
    <3>1. /\ Cardinality(Inserting(p)') = Cardinality(Inserting(p)) - 1
          /\ Cardinality(Inserting(p)) \in Nat
      BY <1>2, <1>6, <2>1
    <3>2. Rows(p) + Cardinality(Inserting(p)) <= Cardinality(Workers)
      BY <1>a
    <3> HIDE DEF Rows
    <3> QED BY <1>3, <1>6, <1>c, <3>1, <3>2
  <2>2. CASE w \notin Inserting(p)
    <3>1. Cardinality(Inserting(p)') = Cardinality(Inserting(p))
      BY <1>2, <1>6, <2>2
    <3> QED BY <1>6, <1>a, <3>1
  <2> QED BY <2>1, <2>2
<1>4. ASSUME NEW w \in Workers, Receive(w)
      PROVE  Rows(p)' + Cardinality(Inserting(p)') <= Cardinality(Workers)
  <2>1. w \notin Inserting(p) /\ w \notin Inserting(p)' /\ relation' = relation
    BY <1>4, <1>a, ReceiveStep DEF Inserting, database
  <2> QED BY <1>2, <1>4, <1>a, <1>c, <2>1
<1>5. ASSUME NEW w \in Workers, HandlerStep(w)
      PROVE  Rows(p)' + Cardinality(Inserting(p)') <= Cardinality(Workers)
  <2>1. CASE StoreRelation(w)
    <3>1. w \notin Inserting(p)'
      BY <1>a, <2>1, StoreRelationStep DEF Inserting, Answered
    <3>2. CASE relation' = relation
      BY <1>5, <1>6, <1>d, <3>1, <3>2
    <3>3. CASE workers[w] = "insert" /\ relation' = [relation EXCEPT ![request[w].pair] = @ + 1]
      <4>1. CASE request[w].pair \in {p, Reverse(p)}
        <5>1. w \in Inserting(p) /\ Rows(p)' = Rows(p) + 1
          BY <1>a, <1>c, <3>3, <4>1 DEF Inserting
        <5> QED BY <1>2, <1>5, <1>a, <1>c, <3>1, <5>1
      <4>2. CASE request[w].pair \notin {p, Reverse(p)}
        <5>1. w \notin Inserting(p) /\ Rows(p)' = Rows(p)
          BY <1>a, <1>c, <3>3, <4>2 DEF Inserting
        <5> QED BY <1>2, <1>5, <1>a, <1>c, <3>1, <5>1
      <4> QED BY <4>1, <4>2
    <3> QED BY <2>1, <3>2, <3>3, StoreRelationStep
  <2>2. CASE ~StoreRelation(w) /\ w \notin Inserting(p)'
    <3>1. relation' = relation
      BY <1>5, <2>2, HandlerEffects
    <3> QED BY <1>5, <1>6, <1>d, <2>2, <3>1
  <2>3. CASE ~StoreRelation(w) /\ w \in Inserting(p)'
    <3>1. relation' = relation
      BY <1>5, <2>3, HandlerEffects
    <3>2. /\ workers'[w] = "insert" /\ SelectRelation(w) /\ request' = request
          /\ request[w].pair \in {p, Reverse(p)}
      <4>1. ~Answered(w)
        BY <1>a, <2>3 DEF Answered, Inserting
      <4> QED BY <1>5, <1>a, <2>3, <4>1, HandlerMoves DEF Moved, Inserting
    <3>3. Rows(request[w].pair) = 0
      BY <1>a, <3>2 DEF SelectRelation
    <3>4. Rows(request[w].pair) = Rows(p)
      <4>1. CASE request[w].pair = p
        BY <4>1
      <4>2. CASE request[w].pair = Reverse(p)
        <5>1. Rows(Reverse(p)) = IF Reverse(p) = p THEN relation[p]
                                 ELSE relation[Reverse(p)] + relation[p]
          BY <1>a, <1>c, Pair DEF Rows
        <5> QED BY <1>a, <1>c, <4>2, <5>1
      <4> QED BY <3>2, <4>1, <4>2
    <3>5. Rows(p)' = 0
      BY <1>d, <3>1, <3>3, <3>4
    <3> QED BY <1>3, <3>5
  <2> QED BY <2>1, <2>2, <2>3
<1> QED BY <1>1, <1>4, <1>5, RestSteps

LEMMA SignInStep ==
  ASSUME RestInv, NEW w \in Workers, SignIn(w)
  PROVE  /\ request[w].email \in Emails /\ users[request[w].email] > 0
         /\ tokens' = Append(tokens, request[w].email)
         /\ tokens' \in Seq(Emails) /\ Len(tokens') = Len(tokens) + 1
         /\ \A n \in 1..Len(tokens) : tokens'[n] = tokens[n]
         /\ tokens'[Len(tokens')] = request[w].email
         /\ status' = [status EXCEPT ![request[w].email] = "online"]
         /\ users' = users
<1>1. workers[w] = "updateUserStatus" /\ Route(w) \in {"register", "login"}
  BY DEF SignIn
<1>2. request[w].email \in Emails /\ users[request[w].email] > 0 /\ tokens \in Seq(Emails)
  BY <1>1, RequestFields DEF RestInv, HasRow, TypeOK
<1>3. tokens' = Append(tokens, request[w].email) /\ Email(w) = request[w].email
  BY <1>1 DEF SignIn, Email
<1>4. /\ tokens' \in Seq(Emails) /\ Len(tokens') = Len(tokens) + 1
      /\ \A n \in 1..Len(tokens) : tokens'[n] = tokens[n]
      /\ tokens'[Len(tokens) + 1] = request[w].email
  BY <1>2, <1>3, AppendProperties
<1> QED BY <1>2, <1>3, <1>4 DEF SignIn, SetStatus

(* A status update never writes NULL, and the one before a token finds the *)
(* row.                                                                    *)
LEMMA StatusStep ==
  ASSUME RestInv, [Next]_vars
  PROVE  /\ status' \in [Emails -> {"null", "online", "offline"}]
         /\ \A e \in Emails : status[e] # "null" => status'[e] # "null"
<1>a. status \in [Emails -> {"null", "online", "offline"}]
  BY DEF RestInv, TypeOK
<1>1. CASE status' = status
  BY <1>1, <1>a
<1>2. ASSUME NEW e, NEW s \in {"online", "offline"}, SetStatus(e, s)
      PROVE  /\ status' \in [Emails -> {"null", "online", "offline"}]
             /\ \A f \in Emails : status[f] # "null" => status'[f] # "null"
  BY <1>2, <1>a DEF SetStatus
<1> QED BY <1>1, <1>2, RestSteps, HandlerEffects, ReceiveStep DEF vars, database, accounts

LEMMA SignedInStep == RestInv /\ [Next]_vars => SignedInUsersHaveStatus'
<1> SUFFICES ASSUME RestInv, [Next]_vars, NEW n \in 1..Len(tokens')
             PROVE  users'[tokens'[n]] > 0 /\ status'[tokens'[n]] # "null"
  BY DEF SignedInUsersHaveStatus
<1>a. /\ tokens \in Seq(Emails) /\ Len(tokens) \in Nat
      /\ users \in [Emails -> Nat] /\ status \in [Emails -> {"null", "online", "offline"}]
      /\ \A m \in 1..Len(tokens) : tokens[m] \in Emails
      /\ SignedInUsersHaveStatus
  BY RestAssumption DEF RestInv, TypeOK
<1>1. ASSUME NEW m \in 1..Len(tokens)
      PROVE  users'[tokens[m]] > 0 /\ status'[tokens[m]] # "null"
  BY <1>a, UsersGrow, StatusStep DEF SignedInUsersHaveStatus
<1>2. CASE tokens' = tokens
  BY <1>1, <1>2
<1>3. ASSUME NEW w \in Workers, SignIn(w)
      PROVE  users'[tokens'[n]] > 0 /\ status'[tokens'[n]] # "null"
  <2>1. CASE n \in 1..Len(tokens)
    BY <1>1, <1>3, <2>1, SignInStep
  <2>2. CASE n \notin 1..Len(tokens)
    <3>1. n = Len(tokens') /\ tokens'[n] = request[w].email
      BY <1>3, <1>a, <2>2, SignInStep
    <3> QED BY <1>3, <1>a, <3>1, SignInStep
  <2> QED BY <2>1, <2>2
<1> QED BY <1>2, <1>3, RestSteps, HandlerEffects, ReceiveStep DEF vars

------------------------------------------------------------------------------
LEMMA RestTypeStep == RestInv /\ [Next]_vars => TypeOK'
<1> SUFFICES ASSUME RestInv, [Next]_vars PROVE TypeOK'
  OBVIOUS
<1>a. TypeOK /\ MaxRequests \in Nat /\ tokens \in Seq(Emails) /\ Len(tokens) \in Nat
  BY RestAssumption DEF RestInv, TypeOK
<1>1. requests' \in 0..MaxRequests
  BY <1>a, RestSteps, HandlerEffects, ReceiveStep DEF vars, TypeOK
<1>2. users' \in [Emails -> 0..MaxRequests]
  <2>1. users' \in [Emails -> Nat]
    BY UsersGrow
  <2>2. ASSUME NEW e \in Emails PROVE users'[e] <= MaxRequests
    <3>1. Cardinality(Registering(e)') \in Nat
      BY RestAssumption, FS_Subset, FS_CardinalityType DEF Registering
    <3>2. users'[e] + Cardinality(Registering(e)') <= requests'
      BY UsersBoundedStep DEF UsersBounded
    <3> QED BY <1>1, <1>a, <2>1, <3>1, <3>2
  <2> QED BY <1>a, <2>1, <2>2
<1>3. registered' \in [Emails -> 0..MaxRequests]
  <2>1. registered' \in [Emails -> Nat]
    <3>1. registered \in [Emails -> Nat]
      BY <1>a DEF TypeOK
    <3>2. registered' = registered \/ \E w \in Workers : SignIn(w)
      BY RestSteps, HandlerEffects, ReceiveStep DEF vars
    <3> QED BY <3>1, <3>2 DEF SignIn
  <2>2. ASSUME NEW e \in Emails PROVE registered'[e] <= MaxRequests
    <3>1. Cardinality(Answering(e)') \in Nat
      BY RestAssumption, FS_Subset, FS_CardinalityType DEF Answering
    <3>2. registered'[e] + Cardinality(Answering(e)') <= users'[e]
      BY RegisteredBoundedStep DEF RegisteredBounded
    <3>3. users'[e] \in 0..MaxRequests
      BY <1>2
    <3> QED BY <1>a, <2>1, <3>1, <3>2, <3>3
  <2> QED BY <1>a, <2>1, <2>2
<1>4. relation' \in [Pairs -> 0..MaxRequests]
  <2>1. relation' \in [Pairs -> Nat]
    <3>1. relation \in [Pairs -> Nat]
      BY <1>a DEF TypeOK
    <3>2. relation' = relation \/ \E w \in Workers : StoreRelation(w)
      BY RestSteps, HandlerEffects, ReceiveStep DEF vars, database
    <3> QED BY <3>1, <3>2, StoreRelationStep
  <2>2. ASSUME NEW p \in Pairs PROVE relation'[p] <= MaxRequests
    <3>1. Cardinality(Inviting(p)') \in Nat
      BY RestAssumption, FS_Subset, FS_CardinalityType DEF Inviting
    <3>2. relation'[p] + Cardinality(Inviting(p)') <= requests'
      BY RelationBoundedStep DEF RelationBounded
    <3> QED BY <1>1, <1>a, <2>1, <3>1, <3>2
  <2> QED BY <1>a, <2>1, <2>2
<1>5. lost' \in 0..poolSize_
  BY LostBoundedStep
<1>6. /\ tokens' \in Seq(Emails) /\ Len(tokens') \in Nat /\ Len(tokens) <= Len(tokens')
  <2>1. tokens' = tokens \/ \E w \in Workers : SignIn(w)
    BY RestSteps, HandlerEffects, ReceiveStep DEF vars
  <2> QED BY <1>a, <2>1, SignInStep
<1>7. blacklist' \subseteq 0..Len(tokens')
  <2>1. blacklist \subseteq 0..Len(tokens)
    BY <1>a DEF TypeOK
  <2>2. ASSUME NEW w \in Workers, InvalidateToken(w)
        PROVE  blacklist' \subseteq 0..Len(tokens')
    <3>1. Route(w) = "logout"
      BY <2>2 DEF InvalidateToken, RestInv, OnRoute
    <3>2. request[w].token \in 0..Len(tokens)
      BY <1>a, <3>1, RequestFields
    <3> QED BY <1>6, <1>a, <2>1, <2>2, <3>2 DEF InvalidateToken
  <2>3. CASE blacklist' = blacklist
    BY <1>6, <1>a, <2>1, <2>3
  <2> QED BY <2>2, <2>3, RestSteps, HandlerEffects, ReceiveStep DEF vars, database, accounts
<1>8. \A r \in Accounts \union Sessions \union Invites \union {NoRequest} :
        r \in Accounts \union Sessions' \union Invites' \union {NoRequest}
  BY <1>6, <1>a DEF Sessions, Invites
<1>9. /\ workers' \in [Workers -> Handling \union {"idle"}]
      /\ request' \in [Workers -> Accounts \union Sessions' \union Invites' \union {NoRequest}]
      /\ \A w \in Workers : workers'[w] = "idle" <=> request'[w] = NoRequest
  <2>a. /\ workers \in [Workers -> Handling \union {"idle"}]
        /\ request \in [Workers -> Accounts \union Sessions \union Invites \union {NoRequest}]
        /\ \A w \in Workers : workers[w] = "idle" <=> request[w] = NoRequest
        /\ "idle" \notin Handling
    BY <1>a DEF TypeOK, Handling
  <2>1. CASE UNCHANGED vars
    BY <1>8, <2>1, <2>a DEF vars
  <2>2. ASSUME NEW w \in Workers, Receive(w)
        PROVE  <1>9!:
    <3>1. PICK r \in Accounts \union Sessions \union Invites :
            /\ request' = [request EXCEPT ![w] = r] /\ r # NoRequest
            /\ workers' = [workers EXCEPT ![w] = FirstStep(r.route)]
            /\ FirstStep(r.route) \in Handling
      BY <2>2, ReceiveStep
    <3> QED BY <1>8, <2>a, <3>1
  <2>3. ASSUME NEW w \in Workers, HandlerStep(w)
        PROVE  <1>9!:
    <3>1. CASE Answered(w)
      BY <1>8, <2>a, <3>1 DEF Answered
    <3>2. ASSUME NEW to \in Handling, workers' = [workers EXCEPT ![w] = to], request' = request,
                 workers[w] \in Handling
          PROVE  <1>9!:
      BY <1>8, <2>a, <3>2
    <3>3. CASE ~Answered(w)
      <4>1. /\ \E to \in Handling : workers' = [workers EXCEPT ![w] = to]
            /\ request' = request /\ workers[w] \in Handling
        BY <2>3, <3>3, HandlerMoves DEF Moved, Handling
      <4> QED BY <3>2, <4>1
    <3> QED BY <3>1, <3>3
  <2> QED BY <2>1, <2>2, <2>3, RestSteps
<1> QED BY <1>1, <1>2, <1>3, <1>4, <1>5, <1>6, <1>7, <1>9, StatusStep DEF TypeOK, Handling

------------------------------------------------------------------------------
(* The inductive invariant holds in every reachable state.                 *)
THEOREM RestSafety == Spec => []RestInv
<1>1. RestInv /\ [Next]_vars => RestInv'
  BY RestTypeStep, OnRouteStep, HasRowStep, UsersBoundedStep, AccountsStep,
     RegisteredBoundedStep, RelationBoundedStep, LostBoundedStep, SignedInStep, DuplicatesStep DEF RestInv
<1> QED BY RestInit, <1>1, PTL DEF Spec

(* The state always has its shape, and the counts their bounds: no more    *)
(* rows of an email or of a pair than requests, and no more connections    *)
(* lost than there are, however many calls throw at once.                  *)
THEOREM RestTypeCorrect == Spec => []TypeOK
<1>1. RestInv => TypeOK
  BY DEF RestInv
<1> QED BY RestSafety, <1>1, PTL

(* However many registrations of one email pass handleRegister's check     *)
(* before one of them inserts, at most one is answered success, if         *)
(* users.email is unique.                                                  *)
THEOREM RegistrationSucceedsOnce == Spec => []OneRegistrationSucceeds
<1>1. RestInv => OneRegistrationSucceeds
  <2>1. SUFFICES ASSUME RestInv, UniqueEmail, NEW e \in Emails PROVE registered[e] <= 1
    BY DEF OneRegistrationSucceeds
  <2>2. Cardinality(Answering(e)) \in Nat
    BY RestAssumption, FS_Subset, FS_CardinalityType DEF Answering
  <2>3. registered[e] \in Nat /\ users[e] \in Nat
    BY <2>1, RestAssumption DEF RestInv, TypeOK
  <2>4. registered[e] + Cardinality(Answering(e)) <= users[e] /\ users[e] <= 1
    BY <2>1 DEF RestInv, RegisteredBounded, RowsAreUnique
  <2> QED BY <2>2, <2>3, <2>4
<1> QED BY RestSafety, <1>1, PTL

(* Racing registrations of one email leave at most one row for each        *)
(* worker, whether users.email is unique or not.                           *)
THEOREM AccountsBounded == Spec => []AccountsAreBounded
<1>1. RestInv => AccountsAreBounded
  BY DEF RestInv
<1> QED BY RestSafety, <1>1, PTL

(* Whoever a token was given to has a row in users, with a status.         *)
THEOREM SignedInHaveStatus == Spec => []SignedInUsersHaveStatus
<1>1. RestInv => SignedInUsersHaveStatus
  BY DEF RestInv
<1> QED BY RestSafety, <1>1, PTL

(* Racing invitations of one pair leave at most one row for each worker.   *)
THEOREM DuplicatesBounded == Spec => []DuplicatesAreBounded
<1>1. RestInv => DuplicatesAreBounded
  BY DEF RestInv
<1> QED BY RestSafety, <1>1, PTL
==============================================================================
