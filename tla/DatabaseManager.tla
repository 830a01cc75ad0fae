---------------------------- MODULE DatabaseManager ----------------------------
(***************************************************************************)
(* DatabaseManager.cpp: every public method takes a connection from the    *)
(* pool, opens a transaction on it, runs its statements and gives the      *)
(* connection back.  This module is about that envelope, the same in all   *)
(* methods, and about what differs between them: whether they commit, and  *)
(* which of them cannot succeed.  Of the rows it keeps which statements of *)
(* a worker's last call are stored; the rest is the business of callers.   *)
(*                                                                         *)
(* A transaction exists twice.  A pqxx::work registers itself with its     *)
(* connection object, which refuses a second one meanwhile, and leaves it  *)
(* when committed or destroyed.  The session in the database is in a       *)
(* transaction from BEGIN to COMMIT or ROLLBACK, whoever sends them.  The  *)
(* destructor of a work that did not commit unregisters first and sends    *)
(* ROLLBACK then; where the connection was released before, another worker *)
(* may have begun on it between the two.  Two threads then use one         *)
(* connection object without a lock.  Their commands are taken to reach    *)
(* the database one at a time, each may fail, and a ROLLBACK sent while    *)
(* another worker has the connection may also come to nothing.             *)
(***************************************************************************)
EXTENDS ConnectionPool

CONSTANT Methods   \* the methods the workers call

VARIABLES
  phase,    \* where each worker is in a method, "idle" when in none
  method,   \* the method each worker is in, or was in last
  work,     \* the worker whose transaction each connection has registered
  closing,  \* the connection each worker has yet to send ROLLBACK on, or 0
  result,   \* how each worker's last call ended, "none" during a call
  inTransaction,  \* the connections whose session is in a transaction
  writes,   \* the uncommitted statements of each session
  stored,   \* the statements of each worker's last call that are committed
  disturbed \* workers whose transaction got another's ROLLBACK; no guard reads it

callVars == <<phase, method, work, closing, result>>
sessionVars == <<inTransaction, writes, stored, disturbed>>
dbVars == <<callVars, sessionVars>>
vars == <<poolVars, dbVars>>

------------------------------------------------------------------------------
(* The methods, in the order of the file                                   *)

GenericMethods == {"executeQuery", "fetchQuery"}
AccountMethods == {"emailExists", "registerUser", "getPasswordHash",
                   "invalidateToken", "updateUserStatus", "getUsers"}
MessageMethods == {"saveMessage", "updateLastMessageAt", "updateMessageStatus"}
RoomMethods    == {"getRoomById", "getRoomByUserIds", "getRoomsByUserId"}
LookupMethods  == {"getMessages", "getUserById", "getUserByEmail"}
FriendMethods  == {"updateFriendRequest", "getFriendRequests", "getFriends",
                   "getFriendRequestPending"}

AllMethods == GenericMethods \union AccountMethods \union MessageMethods
              \union RoomMethods \union LookupMethods \union FriendMethods

ASSUME MethodAssumption == Methods \subseteq AllMethods

(* The methods that commit; the others leave their transaction to its      *)
(* destructor, which runs after releaseConnection.                         *)
Committing == {"executeQuery", "registerUser", "invalidateToken",
               "updateUserStatus", "updateFriendRequest"} \union MessageMethods

(* The statement of getRoomById lacks a comma and is refused.              *)
Malformed == {"getRoomById"}

(* updateFriendRequest queries again through the committed transaction,    *)
(* which pqxx refuses.                                                     *)
QueriesAfterCommit == {"updateFriendRequest"}

(* getPasswordHash converts the hash after releaseConnection.              *)
ConvertsLate == {"getPasswordHash"}

(* registerUser writes to two tables, the others to one.  Its early return *)
(* for an INSERT ... RETURNING without a row is never taken.               *)
WritesTwice == {"registerUser"}

(* Two methods run off their end: getMessages always, getUserById when the *)
(* user was found.  What the caller receives is undefined.  getUserByEmail *)
(* has no return at its end either, but a row it finds makes it throw.     *)
FallsOffEnd == {"getMessages", "getUserById"}

------------------------------------------------------------------------------
(* A statement is known by its worker and its number in the call.          *)
Statements == Workers \X {1, 2}
CallWrites(w) == {w} \X (IF method[w] \in WritesTwice THEN {1, 2} ELSE {1})
StoredBy(w) == {s \in stored : s[1] = w}

Init ==
  /\ PoolInit
  /\ phase = [w \in Workers |-> "idle"]
  /\ method \in [Workers -> Methods]
  /\ work = [c \in Connections |-> NoThread]
  /\ closing = [w \in Workers |-> 0]
  /\ result = [w \in Workers |-> "none"]
  /\ inTransaction = {}
  /\ writes = [c \in Connections |-> {}]
  /\ stored = {}
  /\ disturbed = {}

Phase(w, from, to) == phase[w] = from /\ phase' = [phase EXCEPT ![w] = to]

Call(w, m) ==
  /\ Phase(w, "idle", "connect")
  /\ method' = [method EXCEPT ![w] = m]
  /\ GetConnection(w)
  /\ result' = [result EXCEPT ![w] = "none"]
  /\ stored' = stored \ StoredBy(w)
  /\ disturbed' = disturbed \ {w}
  /\ UNCHANGED <<work, closing, inTransaction, writes>>

Connect(w) ==
  /\ Phase(w, "connect", "begin")
  /\ TakeFront(w)
  /\ UNCHANGED <<method, work, closing, result, sessionVars>>

(* Mutant: a pqxx::nontransaction, without BEGIN.                          *)
BeginNontransaction(w) ==
  /\ Phase(w, "begin", "exec")
  /\ work[conn[w]] = NoThread
  /\ work' = [work EXCEPT ![conn[w]] = w]
  /\ UNCHANGED <<poolVars, method, closing, result, sessionVars>>

(* BEGIN in a session that is in a transaction only raises a warning.      *)
Begin(w) ==
  /\ Phase(w, "begin", "exec")
  /\ work[conn[w]] = NoThread
  /\ work' = [work EXCEPT ![conn[w]] = w]
  /\ inTransaction' = inTransaction \union {conn[w]}
  /\ UNCHANGED <<poolVars, method, closing, result, writes, stored, disturbed>>

(* A statement outside a transaction is committed at once.                 *)
Write(w, n) ==
  IF conn[w] \in inTransaction
  THEN /\ writes' = [writes EXCEPT ![conn[w]] = @ \union {<<w, n>>}]
       /\ UNCHANGED stored
  ELSE /\ stored' = stored \union {<<w, n>>}
       /\ UNCHANGED writes

(* Mutant: a method that writes and does not commit.                       *)
ExecWithoutCommit(w) ==
  /\ method[w] \notin Malformed
  /\ Phase(w, "exec", "release")
  /\ IF method[w] \in Committing THEN Write(w, 1) ELSE UNCHANGED <<writes, stored>>
  /\ UNCHANGED <<poolVars, method, work, closing, result, inTransaction, disturbed>>

Exec(w) ==
  /\ method[w] \notin Malformed
  /\ Phase(w, "exec", IF method[w] \in WritesTwice THEN "exec2"
                      ELSE IF method[w] \in Committing THEN "commit" ELSE "release")
  /\ IF method[w] \in Committing THEN Write(w, 1) ELSE UNCHANGED <<writes, stored>>
  /\ UNCHANGED <<poolVars, method, work, closing, result, inTransaction, disturbed>>

ExecSecond(w) ==
  /\ Phase(w, "exec2", "commit")
  /\ Write(w, 2)
  /\ UNCHANGED <<poolVars, method, work, closing, result, inTransaction, disturbed>>

(* COMMIT and ROLLBACK of the session of connection c.  Outside a          *)
(* transaction either only raises a warning.                               *)
EndTransaction(c) ==
  /\ inTransaction' = inTransaction \ {c}
  /\ writes' = [writes EXCEPT ![c] = {}]

Leave(c) == work' = [work EXCEPT ![c] = NoThread]

Commit(w) ==
  /\ Phase(w, "commit", IF method[w] \in QueriesAfterCommit THEN "late" ELSE "release")
  /\ Leave(conn[w])
  /\ EndTransaction(conn[w])
  /\ stored' = stored \union writes[conn[w]]
  /\ UNCHANGED <<poolVars, method, closing, result, disturbed>>

(* Mutant: the connection is not dropped.                                  *)
ThrowKeeping(w) ==
  /\ \E p \in {"begin", "exec", "exec2", "commit", "late"} : Phase(w, p, "idle")
  /\ result' = [result EXCEPT ![w] = "threw"]
  /\ IF work[conn[w]] = w
     THEN Leave(conn[w]) /\ EndTransaction(conn[w])
     ELSE UNCHANGED <<work, inTransaction, writes>>
  /\ UNCHANGED <<poolVars, method, closing, stored, disturbed>>

(* Any statement may fail; `work' is unwound before the catch clause, its  *)
(* connection still held.  There handleError throws, so the                *)
(* releaseConnection after it is never reached and the connection is       *)
(* dropped with `conn'.  A COMMIT that fails may have taken effect.        *)
Throw(w) ==
  /\ \E p \in {"begin", "exec", "exec2", "commit", "late"} : Phase(w, p, "idle")
  /\ Drop(w)
  /\ result' = [result EXCEPT ![w] = "threw"]
  /\ IF work[conn[w]] = w
     THEN Leave(conn[w]) /\ EndTransaction(conn[w])
     ELSE UNCHANGED <<work, inTransaction, writes>>
  /\ \/ UNCHANGED stored
     \/ phase[w] = "commit" /\ stored' = stored \union writes[conn[w]]
  /\ UNCHANGED <<method, closing, disturbed>>

(* Mutant: a path without a call of releaseConnection.                     *)
ReleaseForgotten(w) ==
  /\ Phase(w, "release", "return")
  /\ Drop(w)
  /\ UNCHANGED <<method, work, closing, result, sessionVars>>

(* releaseConnection, with the transaction still open when nothing         *)
(* committed it.                                                           *)
Release(w) ==
  /\ Phase(w, "release", "return")
  /\ ReleaseConnection(w)
  /\ UNCHANGED <<method, work, closing, result, sessionVars>>

(* The end of a method that committed: nothing is left to close.           *)
Return(w) ==
  /\ method[w] \in Committing
  /\ Phase(w, "return", "idle")
  /\ result' = [result EXCEPT ![w] = "returned"]
  /\ UNCHANGED <<poolVars, method, work, closing, sessionVars>>

(* The end of the others: the destructor of `work' unregisters it ...      *)
Unregister(w) ==
  /\ method[w] \notin Committing
  /\ Phase(w, "return", "close")
  /\ \E c \in Connections :
       /\ work[c] = w
       /\ Leave(c)
       /\ closing' = [closing EXCEPT ![w] = c]
  /\ UNCHANGED <<poolVars, method, result, sessionVars>>

(* ... and sends ROLLBACK, whoever uses the session by now.                *)
Rollback(w) ==
  /\ Phase(w, "close", "idle")
  /\ closing' = [closing EXCEPT ![w] = 0]
  /\ \/ /\ EndTransaction(closing[w])
        /\ disturbed' = disturbed \union ({work[closing[w]]} \ {NoThread})
     \/ /\ \E v \in Workers : conn[v] = closing[w]
        /\ UNCHANGED <<inTransaction, writes, disturbed>>
  /\ \E r \in {"returned"}
              \union (IF method[w] \in FallsOffEnd THEN {"undefined"} ELSE {})
              \union (IF method[w] \in ConvertsLate THEN {"threw"} ELSE {}) :
       result' = [result EXCEPT ![w] = r]
  /\ UNCHANGED <<poolVars, method, work, stored>>

PoolStep(w) == GetStep(w) /\ UNCHANGED dbVars

Step(w) ==
  \/ PoolStep(w) \/ Connect(w) \/ Begin(w) \/ Exec(w) \/ ExecSecond(w) \/ Commit(w)
  \/ Throw(w) \/ Release(w) \/ Return(w) \/ Unregister(w) \/ Rollback(w)

Next ==
  \E w \in Workers :
    \/ \E m \in Methods : Call(w, m)
    \/ Step(w)
    \/ Wakeup(w) /\ UNCHANGED dbVars

Spec == Init /\ [][Next]_vars

(* A worker inside a method keeps running, the database answers, and a     *)
(* thread that keeps asking for a mutex that keeps being released gets it. *)
FairSpec ==
  Spec /\ \A w \in Workers :
            WF_vars(Step(w)) /\ SF_vars(Acquire(w) /\ UNCHANGED dbVars)
                             /\ SF_vars(Release(w))

------------------------------------------------------------------------------
(* Properties                                                              *)

(* The shape of the state: a worker holds a connection from getConnection  *)
(* to the end of the loan, and has a ROLLBACK to send only while it closes *)
(* the transaction of a method that does not commit.                       *)
TypeOK ==
  /\ PoolTypeOK
  /\ phase \in [Workers -> {"idle", "connect", "begin", "exec", "exec2", "commit",
                            "late", "release", "return", "close"}]
  /\ method \in [Workers -> Methods]
  /\ work \in [Connections -> Workers \union {NoThread}]
  /\ closing \in [Workers -> Connections \union {0}]
  /\ result \in [Workers -> {"none", "returned", "threw", "undefined"}]
  /\ inTransaction \subseteq Connections
  /\ writes \in [Connections -> SUBSET Statements]
  /\ stored \subseteq Statements
  /\ disturbed \subseteq Workers
  /\ \A w \in Workers :
       /\ at[w] = "use" <=> phase[w] \in {"begin", "exec", "exec2", "commit",
                                          "late", "release"}
       /\ closing[w] # 0 <=> phase[w] = "close"
       /\ phase[w] = "close" => method[w] \notin Committing

(* Uncommitted statements stay on a connection that their worker holds:    *)
(* no other call can commit them, although sessions are shared and the     *)
(* methods release their connections on many paths.                        *)
WritesStayWithHolder ==
  \A c \in Connections : \A s \in writes[c] :
    conn[s[1]] = c /\ phase[s[1]] \in {"exec2", "commit"}

(* What callers conclude from the end of a call that writes: one that      *)
(* returns has stored all it wrote, one that throws all or nothing.  A     *)
(* transaction that got the ROLLBACK of another call is excepted, and is   *)
(* the only exception.                                                     *)
ResultTellsStored ==
  \A w \in Workers \ disturbed : phase[w] = "idle" /\ method[w] \in Committing =>
    /\ result[w] = "returned" => CallWrites(w) \subseteq stored
    /\ StoredBy(w) = {} \/ CallWrites(w) \subseteq stored

(* DatabaseManager.cpp:55: "The transaction is automatically committed     *)
(* when the function exits".                                               *)
ReturnedMeansStored ==
  \A w \in Workers :
    phase[w] = "idle" /\ method[w] \in Committing /\ result[w] = "returned" =>
      CallWrites(w) \subseteq stored

(* A connection is lost only by a call that ends in an exception: all      *)
(* other paths, early returns included, give it back.                      *)
OnlyErrorsLoseConnections ==
  [][Lost' # Lost => \E w \in Workers : result'[w] = "threw" /\ conn[w] \in Lost']_vars

(* Every call ends, unless errors left fewer connections than workers.     *)
Exhausted == poolSize_ < Cardinality(Workers) + Cardinality(Lost)
CallsEnd == \A w \in Workers : phase[w] # "idle" ~> (phase[w] = "idle" \/ Exhausted)

(* To its callers the database is a budget of connections.                 *)
Budget == INSTANCE ConnectionBudget WITH
  available <- Len(pool_),
  busy <- {w \in Workers : conn[w] # 0}

ImplementsBudget == Budget!Spec

(* DatabaseManager.cpp:66: "If an error occurs, the connection is released *)
(* back to the pool".                                                      *)
ErrorsReleaseConnections == Lost = {}
================================================================================
