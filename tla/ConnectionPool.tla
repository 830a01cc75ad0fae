---------------------------- MODULE ConnectionPool ----------------------------
(***************************************************************************)
(* ConnectionPool.h / ConnectionPool.cpp: a queue of database connections  *)
(* shared by the worker threads.  A connection is its position in the      *)
(* constructor's loop.  A caller that does not call releaseConnection and  *)
(* lets its shared_ptr go out of scope closes the connection: Drop.        *)
(***************************************************************************)
EXTENDS Naturals, Sequences, FiniteSets

CONSTANTS
  Workers,    \* the threads that use the pool
  NoThread,   \* the owner of a free mutex
  poolSize_   \* how many connections the constructor opens (150)

ASSUME ConnectionAssumption ==
  /\ IsFiniteSet(Workers)
  /\ NoThread \notin Workers
  /\ poolSize_ \in Nat

VARIABLES
  pool_,
  mutex_,
  condition_,  \* the workers asleep on the condition variable
  at,          \* where each worker is in getConnection(): "use" when it holds
               \* a connection, "idle" when it is out of the pool's functions
  conn         \* the connection each worker holds, 0 for none

poolVars == <<pool_, mutex_, condition_, at, conn>>

Pool == INSTANCE Monitor WITH owner <- mutex_, sleeping <- condition_

Connections == 1..poolSize_

PoolInit ==
  /\ pool_ = [i \in Connections |-> i]
  /\ mutex_ = NoThread
  /\ condition_ = {}
  /\ at = [w \in Workers |-> "idle"]
  /\ conn = [w \in Workers |-> 0]

Goto(w, from, to) == at[w] = from /\ at' = [at EXCEPT ![w] = to]

------------------------------------------------------------------------------
(* getConnection(), from the call to the return                            *)

GetConnection(w) ==
  /\ Goto(w, "idle", "lock")
  /\ UNCHANGED <<pool_, mutex_, condition_, conn>>

Acquire(w) ==
  /\ at[w] = "lock" \/ (at[w] = "wait" /\ w \notin condition_)
  /\ Pool!Lock(w)
  /\ at' = [at EXCEPT ![w] = "check"]
  /\ UNCHANGED <<pool_, condition_, conn>>

(* Mutant: the last connection is never lent.                              *)
CheckOffByOne(w) ==
  /\ \/ Len(pool_) > 1 /\ Goto(w, "check", "take")
     \/ Len(pool_) <= 1 /\ Goto(w, "check", "block")
  /\ UNCHANGED <<pool_, mutex_, condition_, conn>>

Check(w) ==
  /\ \/ pool_ # <<>> /\ Goto(w, "check", "take")
     \/ pool_ = <<>> /\ Goto(w, "check", "block")
  /\ UNCHANGED <<pool_, mutex_, condition_, conn>>

Sleep(w) ==
  /\ Goto(w, "block", "wait")
  /\ Pool!Wait(w)
  /\ UNCHANGED <<pool_, conn>>

Wakeup(w) ==
  /\ Pool!SpuriousWakeup(w)
  /\ UNCHANGED <<pool_, mutex_, at, conn>>

(* Mutant: the connection stays in the pool.                               *)
TakeFrontWithoutPop(w) ==
  /\ Goto(w, "take", "use")
  /\ conn' = [conn EXCEPT ![w] = Head(pool_)]
  /\ Pool!Unlock(w)
  /\ UNCHANGED <<pool_, condition_>>

(* Mutant: a second connection is popped and thrown away.                  *)
TakeFrontPopTwice(w) ==
  /\ Goto(w, "take", "use")
  /\ conn' = [conn EXCEPT ![w] = Head(pool_)]
  /\ pool_' = SubSeq(pool_, 3, Len(pool_))
  /\ Pool!Unlock(w)
  /\ UNCHANGED condition_

(* Mutant: the mutex is not released.                                      *)
TakeFrontLocked(w) ==
  /\ Goto(w, "take", "use")
  /\ conn' = [conn EXCEPT ![w] = Head(pool_)]
  /\ pool_' = Tail(pool_)
  /\ UNCHANGED <<mutex_, condition_>>

TakeFront(w) ==
  /\ Goto(w, "take", "use")
  /\ conn' = [conn EXCEPT ![w] = Head(pool_)]
  /\ pool_' = Tail(pool_)
  /\ Pool!Unlock(w)
  /\ UNCHANGED condition_

GetStep(w) == Acquire(w) \/ Check(w) \/ Sleep(w)

------------------------------------------------------------------------------
(* The end of a loan                                                       *)

(* Mutant: the worker keeps its pointer to the connection.                 *)
GiveUpNothing(w) == Goto(w, "use", "idle") /\ UNCHANGED conn

GiveUp(w) == Goto(w, "use", "idle") /\ conn' = [conn EXCEPT ![w] = 0]

(* Mutant: nobody is notified.                                             *)
ReleaseSilently(w) ==
  /\ Pool!Unlocked
  /\ pool_' = Append(pool_, conn[w])
  /\ GiveUp(w)
  /\ UNCHANGED <<mutex_, condition_>>

(* releaseConnection(): push and notify, both under the lock.              *)
ReleaseConnection(w) ==
  /\ Pool!Unlocked
  /\ pool_' = Append(pool_, conn[w])
  /\ Pool!NotifyOne
  /\ GiveUp(w)
  /\ UNCHANGED mutex_

Drop(w) == GiveUp(w) /\ UNCHANGED <<pool_, mutex_, condition_>>

------------------------------------------------------------------------------
PoolNext ==
  \E w \in Workers :
    \/ GetConnection(w) \/ GetStep(w) \/ Wakeup(w) \/ TakeFront(w)
    \/ ReleaseConnection(w) \/ Drop(w)

PoolSpec == PoolInit /\ [][PoolNext]_poolVars

------------------------------------------------------------------------------
(* Properties                                                              *)

Free == {pool_[i] : i \in 1..Len(pool_)}

Held == {conn[w] : w \in Workers} \ {0}

Lost == Connections \ (Free \union Held)

(* The shape of the state; a worker has a connection exactly while in use. *)
PoolTypeOK ==
  /\ pool_ \in Seq(Connections)
  /\ mutex_ \in Workers \union {NoThread}
  /\ condition_ \subseteq Workers
  /\ at \in [Workers -> {"idle", "lock", "check", "block", "wait", "take", "use"}]
  /\ conn \in [Workers -> Connections \union {0}]
  /\ \A w \in Workers : at[w] = "use" <=> conn[w] # 0

(* A connection is lent to one worker at a time and is in the pool at most *)
(* once: what the lock in getConnection is said to be for.                 *)
ExclusiveLoans ==
  /\ \A i, j \in 1..Len(pool_) : i # j => pool_[i] # pool_[j]
  /\ \A v, w \in Workers : v # w /\ conn[v] # 0 => conn[v] # conn[w]
  /\ Free \cap Held = {}

(* No wakeup is lost: while a worker sleeps, each pooled connection is     *)
(* matched by a worker that is awake and about to look.                    *)
Getting ==
  {w \in Workers : \/ at[w] \in {"lock", "check", "take"}
                   \/ at[w] = "wait" /\ w \notin condition_}
PoolNoLostWakeup == condition_ # {} => Len(pool_) <= Cardinality(Getting)

(* A worker finds the pool empty only when connections were lost, so many  *)
(* that the rest are fewer than the workers: with as many connections as   *)
(* workers (150 and 150) and none lost, getConnection never waits.         *)
WaitsOnlyWhenShort ==
  (\E w \in Workers : at[w] \in {"block", "wait"}) =>
    poolSize_ < Cardinality(Workers) + Cardinality(Lost)

(* Where each connection is, for ConnectionLeases.                         *)
LeaseStatus ==
  [c \in Connections |->
     IF c \in Free THEN "free"
     ELSE IF c \in Held THEN CHOOSE w \in Workers : conn[w] = c
     ELSE "lost"]

(* The pool implements ConnectionLeases.                                   *)
Leases == INSTANCE ConnectionLeases WITH
  Free <- "free", Lost <- "lost", status <- LeaseStatus

ImplementsLeases == Leases!Spec
==============================================================================
