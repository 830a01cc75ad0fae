------------------------ MODULE DatabaseManagerProofs ------------------------
(***************************************************************************)
(* Proofs about DatabaseManager, for every set of workers, number of       *)
(* connections and choice of methods.  What DatabaseManager does to the    *)
(* pool are steps of ConnectionPool, so that PoolInv comes for nothing.    *)
(***************************************************************************)
EXTENDS DatabaseManager, ConnectionPoolProofs

(* A transaction of the program is registered with the connection its      *)
(* worker holds.                                                           *)
Registered(w) ==
  phase[w] \in {"exec", "exec2", "commit"} => work[conn[w]] = w

(* Unless another call's ROLLBACK came in, the session is in a transaction *)
(* meanwhile, which has the statements executed so far.                    *)
InOwnTransaction(w) ==
  /\ phase[w] \in {"exec", "exec2", "commit"} => conn[w] \in inTransaction
  /\ phase[w] = "exec2" => <<w, 1>> \in writes[conn[w]]
  /\ phase[w] = "commit" => CallWrites(w) \subseteq writes[conn[w]]

(* Nothing is stored before the commit, and everything after.              *)
StoredSoFar(w) ==
  method[w] \in Committing =>
    /\ phase[w] \in {"connect", "begin", "exec", "exec2", "commit"} => StoredBy(w) = {}
    /\ phase[w] \in {"late", "release", "return"} => CallWrites(w) \subseteq stored
    /\ phase[w] = "idle" => /\ result[w] = "returned" => CallWrites(w) \subseteq stored
                            /\ StoredBy(w) = {} \/ CallWrites(w) \subseteq stored

CallOK(w) == Registered(w) /\ (w \notin disturbed => InOwnTransaction(w) /\ StoredSoFar(w))

DbInv == PoolInv /\ TypeOK /\ WritesStayWithHolder /\ \A w \in Workers : CallOK(w)

(* Any step is a step of one worker.                                       *)
LEMMA DbSteps ==
  ASSUME [Next]_vars
  PROVE  \/ UNCHANGED vars
         \/ \E w \in Workers :
              \/ \E m \in Methods : Call(w, m)
              \/ GetStep(w) /\ UNCHANGED dbVars
              \/ Wakeup(w) /\ UNCHANGED dbVars
              \/ Connect(w) \/ Begin(w) \/ Exec(w) \/ ExecSecond(w) \/ Commit(w)
              \/ Throw(w) \/ Release(w) \/ Return(w) \/ Unregister(w) \/ Rollback(w)
BY DEF Next, Step, PoolStep

(* The steps that leave the pool alone.                                    *)
DatabaseStep(w) ==
  \/ Begin(w) \/ Exec(w) \/ ExecSecond(w) \/ Commit(w)
  \/ Return(w) \/ Unregister(w) \/ Rollback(w)

LEMMA DatabaseSteps ==
  ASSUME NEW w, DatabaseStep(w)
  PROVE  UNCHANGED poolVars
BY DEF DatabaseStep, Begin, Exec, ExecSecond, Commit, Return, Unregister, Rollback

(* What each action does to the pool.                                      *)
LEMMA DbPoolSteps == [Next]_vars => [PoolNext]_poolVars
<1> SUFFICES ASSUME [Next]_vars PROVE [PoolNext]_poolVars
  OBVIOUS
<1>1. CASE UNCHANGED vars
  BY <1>1 DEF vars
<1>2. ASSUME NEW w \in Workers, NEW m \in Methods, Call(w, m) PROVE PoolNext
  BY <1>2 DEF Call, PoolNext
<1>3. ASSUME NEW w \in Workers, GetStep(w) \/ Wakeup(w) PROVE PoolNext
  BY <1>3 DEF PoolNext
<1>4. ASSUME NEW w \in Workers, Connect(w) \/ Throw(w) \/ Release(w) PROVE PoolNext
  BY <1>4 DEF Connect, Throw, Release, PoolNext
<1>5. ASSUME NEW w \in Workers, DatabaseStep(w) PROVE UNCHANGED poolVars
  BY <1>5, DatabaseSteps
<1> QED BY <1>1, <1>2, <1>3, <1>4, <1>5, DbSteps DEF DatabaseStep

LEMMA DbPoolInvStep == PoolInv /\ [Next]_vars => PoolInv'
BY PoolInvStep, DbPoolSteps

(* What the steps inside getConnection leave alone.                        *)
LEMMA GettingFrame ==
  ASSUME PoolInv, NEW w \in Workers, GetConnection(w) \/ GetStep(w) \/ Wakeup(w)
  PROVE  /\ UNCHANGED <<pool_, conn>>
         /\ \A v \in Workers : at[v] = "use" <=> at'[v] = "use"
BY DEF GetConnection, GetStep, Acquire, Check, Sleep, Wakeup, Goto, PoolInv, PoolTypeOK

------------------------------------------------------------------------------
LEMMA DbInit == Init => DbInv
<1> SUFFICES ASSUME Init PROVE DbInv
  OBVIOUS
<1>1. PoolInv
  BY PoolInitInv DEF Init
<1>2. TypeOK
  BY <1>1 DEF Init, PoolInit, TypeOK, PoolInv
<1>3. WritesStayWithHolder
  BY DEF Init, WritesStayWithHolder
<1>4. ASSUME NEW w \in Workers PROVE CallOK(w)
  BY DEF Init, CallOK, Registered, InOwnTransaction, StoredSoFar, StoredBy
<1> QED BY <1>1, <1>2, <1>3, <1>4 DEF DbInv

(* What the proofs use of the types, and that loans are exclusive.         *)
LEMMA DbFacts ==
  ASSUME DbInv
  PROVE  /\ TypeOK /\ PoolInv /\ NoThread \notin Workers /\ 0 \notin Connections
         /\ conn \in [Workers -> Connections \union {0}]
         /\ \A w \in Workers :
              phase[w] \in {"begin", "exec", "exec2", "commit", "late", "release"}
                => conn[w] \in Connections
         /\ \A v, w \in Workers : v # w /\ conn[v] # 0 => conn[v] # conn[w]
         /\ \A s \in Statements : s[1] \in Workers
<1>1. PoolInv /\ TypeOK
  BY DEF DbInv
<1>2. NoThread \notin Workers /\ 0 \notin Connections
  BY ConnectionAssumption DEF Connections
<1> QED BY <1>1, <1>2 DEF TypeOK, PoolInv, PoolTypeOK, ExclusiveLoans, Statements

LEMMA DbTypeStep == DbInv /\ [Next]_vars => TypeOK'
<1> SUFFICES ASSUME DbInv, [Next]_vars PROVE TypeOK'
  OBVIOUS
<1> USE DEF TypeOK
<1>a. /\ TypeOK /\ PoolInv /\ PoolTypeOK' /\ 0 \notin Connections
      /\ at \in [Workers -> {"idle", "lock", "check", "block", "wait", "take", "use"}]
      /\ conn \in [Workers -> Connections \union {0}]
      /\ \A w \in Workers : at[w] = "use" <=> conn[w] # 0
      /\ \A w \in Workers : <<w, 1>> \in Statements /\ <<w, 2>> \in Statements
  BY DbFacts, DbPoolInvStep DEF DbInv, PoolInv, PoolTypeOK, Statements
<1>b. ASSUME NEW w \in Workers, NEW n \in {1, 2}, Write(w, n), conn[w] \in Connections
      PROVE  writes' \in [Connections -> SUBSET Statements] /\ stored' \subseteq Statements
  <2>1. <<w, n>> \in Statements
    BY DEF Statements
  <2>2. CASE conn[w] \in inTransaction
    BY <1>a, <1>b, <2>1, <2>2 DEF Write
  <2>3. CASE conn[w] \notin inTransaction
    BY <1>a, <1>b, <2>1, <2>3 DEF Write
  <2> QED BY <2>2, <2>3
<1>c. ASSUME NEW c \in Connections, EndTransaction(c)
      PROVE  /\ writes' \in [Connections -> SUBSET Statements]
             /\ inTransaction' \subseteq Connections
             /\ writes[c] \subseteq Statements
  BY <1>a, <1>c DEF EndTransaction
<1>1. CASE UNCHANGED vars
  BY <1>1, <1>a DEF vars, poolVars, dbVars, callVars, sessionVars
<1>2. ASSUME NEW w \in Workers, NEW m \in Methods, Call(w, m) PROVE TypeOK'
  BY <1>2, <1>a, GettingFrame DEF Call, Phase
<1>3. ASSUME NEW w \in Workers, GetStep(w) \/ Wakeup(w), UNCHANGED dbVars PROVE TypeOK'
  BY <1>3, <1>a, GettingFrame DEF dbVars, callVars, sessionVars
<1>4. ASSUME NEW w \in Workers, Connect(w) PROVE TypeOK'
  BY <1>4, <1>a DEF Connect, Phase, TakeFront, Goto, sessionVars
<1>5. ASSUME NEW w \in Workers, Begin(w) PROVE TypeOK'
  BY <1>5, <1>a DEF Begin, Phase, poolVars
<1>6. ASSUME NEW w \in Workers, Exec(w) PROVE TypeOK'
  <2>1. writes' \in [Connections -> SUBSET Statements] /\ stored' \subseteq Statements
    BY <1>6, <1>a, <1>b DEF Exec, Phase
  <2> QED BY <1>6, <1>a, <2>1 DEF Exec, Phase, poolVars
<1>7. ASSUME NEW w \in Workers, ExecSecond(w) PROVE TypeOK'
  <2>1. writes' \in [Connections -> SUBSET Statements] /\ stored' \subseteq Statements
    BY <1>7, <1>a, <1>b DEF ExecSecond, Phase
  <2> QED BY <1>7, <1>a, <2>1 DEF ExecSecond, Phase, poolVars
<1>8. ASSUME NEW w \in Workers, Commit(w) PROVE TypeOK'
  <2>1. conn[w] \in Connections
    BY <1>8, <1>a DEF Commit, Phase
  <2> QED BY <1>8, <1>a, <1>c, <2>1 DEF Commit, Phase, poolVars, Leave
<1>9. ASSUME NEW w \in Workers, Throw(w) PROVE TypeOK'
  <2>1. conn[w] \in Connections
    BY <1>9, <1>a DEF Throw, Phase
  <2>2. /\ work' \in [Connections -> Workers \union {NoThread}]
        /\ inTransaction' \subseteq Connections
        /\ writes' \in [Connections -> SUBSET Statements]
        /\ stored' \subseteq Statements
    BY <1>9, <1>a, <1>c, <2>1 DEF Throw, Leave
  <2> QED BY <1>9, <1>a, <2>2 DEF Throw, Phase, Drop, GiveUp, Goto
<1>10. ASSUME NEW w \in Workers, Release(w) PROVE TypeOK'
  BY <1>10, <1>a DEF Release, Phase, ReleaseConnection, GiveUp, Goto, sessionVars
<1>11. ASSUME NEW w \in Workers, Return(w) PROVE TypeOK'
  BY <1>11, <1>a DEF Return, Phase, poolVars, sessionVars
<1>12. ASSUME NEW w \in Workers, Unregister(w) PROVE TypeOK'
  BY <1>12, <1>a DEF Unregister, Phase, poolVars, sessionVars, Leave
<1>13. ASSUME NEW w \in Workers, Rollback(w) PROVE TypeOK'
  <2>1. closing[w] \in Connections /\ work[closing[w]] \in Workers \union {NoThread}
    BY <1>13, <1>a DEF Rollback, Phase
  <2>2. /\ inTransaction' \subseteq Connections
        /\ writes' \in [Connections -> SUBSET Statements]
        /\ disturbed' \subseteq Workers
    BY <1>13, <1>a, <1>c, <2>1 DEF Rollback
  <2> QED BY <1>13, <1>a, <2>2 DEF Rollback, Phase, poolVars
<1> QED BY <1>1, <1>2, <1>3, <1>4, <1>5, <1>6, <1>7, <1>8, <1>9, <1>10, <1>11, <1>12,
           <1>13, DbSteps

------------------------------------------------------------------------------
(* What a step of worker w means for another worker v: nothing it holds or *)
(* stored changes, and its transaction goes on, unless it is disturbed.    *)
Undisturbed(v) ==
  /\ phase'[v] = phase[v] /\ method'[v] = method[v]
  /\ conn'[v] = conn[v] /\ result'[v] = result[v]
  /\ v \notin disturbed' => v \notin disturbed
  /\ conn[v] # 0 /\ work[conn[v]] = v =>
       /\ work'[conn[v]] = v
       /\ v \notin disturbed' => /\ conn[v] \in inTransaction => conn[v] \in inTransaction'
                                 /\ writes[conn[v]] \subseteq writes'[conn[v]]
  /\ StoredBy(v)' = StoredBy(v)

LEMMA UndisturbedIsOK ==
  ASSUME DbInv, NEW v \in Workers, Undisturbed(v)
  PROVE  CallOK(v)'
<1>1. CallOK(v) /\ CallWrites(v)' = CallWrites(v)
  BY DEF DbInv, Undisturbed, CallWrites
<1>2. phase[v] \in {"exec", "exec2", "commit"} => conn[v] # 0
  BY DbFacts
<1>3. Registered(v)'
  BY <1>1, <1>2 DEF CallOK, Registered, Undisturbed
<1>4. CallWrites(v) \subseteq stored <=> CallWrites(v) \subseteq StoredBy(v)
  BY DEF CallWrites, StoredBy
<1>5. CallWrites(v) \subseteq stored' <=> CallWrites(v) \subseteq StoredBy(v)'
  BY DEF CallWrites, StoredBy
<1>6. ASSUME v \notin disturbed' PROVE InOwnTransaction(v)'
  BY <1>1, <1>2, <1>6 DEF CallOK, Registered, InOwnTransaction, Undisturbed
<1>7. ASSUME v \notin disturbed' PROVE StoredSoFar(v)'
  <2>1. StoredSoFar(v)
    BY <1>1, <1>7 DEF CallOK, Undisturbed
  <2> HIDE DEF CallWrites, StoredBy
  <2> QED BY <1>1, <1>4, <1>5, <2>1 DEF StoredSoFar, Undisturbed
<1> QED BY <1>3, <1>6, <1>7 DEF CallOK

(* The statements in a session are those of the worker that holds it.      *)
LEMMA SessionIsOwn ==
  ASSUME DbInv, NEW w \in Workers, conn[w] \in Connections, NEW v \in Workers, v # w
  PROVE  {s \in writes[conn[w]] : s[1] = v} = {}
BY DbFacts DEF DbInv, WritesStayWithHolder

(* A statement, or a commit, of one worker stores nothing of another.      *)
LEMMA StoredApart ==
  ASSUME DbInv, NEW w \in Workers, NEW v \in Workers, v # w,
         \/ stored' = stored
         \/ stored' = stored \ StoredBy(w)
         \/ \E n \in {1, 2} : stored' = stored \union {<<w, n>>}
         \/ conn[w] \in Connections /\ stored' = stored \union writes[conn[w]]
  PROVE  StoredBy(v)' = StoredBy(v)
BY SessionIsOwn DEF StoredBy

(* Steps on the connection of w leave that of v alone.                     *)
LEMMA OthersUndisturbed ==
  ASSUME DbInv, [Next]_vars, NEW w \in Workers, NEW v \in Workers, v # w,
         \/ \E m \in Methods : Call(w, m)
         \/ (GetStep(w) \/ Wakeup(w)) /\ UNCHANGED dbVars
         \/ Connect(w) \/ Throw(w) \/ Release(w) \/ DatabaseStep(w)
  PROVE  Undisturbed(v)
<1> USE DEF Undisturbed
<1>a. /\ TypeOK /\ PoolInv /\ NoThread \notin Workers /\ 0 \notin Connections
      /\ conn \in [Workers -> Connections \union {0}]
      /\ \A u \in Workers :
           phase[u] \in {"begin", "exec", "exec2", "commit", "late", "release"}
             => conn[u] \in Connections
      /\ conn[v] # 0 => conn[v] # conn[w]
  BY DbFacts
<1>b. /\ phase \in [Workers -> {"idle", "connect", "begin", "exec", "exec2", "commit",
                                "late", "release", "return", "close"}]
      /\ method \in [Workers -> Methods] /\ result \in [Workers -> {"none", "returned", "threw", "undefined"}]
      /\ work \in [Connections -> Workers \union {NoThread}]
      /\ writes \in [Connections -> SUBSET Statements]
      /\ closing \in [Workers -> Connections \union {0}]
      /\ \A u \in Workers : closing[u] # 0 <=> phase[u] = "close"
  BY <1>a DEF TypeOK
<1>1. ASSUME NEW m \in Methods, Call(w, m) PROVE Undisturbed(v)
  <2>1. StoredBy(v)' = StoredBy(v)
    BY <1>1, StoredApart DEF Call
  <2> QED BY <1>1, <1>a, <1>b, <2>1, GettingFrame DEF Call, Phase
<1>2. ASSUME GetStep(w) \/ Wakeup(w), UNCHANGED dbVars PROVE Undisturbed(v)
  BY <1>2, <1>a, GettingFrame DEF dbVars, callVars, sessionVars, StoredBy
<1>3. ASSUME Connect(w) PROVE Undisturbed(v)
  BY <1>3, <1>a, <1>b DEF Connect, Phase, TakeFront, sessionVars, StoredBy
<1>4. ASSUME Release(w) PROVE Undisturbed(v)
  BY <1>4, <1>a, <1>b DEF Release, Phase, ReleaseConnection, GiveUp, sessionVars, StoredBy
<1>5. ASSUME Begin(w) PROVE Undisturbed(v)
  BY <1>5, <1>a, <1>b DEF Begin, Phase, poolVars, StoredBy
<1>6. ASSUME NEW n \in {1, 2}, Write(w, n) \/ UNCHANGED <<writes, stored>>,
             conn[w] \in Connections, conn[v] \in Connections \union {0}
      PROVE  StoredBy(v)' = StoredBy(v) /\ (conn[v] # 0 => writes'[conn[v]] = writes[conn[v]])
  <2>1. StoredBy(v)' = StoredBy(v)
    BY <1>6, StoredApart DEF Write
  <2> QED BY <1>6, <1>a, <1>b, <2>1 DEF Write
<1>7. ASSUME Exec(w) PROVE Undisturbed(v)
  <2>1. conn[w] \in Connections /\ (Write(w, 1) \/ UNCHANGED <<writes, stored>>)
    BY <1>7, <1>a DEF Exec, Phase
  <2> QED BY <1>6, <1>7, <1>a, <1>b, <2>1 DEF Exec, Phase, poolVars
<1>8. ASSUME ExecSecond(w) PROVE Undisturbed(v)
  <2>1. conn[w] \in Connections /\ Write(w, 2)
    BY <1>8, <1>a DEF ExecSecond, Phase
  <2> QED BY <1>6, <1>8, <1>a, <1>b, <2>1 DEF ExecSecond, Phase, poolVars
<1>9. ASSUME NEW c \in Connections, EndTransaction(c), conn[v] # c
      PROVE  /\ conn[v] \in inTransaction => conn[v] \in inTransaction'
             /\ conn[v] # 0 => writes'[conn[v]] = writes[conn[v]]
  BY <1>9, <1>a, <1>b DEF EndTransaction
<1>10. ASSUME Commit(w) PROVE Undisturbed(v)
  <2>1. conn[w] \in Connections
    BY <1>10, <1>a DEF Commit, Phase
  <2>2. StoredBy(v)' = StoredBy(v)
    BY <1>10, <2>1, StoredApart DEF Commit
  <2> QED BY <1>9, <1>10, <1>a, <1>b, <2>1, <2>2 DEF Commit, Phase, poolVars, Leave
<1>11. ASSUME Throw(w) PROVE Undisturbed(v)
  <2>1. conn[w] \in Connections
    BY <1>11, <1>a DEF Throw, Phase
  <2>2. StoredBy(v)' = StoredBy(v)
    BY <1>11, <2>1, StoredApart DEF Throw
  <2>3. phase'[v] = phase[v] /\ conn'[v] = conn[v] /\ result'[v] = result[v]
    BY <1>11, <1>a, <1>b DEF Throw, Phase, Drop, GiveUp
  <2>4. conn[v] # 0 =>
          /\ work[conn[v]] = v => work'[conn[v]] = v
          /\ conn[v] \in inTransaction => conn[v] \in inTransaction'
          /\ writes'[conn[v]] = writes[conn[v]]
    BY <1>9, <1>11, <1>a, <1>b, <2>1 DEF Throw, Leave
  <2> QED BY <1>11, <2>2, <2>3, <2>4 DEF Throw
<1>12. ASSUME Return(w) PROVE Undisturbed(v)
  BY <1>12, <1>a, <1>b DEF Return, Phase, poolVars, sessionVars, StoredBy
<1>13. ASSUME Unregister(w) PROVE Undisturbed(v)
  BY <1>13, <1>a, <1>b DEF Unregister, Phase, poolVars, sessionVars, StoredBy, Leave
<1>14. ASSUME Rollback(w) PROVE Undisturbed(v)
  <2>1. /\ phase'[v] = phase[v] /\ method'[v] = method[v] /\ conn'[v] = conn[v]
        /\ result'[v] = result[v] /\ work' = work /\ stored' = stored
    BY <1>14, <1>b DEF Rollback, Phase, poolVars
  <2>2. closing[w] \in Connections /\ (v \notin disturbed' => v \notin disturbed)
    BY <1>14, <1>b DEF Rollback, Phase
  <2>3. ASSUME conn[v] # 0, work[conn[v]] = v, v \notin disturbed'
        PROVE  /\ conn[v] \in inTransaction => conn[v] \in inTransaction'
               /\ writes'[conn[v]] = writes[conn[v]]
    <3>1. CASE UNCHANGED <<inTransaction, writes, disturbed>>
      BY <3>1
    <3>2. CASE /\ EndTransaction(closing[w])
               /\ disturbed' = disturbed \union ({work[closing[w]]} \ {NoThread})
      <4>1. conn[v] # closing[w]
        BY <1>a, <2>3, <3>2
      <4> QED BY <1>9, <2>2, <2>3, <3>2, <4>1
    <3> QED BY <1>14, <3>1, <3>2 DEF Rollback
  <2> QED BY <2>1, <2>2, <2>3 DEF StoredBy
<1> QED BY <1>1, <1>2, <1>3, <1>4, <1>5, <1>7, <1>8, <1>10, <1>11, <1>12, <1>13, <1>14
        DEF DatabaseStep

------------------------------------------------------------------------------
(* What a worker's own step does to its call.                              *)
LEMMA OwnCallOK ==
  ASSUME DbInv, [Next]_vars, NEW w \in Workers,
         \/ \E m \in Methods : Call(w, m)
         \/ (GetStep(w) \/ Wakeup(w)) /\ UNCHANGED dbVars
         \/ Connect(w) \/ Throw(w) \/ Release(w) \/ DatabaseStep(w)
  PROVE  CallOK(w)'
<1> USE DEF CallOK, Registered, InOwnTransaction, StoredSoFar
<1>a. /\ TypeOK /\ PoolInv /\ NoThread \notin Workers /\ 0 \notin Connections
      /\ conn \in [Workers -> Connections \union {0}]
      /\ \A u \in Workers :
           phase[u] \in {"begin", "exec", "exec2", "commit", "late", "release"}
             => conn[u] \in Connections
      /\ CallOK(w)
  BY DbFacts DEF DbInv
<1>b. /\ phase \in [Workers -> {"idle", "connect", "begin", "exec", "exec2", "commit",
                                "late", "release", "return", "close"}]
      /\ method \in [Workers -> Methods] /\ result \in [Workers -> {"none", "returned", "threw", "undefined"}]
      /\ work \in [Connections -> Workers \union {NoThread}]
      /\ writes \in [Connections -> SUBSET Statements]
      /\ closing \in [Workers -> Connections \union {0}]
      /\ phase[w] = "close" => method[w] \notin Committing
  BY <1>a DEF TypeOK
<1>c. method'[w] = method[w] => CallWrites(w)' = CallWrites(w)
  BY DEF CallWrites
<1>1. ASSUME NEW m \in Methods, Call(w, m) PROVE CallOK(w)'
  <2>1. StoredBy(w)' = {}
    BY <1>1 DEF Call, StoredBy
  <2> QED BY <1>1, <1>b, <2>1 DEF Call, Phase
<1>2. ASSUME GetStep(w) \/ Wakeup(w), UNCHANGED dbVars PROVE CallOK(w)'
  BY <1>2, <1>a, <1>c, GettingFrame DEF dbVars, callVars, sessionVars, StoredBy
<1>3. ASSUME Connect(w) PROVE CallOK(w)'
  BY <1>3, <1>a, <1>b DEF Connect, Phase, sessionVars, StoredBy
<1>4. ASSUME Release(w) PROVE CallOK(w)'
  BY <1>4, <1>a, <1>b, <1>c DEF Release, Phase, sessionVars
<1>5. ASSUME Begin(w) PROVE CallOK(w)'
  BY <1>5, <1>a, <1>b DEF Begin, Phase, poolVars, StoredBy
<1>6. ASSUME Exec(w) PROVE CallOK(w)'
  <2>1. /\ phase[w] = "exec" /\ conn[w] \in Connections /\ conn' = conn /\ work' = work
        /\ method' = method /\ disturbed' = disturbed /\ inTransaction' = inTransaction
        /\ phase'[w] \in {"exec2", "commit", "release"}
        /\ phase'[w] \in {"exec2", "commit"} => method[w] \in Committing
        /\ phase'[w] = "commit" => method[w] \notin WritesTwice
        /\ phase'[w] = "release" => method[w] \notin Committing
    BY <1>6, <1>a, <1>b DEF Exec, Phase, poolVars, WritesTwice, Committing
  <2>2. ASSUME w \notin disturbed, method[w] \in Committing
        PROVE  stored' = stored /\ <<w, 1>> \in writes'[conn[w]]
    BY <1>6, <1>a, <1>b, <2>1, <2>2 DEF Exec, Write
  <2>3. method[w] \notin WritesTwice => CallWrites(w)' = {<<w, 1>>}
    BY <2>1 DEF CallWrites
  <2> QED BY <1>a, <2>1, <2>2, <2>3 DEF StoredBy
<1>7. ASSUME ExecSecond(w) PROVE CallOK(w)'
  <2>1. /\ phase[w] = "exec2" /\ conn[w] \in Connections /\ conn' = conn /\ work' = work
        /\ method' = method /\ disturbed' = disturbed /\ inTransaction' = inTransaction
        /\ phase'[w] = "commit"
    BY <1>7, <1>a, <1>b DEF ExecSecond, Phase, poolVars
  <2>2. ASSUME w \notin disturbed
        PROVE  /\ stored' = stored
               /\ <<w, 1>> \in writes'[conn[w]] /\ <<w, 2>> \in writes'[conn[w]]
    BY <1>7, <1>a, <1>b, <2>1, <2>2 DEF ExecSecond, Write
  <2>3. CallWrites(w)' \subseteq {<<w, 1>>, <<w, 2>>}
    BY DEF CallWrites
  <2> QED BY <1>a, <2>1, <2>2, <2>3 DEF StoredBy
<1>8. ASSUME Commit(w) PROVE CallOK(w)'
  BY <1>8, <1>a, <1>b, <1>c DEF Commit, Phase, poolVars
<1>9. ASSUME Throw(w) PROVE CallOK(w)'
  <2>1. /\ phase[w] \in {"begin", "exec", "exec2", "commit", "late"} /\ phase'[w] = "idle"
        /\ method' = method /\ result'[w] = "threw" /\ disturbed' = disturbed
        /\ \/ stored' = stored
           \/ phase[w] = "commit" /\ stored' = stored \union writes[conn[w]]
    BY <1>9, <1>b DEF Throw, Phase
  <2>2. CASE stored' = stored
    BY <1>a, <1>c, <2>1, <2>2 DEF StoredBy
  <2>3. CASE phase[w] = "commit" /\ stored' = stored \union writes[conn[w]]
    BY <1>a, <1>c, <2>1, <2>3
  <2> QED BY <2>1, <2>2, <2>3
<1>10. ASSUME Return(w) PROVE CallOK(w)'
  BY <1>10, <1>a, <1>b, <1>c DEF Return, Phase, sessionVars
<1>11. ASSUME Unregister(w) PROVE CallOK(w)'
  BY <1>11, <1>a, <1>b DEF Unregister, Phase
<1>12. ASSUME Rollback(w) PROVE CallOK(w)'
  BY <1>12, <1>a, <1>b DEF Rollback, Phase
<1> QED BY <1>1, <1>2, <1>3, <1>4, <1>5, <1>6, <1>7, <1>8, <1>9, <1>10, <1>11, <1>12
        DEF DatabaseStep

LEMMA CallsStep == DbInv /\ [Next]_vars => \A v \in Workers : CallOK(v)'
<1> SUFFICES ASSUME DbInv, [Next]_vars, NEW v \in Workers PROVE CallOK(v)'
  OBVIOUS
<1>1. CASE UNCHANGED vars
  <2>1. Undisturbed(v)
    BY <1>1 DEF vars, poolVars, dbVars, callVars, sessionVars, Undisturbed, StoredBy
  <2> QED BY <2>1, UndisturbedIsOK
<1>2. ASSUME NEW w \in Workers,
             \/ \E m \in Methods : Call(w, m)
             \/ (GetStep(w) \/ Wakeup(w)) /\ UNCHANGED dbVars
             \/ Connect(w) \/ Throw(w) \/ Release(w) \/ DatabaseStep(w)
      PROVE  CallOK(v)'
  BY <1>2, OwnCallOK, OthersUndisturbed, UndisturbedIsOK
<1> QED BY <1>1, <1>2, DbSteps DEF DatabaseStep

------------------------------------------------------------------------------
(* Statements enter a session by the worker that holds it, and leave it    *)
(* when that worker commits or throws.                                     *)
LEMMA WritesStep == DbInv /\ [Next]_vars => WritesStayWithHolder'
<1> SUFFICES ASSUME DbInv, [Next]_vars, NEW c \in Connections, NEW s \in writes'[c]
             PROVE  conn'[s[1]] = c /\ phase'[s[1]] \in {"exec2", "commit"}
  BY DEF WritesStayWithHolder
<1> DEFINE Stays == conn'[s[1]] = c /\ phase'[s[1]] \in {"exec2", "commit"}
<1>a. /\ TypeOK /\ PoolInv /\ 0 \notin Connections
      /\ conn \in [Workers -> Connections \union {0}]
      /\ \A u \in Workers :
           phase[u] \in {"begin", "exec", "exec2", "commit", "late", "release"}
             => conn[u] \in Connections
      /\ \A u, v \in Workers : u # v /\ conn[u] # 0 => conn[u] # conn[v]
      /\ \A t \in writes[c] : /\ t[1] \in Workers /\ conn[t[1]] = c
                              /\ phase[t[1]] \in {"exec2", "commit"}
  BY DbFacts DEF DbInv, WritesStayWithHolder, TypeOK
<1>b. /\ phase \in [Workers -> {"idle", "connect", "begin", "exec", "exec2", "commit",
                                "late", "release", "return", "close"}]
      /\ method \in [Workers -> Methods]
      /\ writes \in [Connections -> SUBSET Statements]
      /\ closing \in [Workers -> Connections \union {0}]
      /\ \A u \in Workers : closing[u] # 0 <=> phase[u] = "close"
  BY <1>a DEF TypeOK
(* A step that puts no statement into c keeps its holder where it is.      *)
<1>c. ASSUME s \in writes[c], conn'[s[1]] = conn[s[1]], phase'[s[1]] = phase[s[1]]
      PROVE  Stays
  BY <1>a, <1>c
<1>d. s \in writes[c] => s[1] \in Workers /\ phase[s[1]] \in {"exec2", "commit"}
  BY <1>a
<1>1. CASE UNCHANGED vars
  BY <1>1, <1>c DEF vars, poolVars, dbVars, callVars, sessionVars
<1>2. ASSUME NEW w \in Workers, NEW m \in Methods, Call(w, m) PROVE Stays
  BY <1>2, <1>a, <1>b, <1>c, <1>d, GettingFrame DEF Call, Phase
<1>3. ASSUME NEW w \in Workers, GetStep(w) \/ Wakeup(w), UNCHANGED dbVars PROVE Stays
  BY <1>3, <1>a, <1>c, GettingFrame DEF dbVars, callVars, sessionVars
<1>4. ASSUME NEW w \in Workers, Connect(w) PROVE Stays
  BY <1>4, <1>a, <1>b, <1>c, <1>d DEF Connect, Phase, TakeFront, sessionVars
<1>5. ASSUME NEW w \in Workers, Release(w) PROVE Stays
  BY <1>5, <1>a, <1>b, <1>c, <1>d DEF Release, Phase, ReleaseConnection, GiveUp, sessionVars
<1>6. ASSUME NEW w \in Workers, Begin(w) \/ Return(w) \/ Unregister(w) PROVE Stays
  BY <1>6, <1>a, <1>b, <1>c, <1>d DEF Begin, Return, Unregister, Phase, poolVars, sessionVars
<1>7. ASSUME NEW w \in Workers, NEW n \in {1, 2}, Write(w, n) \/ UNCHANGED <<writes, stored>>,
             conn[w] \in Connections
      PROVE  s \in writes[c] \/ (s = <<w, n>> /\ conn[w] = c /\ Write(w, n))
  BY <1>7, <1>b DEF Write
<1>8. ASSUME NEW w \in Workers, Exec(w) PROVE Stays
  <2>1. /\ conn[w] \in Connections /\ conn' = conn /\ phase[w] = "exec"
        /\ \A v \in Workers : v # w => phase'[v] = phase[v]
        /\ \/ Write(w, 1) /\ phase'[w] \in {"exec2", "commit"}
           \/ UNCHANGED <<writes, stored>>
    BY <1>8, <1>a, <1>b DEF Exec, Phase, poolVars
  <2>2. CASE s \in writes[c]
    BY <1>c, <1>d, <2>1, <2>2
  <2>3. CASE s = <<w, 1>> /\ conn[w] = c /\ s \notin writes[c]
    BY <2>1, <2>3
  <2> QED BY <1>7, <2>1, <2>2, <2>3
<1>9. ASSUME NEW w \in Workers, ExecSecond(w) PROVE Stays
  <2>1. /\ conn[w] \in Connections /\ conn' = conn
        /\ \A v \in Workers : v # w => phase'[v] = phase[v]
        /\ Write(w, 2) /\ phase'[w] = "commit"
    BY <1>9, <1>a, <1>b DEF ExecSecond, Phase, poolVars
  <2>2. CASE s \in writes[c]
    BY <1>a, <1>d, <2>1, <2>2
  <2>3. CASE s = <<w, 2>> /\ conn[w] = c
    BY <2>1, <2>3
  <2> QED BY <1>7, <2>1, <2>2, <2>3
<1>10. ASSUME NEW d \in Connections, EndTransaction(d) PROVE s \in writes[c] /\ c # d
  BY <1>10, <1>b DEF EndTransaction
<1>11. ASSUME NEW w \in Workers, Commit(w) PROVE Stays
  <2>1. /\ s \in writes[c] /\ c # conn[w] /\ conn' = conn
        /\ \A v \in Workers : v # w => phase'[v] = phase[v]
    BY <1>10, <1>11, <1>a, <1>b DEF Commit, Phase, poolVars
  <2> QED BY <1>a, <1>c, <1>d, <2>1
<1>12. ASSUME NEW w \in Workers, Throw(w) PROVE Stays
  <2>1. /\ \A v \in Workers : v # w => phase'[v] = phase[v] /\ conn'[v] = conn[v]
        /\ phase[w] \in {"begin", "exec", "exec2", "commit", "late"}
    BY <1>12, <1>a, <1>b DEF Throw, Phase, Drop, GiveUp
  <2>2. s \in writes[c]
    BY <1>10, <1>12, <1>a, <2>1 DEF Throw
  <2>3. s[1] # w
    <3>1. CASE work[conn[w]] = w
      BY <1>10, <1>12, <1>a, <2>1, <2>2, <3>1 DEF Throw
    <3>2. CASE work[conn[w]] # w
      BY <1>d, <2>2, <3>2 DEF DbInv, CallOK, Registered
    <3> QED BY <3>1, <3>2
  <2> QED BY <1>c, <1>d, <2>1, <2>2, <2>3
<1>13. ASSUME NEW w \in Workers, Rollback(w) PROVE Stays
  <2>1. /\ s \in writes[c] /\ conn' = conn /\ phase[w] = "close"
        /\ \A v \in Workers : v # w => phase'[v] = phase[v]
    BY <1>10, <1>13, <1>a, <1>b DEF Rollback, Phase, poolVars
  <2> QED BY <1>c, <1>d, <2>1
<1> QED BY <1>1, <1>2, <1>3, <1>4, <1>5, <1>6, <1>8, <1>9, <1>11, <1>12, <1>13, DbSteps

------------------------------------------------------------------------------
(* The inductive invariant holds in every reachable state.                 *)
THEOREM DbSafety == Spec => []DbInv
<1>1. DbInv /\ [Next]_vars => DbInv'
  BY DbPoolInvStep, DbTypeStep, WritesStep, CallsStep DEF DbInv
<1> QED BY DbInit, <1>1, PTL DEF Spec

(* TypeOK of every state: a worker holds a connection exactly in the       *)
(* phases of a method between getConnection and the end of the loan, and   *)
(* has a ROLLBACK to send only at the end of a method that did not commit. *)
THEOREM DbTypeCorrect == Spec => []TypeOK
<1>1. DbInv => TypeOK
  BY DEF DbInv
<1> QED BY DbSafety, <1>1, PTL

(* On no path of any method is a connection given back with statements of  *)
(* the call uncommitted in its session.                                    *)
THEOREM NoForeignCommit == Spec => []WritesStayWithHolder
<1>1. DbInv => WritesStayWithHolder
  BY DEF DbInv
<1> QED BY DbSafety, <1>1, PTL

(* A call that writes, and whose transaction got no other call's ROLLBACK, *)
(* has stored all it wrote when it returns, and all or nothing of it when  *)
(* it throws.                                                              *)
THEOREM ResultsAreTrue == Spec => []ResultTellsStored
<1>1. DbInv => ResultTellsStored
  BY DEF DbInv, CallOK, StoredSoFar, ResultTellsStored
<1> QED BY DbSafety, <1>1, PTL

(* The read methods are what makes results untrue: without them, a call    *)
(* that returns has stored what it wrote, with no exception.               *)
NoneClosing == disturbed = {} /\ \A w \in Workers : closing[w] = 0 /\ phase[w] # "close"

LEMMA NoneClosingStep ==
  ASSUME Methods \subseteq Committing, DbInv, NoneClosing, [Next]_vars
  PROVE  NoneClosing'
<1> USE DEF NoneClosing
<1>a. /\ \A w \in Workers : method[w] \in Committing
      /\ DOMAIN phase = Workers /\ DOMAIN closing = Workers
  BY DEF DbInv, TypeOK
<1>1. CASE UNCHANGED dbVars
  BY <1>1 DEF dbVars, callVars, sessionVars
<1>2. ASSUME NEW w \in Workers, NEW m \in Methods, Call(w, m) PROVE NoneClosing'
  BY <1>2, <1>a DEF Call, Phase
<1>3. ASSUME NEW w \in Workers, Connect(w) \/ Release(w) PROVE NoneClosing'
  BY <1>3, <1>a DEF Connect, Release, Phase, sessionVars
<1>4. ASSUME NEW w \in Workers, Begin(w) \/ Exec(w) \/ ExecSecond(w) PROVE NoneClosing'
  BY <1>4, <1>a DEF Begin, Exec, ExecSecond, Phase
<1>5. ASSUME NEW w \in Workers, Commit(w) \/ Throw(w) \/ Return(w) PROVE NoneClosing'
  BY <1>5, <1>a DEF Commit, Throw, Return, Phase, sessionVars
<1>6. ASSUME NEW w \in Workers, Unregister(w) \/ Rollback(w) PROVE FALSE
  BY <1>6, <1>a DEF Unregister, Rollback, Phase
<1> QED BY <1>1, <1>2, <1>3, <1>4, <1>5, <1>6, DbSteps DEF vars

THEOREM WritersAloneAreTrue ==
  ASSUME Methods \subseteq Committing
  PROVE  Spec => []ReturnedMeansStored
<1>1. Init => NoneClosing
  BY DEF Init, NoneClosing
<1>2. DbInv /\ NoneClosing /\ [Next]_vars => NoneClosing'
  BY NoneClosingStep
<1>3. DbInv /\ NoneClosing => ReturnedMeansStored
  BY DEF DbInv, CallOK, StoredSoFar, NoneClosing, ReturnedMeansStored
<1> QED BY <1>1, <1>2, <1>3, DbSafety, PTL DEF Spec

(* The pool inside DatabaseManager is the pool of ConnectionPool: what is  *)
(* proved there holds here.                                                *)
THEOREM PoolInDatabase == Spec => PoolSpec
<1>1. Init => PoolInit
  BY DEF Init
<1> QED BY <1>1, DbPoolSteps, PTL DEF Spec, PoolSpec

(* A release moves a connection to the queue and a loan out of it; only    *)
(* the drop in a call that throws loses one.                               *)
LEMMA LostStep ==
  ASSUME DbInv, [Next]_vars, Lost' # Lost
  PROVE  \E w \in Workers : result'[w] = "threw" /\ conn[w] \in Lost'
<1>a. PoolInv /\ result \in [Workers -> {"none", "returned", "threw", "undefined"}]
  BY DEF DbInv, TypeOK
<1>1. ASSUME UNCHANGED <<pool_, conn>> PROVE Lost' = Lost
  BY <1>1 DEF Lost, Free, Held
<1>2. CASE UNCHANGED vars
  BY <1>1, <1>2 DEF vars, poolVars
<1>3. ASSUME NEW w \in Workers, NEW m \in Methods, Call(w, m) PROVE Lost' = Lost
  BY <1>1, <1>3, <1>a, GettingFrame DEF Call
<1>4. ASSUME NEW w \in Workers, GetStep(w) \/ Wakeup(w) PROVE Lost' = Lost
  BY <1>1, <1>4, <1>a, GettingFrame
<1>5. ASSUME NEW w \in Workers, Connect(w) PROVE Lost' = Lost
  BY <1>5, <1>a, TakeFrontStep DEF Connect, Lost
<1>6. ASSUME NEW w \in Workers, DatabaseStep(w) PROVE Lost' = Lost
  BY <1>1, <1>6, DatabaseSteps DEF poolVars
<1>7. ASSUME NEW w \in Workers, Release(w) PROVE Lost' = Lost
  <2>1. ReleaseConnection(w) /\ GiveUp(w)
    BY <1>7 DEF Release, ReleaseConnection
  <2>2. Free' = Free \union {conn[w]} /\ Held' = Held \ {conn[w]} /\ conn[w] \in Held
    BY <1>a, <2>1, ReleaseStep, GiveUpStep
  <2> QED BY <2>2 DEF Lost
<1>8. ASSUME NEW w \in Workers, Throw(w)
      PROVE  result'[w] = "threw" /\ conn[w] \in Lost'
  <2>1. GiveUp(w) /\ Free' = Free /\ result' = [result EXCEPT ![w] = "threw"]
    BY <1>8 DEF Throw, Drop, Free
  <2>2. Held' = Held \ {conn[w]} /\ conn[w] \in Connections /\ conn[w] \notin Free
    BY <1>a, <2>1, GiveUpStep
  <2> QED BY <1>a, <2>1, <2>2 DEF Lost
<1> QED BY <1>2, <1>3, <1>4, <1>5, <1>6, <1>7, <1>8, DbSteps DEF DatabaseStep

(* Every path of every method gives its connection back, except those that *)
(* throw.                                                                  *)
THEOREM OnlyThrowsLose == Spec => OnlyErrorsLoseConnections
<1>1. DbInv /\ [Next]_vars =>
        [Lost' # Lost => \E w \in Workers : result'[w] = "threw" /\ conn[w] \in Lost']_vars
  BY LostStep
<1> QED BY DbSafety, <1>1, PTL DEF Spec, OnlyErrorsLoseConnections

------------------------------------------------------------------------------
(* Each step takes, gives back or loses one unit of the budget, or none.   *)
LEMMA BudgetStep == DbInv /\ [Next]_vars => [Budget!Next]_(Budget!vars)
<1> SUFFICES ASSUME DbInv, [Next]_vars PROVE [Budget!Next]_(Budget!vars)
  OBVIOUS
<1> DEFINE busy == {w \in Workers : conn[w] # 0}
<1> USE DEF Budget!vars, Budget!Next, Budget!Take, Budget!GiveBack, Budget!Lose
<1>a. /\ PoolInv /\ 0 \notin Connections /\ Len(pool_) \in Nat
      /\ conn \in [Workers -> Connections \union {0}]
  BY ConnectionAssumption DEF DbInv, PoolInv, PoolTypeOK, Connections
<1>1. ASSUME UNCHANGED <<pool_, conn>> PROVE UNCHANGED Budget!vars
  BY <1>1
<1>2. CASE UNCHANGED vars
  BY <1>1, <1>2 DEF vars, poolVars
<1>3. ASSUME NEW w \in Workers, NEW m \in Methods, Call(w, m)
      PROVE  UNCHANGED Budget!vars
  BY <1>1, <1>3, <1>a, GettingFrame DEF Call
<1>4. ASSUME NEW w \in Workers, GetStep(w) \/ Wakeup(w) PROVE UNCHANGED Budget!vars
  BY <1>1, <1>4, <1>a, GettingFrame
<1>5. ASSUME NEW w \in Workers, DatabaseStep(w) PROVE UNCHANGED Budget!vars
  BY <1>1, <1>5, DatabaseSteps DEF poolVars
<1>6. ASSUME NEW w \in Workers, Connect(w) PROVE Budget!Take(w)
  <2>1. /\ Head(pool_) \in Connections /\ conn[w] = 0 /\ pool_' \in Seq(Connections)
        /\ conn' = [conn EXCEPT ![w] = Head(pool_)] /\ Len(pool_') = Len(pool_) - 1
    BY <1>6, <1>a, TakeFrontStep DEF Connect
  <2>2. w \notin busy /\ busy' = busy \union {w}
    BY <1>a, <2>1
  <2>3. Len(pool_) > 0
    <3>1. Len(pool_') \in Nat
      BY <2>1
    <3> QED BY <1>a, <2>1, <3>1
  <2> QED BY <2>1, <2>2, <2>3
<1>7. ASSUME NEW w \in Workers, GiveUp(w) PROVE w \in busy /\ busy' = busy \ {w}
  <2>1. conn' = [conn EXCEPT ![w] = 0] /\ conn[w] # 0
    BY <1>7, <1>a, GiveUpStep
  <2> QED BY <1>a, <2>1
<1>8. ASSUME NEW w \in Workers, Release(w) PROVE Budget!GiveBack(w)
  <2>1. GiveUp(w) /\ Len(pool_') = Len(pool_) + 1
    BY <1>8, <1>a, ReleaseStep DEF Release, ReleaseConnection
  <2> QED BY <1>7, <2>1
<1>9. ASSUME NEW w \in Workers, Throw(w) PROVE Budget!Lose(w)
  <2>1. GiveUp(w) /\ pool_' = pool_
    BY <1>9 DEF Throw, Drop
  <2> QED BY <1>7, <2>1
<1> QED BY <1>2, <1>3, <1>4, <1>5, <1>6, <1>8, <1>9, DbSteps DEF DatabaseStep

(* To its callers the database is a budget of connections, whatever they   *)
(* call: ConnectionBudget, whose steps TcpServer uses.                     *)
THEOREM DbImplementsBudget == Spec => ImplementsBudget
<1>1. Init => Budget!Init
  <2> SUFFICES ASSUME Init PROVE Budget!Init
    OBVIOUS
  <2>1. Len(pool_) = poolSize_ /\ \A w \in Workers : conn[w] = 0
    BY ConnectionAssumption DEF Init, PoolInit, Connections
  <2> QED BY <2>1 DEF Budget!Init
<1> QED BY <1>1, BudgetStep, DbSafety, PTL DEF Spec, ImplementsBudget, Budget!Spec
==============================================================================
