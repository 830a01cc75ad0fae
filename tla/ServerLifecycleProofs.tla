------------------------ MODULE ServerLifecycleProofs ------------------------
(***************************************************************************)
(* Proofs about ServerLifecycle, for every number of workers and clients.  *)
(* What ThreadPoolProofs shows of the pool holds in the whole process; the *)
(* order of destruction rests on it: joined workers have drained the queue.*)
(***************************************************************************)
EXTENDS ServerLifecycle, ThreadPoolProofs

(* call_once: one worker at most is between the two ends of the            *)
(* constructor, and it built no instance before.                           *)
CalledOnce ==
  /\ \A w \in Workers : body[w] = "construct" <=> initFlag = w
  /\ built = IF initFlag = "set" THEN 1 ELSE 0
  /\ \A w \in Workers : body[w] = "database" => initFlag = "set"

(* Which objects are alive where main() is.                                *)
Lifetimes ==
  /\ listening \subseteq {"tcpServer", "restServer"}
  /\ at \in {"build", "buildRest"} => enqueued = 0
  /\ at \in {"buildRest", "run"} => "tcpServer" \in objects
  /\ at = "unwind" => "tcpServer" \in objects \/ enqueued = 0
  /\ at \in {"exit", "exited"} => main = "joined"
  /\ "io_context" \in objects \/ main = "joined"
  /\ initFlag = "set" => "database" \in objects \/ main = "joined"

LifeInv == LifeTypeOK /\ CalledOnce /\ Lifetimes

USE DEF Advance, Body

------------------------------------------------------------------------------
(* The process and its pool                                                *)

LEMMA LifeSteps ==
  ASSUME [LifeNext]_allVars
  PROVE  \/ UNCHANGED allVars
         \/ \E w \in Workers : Spawn(w) /\ UNCHANGED lifeVars
         \/ (Constructed \/ EnqueueNotify) /\ UNCHANGED lifeVars
         \/ BuildTcpServer \/ BuildRestServer \/ AcceptClient \/ LeaveRun
         \/ DestroyServers \/ DestroyThreadPool \/ DestroyIoContext \/ DestroyDatabase
         \/ \E w \in Workers : \/ Wait(w) \/ BeginTask(w) \/ EndTask(w) \/ NeedDatabase(w)
                               \/ CallOnce(w) \/ Construct(w) \/ ConstructFails(w)
                               \/ UseDatabase(w) \/ SpuriousWakeup(w)
BY DEF LifeNext, MainProgress, BuildThreadPool, FinishEnqueue, WorkerProgress, Exited

(* Every step of the process is a step of its pool, or none.               *)
LEMMA PoolSteps == [LifeNext]_allVars => [Next]_vars
<1> SUFFICES ASSUME [LifeNext]_allVars PROVE [Next]_vars
  OBVIOUS
<1> USE DEF Next, MainStep, WorkerStep
<1>1. CASE UNCHANGED allVars
  BY <1>1 DEF allVars
<1>2. CASE \/ \E w \in Workers : Spawn(w) /\ UNCHANGED lifeVars
           \/ (Constructed \/ EnqueueNotify) /\ UNCHANGED lifeVars
  BY <1>2
<1>3. CASE \/ BuildTcpServer \/ BuildRestServer \/ LeaveRun \/ DestroyServers
           \/ DestroyIoContext \/ DestroyDatabase
  BY <1>3 DEF BuildTcpServer, BuildRestServer, LeaveRun, DestroyServers,
              DestroyIoContext, DestroyDatabase
<1>4. CASE AcceptClient
  BY <1>4 DEF AcceptClient
<1>5. CASE DestroyThreadPool
  BY <1>5 DEF DestroyThreadPool
<1>6. ASSUME NEW w \in Workers,
             Wait(w) \/ BeginTask(w) \/ EndTask(w) \/ SpuriousWakeup(w)
      PROVE  [Next]_vars
  BY <1>6 DEF Wait, BeginTask, EndTask, SpuriousWakeup
<1>7. ASSUME NEW w \in Workers,
             \/ NeedDatabase(w) \/ CallOnce(w) \/ Construct(w) \/ ConstructFails(w)
             \/ UseDatabase(w)
      PROVE  [Next]_vars
  BY <1>7 DEF NeedDatabase, CallOnce, Construct, ConstructFails, UseDatabase
<1> QED BY <1>1, <1>2, <1>3, <1>4, <1>5, <1>6, <1>7, LifeSteps

(* The pool in the process is a ThreadPool: whatever is proved of every    *)
(* behaviour of ThreadPool holds of it, up to the refinement of TaskQueue. *)
THEOREM ProcessRunsThreadPool == LifeSpec => Spec
<1>1. LifeInit => Init
  BY DEF LifeInit
<1> QED BY <1>1, PoolSteps, PTL DEF LifeSpec, Spec

(* When main has joined the workers, nothing is queued and nothing runs.   *)
LEMMA Joined ==
  ASSUME IndInv, main = "joined"
  PROVE  /\ tasks = <<>> /\ Running = {}
         /\ \A w \in Workers : workers[w] = "exited"
BY PoolAssumption DEF IndInv, ControlOK, TypeOK, Running

LEMMA JoinedForGood == [Next]_vars /\ main = "joined" => main' = "joined"
<1> SUFFICES ASSUME [Next]_vars, main = "joined" PROVE main' = "joined"
  OBVIOUS
<1>1. CASE Constructed \/ EnqueueNotify \/ StopNotify \/ Join \/ Enqueue \/ Stop
  BY <1>1 DEF Constructed, EnqueueNotify, StopNotify, Join, Enqueue, Stop, MainAt
<1>2. CASE UNCHANGED vars
  BY <1>2 DEF vars
<1>3. ASSUME NEW w \in Workers,
             \/ Spawn(w) \/ Acquire(w) \/ Check(w) \/ Sleep(w)
             \/ Exit(w) \/ Take(w) \/ Return(w) \/ Wakeup(w)
      PROVE  main' = main
  BY <1>3 DEF Spawn, Acquire, Check, Sleep, Exit, Take, Return, Wakeup
<1> QED BY <1>1, <1>2, <1>3, Steps

------------------------------------------------------------------------------
(* The steps, one variable after the other                                 *)

LEMMA LifeInitInv == LifeInit => LifeInv
<1> SUFFICES ASSUME LifeInit PROVE LifeInv
  OBVIOUS
<1> USE DEF LifeInit, Init
<1>1. LifeTypeOK
  BY EmptySeq DEF LifeTypeOK
<1>2. CalledOnce /\ Lifetimes
  BY FlagAssumption DEF CalledOnce, Lifetimes
<1> QED BY <1>1, <1>2 DEF LifeInv

(* Only acceptors enqueue, and only in run().                              *)
LEMMA EnqueuedStep ==
  ASSUME [LifeNext]_allVars
  PROVE  \/ enqueued' = enqueued /\ owner' = owner
         \/ AcceptClient
<1> USE DEF lifeVars, allVars, vars, bodyVars
<1>1. CASE UNCHANGED allVars
  BY <1>1
<1>2. CASE \/ \E w \in Workers : Spawn(w) /\ UNCHANGED lifeVars
           \/ (Constructed \/ EnqueueNotify) /\ UNCHANGED lifeVars
  BY <1>2 DEF Spawn, Constructed, EnqueueNotify
<1>3. CASE \/ BuildTcpServer \/ BuildRestServer \/ LeaveRun \/ DestroyServers
           \/ DestroyIoContext \/ DestroyDatabase
  BY <1>3 DEF BuildTcpServer, BuildRestServer, LeaveRun, DestroyServers,
              DestroyIoContext, DestroyDatabase
<1>5. CASE DestroyThreadPool
  BY <1>5 DEF DestroyThreadPool, Stop, StopNotify, Join
<1>6. ASSUME NEW w \in Workers, Wait(w) \/ BeginTask(w) \/ EndTask(w) \/ SpuriousWakeup(w)
      PROVE  enqueued' = enqueued /\ owner' = owner
  BY <1>6 DEF Wait, BeginTask, EndTask, SpuriousWakeup, Acquire, Check, Sleep, Exit,
              Take, Return, Wakeup
<1>7. ASSUME NEW w \in Workers,
             \/ NeedDatabase(w) \/ CallOnce(w) \/ Construct(w) \/ ConstructFails(w)
             \/ UseDatabase(w)
      PROVE  enqueued' = enqueued /\ owner' = owner
  BY <1>7 DEF NeedDatabase, CallOnce, Construct, ConstructFails, UseDatabase
<1> QED BY <1>1, <1>2, <1>3, <1>5, <1>6, <1>7, LifeSteps

(* main() alone moves `at' and the servers; workers add the database.      *)
LEMMA MainSteps ==
  ASSUME [LifeNext]_allVars
  PROVE  \/ at' = at /\ listening' = listening
            /\ (objects' = objects \/ \E w \in Workers : Construct(w))
         \/ BuildTcpServer \/ BuildRestServer \/ LeaveRun
         \/ DestroyServers \/ DestroyIoContext \/ DestroyDatabase
<1> USE DEF lifeVars, allVars
<1>1. CASE UNCHANGED allVars
  BY <1>1
<1>2. CASE \/ \E w \in Workers : Spawn(w) /\ UNCHANGED lifeVars
           \/ (Constructed \/ EnqueueNotify) /\ UNCHANGED lifeVars
           \/ DestroyThreadPool \/ AcceptClient
  BY <1>2 DEF DestroyThreadPool, AcceptClient
<1>3. ASSUME NEW w \in Workers, Wait(w) \/ BeginTask(w) \/ EndTask(w) \/ SpuriousWakeup(w)
      PROVE  at' = at /\ listening' = listening /\ objects' = objects
  BY <1>3 DEF Wait, BeginTask, EndTask, SpuriousWakeup
<1>4. ASSUME NEW w \in Workers,
             NeedDatabase(w) \/ CallOnce(w) \/ ConstructFails(w) \/ UseDatabase(w)
      PROVE  at' = at /\ listening' = listening /\ objects' = objects
  BY <1>4 DEF NeedDatabase, CallOnce, ConstructFails, UseDatabase
<1>5. ASSUME NEW w \in Workers, Construct(w)
      PROVE  at' = at /\ listening' = listening
  BY <1>5 DEF Construct
<1> QED BY <1>1, <1>2, <1>3, <1>4, <1>5, LifeSteps

(* What the workers do to their bodies and to initInstanceFlag.            *)
LEMMA BodySteps ==
  ASSUME [LifeNext]_allVars
  PROVE  \/ body' = body /\ initFlag' = initFlag /\ built' = built
         \/ \E w \in Workers : \/ BeginTask(w) \/ EndTask(w) \/ NeedDatabase(w) \/ CallOnce(w)
                               \/ Construct(w) \/ ConstructFails(w) \/ UseDatabase(w)
<1> USE DEF lifeVars, allVars, bodyVars
<1>1. CASE UNCHANGED allVars
  BY <1>1
<1>2. CASE \/ \E w \in Workers : Spawn(w) /\ UNCHANGED lifeVars
           \/ (Constructed \/ EnqueueNotify) /\ UNCHANGED lifeVars
           \/ DestroyThreadPool \/ AcceptClient
  BY <1>2 DEF DestroyThreadPool, AcceptClient
<1>3. CASE \/ BuildTcpServer \/ BuildRestServer \/ LeaveRun \/ DestroyServers
           \/ DestroyIoContext \/ DestroyDatabase
  BY <1>3 DEF BuildTcpServer, BuildRestServer, LeaveRun, DestroyServers,
              DestroyIoContext, DestroyDatabase
<1>4. ASSUME NEW w \in Workers, Wait(w) \/ SpuriousWakeup(w)
      PROVE  body' = body /\ initFlag' = initFlag /\ built' = built
  BY <1>4 DEF Wait, SpuriousWakeup
<1> QED BY <1>1, <1>2, <1>3, <1>4, LifeSteps

LEMMA CalledOnceStep == LifeInv /\ [LifeNext]_allVars => CalledOnce'
<1> SUFFICES ASSUME LifeInv, [LifeNext]_allVars PROVE CalledOnce'
  OBVIOUS
<1>a. CalledOnce /\ DOMAIN body = Workers
  BY DEF LifeInv, LifeTypeOK
<1>1. CASE body' = body /\ initFlag' = initFlag /\ built' = built
  BY <1>1, <1>a DEF CalledOnce
<1>2. ASSUME NEW w \in Workers,
             BeginTask(w) \/ EndTask(w) \/ NeedDatabase(w) \/ UseDatabase(w)
      PROVE  CalledOnce'
  <2>1. /\ initFlag' = initFlag /\ built' = built /\ body[w] # "construct"
        /\ \A v \in Workers : v # w => body'[v] = body[v]
        /\ body'[w] \in {"client", "none", "getInstance", "done"}
    BY <1>2, <1>a DEF BeginTask, EndTask, NeedDatabase, UseDatabase
  <2> QED BY <1>a, <2>1 DEF CalledOnce
<1>3. ASSUME NEW w \in Workers, CallOnce(w) PROVE CalledOnce'
  <2>1. CASE initFlag = "set"
    <3>1. /\ initFlag' = initFlag /\ built' = built /\ body[w] = "getInstance"
          /\ body' = [body EXCEPT ![w] = "database"]
      BY <1>3, <2>1 DEF CallOnce
    <3> QED BY <1>a, <2>1, <3>1 DEF CalledOnce
  <2>2. CASE initFlag # "set"
    <3>1. /\ initFlag = "free" /\ initFlag' = w /\ built' = built
          /\ body' = [body EXCEPT ![w] = "construct"]
      BY <1>3, <2>2 DEF CallOnce
    <3> QED BY <1>a, <3>1, FlagAssumption DEF CalledOnce
  <2> QED BY <2>1, <2>2
<1>4. ASSUME NEW w \in Workers, Construct(w) PROVE CalledOnce'
  <2>1. /\ body[w] = "construct" /\ body' = [body EXCEPT ![w] = "database"]
        /\ initFlag' = "set" /\ built' = built + 1
    BY <1>4 DEF Construct
  <2>2. initFlag = w /\ built = 0
    BY <1>a, <2>1, FlagAssumption DEF CalledOnce
  <2> QED BY <1>a, <2>1, <2>2, FlagAssumption DEF CalledOnce
<1>5. ASSUME NEW w \in Workers, ConstructFails(w) PROVE CalledOnce'
  <2>1. /\ body[w] = "construct" /\ body' = [body EXCEPT ![w] = "done"]
        /\ initFlag' = "free" /\ built' = built
    BY <1>5 DEF ConstructFails
  <2>2. initFlag = w /\ built = 0
    BY <1>a, <2>1, FlagAssumption DEF CalledOnce
  <2> QED BY <1>a, <2>1, <2>2, FlagAssumption DEF CalledOnce
<1> QED BY <1>1, <1>2, <1>3, <1>4, <1>5, BodySteps

LEMMA LifetimesStep == LifeInv /\ [LifeNext]_allVars => Lifetimes'
<1> SUFFICES ASSUME LifeInv, [LifeNext]_allVars PROVE Lifetimes'
  OBVIOUS
<1>a. Lifetimes /\ (main = "joined" => main' = "joined")
  BY PoolSteps, JoinedForGood DEF LifeInv
<1>b. \/ enqueued' = enqueued
      \/ at = "run" /\ at' = at /\ objects' = objects /\ listening' = listening
    <2>1. AcceptClient => at = "run" /\ at' = at /\ objects' = objects /\ listening' = listening
      BY DEF AcceptClient
    <2> QED BY <2>1, EnqueuedStep
<1>1. CASE at' = at /\ listening' = listening /\ objects \subseteq objects' /\ initFlag' = initFlag
  BY <1>1, <1>a, <1>b DEF Lifetimes
<1>2. ASSUME NEW w \in Workers, Construct(w) PROVE Lifetimes'
  <2>1. /\ at' = at /\ listening' = listening /\ objects' = objects \union {"database"}
        /\ enqueued' = enqueued
    BY <1>2 DEF Construct, vars
  <2> QED BY <1>a, <2>1 DEF Lifetimes
<1>3. ASSUME NEW w \in Workers,
             BeginTask(w) \/ EndTask(w) \/ NeedDatabase(w) \/ CallOnce(w)
               \/ ConstructFails(w) \/ UseDatabase(w)
      PROVE  Lifetimes'
  <2>1. /\ at' = at /\ listening' = listening /\ objects' = objects
        /\ initFlag' = "set" => initFlag = "set"
    BY <1>3, FlagAssumption DEF BeginTask, EndTask, NeedDatabase, CallOnce, ConstructFails,
                                UseDatabase
  <2> QED BY <1>a, <1>b, <2>1 DEF Lifetimes
<1>4. CASE BuildTcpServer
  BY <1>4, <1>a DEF BuildTcpServer, Lifetimes, vars, bodyVars
<1>5. CASE BuildRestServer
  BY <1>5, <1>a DEF BuildRestServer, Lifetimes, vars, bodyVars
<1>6. CASE LeaveRun
  BY <1>6, <1>a DEF LeaveRun, Lifetimes, vars, bodyVars
<1>7. CASE DestroyServers
  BY <1>7, <1>a DEF DestroyServers, Lifetimes, vars, bodyVars
<1>8. CASE DestroyIoContext \/ DestroyDatabase
  BY <1>8, <1>a DEF DestroyIoContext, DestroyDatabase, Lifetimes, vars, bodyVars
<1> QED BY <1>1, <1>2, <1>3, <1>4, <1>5, <1>6, <1>7, <1>8, MainSteps, BodySteps

(* A worker is in the body of a task exactly while it runs one.            *)
LEMMA BodyStep ==
  ASSUME IndInv, LifeInv, [LifeNext]_allVars
  PROVE  /\ body' \in [Workers -> {"none", "client", "getInstance", "construct", "database",
                                   "done"}]
         /\ \A w \in Workers : body'[w] = "none" <=> workers'[w] # "run"
<1>a. /\ body \in [Workers -> {"none", "client", "getInstance", "construct", "database", "done"}]
      /\ \A w \in Workers : body[w] = "none" <=> workers[w] # "run"
      /\ DOMAIN workers = Workers
  BY DEF LifeInv, LifeTypeOK, IndInv, TypeOK
<1> USE DEF lifeVars, allVars, bodyVars, vars, WorkerAt
<1>1. CASE UNCHANGED allVars
  BY <1>1, <1>a
<1>2. CASE \/ (Constructed \/ EnqueueNotify) /\ UNCHANGED lifeVars
           \/ BuildTcpServer \/ BuildRestServer \/ AcceptClient \/ LeaveRun
           \/ DestroyServers \/ DestroyThreadPool \/ DestroyIoContext \/ DestroyDatabase
  <2>1. workers' = workers /\ body' = body
    BY <1>2 DEF Constructed, EnqueueNotify, BuildTcpServer, BuildRestServer, AcceptClient,
                Enqueue, LeaveRun, DestroyServers, DestroyThreadPool, Stop, StopNotify, Join,
                DestroyIoContext, DestroyDatabase
  <2> QED BY <1>a, <2>1
<1>3. ASSUME NEW w \in Workers, (Spawn(w) /\ UNCHANGED lifeVars) \/ Wait(w) \/ SpuriousWakeup(w)
      PROVE  /\ body' = body
             /\ \A v \in Workers : workers'[v] = "run" <=> workers[v] = "run"
  <2>1. body' = body
    BY <1>3 DEF Wait, SpuriousWakeup
  <2>2. workers' = workers \/ \E to \in {"lock", "check", "take", "block", "wait", "exited"} :
          workers[w] # "run" /\ workers' = [workers EXCEPT ![w] = to]
    BY <1>3 DEF Spawn, Wait, SpuriousWakeup, Acquire, Check, Sleep, Exit, Wakeup
  <2> QED BY <1>a, <2>1, <2>2
<1>4. ASSUME NEW w \in Workers, BeginTask(w) \/ EndTask(w)
      PROVE  \E b \in {"none", "client"}, to \in {"run", "lock"} :
               /\ b = "none" <=> to = "lock"
               /\ body' = [body EXCEPT ![w] = b] /\ workers' = [workers EXCEPT ![w] = to]
  BY <1>4 DEF BeginTask, EndTask, Take, Return
<1>5. ASSUME NEW w \in Workers,
             \/ NeedDatabase(w) \/ CallOnce(w) \/ Construct(w) \/ ConstructFails(w)
             \/ UseDatabase(w)
      PROVE  /\ workers' = workers /\ body[w] # "none"
             /\ \E b \in {"getInstance", "construct", "database", "done"} :
                  body' = [body EXCEPT ![w] = b]
  BY <1>5 DEF NeedDatabase, CallOnce, Construct, ConstructFails, UseDatabase
<1>6. CASE \E w \in Workers : (Spawn(w) /\ UNCHANGED lifeVars) \/ Wait(w) \/ SpuriousWakeup(w)
  BY <1>3, <1>6, <1>a
<1>7. CASE \E w \in Workers : BeginTask(w) \/ EndTask(w)
  <2>1. PICK w \in Workers, b \in {"none", "client"}, to \in {"run", "lock"} :
          /\ b = "none" <=> to = "lock"
          /\ body' = [body EXCEPT ![w] = b] /\ workers' = [workers EXCEPT ![w] = to]
    BY <1>4, <1>7
  <2> QED BY <1>a, <2>1
<1>8. CASE \E w \in Workers : \/ NeedDatabase(w) \/ CallOnce(w) \/ Construct(w)
                              \/ ConstructFails(w) \/ UseDatabase(w)
  <2>1. PICK w \in Workers, b \in {"getInstance", "construct", "database", "done"} :
          workers' = workers /\ body[w] # "none" /\ body' = [body EXCEPT ![w] = b]
    BY <1>5, <1>8
  <2> QED BY <1>a, <2>1
<1> QED BY <1>1, <1>2, <1>6, <1>7, <1>8, LifeSteps

LEMMA LifeTypeStep == IndInv /\ LifeInv /\ [LifeNext]_allVars => LifeTypeOK'
<1> SUFFICES ASSUME IndInv, LifeInv, [LifeNext]_allVars PROVE LifeTypeOK'
  OBVIOUS
<1>a. LifeTypeOK /\ Lifetimes /\ enqueued \in Nat
  BY PoolAssumption DEF LifeInv, IndInv, TypeOK
<1>1. /\ at' \in {"build", "buildRest", "run", "unwind", "destroyPool", "exit", "exited"}
      /\ objects' \subseteq {"io_context", "tcpServer", "restServer", "database"}
      /\ listening' \subseteq objects'
  <2>1. CASE BuildTcpServer \/ BuildRestServer
    BY <1>a, <2>1 DEF BuildTcpServer, BuildRestServer, LifeTypeOK
  <2>2. CASE LeaveRun \/ DestroyServers
    BY <1>a, <2>2 DEF LeaveRun, DestroyServers, LifeTypeOK
  <2>3. CASE DestroyIoContext \/ DestroyDatabase
    BY <1>a, <2>3 DEF DestroyIoContext, DestroyDatabase, LifeTypeOK, Lifetimes
  <2>4. ASSUME NEW w \in Workers, Construct(w)
        PROVE  objects' = objects \union {"database"}
    BY <2>4 DEF Construct
  <2> QED BY <1>a, <2>1, <2>2, <2>3, <2>4, MainSteps DEF LifeTypeOK
<1>2. owner' \in Seq({"tcpServer", "restServer"}) /\ Len(owner') = enqueued'
  <2>1. owner \in Seq({"tcpServer", "restServer"}) /\ Len(owner) = enqueued
    BY <1>a DEF LifeTypeOK
  <2>2. CASE AcceptClient
    <3>1. PICK s \in listening : owner' = Append(owner, s)
      BY <2>2 DEF AcceptClient
    <3>2. s \in {"tcpServer", "restServer"} /\ enqueued' = enqueued + 1
      BY <1>a, <2>2 DEF AcceptClient, Enqueue, Lifetimes
    <3> QED BY <2>1, <3>1, <3>2, AppendProperties
  <2> QED BY <2>1, <2>2, EnqueuedStep
<1>3. initFlag' \in Workers \union {"free", "set"} /\ built' \in Nat
  BY <1>a, BodySteps DEF LifeTypeOK, BeginTask, EndTask, NeedDatabase, CallOnce, Construct,
                         ConstructFails, UseDatabase
<1> QED BY <1>1, <1>2, <1>3, BodyStep DEF LifeTypeOK

------------------------------------------------------------------------------
(* The inductive invariant holds in every reachable state.                 *)
THEOREM LifeSafety == LifeSpec => []LifeInv
<1>1. IndInv /\ LifeInv /\ [LifeNext]_allVars => LifeInv'
  BY LifeTypeStep, CalledOnceStep, LifetimesStep DEF LifeInv
<1> QED BY LifeInitInv, <1>1, ProcessRunsThreadPool, Safety, PTL DEF LifeSpec

(* The state always has its shape: every task has an owner that listened,  *)
(* and a worker is in the body of a task exactly while it runs one.        *)
THEOREM LifeTypeCorrect == LifeSpec => []LifeTypeOK
<1>1. LifeInv => LifeTypeOK
  BY DEF LifeInv
<1> QED BY LifeSafety, <1>1, PTL

(* However many workers call getInstance at once, and however often the    *)
(* constructor fails, one instance of DatabaseManager is built.            *)
THEOREM OneDatabaseIsBuilt == LifeSpec => []SingleDatabase
<1>1. LifeInv => SingleDatabase
  BY DEF LifeInv, CalledOnce, SingleDatabase
<1> QED BY LifeSafety, <1>1, PTL

(* Whether main leaves run() or fails to build a server, its objects       *)
(* outlive the tasks that use them.                                        *)
THEOREM ObjectsOutliveTasks == LifeSpec => []TasksUseLiveObjects
<1>1. IndInv /\ LifeInv => TasksUseLiveObjects
  <2> SUFFICES ASSUME IndInv, LifeInv PROVE TasksUseLiveObjects
    OBVIOUS
  <2>a. Lifetimes /\ LifeTypeOK /\ CalledOnce
    BY DEF LifeInv
  <2>1. tasks # <<>> \/ Running # {} => "io_context" \in objects
    BY <2>a, Joined DEF Lifetimes
  <2>2. ASSUME NEW w \in Workers, body[w] = "database" PROVE "database" \in objects
    <3>1. workers[w] = "run"
      BY <2>2, <2>a DEF LifeTypeOK
    <3>2. main # "joined"
      BY <3>1, Joined
    <3> QED BY <2>2, <2>a, <3>2 DEF Lifetimes, CalledOnce
  <2>3. ASSUME NEW t \in Running PROVE "tcpServer" \in objects \/ at = "destroyPool"
    <3>1. main # "joined"
      BY <2>3, Joined
    <3>2. enqueued # 0
      <4>1. t \in 1..Taken /\ Len(tasks) \in Nat /\ enqueued \in Nat
        BY <2>3, PoolAssumption DEF IndInv, ExactlyOnce, TypeOK
      <4> QED BY <4>1 DEF Taken
    <3> QED BY <2>a, <3>1, <3>2 DEF Lifetimes, LifeTypeOK
  <2> QED BY <2>1, <2>2, <2>3 DEF TasksUseLiveObjects
<1> QED BY LifeSafety, ProcessRunsThreadPool, Safety, <1>1, PTL
==============================================================================
