--------------------------- MODULE ThreadPoolProofs ---------------------------
(***************************************************************************)
(* Proofs about ThreadPool, for every set of workers and number of tasks.  *)
(***************************************************************************)
EXTENDS ThreadPool, FiniteSetTheorems, SequenceTheorems, TLAPS

(* Popping a queue that holds consecutive numbers takes the smallest and   *)
(* leaves consecutive numbers; pushing the next number keeps them so.      *)
LEMMA PopConsecutive ==
  ASSUME NEW n \in Nat, NEW m \in Nat, NEW s \in Seq(1..m), s # <<>>,
         \A i \in 1..Len(s) : s[i] = n + i
  PROVE  /\ Head(s) = n + 1
         /\ Head(s) \in 1..m
         /\ Tail(s) \in Seq(1..m)
         /\ Len(Tail(s)) = Len(s) - 1
         /\ \A i \in 1..Len(Tail(s)) : Tail(s)[i] = (n + 1) + i
<1>1. Len(s) \in Nat /\ Len(s) # 0
  OBVIOUS
<1>2. Head(s) = s[1] /\ s[1] \in 1..m
  BY <1>1
<1>3. Tail(s) \in Seq(1..m) /\ Len(Tail(s)) = Len(s) - 1
  BY <1>1
<1>4. ASSUME NEW i \in 1..Len(Tail(s)) PROVE Tail(s)[i] = (n + 1) + i
  <2>1. Tail(s)[i] = s[i + 1] /\ i + 1 \in 1..Len(s)
    BY <1>1, <1>3
  <2> QED BY <2>1
<1> QED BY <1>1, <1>2, <1>3, <1>4

LEMMA PushConsecutive ==
  ASSUME NEW n \in Nat, NEW m \in Nat, NEW s \in Seq(1..m), NEW e \in 1..m,
         \A i \in 1..Len(s) : s[i] = n + i, e = n + Len(s) + 1
  PROVE  /\ Append(s, e) \in Seq(1..m)
         /\ Len(Append(s, e)) = Len(s) + 1
         /\ Append(s, e) # <<>>
         /\ \A i \in 1..Len(Append(s, e)) : Append(s, e)[i] = n + i
<1>1. /\ Append(s, e) \in Seq(1..m)
      /\ Len(Append(s, e)) = Len(s) + 1
      /\ \A i \in 1..Len(s) : Append(s, e)[i] = s[i]
      /\ Append(s, e)[Len(s) + 1] = e
  BY AppendProperties
<1>2. Len(s) \in Nat /\ Append(s, e) # <<>>
  BY <1>1, EmptySeq
<1>3. ASSUME NEW i \in 1..Len(Append(s, e)) PROVE Append(s, e)[i] = n + i
  <2>1. i \in 1..Len(s) \/ i = Len(s) + 1
    BY <1>1, <1>2
  <2>2. CASE i \in 1..Len(s)
    BY <1>1, <2>2
  <2>3. CASE i = Len(s) + 1
    <3>1. n + i = e
      BY <1>2, <2>3
    <3> QED BY <1>1, <2>3, <3>1
  <2> QED BY <2>1, <2>2, <2>3
<1> QED BY <1>1, <1>2, <1>3

------------------------------------------------------------------------------
(* Every action, with the operators it is built from.                      *)
USE DEF MainAt, WorkerAt, Queue!Unlocked, Queue!Lock, Queue!Unlock, Queue!Wait,
        Queue!NotifyOne, Queue!NotifyAll, Queue!SpuriousWakeup

(* Any step is a step of one thread.                                       *)
LEMMA Steps ==
  ASSUME [Next]_vars
  PROVE  \/ Constructed \/ EnqueueNotify \/ StopNotify \/ Join \/ Enqueue \/ Stop
         \/ UNCHANGED vars
         \/ \E w \in Workers : \/ Spawn(w) \/ Acquire(w) \/ Check(w) \/ Sleep(w)
                               \/ Exit(w) \/ Take(w) \/ Return(w) \/ Wakeup(w)
  BY DEF Next, MainStep, WorkerStep, Terminated

(* What a worker that pops gets, and what it leaves.                       *)
LEMMA TakeStep ==
  ASSUME IndInv, NEW w \in Workers, Take(w)
  PROVE  /\ task'[w] = Taken + 1 /\ task'[w] \in 1..MaxTasks
         /\ task' = [task EXCEPT ![w] = Taken + 1]
         /\ tasks # <<>> /\ tasks' \in Seq(1..MaxTasks)
         /\ Len(tasks') = Len(tasks) - 1
         /\ Taken' = Taken + 1
         /\ Taken \in Nat
         /\ \A i \in 1..Len(tasks') : tasks'[i] = (Taken + 1) + i
<1>1. tasks # <<>> /\ tasks \in Seq(1..MaxTasks) /\ MaxTasks \in Nat
  BY PoolAssumption DEF IndInv, ControlOK, TypeOK, Take
<1>2. Len(tasks) \in Nat /\ Len(tasks) <= enqueued /\ Taken \in Nat
  <2>1. Len(tasks) \in Nat /\ Len(tasks) # 0 /\ enqueued \in Nat
    BY <1>1 DEF IndInv, TypeOK
  <2>2. tasks[1] \in 1..MaxTasks /\ tasks[1] = Taken + 1
    BY <1>1, <2>1 DEF IndInv, ExactlyOnce
  <2> QED BY <2>1, <2>2 DEF Taken
<1>3. /\ Head(tasks) = Taken + 1
      /\ Head(tasks) \in 1..MaxTasks
      /\ Tail(tasks) \in Seq(1..MaxTasks)
      /\ Len(Tail(tasks)) = Len(tasks) - 1
      /\ \A i \in 1..Len(Tail(tasks)) : Tail(tasks)[i] = (Taken + 1) + i
  BY <1>1, <1>2, PopConsecutive DEF IndInv, ExactlyOnce
<1>4. tasks' = Tail(tasks) /\ enqueued' = enqueued
  BY DEF Take
<1>5. task' = [task EXCEPT ![w] = Taken + 1] /\ task'[w] = Taken + 1
  BY <1>3 DEF Take, IndInv, TypeOK
<1>6. Taken' = Taken + 1
  BY <1>2, <1>3, <1>4 DEF Taken, IndInv, TypeOK
<1> QED BY <1>1, <1>2, <1>3, <1>4, <1>5, <1>6

(* What enqueueTask pushes.                                                *)
LEMMA EnqueueStep ==
  ASSUME IndInv, Enqueue
  PROVE  /\ tasks' \in Seq(1..MaxTasks) /\ tasks' # <<>>
         /\ Len(tasks') = Len(tasks) + 1
         /\ Taken' = Taken /\ enqueued' \in 0..MaxTasks
         /\ \A i \in 1..Len(tasks') : tasks'[i] = Taken + i
<1>1. /\ tasks \in Seq(1..MaxTasks) /\ MaxTasks \in Nat /\ enqueued \in Nat
      /\ Len(tasks) \in Nat /\ enqueued + 1 \in 1..MaxTasks
  BY PoolAssumption DEF IndInv, TypeOK, Enqueue
<1>2. Taken \in Nat /\ enqueued + 1 = Taken + Len(tasks) + 1
  <2>1. CASE tasks = <<>>
    BY <1>1, <2>1 DEF Taken
  <2>2. CASE tasks # <<>>
    <3>1. tasks[1] \in 1..MaxTasks /\ tasks[1] = Taken + 1
      BY <1>1, <2>2 DEF IndInv, ExactlyOnce
    <3> QED BY <1>1, <3>1 DEF Taken
  <2> QED BY <2>1, <2>2
<1>3. tasks' = Append(tasks, enqueued + 1) /\ enqueued' = enqueued + 1
  BY DEF Enqueue
<1>a. /\ enqueued + 1 = Taken + Len(tasks) + 1
      /\ \A i \in 1..Len(tasks) : tasks[i] = Taken + i
  BY <1>2 DEF IndInv, ExactlyOnce
<1>4. /\ tasks' \in Seq(1..MaxTasks)
      /\ Len(tasks') = Len(tasks) + 1
      /\ tasks' # <<>>
      /\ \A i \in 1..Len(tasks') : tasks'[i] = Taken + i
  <2>1. Taken \in Nat /\ enqueued + 1 \in 1..MaxTasks /\ enqueued + 1 = Taken + Len(tasks) + 1
    BY <1>1, <1>2
  <2>2. \A i \in 1..Len(tasks) : tasks[i] = Taken + i
    BY <1>a
  <2>3. /\ Append(tasks, enqueued + 1) \in Seq(1..MaxTasks)
        /\ Len(Append(tasks, enqueued + 1)) = Len(tasks) + 1
        /\ Append(tasks, enqueued + 1) # <<>>
        /\ \A i \in 1..Len(Append(tasks, enqueued + 1)) :
              Append(tasks, enqueued + 1)[i] = Taken + i
    BY <1>1, <2>1, <2>2, PushConsecutive
  <2> QED BY <1>3, <2>3
<1>5. Taken' = Taken
  BY <1>1, <1>3, <1>4 DEF Taken
<1> QED BY <1>1, <1>3, <1>4, <1>5

------------------------------------------------------------------------------
LEMMA InitIndInv == Init => IndInv
<1> SUFFICES ASSUME Init PROVE IndInv
  OBVIOUS
<1>1. /\ tasks \in Seq(1..MaxTasks) /\ Len(tasks) = 0
      /\ enqueued = 0 /\ MaxTasks \in Nat
  BY PoolAssumption, EmptySeq DEF Init
<1>2. TypeOK
  <2>1. task \in [Workers -> 0..MaxTasks] /\ enqueued \in 0..MaxTasks
    BY <1>1 DEF Init
  <2> QED BY <1>1, <2>1 DEF Init, TypeOK
<1>3. ControlOK /\ StopReachesAll /\ NoLostWakeup
  BY PoolAssumption DEF Init, ControlOK, Locked, StopReachesAll, NoLostWakeup
<1>4. ExactlyOnce
  <2>1. Taken = 0
    BY <1>1 DEF Taken
  <2>2. Running = {}
    BY DEF Init, Running
  <2> QED BY <1>1, <2>1, <2>2 DEF Init, ExactlyOnce
<1> QED BY <1>2, <1>3, <1>4 DEF IndInv

LEMMA TypeStep == IndInv /\ [Next]_vars => TypeOK'
<1> SUFFICES ASSUME IndInv, [Next]_vars PROVE TypeOK'
  OBVIOUS
<1> USE DEF TypeOK
<1>a. TypeOK /\ MaxTasks \in Nat
  BY PoolAssumption DEF IndInv
<1>1. CASE Constructed \/ EnqueueNotify \/ StopNotify \/ Join \/ Stop \/ UNCHANGED vars
  BY <1>1, <1>a DEF Constructed, EnqueueNotify, StopNotify, Join, Stop, vars
<1>2. CASE Enqueue
  BY <1>2, <1>a, EnqueueStep DEF Enqueue
<1>3. ASSUME NEW w \in Workers,
             Spawn(w) \/ Acquire(w) \/ Check(w) \/ Sleep(w) \/ Exit(w) \/ Wakeup(w)
      PROVE  TypeOK'
  BY <1>3, <1>a DEF Spawn, Acquire, Check, Sleep, Exit, Wakeup
<1>4. ASSUME NEW w \in Workers, Take(w) PROVE TypeOK'
  <2>1. task' \in [Workers -> 0..MaxTasks] /\ tasks' \in Seq(1..MaxTasks)
    BY <1>4, <1>a, TakeStep
  <2>2. /\ workers' = [workers EXCEPT ![w] = "run"]
        /\ queueMutex' = NoThread
        /\ UNCHANGED <<condition, stop, main, enqueued, finished>>
    BY <1>4 DEF Take
  <2>3. ASSUME NEW v \in Workers PROVE task'[v] # 0 <=> workers'[v] = "run"
    <3>1. CASE v = w
      BY <1>4, <1>a, <2>2, <3>1, TakeStep
    <3>2. CASE v # w
      BY <1>4, <1>a, <2>2, <3>2, TakeStep
    <3> QED BY <3>1, <3>2
  <2> QED BY <1>a, <2>1, <2>2, <2>3
<1>5. ASSUME NEW w \in Workers, Return(w) PROVE TypeOK'
  <2>1. task[w] \in 1..MaxTasks
    BY <1>5, <1>a DEF Return
  <2>2. finished' \subseteq 1..MaxTasks
    BY <1>5, <1>a, <2>1 DEF Return
  <2>3. /\ task' \in [Workers -> 0..MaxTasks]
        /\ \A v \in Workers : task'[v] # 0 <=> workers'[v] = "run"
    BY <1>5, <1>a DEF Return
  <2>4. /\ workers' = [workers EXCEPT ![w] = "lock"]
        /\ UNCHANGED <<tasks, queueMutex, condition, stop, main, enqueued>>
    BY <1>5 DEF Return
  <2> QED BY <1>a, <2>2, <2>3, <2>4
<1> QED BY <1>1, <1>2, <1>3, <1>4, <1>5, Steps

(* What each thread knows at each point survives the steps of the others:  *)
(* `tasks' and `stop' change only while the mutex is free or held by the   *)
(* worker that pops.                                                       *)
LEMMA ControlStep == IndInv /\ [Next]_vars => ControlOK'
<1> SUFFICES ASSUME IndInv, [Next]_vars PROVE ControlOK'
  OBVIOUS
<1> USE DEF ControlOK, Locked
<1>a. TypeOK /\ ControlOK /\ NoThread \notin Workers
  BY PoolAssumption DEF IndInv
<1>1. CASE Constructed \/ EnqueueNotify \/ StopNotify \/ Join \/ UNCHANGED vars
  BY <1>1, <1>a DEF Constructed, EnqueueNotify, StopNotify, Join, vars
<1>2. CASE Stop
  BY <1>2, <1>a DEF Stop
<1>3. CASE Enqueue
  BY <1>3, <1>a, EnqueueStep DEF Enqueue
<1>4. ASSUME NEW w \in Workers,
             Spawn(w) \/ Acquire(w) \/ Check(w) \/ Sleep(w) \/ Exit(w) \/ Wakeup(w)
      PROVE  ControlOK'
  <2>1. CASE Spawn(w)
    BY <1>a, <2>1 DEF Spawn, TypeOK
  <2>2. CASE Acquire(w)
    BY <1>a, <2>2 DEF Acquire, TypeOK
  <2>3. CASE Check(w)
    BY <1>a, <2>3 DEF Check, TypeOK
  <2>4. CASE Sleep(w)
    BY <1>a, <2>4 DEF Sleep, TypeOK
  <2>5. CASE Exit(w)
    BY <1>a, <2>5 DEF Exit, TypeOK
  <2>6. CASE Wakeup(w)
    BY <1>a, <2>6 DEF Wakeup, TypeOK
  <2> QED BY <1>4, <2>1, <2>2, <2>3, <2>4, <2>5, <2>6
<1>5. ASSUME NEW w \in Workers, Take(w) PROVE ControlOK'
  BY <1>5, <1>a, TakeStep DEF Take, TypeOK
<1>6. ASSUME NEW w \in Workers, Return(w) PROVE ControlOK'
  BY <1>6, <1>a DEF Return, TypeOK
<1> QED BY <1>1, <1>2, <1>3, <1>4, <1>5, <1>6, Steps

LEMMA StopStep == IndInv /\ [Next]_vars => StopReachesAll'
<1> SUFFICES ASSUME IndInv, [Next]_vars PROVE StopReachesAll'
  OBVIOUS
<1> USE DEF StopReachesAll
<1>a. TypeOK /\ ControlOK /\ StopReachesAll
  BY DEF IndInv
<1>1. CASE Constructed \/ EnqueueNotify \/ StopNotify \/ Join \/ Enqueue \/ Stop
           \/ UNCHANGED vars
  BY <1>1, <1>a DEF Constructed, EnqueueNotify, StopNotify, Join, Enqueue, Stop, vars
<1>2. ASSUME NEW w \in Workers,
             Spawn(w) \/ Acquire(w) \/ Check(w) \/ Exit(w) \/ Take(w) \/ Return(w)
                      \/ Wakeup(w)
      PROVE  StopReachesAll'
  BY <1>2, <1>a DEF Spawn, Acquire, Check, Exit, Take, Return, Wakeup
<1>3. ASSUME NEW w \in Workers, Sleep(w) PROVE StopReachesAll'
  BY <1>3, <1>a DEF Sleep, ControlOK
<1> QED BY <1>1, <1>2, <1>3, Steps

(* How the tasks in the hands of workers change.                           *)
LEMMA RunningTake ==
  ASSUME IndInv, NEW w \in Workers, Take(w)
  PROVE  Running' = Running \union {Taken + 1}
<1>1. task' = [task EXCEPT ![w] = Taken + 1] /\ Taken \in Nat
  BY TakeStep
<1>2. task[w] = 0 /\ task \in [Workers -> Nat]
  BY PoolAssumption DEF Take, IndInv, TypeOK
<1> QED BY <1>1, <1>2 DEF Running

LEMMA RunningReturn ==
  ASSUME IndInv, NEW w \in Workers, Return(w)
  PROVE  task[w] \in Running /\ Running' = Running \ {task[w]}
<1>1. /\ task' = [task EXCEPT ![w] = 0] /\ task \in [Workers -> Nat]
      /\ task[w] # 0
  BY PoolAssumption DEF Return, IndInv, TypeOK
<1> QED BY <1>1 DEF IndInv, Running, ExactlyOnce

LEMMA ExactlyOnceStep == IndInv /\ [Next]_vars => ExactlyOnce'
<1> SUFFICES ASSUME IndInv, [Next]_vars PROVE ExactlyOnce'
  OBVIOUS
<1>a. TypeOK /\ ExactlyOnce
  BY DEF IndInv
<1>1. ASSUME UNCHANGED <<task, tasks, enqueued, finished>> PROVE ExactlyOnce'
  BY <1>1, <1>a DEF ExactlyOnce, Taken, Running
<1>2. CASE Enqueue
  <2>1. UNCHANGED <<task, finished>> /\ Running' = Running
    BY <1>2 DEF Enqueue, Running
  <2> QED BY <1>2, <1>a, <2>1, EnqueueStep DEF ExactlyOnce
<1>3. ASSUME NEW w \in Workers, Take(w) PROVE ExactlyOnce'
  <2>1. /\ task' = [task EXCEPT ![w] = Taken + 1]
        /\ Taken \in Nat /\ Taken' = Taken + 1
        /\ \A i \in 1..Len(tasks') : tasks'[i] = Taken' + i
    BY <1>3, TakeStep
  <2>2. finished' = finished /\ task[w] = 0 /\ task \in [Workers -> Nat]
    BY <1>3, <1>a, PoolAssumption DEF Take, TypeOK
  <2>3. Running' = Running \union {Taken + 1}
    BY <1>3, RunningTake
  <2>4. finished' \union Running' = 1..Taken'
    BY <1>a, <2>1, <2>2, <2>3 DEF ExactlyOnce
  <2>5. ASSUME NEW v \in Workers PROVE task[v] # Taken + 1
    BY <1>a, <2>1, <2>2 DEF ExactlyOnce, Running
  <2>6. Taken + 1 \notin finished
    BY <1>a, <2>1 DEF ExactlyOnce
  <2>7. \A v \in Workers : task'[v] \notin finished'
    BY <1>a, <2>1, <2>2, <2>6 DEF ExactlyOnce
  <2>8. \A u, v \in Workers : u # v /\ task'[u] # 0 => task'[u] # task'[v]
    BY <1>a, <2>1, <2>2, <2>5 DEF ExactlyOnce
  <2> QED BY <2>1, <2>4, <2>7, <2>8 DEF ExactlyOnce
<1>4. ASSUME NEW w \in Workers, Return(w) PROVE ExactlyOnce'
  <2>1. /\ task' = [task EXCEPT ![w] = 0] /\ task \in [Workers -> Nat]
        /\ task[w] # 0
        /\ finished' = finished \union {task[w]}
        /\ UNCHANGED <<tasks, enqueued>>
    BY <1>4, <1>a, PoolAssumption DEF Return, TypeOK
  <2>2. Running' = Running \ {task[w]} /\ task[w] \in Running
    BY <1>4, RunningReturn
  <2>4. finished' \union Running' = finished \union Running /\ Taken' = Taken
    BY <2>1, <2>2 DEF Taken
  <2>5. 0 \notin finished /\ \A v \in Workers \ {w} : task[v] # task[w]
    BY <1>a, <2>1 DEF TypeOK, ExactlyOnce
  <2>6. \A v \in Workers : task'[v] \notin finished'
    BY <1>a, <2>1, <2>5 DEF ExactlyOnce
  <2>7. \A u, v \in Workers : u # v /\ task'[u] # 0 => task'[u] # task'[v]
    BY <1>a, <2>1 DEF ExactlyOnce
  <2> QED BY <1>a, <2>1, <2>4, <2>6, <2>7 DEF ExactlyOnce
<1>5. ASSUME NEW w \in Workers,
             Spawn(w) \/ Acquire(w) \/ Check(w) \/ Sleep(w) \/ Exit(w) \/ Wakeup(w)
      PROVE  ExactlyOnce'
  BY <1>1, <1>5 DEF Spawn, Acquire, Check, Sleep, Exit, Wakeup
<1>6. CASE Constructed \/ EnqueueNotify \/ StopNotify \/ Join \/ Stop \/ UNCHANGED vars
  BY <1>1, <1>6 DEF Constructed, EnqueueNotify, StopNotify, Join, Stop, vars
<1> QED BY <1>2, <1>3, <1>4, <1>5, <1>6, Steps

(* The workers awake are finitely many, and counted one by one.            *)
LEMMA AwakeCount ==
  ASSUME NEW A \in SUBSET Workers
  PROVE  /\ Cardinality(A) \in Nat
         /\ \A w \in Workers \ A : Cardinality(A \union {w}) = Cardinality(A) + 1
         /\ \A w \in A : Cardinality(A \ {w}) = Cardinality(A) - 1
         /\ \A B \in SUBSET A : Cardinality(B) <= Cardinality(A)
<1>1. IsFiniteSet(A)
  BY PoolAssumption, FS_Subset
<1> QED BY <1>1, FS_CardinalityType, FS_AddElement, FS_RemoveElement, FS_Subset

LEMMA WakeupStep == IndInv /\ [Next]_vars => NoLostWakeup'
<1> SUFFICES ASSUME IndInv, [Next]_vars, condition' # {}
             PROVE  Len(tasks') <= Cardinality(Awake') + (IF main' = "notify" THEN 1 ELSE 0)
  BY DEF NoLostWakeup
<1>a. TypeOK /\ ControlOK /\ NoLostWakeup
  BY DEF IndInv
<1>b. TypeOK'
  BY TypeStep
<1>c. Awake \in SUBSET Workers /\ Awake' \in SUBSET Workers
  BY DEF Awake
<1>d. /\ Cardinality(Awake) \in Nat /\ Cardinality(Awake') \in Nat
      /\ Len(tasks) \in Nat /\ Len(tasks') \in Nat
  BY <1>a, <1>b, <1>c, AwakeCount DEF TypeOK
<1>1. ASSUME condition' = condition, tasks' = tasks, main # "notify", Awake \subseteq Awake'
      PROVE  Len(tasks') <= Cardinality(Awake')
  <2>1. Cardinality(Awake) <= Cardinality(Awake')
    BY <1>1, <1>c, AwakeCount
  <2>2. Len(tasks) <= Cardinality(Awake)
    BY <1>a, <1>d, <1>1 DEF NoLostWakeup
  <2> QED BY <1>1, <1>d, <2>1, <2>2
<1>2. CASE Constructed \/ Join \/ Stop
  <2>1. /\ condition' = condition /\ tasks' = tasks /\ workers' = workers
        /\ main # "notify" /\ main' # "notify"
    BY <1>2 DEF Constructed, Join, Stop
  <2>2. Awake' = Awake
    BY <2>1 DEF Awake
  <2>3. Len(tasks') <= Cardinality(Awake')
    BY <1>1, <2>1, <2>2
  <2> QED BY <1>d, <2>1, <2>3
<1>3. CASE UNCHANGED vars
  <2>1. Awake' = Awake /\ tasks' = tasks /\ main' = main /\ condition' = condition
    BY <1>3 DEF Awake, vars
  <2> QED BY <1>a, <2>1 DEF NoLostWakeup
<1>4. CASE StopNotify
  BY <1>4 DEF StopNotify
<1>5. CASE Enqueue
  <2>1. Awake' = Awake /\ condition' = condition /\ main = "serve" /\ main' = "notify"
    BY <1>5 DEF Awake, Enqueue
  <2>2. Len(tasks) <= Cardinality(Awake)
    BY <1>a, <1>d, <2>1 DEF NoLostWakeup
  <2>3. Len(tasks') = Len(tasks) + 1
    BY <1>5, EnqueueStep
  <2> QED BY <1>d, <2>1, <2>2, <2>3
<1>6. CASE EnqueueNotify
  <2>1. PICK t \in condition : condition' = condition \ {t}
    BY <1>6 DEF EnqueueNotify
  <2>2. /\ workers' = workers /\ tasks' = tasks /\ main = "notify" /\ main' = "serve"
        /\ workers[t] = "wait" /\ t \in Workers
    BY <1>6, <1>a DEF EnqueueNotify, ControlOK, TypeOK
  <2>3. Awake' = Awake \union {t} /\ t \notin Awake
    BY <1>a, <2>1, <2>2 DEF Awake, ControlOK
  <2>4. Cardinality(Awake') = Cardinality(Awake) + 1
    BY <1>c, <2>2, <2>3, AwakeCount
  <2>5. Len(tasks) <= Cardinality(Awake) + 1
    BY <1>a, <2>1, <2>2 DEF NoLostWakeup
  <2> QED BY <1>d, <2>2, <2>4, <2>5
<1>7. ASSUME NEW w \in Workers, Spawn(w) \/ Acquire(w) \/ Return(w) \/ Wakeup(w)
      PROVE  Len(tasks') <= Cardinality(Awake') + (IF main' = "notify" THEN 1 ELSE 0)
  <2>1. tasks' = tasks /\ main' = main /\ condition # {} /\ Awake \subseteq Awake'
    BY <1>7, <1>a DEF Spawn, Acquire, Return, Wakeup, Awake, TypeOK
  <2>2. Cardinality(Awake) <= Cardinality(Awake')
    BY <1>c, <2>1, AwakeCount
  <2>3. Len(tasks) <= Cardinality(Awake) + (IF main = "notify" THEN 1 ELSE 0)
    BY <1>a, <2>1 DEF NoLostWakeup
  <2> QED BY <1>d, <2>1, <2>2, <2>3
<1>8. ASSUME NEW w \in Workers, Check(w)
      PROVE  Len(tasks') <= Cardinality(Awake') + (IF main' = "notify" THEN 1 ELSE 0)
  <2>1. CASE tasks = <<>>
    <3>1. Len(tasks') = 0
      BY <1>8, <2>1, EmptySeq DEF Check
    <3> QED BY <1>d, <3>1
  <2>2. CASE tasks # <<>>
    <3>1. tasks' = tasks /\ main' = main /\ condition' = condition /\ Awake' = Awake
      BY <1>8, <1>a, <2>2 DEF Check, Awake, TypeOK
    <3> QED BY <1>a, <3>1 DEF NoLostWakeup
  <2> QED BY <2>1, <2>2
<1>9. ASSUME NEW w \in Workers, Sleep(w) \/ Exit(w)
      PROVE  Len(tasks') <= Cardinality(Awake') + (IF main' = "notify" THEN 1 ELSE 0)
  <2>1. Len(tasks') = 0
    BY <1>9, <1>a, EmptySeq DEF Sleep, Exit, ControlOK
  <2> QED BY <1>d, <2>1
<1>10. ASSUME NEW w \in Workers, Take(w)
       PROVE  Len(tasks') <= Cardinality(Awake') + (IF main' = "notify" THEN 1 ELSE 0)
  <2>1. Len(tasks') = Len(tasks) - 1 /\ condition' = condition /\ main' = main
    BY <1>10, TakeStep DEF Take
  <2>2. Awake' = Awake \ {w} /\ w \in Awake
    BY <1>10, <1>a DEF Take, Awake, TypeOK
  <2>3. Cardinality(Awake') = Cardinality(Awake) - 1
    BY <1>c, <2>2, AwakeCount
  <2>4. Len(tasks) <= Cardinality(Awake) + (IF main = "notify" THEN 1 ELSE 0)
    BY <1>a, <2>1 DEF NoLostWakeup
  <2>5. CASE main = "notify"
    BY <1>d, <2>1, <2>3, <2>4, <2>5
  <2>6. CASE main # "notify"
    BY <1>d, <2>1, <2>3, <2>4, <2>6
  <2> QED BY <2>5, <2>6
<1> QED BY <1>2, <1>3, <1>4, <1>5, <1>6, <1>7, <1>8, <1>9, <1>10, Steps

------------------------------------------------------------------------------
(* The inductive invariant holds in every reachable state.                 *)
THEOREM Safety == Spec => []IndInv
<1>1. IndInv /\ [Next]_vars => IndInv'
  BY TypeStep, ControlStep, StopStep, ExactlyOnceStep, WakeupStep DEF IndInv
<1> QED BY InitIndInv, <1>1, PTL DEF Spec

(* TypeOK of every state, whatever the number of workers and tasks.        *)
THEOREM TypeCorrect == Spec => []TypeOK
<1>1. IndInv => TypeOK
  BY DEF IndInv
<1> QED BY Safety, <1>1, PTL

(* Tasks run in order, once each, whatever the interleaving of workers.    *)
THEOREM TasksRunExactlyOnce == Spec => []ExactlyOnce
<1>1. IndInv => ExactlyOnce
  BY DEF IndInv
<1> QED BY Safety, <1>1, PTL

(* notify_one per task, made outside the lock, loses no wakeup.            *)
THEOREM WakeupsAreNotLost == Spec => []NoLostWakeup
<1>1. IndInv => NoLostWakeup
  BY DEF IndInv
<1> QED BY Safety, <1>1, PTL

(* No worker sleeps through the shutdown.                                  *)
THEOREM StopWakesEveryone == Spec => []StopReachesAll
<1>1. IndInv => StopReachesAll
  BY DEF IndInv
<1> QED BY Safety, <1>1, PTL

(* ~ThreadPool returns only when every enqueued task returned: with all    *)
(* workers gone none holds a task, and the last one left an empty queue.   *)
LEMMA AllExitedIsDrained ==
  ASSUME IndInv, \A w \in Workers : workers[w] = "exited"
  PROVE  finished = 1..enqueued
<1>1. \A w \in Workers : workers[w] = "exited" /\ task[w] = 0 /\ tasks = <<>>
  BY DEF IndInv, ControlOK, TypeOK
<1>2. Running = {}
  BY <1>1 DEF Running
<1>3. Len(tasks) = 0 /\ enqueued \in Nat
  BY <1>1, PoolAssumption, EmptySeq DEF IndInv, TypeOK
<1>4. Taken = enqueued
  BY <1>3 DEF Taken
<1> QED BY <1>2, <1>4 DEF IndInv, ExactlyOnce

THEOREM ShutdownDrains == Spec => []DestructorDrains
<1>1. IndInv => DestructorDrains
  BY AllExitedIsDrained DEF DestructorDrains, IndInv, ControlOK
<1> QED BY Safety, <1>1, PTL

------------------------------------------------------------------------------
(* Each step of a thread is a step of TaskQueue or leaves it unchanged.    *)
LEMMA Refines == IndInv /\ [Next]_vars => [Abstract!Next]_(Abstract!vars)
<1> SUFFICES ASSUME IndInv, [Next]_vars PROVE [Abstract!Next]_(Abstract!vars)
  OBVIOUS
<1> USE DEF Abstract!Next, Abstract!vars
<1>a. TypeOK /\ ControlOK
  BY DEF IndInv
<1>1. ASSUME UNCHANGED <<task, tasks, stop, enqueued, finished>>,
             (main = "joined") <=> (main' = "joined")
      PROVE  UNCHANGED Abstract!vars
  <2>1. Running' = Running
    BY <1>1 DEF Running
  <2> QED BY <1>1, <2>1
<1>2. CASE Enqueue
  <2>1. ~stop /\ Running' = Running
    BY <1>2, <1>a DEF Enqueue, ControlOK, Running
  <2>2. Abstract!Submit
    BY <1>2, <2>1 DEF Enqueue, Abstract!Submit
  <2> QED BY <2>2
<1>3. CASE Stop
  <2>1. ~stop /\ Running' = Running
    BY <1>3, <1>a DEF Stop, ControlOK, Running
  <2>2. Abstract!Close
    BY <1>3, <2>1 DEF Stop, Abstract!Close
  <2> QED BY <2>2
<1>4. CASE Join
  <2>1. finished = 1..enqueued /\ stop /\ Running' = Running
    BY <1>4, <1>a, AllExitedIsDrained DEF Join, ControlOK, Running
  <2>2. Abstract!Terminate
    BY <1>4, <2>1 DEF Join, Abstract!Terminate
  <2> QED BY <2>2
<1>5. ASSUME NEW w \in Workers, Take(w) PROVE Abstract!Next
  <2>1. Running' = Running \union {Head(tasks)} /\ tasks # <<>>
    <3>1. task' = [task EXCEPT ![w] = Head(tasks)] /\ task'[w] = Taken + 1
      BY <1>5, TakeStep DEF Take
    <3>2. Head(tasks) = Taken + 1
      BY <3>1, <1>a DEF TypeOK
    <3> QED BY <1>5, <3>2, RunningTake, TakeStep
  <2>2. Abstract!Start
    BY <1>5, <2>1 DEF Take, Abstract!Start
  <2> QED BY <2>2
<1>6. ASSUME NEW w \in Workers, Return(w) PROVE Abstract!Next
  <2>1. task[w] \in Running /\ Abstract!Finish(task[w])
    BY <1>6, RunningReturn DEF Return, Abstract!Finish
  <2> QED BY <2>1
<1>7. CASE Constructed \/ EnqueueNotify \/ StopNotify \/ UNCHANGED vars
  BY <1>1, <1>7 DEF Constructed, EnqueueNotify, StopNotify, vars
<1>8. ASSUME NEW w \in Workers,
             Spawn(w) \/ Acquire(w) \/ Check(w) \/ Sleep(w) \/ Exit(w) \/ Wakeup(w)
      PROVE  UNCHANGED Abstract!vars
  BY <1>1, <1>8 DEF Spawn, Acquire, Check, Sleep, Exit, Wakeup
<1> QED BY <1>2, <1>3, <1>4, <1>5, <1>6, <1>7, <1>8, Steps

(* ThreadPool keeps every safety promise of TaskQueue.                     *)
THEOREM Implementation == Spec => Abstract!Spec
<1>1. Init => Abstract!Init
  BY DEF Init, Abstract!Init, Running
<1> QED BY <1>1, Safety, Refines, PTL DEF Spec, Abstract!Spec
==============================================================================
