----------------------------- MODULE ThreadPool ------------------------------
(***************************************************************************)
(* ThreadPool.h / ThreadPool.cpp: worker threads that take tasks from a    *)
(* queue guarded by a mutex and a condition variable, and the main thread  *)
(* of main.cpp, which builds the pool, enqueues a task per accepted        *)
(* connection from the io_context handlers it runs, and destroys the pool  *)
(* when io_context::run() is left.                                         *)
(*                                                                         *)
(* A task is the number of its enqueueTask call.  What a task does is the  *)
(* business of the servers; here it returns or, for the tasks in Hanging,  *)
(* does not (a client that keeps its connection open and stays silent).    *)
(***************************************************************************)
EXTENDS Naturals, Sequences, FiniteSets

CONSTANTS
  Workers,    \* the threads of the pool (150 in main.cpp)
  NoThread,   \* the owner of a free mutex
  MaxTasks,   \* bound on the number of enqueueTask calls
  Hanging     \* the tasks that never return

ASSUME PoolAssumption ==
  /\ Workers # {} /\ IsFiniteSet(Workers)
  /\ NoThread \notin Workers
  /\ MaxTasks \in Nat
  /\ Hanging \subseteq 1..MaxTasks

VARIABLES
  workers,     \* where each worker thread is in workerThread()
  task,        \* the local variable `task' of each worker, 0 when empty
  tasks,       \* the queue
  queueMutex,  \* the owner of the mutex
  condition,   \* the workers asleep on the condition variable
  stop,
  main,        \* where the main thread is
  enqueued,    \* how many tasks were pushed
  finished     \* the tasks that returned

vars == <<workers, task, tasks, queueMutex, condition, stop, main, enqueued, finished>>

Queue == INSTANCE Monitor WITH owner <- queueMutex, sleeping <- condition

------------------------------------------------------------------------------
(* The main thread                                                         *)

Init ==
  /\ workers = [w \in Workers |-> "unborn"]
  /\ task = [w \in Workers |-> 0]
  /\ tasks = <<>>
  /\ queueMutex = NoThread
  /\ condition = {}
  /\ stop = FALSE
  /\ main = "construct"
  /\ enqueued = 0
  /\ finished = {}

MainAt(from, to) == main = from /\ main' = to

WorkerAt(w, from, to) == workers[w] = from /\ workers' = [workers EXCEPT ![w] = to]

(* The constructor's loop starts the threads, which run at once.           *)
Spawn(w) ==
  /\ main = "construct"
  /\ WorkerAt(w, "unborn", "lock")
  /\ UNCHANGED <<task, tasks, queueMutex, condition, stop, main, enqueued, finished>>

Constructed ==
  /\ \A w \in Workers : workers[w] # "unborn"
  /\ MainAt("construct", "serve")
  /\ UNCHANGED <<workers, task, tasks, queueMutex, condition, stop, enqueued, finished>>

(* enqueueTask: push under the lock, then notify with the lock released.   *)
Enqueue ==
  /\ MainAt("serve", "notify")
  /\ enqueued < MaxTasks
  /\ Queue!Unlocked
  /\ enqueued' = enqueued + 1
  /\ tasks' = Append(tasks, enqueued')
  /\ UNCHANGED <<workers, task, queueMutex, condition, stop, finished>>

(* Mutant: notify only when the queue was empty before the push.           *)
EnqueueNotifyWhenEmpty ==
  /\ MainAt("notify", "serve")
  /\ IF Len(tasks) = 1 THEN Queue!NotifyOne ELSE UNCHANGED condition
  /\ UNCHANGED <<workers, task, tasks, queueMutex, stop, enqueued, finished>>

(* Mutant: the notification is forgotten.                                  *)
EnqueueSilently ==
  /\ MainAt("notify", "serve")
  /\ UNCHANGED <<workers, task, tasks, queueMutex, condition, stop, enqueued, finished>>

EnqueueNotify ==
  /\ MainAt("notify", "serve")
  /\ Queue!NotifyOne
  /\ UNCHANGED <<workers, task, tasks, queueMutex, stop, enqueued, finished>>

(* Mutant: stop is set without the lock.                                   *)
StopUnlocked ==
  /\ MainAt("serve", "notifyAll")
  /\ stop' = TRUE
  /\ UNCHANGED <<workers, task, tasks, queueMutex, condition, enqueued, finished>>

(* ~ThreadPool: set stop under the lock, wake everyone, join everyone.     *)
Stop ==
  /\ MainAt("serve", "notifyAll")
  /\ Queue!Unlocked
  /\ stop' = TRUE
  /\ UNCHANGED <<workers, task, tasks, queueMutex, condition, enqueued, finished>>

(* Mutant: only one worker is woken.                                       *)
StopNotifyOne ==
  /\ MainAt("notifyAll", "join")
  /\ Queue!NotifyOne
  /\ UNCHANGED <<workers, task, tasks, queueMutex, stop, enqueued, finished>>

StopNotify ==
  /\ MainAt("notifyAll", "join")
  /\ Queue!NotifyAll
  /\ UNCHANGED <<workers, task, tasks, queueMutex, stop, enqueued, finished>>

Join ==
  /\ \A w \in Workers : workers[w] = "exited"
  /\ MainAt("join", "joined")
  /\ UNCHANGED <<workers, task, tasks, queueMutex, condition, stop, enqueued, finished>>

------------------------------------------------------------------------------
(* A worker thread                                                         *)

(* Mutant: a woken worker does not check the predicate again.              *)
AcquireAndTake(w) ==
  /\ \/ workers[w] = "lock" /\ workers' = [workers EXCEPT ![w] = "check"]
     \/ workers[w] = "wait" /\ w \notin condition /\ workers' = [workers EXCEPT ![w] = "take"]
  /\ Queue!Lock(w)
  /\ UNCHANGED <<task, tasks, condition, stop, main, enqueued, finished>>

(* Lock the mutex, at the top of the loop or when woken inside wait.       *)
Acquire(w) ==
  /\ \/ workers[w] = "lock"
     \/ workers[w] = "wait" /\ w \notin condition
  /\ Queue!Lock(w)
  /\ workers' = [workers EXCEPT ![w] = "check"]
  /\ UNCHANGED <<task, tasks, condition, stop, main, enqueued, finished>>

(* The predicate of wait: go on, or go to sleep; the lock is kept.         *)
Check(w) ==
  /\ \/ (stop \/ tasks # <<>>) /\ WorkerAt(w, "check", "take")
     \/ ~stop /\ tasks = <<>> /\ WorkerAt(w, "check", "block")
  /\ UNCHANGED <<task, tasks, queueMutex, condition, stop, main, enqueued, finished>>

Sleep(w) ==
  /\ WorkerAt(w, "block", "wait")
  /\ Queue!Wait(w)
  /\ UNCHANGED <<task, tasks, stop, main, enqueued, finished>>

Wakeup(w) ==
  /\ Queue!SpuriousWakeup(w)
  /\ UNCHANGED <<workers, task, tasks, queueMutex, stop, main, enqueued, finished>>

(* Mutant: leave at once when stopped, whatever is queued.                 *)
ExitOnStop(w) ==
  /\ stop
  /\ WorkerAt(w, "take", "exited")
  /\ Queue!Unlock(w)
  /\ UNCHANGED <<task, tasks, condition, stop, main, enqueued, finished>>

Exit(w) ==
  /\ stop /\ tasks = <<>>
  /\ WorkerAt(w, "take", "exited")
  /\ Queue!Unlock(w)
  /\ UNCHANGED <<task, tasks, condition, stop, main, enqueued, finished>>

(* Mutant: the task is not removed from the queue.                         *)
TakeWithoutPop(w) ==
  /\ tasks # <<>>
  /\ WorkerAt(w, "take", "run")
  /\ task' = [task EXCEPT ![w] = Head(tasks)]
  /\ Queue!Unlock(w)
  /\ UNCHANGED <<tasks, condition, stop, main, enqueued, finished>>

(* Mutant: the newest task is taken first.                                 *)
TakeNewest(w) ==
  /\ tasks # <<>>
  /\ WorkerAt(w, "take", "run")
  /\ task' = [task EXCEPT ![w] = tasks[Len(tasks)]]
  /\ tasks' = SubSeq(tasks, 1, Len(tasks) - 1)
  /\ Queue!Unlock(w)
  /\ UNCHANGED <<condition, stop, main, enqueued, finished>>

Take(w) ==
  /\ ~(stop /\ tasks = <<>>)
  /\ WorkerAt(w, "take", "run")
  /\ task' = [task EXCEPT ![w] = Head(tasks)]
  /\ tasks' = Tail(tasks)
  /\ Queue!Unlock(w)
  /\ UNCHANGED <<condition, stop, main, enqueued, finished>>

(* Mutant: `task' outlives the iteration.                                  *)
ReturnKeepingTask(w) ==
  /\ task[w] \notin Hanging
  /\ WorkerAt(w, "run", "lock")
  /\ finished' = finished \union {task[w]}
  /\ UNCHANGED <<task, tasks, queueMutex, condition, stop, main, enqueued>>

(* task() returns and the loop starts over with a fresh `task'.            *)
Return(w) ==
  /\ task[w] \notin Hanging
  /\ WorkerAt(w, "run", "lock")
  /\ finished' = finished \union {task[w]}
  /\ task' = [task EXCEPT ![w] = 0]
  /\ UNCHANGED <<tasks, queueMutex, condition, stop, main, enqueued>>

------------------------------------------------------------------------------
MainStep == Constructed \/ EnqueueNotify \/ StopNotify \/ Join

WorkerStep(w) == Acquire(w) \/ Check(w) \/ Sleep(w) \/ Exit(w) \/ Take(w) \/ Return(w)

Terminated == main = "joined" /\ UNCHANGED vars

Next ==
  \/ MainStep \/ Enqueue \/ Stop \/ Terminated
  \/ \E w \in Workers : Spawn(w) \/ WorkerStep(w) \/ Wakeup(w)

Spec == Init /\ [][Next]_vars

(* Threads that can run do run.  Nothing obliges clients to connect, the   *)
(* process to stop, or a sleeper to wake without a notification.           *)
FairSpec ==
  /\ Spec
  /\ WF_vars(MainStep)
  /\ \A w \in Workers : WF_vars(Spawn(w)) /\ WF_vars(WorkerStep(w))

------------------------------------------------------------------------------
(* Properties                                                              *)

Locked(w) == workers[w] \in {"check", "block", "take"}

(* The shape of the state; `task' is set exactly while it runs.            *)
TypeOK ==
  /\ workers \in [Workers -> {"unborn", "lock", "check", "block", "wait",
                              "take", "run", "exited"}]
  /\ task \in [Workers -> 0..MaxTasks]
  /\ \A w \in Workers : task[w] # 0 <=> workers[w] = "run"
  /\ tasks \in Seq(1..MaxTasks)
  /\ queueMutex \in Workers \union {NoThread}
  /\ condition \subseteq Workers
  /\ stop \in BOOLEAN
  /\ main \in {"construct", "serve", "notify", "notifyAll", "join", "joined"}
  /\ enqueued \in 0..MaxTasks
  /\ finished \subseteq 1..MaxTasks

(* The workers that will look at the queue without being notified.         *)
Awake ==
  {w \in Workers : \/ workers[w] \in {"lock", "check", "take"}
                   \/ workers[w] = "wait" /\ w \notin condition}

(* No wakeup is lost: while some worker sleeps, each queued task is        *)
(* matched by a worker that is awake or by the notify_one the main thread  *)
(* is about to make.  This is why notifying after the unlock, and one      *)
(* worker only, is enough in enqueueTask.                                  *)
NoLostWakeup ==
  condition # {} =>
    Len(tasks) <= Cardinality(Awake) + (IF main = "notify" THEN 1 ELSE 0)

(* Once notify_all was called no worker sleeps, and none ever will: stop   *)
(* is set under the lock, so a worker either sees it or is asleep already. *)
StopReachesAll == main \in {"join", "joined"} => condition = {}

(* How many tasks workers took, and the tasks in their hands.              *)
Taken == enqueued - Len(tasks)

Running == {task[w] : w \in Workers} \ {0}

(* Every task pushed is in exactly one place: finished, in the hands of    *)
(* one worker, or still queued, behind all those taken before it.          *)
ExactlyOnce ==
  /\ \A i \in 1..Len(tasks) : tasks[i] = Taken + i
  /\ finished \union Running = 1..Taken
  /\ \A w \in Workers : task[w] \notin finished
  /\ \A v, w \in Workers : v # w /\ task[v] # 0 => task[v] # task[w]

(* The destructor drains the queue: it returns only when every task that   *)
(* was ever enqueued has run to its end.                                   *)
DestructorDrains == main = "joined" => finished = 1..enqueued

(* The inductive invariant: the above, and what the lock and the flow of   *)
(* control of each thread guarantee at each point.                         *)
ControlOK ==
  /\ \A w \in Workers : Locked(w) <=> queueMutex = w
  /\ \A w \in condition : workers[w] = "wait"
  /\ stop <=> main \in {"notifyAll", "join", "joined"}
  /\ main = "joined" => \A w \in Workers : workers[w] = "exited"
  /\ \A w \in Workers :
       /\ workers[w] = "block" => ~stop /\ tasks = <<>>
       /\ workers[w] = "take" => stop \/ tasks # <<>>
       /\ workers[w] = "exited" => stop /\ tasks = <<>>

IndInv == TypeOK /\ ControlOK /\ StopReachesAll /\ ExactlyOnce /\ NoLostWakeup

(* An enqueued task is started, even when fewer tasks than there are       *)
(* workers hang.                                                           *)
EveryTaskStarts == \A t \in 1..MaxTasks : enqueued >= t ~> Taken >= t

(* The pool implements TaskQueue.                                          *)
Abstract == INSTANCE TaskQueue WITH
  submitted <- enqueued,
  queue <- tasks,
  running <- Running,
  closed <- stop,
  terminated <- (main = "joined")

ImplementsTaskQueue == Abstract!FairSpec
==============================================================================
