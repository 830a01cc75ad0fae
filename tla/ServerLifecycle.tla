----------------------------- MODULE ServerLifecycle -----------------------------
(***************************************************************************)
(* main.cpp: the objects of the process, in the order in which they are    *)
(* built and destroyed, around the thread pool whose tasks use them.       *)
(*                                                                         *)
(*   built      io_context, threadPool, tcpServer, restServer, then run()  *)
(*   destroyed  restServer, tcpServer, threadPool (which joins), io_context,*)
(*              and after main the static instance_ of DatabaseManager,    *)
(*              which the first worker that needs it has built.            *)
(*                                                                         *)
(* A task is that of ThreadPool, and belongs to the server that enqueued   *)
(* it.  Its body is kept as far as it uses objects: it talks to its        *)
(* client, may need the database, and goes on; one use stands for several. *)
(***************************************************************************)
EXTENDS ThreadPool

(* The states of initInstanceFlag that are no thread.                      *)
ASSUME FlagAssumption == "free" \notin Workers /\ "set" \notin Workers

VARIABLES
  at,         \* where main() is: building, in run(), unwinding, at the end
  objects,    \* the objects that are alive, threadPool aside
  listening,  \* the servers that accept clients
  owner,      \* the server each task belongs to
  body,       \* where each worker is in the body of its task
  initFlag,   \* initInstanceFlag: free, held by the worker that builds the
              \* instance, or set
  built       \* how many instances of DatabaseManager were built

bodyVars == <<body, initFlag, built>>
lifeVars == <<at, objects, listening, owner, bodyVars>>
allVars == <<vars, lifeVars>>

LifeInit ==
  /\ Init
  /\ at = "build" /\ objects = {"io_context"}
  /\ listening = {} /\ owner = <<>>
  /\ body = [w \in Workers |-> "none"]
  /\ initFlag = "free" /\ built = 0

Advance(from, to) == at = from /\ at' = to

------------------------------------------------------------------------------
(* main()                                                                  *)

(* The pool is built; its constructor is ThreadPool's.                     *)
BuildThreadPool ==
  \/ Constructed /\ UNCHANGED lifeVars
  \/ \E w \in Workers : Spawn(w) /\ UNCHANGED lifeVars

(* The acceptor's constructor throws when the port is taken: main unwinds. *)
BuildTcpServer ==
  /\ main = "serve"
  /\ \/ /\ Advance("build", "buildRest")
        /\ objects' = objects \union {"tcpServer"} /\ listening' = {"tcpServer"}
     \/ Advance("build", "unwind") /\ UNCHANGED <<objects, listening>>
  /\ UNCHANGED <<vars, owner, bodyVars>>

(* RestServer's constructor reports an error and returns: the process goes *)
(* on without it.                                                          *)
BuildRestServer ==
  /\ Advance("buildRest", "run")
  /\ objects' = objects \union {"restServer"}
  /\ listening' \in {listening, listening \union {"restServer"}}
  /\ UNCHANGED <<vars, owner, bodyVars>>

(* A handler of the io_context accepts a client and enqueues its task.     *)
AcceptClient ==
  /\ at = "run"
  /\ Enqueue
  /\ \E s \in listening : owner' = Append(owner, s)
  /\ UNCHANGED <<at, objects, listening, bodyVars>>

FinishEnqueue == EnqueueNotify /\ UNCHANGED lifeVars

(* run() is left by an exception of a handler (std::bad_alloc, say).       *)
LeaveRun ==
  /\ Advance("run", "unwind")
  /\ main = "serve"
  /\ UNCHANGED <<vars, objects, listening, owner, bodyVars>>

(* Mutant: the servers go with their accept operations still armed.        *)
DestroyServersListening ==
  /\ Advance("unwind", "destroyPool")
  /\ objects' = objects \ {"tcpServer", "restServer"}
  /\ UNCHANGED <<vars, listening, owner, bodyVars>>

DestroyServers ==
  /\ Advance("unwind", "destroyPool")
  /\ objects' = objects \ {"tcpServer", "restServer"}
  /\ listening' = {}
  /\ UNCHANGED <<vars, owner, bodyVars>>

(* Mutant: the threads are detached instead of joined.                     *)
DetachThreadPool ==
  /\ at = "destroyPool"
  /\ \/ Stop \/ StopNotify
     \/ /\ MainAt("join", "joined")
        /\ UNCHANGED <<workers, task, tasks, queueMutex, condition, stop, enqueued, finished>>
  /\ UNCHANGED lifeVars

DestroyThreadPool ==
  /\ at = "destroyPool"
  /\ Stop \/ StopNotify \/ Join
  /\ UNCHANGED lifeVars

(* Mutant: io_context is declared after threadPool.                        *)
DestroyIoContextFirst ==
  /\ Advance("destroyPool", "destroyPool")
  /\ objects' = objects \ {"io_context"}
  /\ UNCHANGED <<vars, listening, owner, bodyVars>>

DestroyIoContext ==
  /\ Advance("destroyPool", "exit")
  /\ main = "joined"
  /\ objects' = objects \ {"io_context"}
  /\ UNCHANGED <<vars, listening, owner, bodyVars>>

(* Static destruction: ~DatabaseManager, and ~ConnectionPool with it.      *)
DestroyDatabase ==
  /\ Advance("exit", "exited")
  /\ objects' = objects \ {"database"}
  /\ UNCHANGED <<vars, listening, owner, bodyVars>>

MainProgress ==
  \/ BuildThreadPool \/ BuildTcpServer \/ BuildRestServer \/ FinishEnqueue
  \/ DestroyServers \/ DestroyThreadPool \/ DestroyIoContext \/ DestroyDatabase

------------------------------------------------------------------------------
(* The workers                                                             *)

Body(w, from, to) == body[w] = from /\ body' = [body EXCEPT ![w] = to]

(* The steps of workerThread outside of the task.                          *)
Wait(w) ==
  /\ Acquire(w) \/ Check(w) \/ Sleep(w) \/ Exit(w)
  /\ UNCHANGED lifeVars

BeginTask(w) ==
  /\ Take(w)
  /\ Body(w, "none", "client")
  /\ UNCHANGED <<at, objects, listening, owner, initFlag, built>>

EndTask(w) ==
  /\ \E from \in {"client", "done"} : Body(w, from, "none")
  /\ Return(w)
  /\ UNCHANGED <<at, objects, listening, owner, initFlag, built>>

NeedDatabase(w) ==
  /\ Body(w, "client", "getInstance")
  /\ UNCHANGED <<vars, at, objects, listening, owner, initFlag, built>>

(* Mutant: the instance is tested and built without a flag.                *)
CallOnceUnguarded(w) ==
  /\ \/ initFlag = "set" /\ Body(w, "getInstance", "database")
     \/ initFlag # "set" /\ Body(w, "getInstance", "construct")
  /\ UNCHANGED <<vars, at, objects, listening, owner, initFlag, built>>

(* std::call_once lets one worker in, and makes the others wait for it.    *)
CallOnce(w) ==
  /\ \/ /\ initFlag = "set" /\ UNCHANGED initFlag
        /\ Body(w, "getInstance", "database")
     \/ /\ initFlag = "free" /\ initFlag' = w
        /\ Body(w, "getInstance", "construct")
  /\ UNCHANGED <<vars, at, objects, listening, owner, built>>

Construct(w) ==
  /\ Body(w, "construct", "database")
  /\ initFlag' = "set"
  /\ objects' = objects \union {"database"}
  /\ built' = built + 1
  /\ UNCHANGED <<vars, at, listening, owner>>

(* Mutant: the flag is left to nobody.                                     *)
ConstructFailsForGood(w) ==
  /\ Body(w, "construct", "done")
  /\ UNCHANGED <<vars, at, objects, listening, owner, initFlag, built>>

(* One of the 150 connections fails: the exception frees the flag, and is  *)
(* caught by the handler; the next worker that comes tries again.          *)
ConstructFails(w) ==
  /\ Body(w, "construct", "done")
  /\ initFlag' = "free"
  /\ UNCHANGED <<vars, at, objects, listening, owner, built>>

UseDatabase(w) ==
  /\ Body(w, "database", "done")
  /\ UNCHANGED <<vars, at, objects, listening, owner, initFlag, built>>

SpuriousWakeup(w) == Wakeup(w) /\ UNCHANGED lifeVars

WorkerProgress(w) ==
  \/ Wait(w) \/ BeginTask(w) \/ EndTask(w)
  \/ CallOnce(w) \/ Construct(w) \/ ConstructFails(w) \/ UseDatabase(w)

Exited == at = "exited" /\ UNCHANGED allVars

LifeNext ==
  \/ MainProgress \/ AcceptClient \/ LeaveRun \/ Exited
  \/ \E w \in Workers : WorkerProgress(w) \/ NeedDatabase(w) \/ SpuriousWakeup(w)

LifeSpec == LifeInit /\ [][LifeNext]_allVars

(* Threads run, and the destructor gets a mutex that keeps being released. *)
(* Nothing obliges clients to come or tasks to need the database, and      *)
(* run() need never be left.                                               *)
FairLifeSpec ==
  /\ LifeSpec
  /\ WF_allVars(MainProgress) /\ SF_allVars(DestroyThreadPool)
  /\ \A w \in Workers : WF_allVars(WorkerProgress(w))

------------------------------------------------------------------------------
(* Properties                                                              *)

(* The shape of the state; a task is in its body exactly while it runs.    *)
LifeTypeOK ==
  /\ at \in {"build", "buildRest", "run", "unwind", "destroyPool", "exit", "exited"}
  /\ objects \subseteq {"io_context", "tcpServer", "restServer", "database"}
  /\ listening \subseteq objects
  /\ owner \in Seq({"tcpServer", "restServer"}) /\ Len(owner) = enqueued
  /\ body \in [Workers -> {"none", "client", "getInstance", "construct", "database", "done"}]
  /\ \A w \in Workers : body[w] = "none" <=> workers[w] # "run"
  /\ initFlag \in Workers \union {"free", "set"}
  /\ built \in Nat

(* DatabaseManager.cpp:17: "the instance is created only once", whichever  *)
(* workers come first and however often building it fails.                 *)
SingleDatabase == built <= 1

(* The order of the declarations in main() and the join in ~ThreadPool     *)
(* keep alive what tasks need: the io_context, whose sockets the tasks     *)
(* own, queued ones included, and the database.  The tasks of TcpServer    *)
(* also use its members, which are gone by the time main is inside the     *)
(* pool's destructor, but only there: not before, and not after the join.  *)
TasksUseLiveObjects ==
  /\ tasks # <<>> \/ Running # {} => "io_context" \in objects
  /\ \A w \in Workers : body[w] = "database" => "database" \in objects
  /\ \A t \in Running : owner[t] = "tcpServer" => "tcpServer" \in objects \/ at = "destroyPool"

(* getInstance returns or throws, also for those that wait while another   *)
(* worker builds the instance and fails.                                   *)
GetInstanceEnds ==
  \A w \in Workers :
    body[w] \in {"getInstance", "construct"} ~> body[w] \in {"database", "done"}

(* Whether run() was left or a constructor threw, the process comes to its *)
(* end, unless a task that never returns was started.                      *)
MainReturns == at = "unwind" ~> (at = "exited" \/ Running \intersect Hanging # {})

(* The composition is a behaviour of ThreadPool, its fairness included:    *)
(* what is proved and checked of the pool holds in the whole process.      *)
ImplementsThreadPool == FairSpec
==================================================================================
