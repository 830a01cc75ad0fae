------------------------------- MODULE Monitor -------------------------------
(***************************************************************************)
(* std::mutex and std::condition_variable, the pair behind ThreadPool and  *)
(* ConnectionPool.  Neither is part of the repository: the operators state *)
(* the guarantees of the C++ standard that the two classes rely on.        *)
(*                                                                         *)
(*   owner     the thread that holds the mutex, or NoThread                *)
(*   sleeping  the threads blocked in condition_variable::wait             *)
(***************************************************************************)
CONSTANT NoThread
VARIABLES owner, sleeping

(* The mutex is free: a thread may lock it, or run a whole critical        *)
(* section that no other thread can observe half done.                     *)
Unlocked == owner = NoThread

Lock(t) == Unlocked /\ owner' = t

Unlock(t) == owner = t /\ owner' = NoThread

(* wait releases the mutex and goes to sleep in one step.                  *)
Wait(t) == Unlock(t) /\ sleeping' = sleeping \union {t}

(* notify_one wakes any one sleeper, and is forgotten when there is none.  *)
NotifyOne ==
  \/ sleeping = {} /\ UNCHANGED sleeping
  \/ \E t \in sleeping : sleeping' = sleeping \ {t}

NotifyAll == sleeping' = {}

(* The standard lets a sleeper wake although nobody notified it.           *)
SpuriousWakeup(t) == t \in sleeping /\ sleeping' = sleeping \ {t}
==============================================================================
