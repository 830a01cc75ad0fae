---------------------------- MODULE MCThreadPool -----------------------------
(* ThreadPool with three workers, for the safety runs.                     *)
EXTENDS ThreadPool, TLC

WorkerSymmetry == Permutations(Workers)
==============================================================================
