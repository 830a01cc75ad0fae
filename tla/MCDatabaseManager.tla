--------------------------- MODULE MCDatabaseManager ---------------------------
(* DatabaseManager with a few workers, connections and methods.            *)
EXTENDS DatabaseManager, TLC

WorkerSymmetry == Permutations(Workers)
==============================================================================
