--------------------------- MODULE ConnectionBudget ---------------------------
(***************************************************************************)
(* What the database is to those who call it: a number of connections.  A  *)
(* call takes one and gives it back, or loses it by throwing; nothing ever *)
(* adds one.  DatabaseManager implements this with its pool; the steps     *)
(* TcpServer takes on its count of connections are these by definition.    *)
(***************************************************************************)
EXTENDS Naturals

CONSTANTS Workers, poolSize_

VARIABLES
  available,  \* the connections that may be taken
  busy        \* the workers that hold one

vars == <<available, busy>>

Init == available = poolSize_ /\ busy = {}

Take(w) ==
  /\ w \notin busy /\ available > 0
  /\ busy' = busy \union {w} /\ available' = available - 1

GiveBack(w) ==
  /\ w \in busy
  /\ busy' = busy \ {w} /\ available' = available + 1

Lose(w) ==
  /\ w \in busy
  /\ busy' = busy \ {w} /\ UNCHANGED available

Next == \E w \in Workers : Take(w) \/ GiveBack(w) \/ Lose(w)

Spec == Init /\ [][Next]_vars
===============================================================================
