--------------------------- MODULE ConnectionLeases ---------------------------
(***************************************************************************)
(* What ConnectionPool promises: each connection is at any time free, in   *)
(* the hands of exactly one worker, or lost because the worker that held   *)
(* it never gave it back; a lost connection stays lost.                    *)
(***************************************************************************)
CONSTANTS Connections, Workers, Free, Lost

VARIABLE status   \* the state of each connection

Init == status = [c \in Connections |-> Free]

Move(c, from, to) == status[c] = from /\ status' = [status EXCEPT ![c] = to]

Lease(w, c) == Move(c, Free, w)

Return(w, c) == Move(c, w, Free)

Lose(w, c) == Move(c, w, Lost)

Next == \E w \in Workers, c \in Connections : Lease(w, c) \/ Return(w, c) \/ Lose(w, c)

Spec == Init /\ [][Next]_status
==============================================================================
