------------------------------ MODULE MessageStream ------------------------------
(***************************************************************************)
(* TcpServer.cpp:41-59: how handleClient cuts the byte stream of one       *)
(* connection into messages.  A client writes one JSON object per message, *)
(* with nothing between them; what one read_some returns is taken for one  *)
(* message, and json::parse accepts it only if it is one whole object.     *)
(*                                                                         *)
(* Several workers may read one connection: all tasks share one socket     *)
(* object, and a worker whose own connection was closed reads on from the  *)
(* connection the listener opened next (see TcpServer).                    *)
(*                                                                         *)
(* A position in the stream is the number of bytes before it.  Messages    *)
(* are numbered, and taken to be flat objects, of which no fragment is an  *)
(* object itself.                                                          *)
(***************************************************************************)
EXTENDS Naturals, Sequences

CONSTANTS
  Readers,     \* the workers that read the connection
  Lengths,     \* the bytes of each message of the client, in order
  Invalid,     \* the messages whose token does not verify
  BufferSize   \* the bytes read_some has room for (1024)

ASSUME StreamAssumption ==
  /\ Lengths \in Seq(Nat \ {0})
  /\ Invalid \subseteq 1..Len(Lengths)
  /\ BufferSize \in Nat \ {0}

Messages == 1..Len(Lengths)

(* The position at which each message ends.                                *)
Ends[m \in 0..Len(Lengths)] == IF m = 0 THEN 0 ELSE Ends[m - 1] + Lengths[m]

VARIABLES
  arrived,  \* the position up to which bytes reached the server's kernel
  finished, \* the client closed its side
  read,     \* the position up to which read_some took them
  open,     \* socket_ is open on this connection
  readers,  \* where each worker is in handleClient
  chunk,    \* the bytes each worker handles: their two positions
  heard,    \* the messages each worker handled, in order
  crowded   \* the messages that were, at some time, in the kernel together
            \* with bytes of others, or in part

networkVars == <<arrived, finished, crowded>>
vars == <<networkVars, read, open, readers, chunk, heard>>

NoChunk == <<0, 0>>

Init ==
  /\ arrived = 0 /\ finished = FALSE /\ crowded = {}
  /\ read = 0 /\ open = TRUE
  /\ readers = [w \in Readers |-> "loop"]
  /\ chunk = [w \in Readers |-> NoChunk]
  /\ heard = [w \in Readers |-> <<>>]

------------------------------------------------------------------------------
(* The client and the network                                              *)

(* The unread bytes and the message overlap, and are not the same bytes.   *)
CrowdedBy(m, from, to) ==
  /\ Ends[m - 1] < to /\ from < Ends[m]
  /\ <<from, to>> # <<Ends[m - 1], Ends[m]>>

(* TCP keeps the bytes in order and nothing else: segments are cut         *)
(* anywhere, and later ones may arrive before earlier ones are read.       *)
Arrive ==
  /\ ~finished
  /\ arrived' \in arrived + 1 .. Ends[Len(Lengths)]
  /\ crowded' = crowded \union {m \in Messages : CrowdedBy(m, read, arrived')}
  /\ UNCHANGED <<finished, read, open, readers, chunk, heard>>

Finish ==
  /\ ~finished /\ finished' = TRUE
  /\ UNCHANGED <<arrived, crowded, read, open, readers, chunk, heard>>

------------------------------------------------------------------------------
(* A worker in handleClient                                                *)

Goto(w, from, to) == readers[w] = from /\ readers' = [readers EXCEPT ![w] = to]

StartRead(w) ==
  /\ open
  /\ Goto(w, "loop", "reading")
  /\ UNCHANGED <<networkVars, read, open, chunk, heard>>

(* Mutant: room is left for a terminating zero.                            *)
ReadSomeForString(w) ==
  /\ Goto(w, "reading", "handle")
  /\ read < arrived
  /\ read' = IF arrived - read <= BufferSize - 1 THEN arrived ELSE read + BufferSize - 1
  /\ chunk' = [chunk EXCEPT ![w] = <<read, read'>>]
  /\ UNCHANGED <<networkVars, open, heard>>

(* Mutant: the bytes stay in the kernel (MSG_PEEK).                        *)
ReadSomePeeking(w) ==
  /\ Goto(w, "reading", "handle")
  /\ read < arrived
  /\ chunk' = [chunk EXCEPT ![w] = <<read, IF arrived - read <= BufferSize
                                           THEN arrived ELSE read + BufferSize>>]
  /\ UNCHANGED <<networkVars, read, open, heard>>

(* The kernel copies what there is, up to the size of the buffer.          *)
ReadSome(w) ==
  /\ Goto(w, "reading", "handle")
  /\ read < arrived
  /\ read' = IF arrived - read <= BufferSize THEN arrived ELSE read + BufferSize
  /\ chunk' = [chunk EXCEPT ![w] = <<read, read'>>]
  /\ UNCHANGED <<networkVars, open, heard>>

(* End of file, or an error on a socket that a handler has closed.         *)
EndOfTask(w) ==
  /\ \/ Goto(w, "reading", "ended") /\ finished /\ read = arrived
     \/ Goto(w, "loop", "ended") /\ ~open
  /\ UNCHANGED <<networkVars, read, open, chunk, heard>>

Whole(w, m) == chunk[w] = <<Ends[m - 1], Ends[m]>>

(* Mutant: the task ends at the first message that does not parse.         *)
ParseErrorEndsTask(w) ==
  /\ Goto(w, "handle", "ended")
  /\ \A m \in Messages : ~Whole(w, m)
  /\ chunk' = [chunk EXCEPT ![w] = NoChunk]
  /\ UNCHANGED <<networkVars, read, open, heard>>

(* json::parse throws on a fragment and on two objects in a row;           *)
(* processMessage catches it and the bytes are dropped.                    *)
ParseError(w) ==
  /\ Goto(w, "handle", "loop")
  /\ \A m \in Messages : ~Whole(w, m)
  /\ chunk' = [chunk EXCEPT ![w] = NoChunk]
  /\ UNCHANGED <<networkVars, read, open, heard>>

(* A handler closes the socket when the token does not verify.             *)
Process(w, m) ==
  /\ Goto(w, "handle", "loop")
  /\ Whole(w, m)
  /\ heard' = [heard EXCEPT ![w] = Append(@, m)]
  /\ open' = (open /\ m \notin Invalid)
  /\ chunk' = [chunk EXCEPT ![w] = NoChunk]
  /\ UNCHANGED <<networkVars, read>>

ReaderStep(w) ==
  \/ StartRead(w) \/ ReadSome(w) \/ EndOfTask(w) \/ ParseError(w)
  \/ \E m \in Messages : Process(w, m)

Next == Arrive \/ Finish \/ \E w \in Readers : ReaderStep(w)

Spec == Init /\ [][Next]_vars

(* The workers run; the client sends or not.                               *)
FairSpec == Spec /\ \A w \in Readers : WF_vars(ReaderStep(w))

------------------------------------------------------------------------------
(* Properties                                                              *)

(* The shape of the state.                                                 *)
TypeOK ==
  /\ read \in 0..arrived /\ arrived \in 0..Ends[Len(Lengths)]
  /\ finished \in BOOLEAN /\ open \in BOOLEAN
  /\ readers \in [Readers -> {"loop", "reading", "handle", "ended"}]
  /\ chunk \in [Readers -> (0..read) \X (0..read)]
  /\ \A w \in Readers : readers[w] = "handle" <=> chunk[w] # NoChunk
  /\ heard \in [Readers -> Seq(Messages)]
  /\ crowded \subseteq Messages

Heard(m) == \E w \in Readers, i \in Messages : i <= Len(heard[w]) /\ heard[w][i] = m

InHand(m) == \E w \in Readers : readers[w] = "handle" /\ Whole(w, m)

(* However many workers read the connection, a message is handled once, by *)
(* one of them, and each worker handles its messages in the order in which *)
(* the client sent them.                                                   *)
HandledOnceInOrder ==
  /\ \A w \in Readers : \A i, j \in 1..Len(heard[w]) : i < j => heard[w][i] < heard[w][j]
  /\ \A v, w \in Readers : v # w =>
       \A i \in 1..Len(heard[v]), j \in 1..Len(heard[w]) : heard[v][i] # heard[w][j]

(* What a client must do to be heard, and all it must do: have each        *)
(* message, of at most BufferSize bytes, arrive in one piece when nothing  *)
(* else is unread.  No such message is lost, whoever reads it.             *)
LossNeedsCrowding ==
  \A m \in Messages :
    Ends[m] <= read /\ Lengths[m] <= BufferSize /\ m \notin crowded => Heard(m) \/ InHand(m)

(* And such a message is not left unread either, while the socket is open. *)
AloneIsHeard ==
  \A m \in Messages :
    Ends[m] <= arrived /\ Lengths[m] <= BufferSize ~> (Heard(m) \/ m \in crowded \/ ~open)

(* TcpServer.cpp:10: the server "processes the messages received from the  *)
(* clients": every message that was read is handled.                       *)
EveryMessageIsProcessed == \A m \in Messages : Ends[m] <= read => Heard(m) \/ InHand(m)
==================================================================================
