----------------------------- MODULE TcpDelivery -----------------------------
(***************************************************************************)
(* TcpServer with a record of who said "connect" on which connection and   *)
(* of what the senders then wrote: clients_ lists, for each email, the     *)
(* socket objects to write to, and every entry is the one object socket_,  *)
(* which is open on whichever client was accepted last.                    *)
(***************************************************************************)
EXTENDS TcpServer

VARIABLES
  joined,  \* the emails that connected, with the connection they came from
  wrote    \* the emails written to, with the connection that received it

deliveryVars == <<vars, joined, wrote>>

DeliveryInit == Init /\ joined = {} /\ wrote = {}

(* A connect message whose token verifies ends in an entry of clients_.    *)
ReceiveAndRecord(w, m) ==
  /\ Receive(w, m)
  /\ joined' = joined \union (IF m.type = "connect" THEN {<<m.token, from[w]>>} ELSE {})
  /\ UNCHANGED wrote

(* async_write on every entry the email has, all of them socket_; on a     *)
(* closed socket it fails.                                                 *)
SendAndRecord(w) ==
  /\ Send(w)
  /\ \E email \in Emails :
       wrote' = wrote \union (IF email \in clients_ /\ socket_ # 0
                              THEN {<<email, socket_>>} ELSE {})
  /\ UNCHANGED joined

Unrecorded ==
  \/ Arrive \/ HangUp \/ ListenerStep
  \/ \E w \in Workers :
       \/ StartTask(w) \/ Read(w) \/ ReadClosed(w) \/ ReadEnd(w)
       \/ Reject(w) \/ Ignore(w) \/ HandleQuery(w) \/ HandleConnect(w)
       \/ HandleDisconnect(w) \/ TakeConnection(w) \/ CallReturns(w)
       \/ CallThrows(w) \/ NoRecipient(w)

DeliveryNext ==
  \/ Unrecorded /\ UNCHANGED <<joined, wrote>>
  \/ \E w \in Workers : SendAndRecord(w) \/ \E m \in Messages : ReceiveAndRecord(w, m)

DeliverySpec == DeliveryInit /\ [][DeliveryNext]_deliveryVars

(* TcpServer.cpp:214: "Send the typing status to the clients in the same   *)
(* room", that is, to connections on which the recipient said connect.     *)
SentToRecipient == wrote \subseteq joined
==============================================================================
