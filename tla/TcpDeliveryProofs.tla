-------------------------- MODULE TcpDeliveryProofs --------------------------
(***************************************************************************)
(* Proofs about TcpDelivery, for every number of workers, users, client    *)
(* connections and database connections.                                   *)
(***************************************************************************)
EXTENDS TcpDelivery, TcpServerProofs

(* The emails that said connect on some connection.                        *)
Members == {entry[1] : entry \in joined}

(* A connect message in a handler's hands was recorded when it came.       *)
ConnectsAreRecorded ==
  \A w \in Workers : Type(w) = "connect" => message[w].token \in Members

(* The registry lists members only, and whoever was written to is one.     *)
OnlyMembersAreListed == clients_ \subseteq Members

OnlyMembersAreWrittenTo == \A entry \in wrote : entry[1] \in Members

DeliveryInv == ConnectsAreRecorded /\ OnlyMembersAreListed /\ OnlyMembersAreWrittenTo

USE DEF Goto, EndOfHandler, listenerVars, handlerVars, sharedVars, DoAccept

------------------------------------------------------------------------------
(* The record is not looked at by any step.                                *)
LEMMA DeliverySteps == [DeliveryNext]_deliveryVars => [Next]_vars
<1> SUFFICES ASSUME [DeliveryNext]_deliveryVars PROVE [Next]_vars
  OBVIOUS
<1> USE DEF Next, WorkerStep, LockStep
<1>1. CASE UNCHANGED deliveryVars
  BY <1>1 DEF deliveryVars
<1>2. CASE Unrecorded
  BY <1>2 DEF Unrecorded
<1>3. ASSUME NEW w \in Workers, SendAndRecord(w) PROVE Next
  BY <1>3 DEF SendAndRecord
<1>4. ASSUME NEW w \in Workers, NEW m \in Messages, ReceiveAndRecord(w, m) PROVE Next
  BY <1>4 DEF ReceiveAndRecord
<1> QED BY <1>1, <1>2, <1>3, <1>4 DEF DeliveryNext

(* Recording the senders restricts the server in nothing: what is proved   *)
(* of every behaviour of TcpServer holds with the record.                  *)
LEMMA DeliveryRunsTcpServer == DeliverySpec => Spec
<1>1. DeliveryInit => Init
  BY DEF DeliveryInit
<1> QED BY <1>1, DeliverySteps, PTL DEF DeliverySpec, Spec

LEMMA DeliveryInitInv == DeliveryInit => DeliveryInv
BY DEF DeliveryInit, Init, DeliveryInv, ConnectsAreRecorded, OnlyMembersAreListed,
       OnlyMembersAreWrittenTo, Members, Type, NoMessage

(* Joining is for good.                                                    *)
LEMMA MembersStay == joined \subseteq joined' => Members \subseteq Members'
BY DEF Members

LEMMA JoinedGrows == [DeliveryNext]_deliveryVars => joined \subseteq joined'
BY DEF DeliveryNext, deliveryVars, SendAndRecord, ReceiveAndRecord

(* Messages in hand are those that came, and were recorded then; a worker  *)
(* forgets its own when it enters the handler.                             *)
LEMMA MessageStep ==
  ASSUME TypeOK, [DeliveryNext]_deliveryVars
  PROVE  \/ message' = message
         \/ \E w \in Workers : message' = [message EXCEPT ![w] = NoMessage]
         \/ \E w \in Workers, m \in Messages : ReceiveAndRecord(w, m)
<1>1. CASE UNCHANGED deliveryVars \/ Arrive \/ HangUp \/ ListenerStep
  BY <1>1 DEF deliveryVars, vars, Arrive, HangUp, ListenerStep, Accept, AcceptError
<1>2. ASSUME NEW w \in Workers,
             \/ StartTask(w) \/ Read(w) \/ ReadClosed(w) \/ ReadEnd(w)
             \/ TakeConnection(w) \/ CallReturns(w) \/ CallThrows(w)
             \/ SendAndRecord(w) \/ NoRecipient(w)
      PROVE  message' = message
  BY <1>2 DEF StartTask, Read, ReadClosed, ReadEnd, TakeConnection, CallReturns,
              CallThrows, SendAndRecord, Send, NoRecipient
<1>3. ASSUME NEW w \in Workers,
             \/ Reject(w) \/ Ignore(w) \/ HandleQuery(w)
             \/ HandleConnect(w) \/ HandleDisconnect(w)
      PROVE  message' = [message EXCEPT ![w] = NoMessage]
  BY <1>3 DEF Reject, Ignore, HandleQuery, HandleConnect, HandleDisconnect, Handle
<1> QED BY <1>1, <1>2, <1>3 DEF DeliveryNext, Unrecorded

(* Only handleConnect adds to the registry, what its message names.        *)
LEMMA RegistryStep ==
  ASSUME [Next]_vars
  PROVE  \/ clients_' \subseteq clients_
         \/ \E w \in Workers : /\ Type(w) = "connect"
                               /\ clients_' = clients_ \union {message[w].token}
<1>1. CASE UNCHANGED vars \/ Arrive \/ HangUp \/ Accept \/ AcceptError
  BY <1>1 DEF vars, Arrive, HangUp, Accept, AcceptError
<1>2. ASSUME NEW w \in Workers,
             \/ StartTask(w) \/ Read(w) \/ ReadClosed(w) \/ ReadEnd(w)
             \/ Reject(w) \/ Ignore(w) \/ HandleQuery(w) \/ HandleDisconnect(w)
             \/ TakeConnection(w) \/ CallReturns(w) \/ CallThrows(w)
             \/ Send(w) \/ NoRecipient(w) \/ \E m \in Messages : Receive(w, m)
      PROVE  clients_' \subseteq clients_
  BY <1>2 DEF StartTask, Read, ReadClosed, ReadEnd, Reject, Ignore, HandleQuery,
              HandleDisconnect, TakeConnection, CallReturns, CallThrows, Send,
              NoRecipient, Receive
<1>3. ASSUME NEW w \in Workers, HandleConnect(w)
      PROVE  Type(w) = "connect" /\ clients_' = clients_ \union {message[w].token}
  BY <1>3 DEF HandleConnect
<1> QED BY <1>1, <1>2, <1>3, TcpSteps

LEMMA ConnectsStep ==
  TypeOK /\ DeliveryInv /\ [DeliveryNext]_deliveryVars => ConnectsAreRecorded'
<1> SUFFICES ASSUME TypeOK, DeliveryInv, [DeliveryNext]_deliveryVars,
                    NEW v \in Workers, message'[v].type = "connect"
             PROVE  message'[v].token \in Members'
  BY DEF ConnectsAreRecorded, Type
<1>a. /\ DOMAIN message = Workers /\ Members \subseteq Members'
      /\ message[v].type = "connect" => message[v].token \in Members
  BY MembersStay, JoinedGrows DEF TypeOK, DeliveryInv, ConnectsAreRecorded, Type
<1>1. CASE message' = message
  BY <1>1, <1>a
<1>2. ASSUME NEW w \in Workers, message' = [message EXCEPT ![w] = NoMessage]
      PROVE  message'[v].token \in Members'
  BY <1>2, <1>a DEF NoMessage
<1>3. ASSUME NEW w \in Workers, NEW m \in Messages, ReceiveAndRecord(w, m)
      PROVE  message'[v].token \in Members'
  <2>1. /\ message' = [message EXCEPT ![w] = m]
        /\ m.type = "connect" => <<m.token, from[w]>> \in joined'
    BY <1>3 DEF ReceiveAndRecord, Receive
  <2>2. m.type = "connect" => m.token \in Members'
    BY <2>1 DEF Members
  <2> QED BY <1>a, <2>1, <2>2
<1> QED BY <1>1, <1>2, <1>3, MessageStep

LEMMA ListedStep ==
  DeliveryInv /\ [DeliveryNext]_deliveryVars => OnlyMembersAreListed'
BY RegistryStep, DeliverySteps, MembersStay, JoinedGrows
   DEF DeliveryInv, ConnectsAreRecorded, OnlyMembersAreListed

LEMMA WrittenStep ==
  DeliveryInv /\ [DeliveryNext]_deliveryVars => OnlyMembersAreWrittenTo'
<1> SUFFICES ASSUME DeliveryInv, [DeliveryNext]_deliveryVars, NEW entry \in wrote'
             PROVE  entry[1] \in Members'
  BY DEF OnlyMembersAreWrittenTo
<1>1. entry \in wrote \/ entry[1] \in clients_
  BY DEF DeliveryNext, deliveryVars, SendAndRecord, ReceiveAndRecord
<1> QED BY <1>1, MembersStay, JoinedGrows
        DEF DeliveryInv, OnlyMembersAreListed, OnlyMembersAreWrittenTo

(* The invariant, with TypeOK from the TcpServer that it is.               *)
THEOREM DeliverySafety == DeliverySpec => []DeliveryInv
<1>1. TypeOK /\ DeliveryInv /\ [DeliveryNext]_deliveryVars => DeliveryInv'
  BY ConnectsStep, ListedStep, WrittenStep DEF DeliveryInv
<1> QED BY DeliveryInitInv, <1>1, DeliveryRunsTcpServer, TcpTypeCorrect, PTL
        DEF DeliverySpec

(* Although what is sent to a user may go out on somebody else's           *)
(* connection, it is sent at all only to users who said connect themselves *)
(* (TcpServer.cpp:106 is the only line that adds to the registry, and the  *)
(* senders write to nobody that lines 303 and 319 do not find in it).      *)
THEOREM StrangersAreNotWrittenTo == DeliverySpec => []OnlyMembersAreWrittenTo
<1>1. DeliveryInv => OnlyMembersAreWrittenTo
  BY DEF DeliveryInv
<1> QED BY DeliverySafety, <1>1, PTL

==============================================================================
