--------------------------- MODULE TcpServerProofs ---------------------------
(***************************************************************************)
(* Proofs about TcpServer, for every number of workers, users, client      *)
(* connections and database connections.                                   *)
(***************************************************************************)
EXTENDS TcpServer, FiniteSetTheorems, TLAPS

(* An accept is pending only while the socket object is closed.            *)
AcceptsOnlyClosed == accepting => socket_ = 0

Busy == {w \in Workers : workers[w] = "busy"}

(* Connections that are lost are lost for good, the others are available   *)
(* or in a call.                                                           *)
WithinBudget == available + Cardinality(Busy) <= poolSize_

(* The registry's mutex is held across steps only by handleDisconnect, and *)
(* there only up to its first call, which throws.  That the handler locks  *)
(* the same mutex again further down therefore never blocks it.            *)
HolderIsAboutToThrow ==
  \A w \in Workers : clientsMutex_ = w =>
    workers[w] \in {"query", "busy"} /\ Head(calls[w]) \in AlwaysThrow

TcpInv ==
  /\ TypeOK /\ AcceptsOnlyClosed /\ WithinBudget /\ OpenSocketIsServed
  /\ DOMAIN calls = Workers /\ HolderIsAboutToThrow

------------------------------------------------------------------------------
(* Any step is one of these.                                               *)
LEMMA TcpSteps ==
  ASSUME [Next]_vars
  PROVE  \/ UNCHANGED vars \/ Arrive \/ HangUp \/ Accept \/ AcceptError
         \/ \E w \in Workers :
              \/ StartTask(w) \/ Read(w) \/ ReadClosed(w) \/ ReadEnd(w)
              \/ Reject(w) \/ Ignore(w) \/ HandleQuery(w)
              \/ HandleConnect(w) \/ HandleDisconnect(w) \/ Send(w)
              \/ TakeConnection(w) \/ CallReturns(w) \/ CallThrows(w)
              \/ NoRecipient(w) \/ \E m \in Messages : Receive(w, m)
BY DEF Next, ListenerStep, WorkerStep, LockStep

USE DEF Goto, EndOfHandler, listenerVars, handlerVars, sharedVars, DoAccept

(* Only the calls to the database change who is busy.                      *)
LEMMA BusySteps ==
  ASSUME TypeOK, [Next]_vars
  PROVE  \/ Busy' = Busy /\ available' = available
         \/ \E w \in Workers :
              \/ /\ TakeConnection(w) /\ w \notin Busy /\ Busy' = Busy \union {w}
                 /\ available > 0 /\ available' = available - 1
              \/ /\ CallReturns(w) /\ w \in Busy /\ Busy' = Busy \ {w}
                 /\ available' = available + 1
              \/ /\ CallThrows(w) /\ w \in Busy /\ Busy' = Busy \ {w}
                 /\ available' = available
<1>a. workers \in [Workers -> {"idle", "loop", "reading", "handle", "query", "busy", "send"}]
  BY DEF TypeOK
<1> USE DEF Busy
<1>1. CASE UNCHANGED vars \/ Arrive \/ HangUp \/ Accept \/ AcceptError
  BY <1>1 DEF vars, Arrive, HangUp, Accept, AcceptError
<1>2. ASSUME NEW w \in Workers,
             \/ StartTask(w) \/ Read(w) \/ ReadClosed(w) \/ ReadEnd(w)
             \/ NoRecipient(w) \/ Send(w) \/ \E m \in Messages : Receive(w, m)
      PROVE  Busy' = Busy /\ available' = available
  BY <1>2, <1>a DEF StartTask, Read, ReadClosed, ReadEnd, NoRecipient, Send, Receive
<1>3. ASSUME NEW w \in Workers,
             \/ Reject(w) \/ Ignore(w) \/ HandleQuery(w)
             \/ HandleConnect(w) \/ HandleDisconnect(w)
      PROVE  Busy' = Busy /\ available' = available
  BY <1>3, <1>a DEF Reject, Ignore, HandleQuery, HandleConnect, HandleDisconnect, Handle
<1>4. ASSUME NEW w \in Workers, TakeConnection(w)
      PROVE  /\ w \notin Busy /\ Busy' = Busy \union {w}
             /\ available > 0 /\ available' = available - 1
  BY <1>4, <1>a DEF TakeConnection
<1>5. ASSUME NEW w \in Workers, CallReturns(w)
      PROVE  w \in Busy /\ Busy' = Busy \ {w} /\ available' = available + 1
  BY <1>5, <1>a DEF CallReturns, AfterCall
<1>6. ASSUME NEW w \in Workers, CallThrows(w)
      PROVE  w \in Busy /\ Busy' = Busy \ {w} /\ available' = available
  BY <1>6, <1>a DEF CallThrows
<1> QED BY <1>1, <1>2, <1>3, <1>4, <1>5, <1>6, TcpSteps

------------------------------------------------------------------------------
LEMMA TcpInit == Init => TcpInv
<1> SUFFICES ASSUME Init PROVE TcpInv
  OBVIOUS
<1>1. TypeOK
  BY ServerAssumption DEF Init, TypeOK
<1>2. WithinBudget
  <2>1. Busy = {}
    BY DEF Init, Busy
  <2> QED BY <2>1, ServerAssumption, FS_EmptySet DEF Init, WithinBudget
<1>3. AcceptsOnlyClosed /\ OpenSocketIsServed /\ HolderIsAboutToThrow /\ DOMAIN calls = Workers
  BY ServerAssumption
     DEF Init, AcceptsOnlyClosed, OpenSocketIsServed, HolderIsAboutToThrow
<1> QED BY <1>1, <1>2, <1>3 DEF TcpInv

LEMMA BudgetKept == TcpInv /\ [Next]_vars => WithinBudget' /\ available' \in 0..poolSize_
<1> SUFFICES ASSUME TcpInv, [Next]_vars PROVE WithinBudget' /\ available' \in 0..poolSize_
  OBVIOUS
<1>a. /\ available \in Nat /\ poolSize_ \in Nat
      /\ available + Cardinality(Busy) <= poolSize_
  BY ServerAssumption DEF TcpInv, TypeOK, WithinBudget
<1>b. IsFiniteSet(Busy) /\ IsFiniteSet(Busy')
  BY ServerAssumption, FS_Subset DEF Busy
<1>c. Cardinality(Busy) \in Nat /\ Cardinality(Busy') \in Nat
  BY <1>b, FS_CardinalityType
<1>1. CASE Busy' = Busy /\ available' = available
  BY <1>1, <1>a, <1>c DEF WithinBudget
<1>2. ASSUME NEW w \in Workers, w \notin Busy, Busy' = Busy \union {w},
             available > 0, available' = available - 1
      PROVE  WithinBudget' /\ available' \in 0..poolSize_
  <2>1. Cardinality(Busy') = Cardinality(Busy) + 1
    BY <1>2, <1>b, FS_AddElement
  <2> QED BY <1>2, <1>a, <1>c, <2>1 DEF WithinBudget
<1>3. ASSUME NEW w \in Workers, w \in Busy, Busy' = Busy \ {w},
             available' = available + 1 \/ available' = available
      PROVE  WithinBudget' /\ available' \in 0..poolSize_
  <2>1. Cardinality(Busy') = Cardinality(Busy) - 1
    BY <1>3, <1>b, FS_RemoveElement
  <2> QED BY <1>3, <1>a, <1>c, <2>1 DEF WithinBudget
<1> QED BY <1>1, <1>2, <1>3, BusySteps DEF TcpInv

(* The message a worker handles names a user in the types that have a token*)
LEMMA TokenIsUser ==
  ASSUME TypeOK, NEW w \in Workers, Type(w) \in {"connect", "disconnect"}
  PROVE  message[w].token \in Emails
BY DEF TypeOK, Type, Messages, Other, Unverified, NoMessage

LEMMA TcpTypeStep == TcpInv /\ [Next]_vars => TypeOK'
<1> SUFFICES ASSUME TcpInv, [Next]_vars PROVE TypeOK'
  OBVIOUS
<1> USE DEF TypeOK
<1>a. /\ TypeOK /\ MaxConnections \in Nat /\ poolSize_ \in Nat
      /\ available' \in 0..poolSize_
  BY BudgetKept, ServerAssumption DEF TcpInv
<1>1. CASE UNCHANGED vars
  BY <1>1, <1>a DEF vars
<1>2. CASE Arrive
  BY <1>2, <1>a DEF Arrive
<1>3. CASE HangUp
  BY <1>3, <1>a DEF HangUp
<1>4. CASE Accept
  BY <1>4, <1>a DEF Accept
<1>5. CASE AcceptError
  BY <1>5, <1>a DEF AcceptError
<1>6. ASSUME NEW w \in Workers, StartTask(w) \/ Read(w) \/ ReadClosed(w) \/ ReadEnd(w)
      PROVE  TypeOK'
  <2>1. CASE StartTask(w)
    BY <1>a, <2>1 DEF StartTask
  <2>2. CASE Read(w)
    BY <1>a, <2>2 DEF Read
  <2>3. CASE ReadClosed(w)
    BY <1>a, <2>3 DEF ReadClosed
  <2>4. CASE ReadEnd(w)
    BY <1>a, <2>4 DEF ReadEnd
  <2> QED BY <1>6, <2>1, <2>2, <2>3, <2>4
<1>7. ASSUME NEW w \in Workers, NEW m \in Messages, Receive(w, m) PROVE TypeOK'
  BY <1>7, <1>a DEF Receive
<1>8. ASSUME NEW w \in Workers, Reject(w) \/ Ignore(w) \/ HandleQuery(w)
      PROVE  TypeOK'
  <2>1. /\ \E to \in {"loop", "query"} : workers' = [workers EXCEPT ![w] = to]
        /\ message' = [message EXCEPT ![w] = NoMessage]
        /\ socket_' \in {0, socket_}
        /\ UNCHANGED <<arrived, gone, accepted, accepting, queued, from, sharedVars>>
    BY <1>8 DEF Reject, Ignore, HandleQuery, Handle
  <2> QED BY <1>a, <2>1
<1>9. ASSUME NEW w \in Workers, HandleConnect(w) \/ HandleDisconnect(w)
      PROVE  TypeOK'
  <2>1. message[w].token \in Emails
    BY <1>9, <1>a, TokenIsUser DEF HandleConnect, HandleDisconnect
  <2> QED BY <1>9, <1>a, <2>1 DEF HandleConnect, HandleDisconnect, Handle
<1>10. ASSUME NEW w \in Workers, TakeConnection(w) \/ CallReturns(w) PROVE TypeOK'
  BY <1>10, <1>a DEF TakeConnection, CallReturns, AfterCall
<1>11. ASSUME NEW w \in Workers, CallThrows(w) \/ Send(w) \/ NoRecipient(w) PROVE TypeOK'
  BY <1>11, <1>a DEF CallThrows, Send, NoRecipient
<1> QED BY <1>1, <1>2, <1>3, <1>4, <1>5, <1>6, <1>7, <1>8, <1>9, <1>10, <1>11, TcpSteps

------------------------------------------------------------------------------
LEMMA ClosedStep == TcpInv /\ [Next]_vars => AcceptsOnlyClosed'
<1> SUFFICES ASSUME TcpInv, [Next]_vars PROVE AcceptsOnlyClosed'
  OBVIOUS
<1> USE DEF AcceptsOnlyClosed
<1>a. AcceptsOnlyClosed
  BY DEF TcpInv
<1>1. CASE UNCHANGED vars \/ Arrive \/ HangUp \/ Accept \/ AcceptError
  BY <1>1, <1>a DEF vars, Arrive, HangUp, Accept, AcceptError
<1>2. ASSUME NEW w \in Workers,
             \/ StartTask(w) \/ Read(w) \/ ReadClosed(w) \/ ReadEnd(w)
             \/ NoRecipient(w) \/ Send(w) \/ \E m \in Messages : Receive(w, m)
      PROVE  AcceptsOnlyClosed'
  BY <1>2, <1>a DEF StartTask, Read, ReadClosed, ReadEnd, NoRecipient, Send, Receive
<1>3. ASSUME NEW w \in Workers,
             \/ Reject(w) \/ Ignore(w) \/ HandleQuery(w)
             \/ HandleConnect(w) \/ HandleDisconnect(w)
             \/ TakeConnection(w) \/ CallReturns(w) \/ CallThrows(w)
      PROVE  AcceptsOnlyClosed'
  BY <1>3, <1>a DEF Reject, Ignore, HandleQuery, HandleConnect, HandleDisconnect,
                    TakeConnection, CallReturns, CallThrows
<1> QED BY <1>1, <1>2, <1>3, TcpSteps

(* The mutex changes hands at a lock and at the exception of a call.       *)
LEMMA HolderStep ==
  TcpInv /\ [Next]_vars => HolderIsAboutToThrow' /\ (DOMAIN calls = Workers)'
<1> SUFFICES ASSUME TcpInv, [Next]_vars
             PROVE  HolderIsAboutToThrow' /\ (DOMAIN calls = Workers)'
  OBVIOUS
<1> USE DEF HolderIsAboutToThrow
<1>a. /\ HolderIsAboutToThrow /\ DOMAIN calls = Workers /\ NoThread \notin Workers
      /\ workers \in [Workers -> {"idle", "loop", "reading", "handle", "query", "busy", "send"}]
  BY ServerAssumption DEF TcpInv, TypeOK
<1>1. CASE UNCHANGED vars \/ Arrive \/ HangUp \/ Accept \/ AcceptError
  BY <1>1, <1>a DEF vars, Arrive, HangUp, Accept, AcceptError
<1>2. ASSUME NEW w \in Workers,
             \/ StartTask(w) \/ Read(w) \/ ReadClosed(w) \/ ReadEnd(w)
             \/ \E m \in Messages : Receive(w, m)
      PROVE  HolderIsAboutToThrow' /\ DOMAIN calls' = Workers
  BY <1>2, <1>a DEF StartTask, Read, ReadClosed, ReadEnd, Receive
<1>3. ASSUME NEW w \in Workers, NoRecipient(w) \/ Send(w)
      PROVE  HolderIsAboutToThrow' /\ DOMAIN calls' = Workers
  BY <1>3, <1>a DEF NoRecipient, Send
<1>4. ASSUME NEW w \in Workers, Reject(w) \/ Ignore(w) \/ HandleConnect(w)
      PROVE  HolderIsAboutToThrow' /\ DOMAIN calls' = Workers
  BY <1>4, <1>a DEF Reject, Ignore, HandleConnect, Handle
<1>5. ASSUME NEW w \in Workers, HandleQuery(w)
      PROVE  HolderIsAboutToThrow' /\ DOMAIN calls' = Workers
  BY <1>5, <1>a DEF HandleQuery, Handle
<1>6. ASSUME NEW w \in Workers, HandleDisconnect(w)
      PROVE  HolderIsAboutToThrow' /\ DOMAIN calls' = Workers
  <2>1. Head(CallsOf("disconnect")) \in AlwaysThrow
    BY DEF CallsOf, AlwaysThrow
  <2>2. /\ calls' = [calls EXCEPT ![w] = CallsOf("disconnect")]
        /\ workers' = [workers EXCEPT ![w] = "query"] /\ clientsMutex_' = w
    BY <1>6 DEF HandleDisconnect, Handle
  <2> QED BY <1>a, <2>1, <2>2
<1>7. ASSUME NEW w \in Workers, TakeConnection(w)
      PROVE  HolderIsAboutToThrow' /\ DOMAIN calls' = Workers
  BY <1>7, <1>a DEF TakeConnection
<1>8. ASSUME NEW w \in Workers, CallReturns(w)
      PROVE  HolderIsAboutToThrow' /\ DOMAIN calls' = Workers
  BY <1>8, <1>a DEF CallReturns
<1>9. ASSUME NEW w \in Workers, CallThrows(w)
      PROVE  HolderIsAboutToThrow' /\ DOMAIN calls' = Workers
  BY <1>9, <1>a DEF CallThrows
<1> QED BY <1>1, <1>2, <1>3, <1>4, <1>5, <1>6, <1>7, <1>8, <1>9, TcpSteps

(* A worker stops reading only when its connection is gone, and the        *)
(* listener that opens the socket anew leaves a task for it in the queue.  *)
LEMMA ServedStep == TcpInv /\ [Next]_vars => OpenSocketIsServed'
<1> SUFFICES ASSUME TcpInv, [Next]_vars PROVE OpenSocketIsServed'
  OBVIOUS
<1> USE DEF OpenSocketIsServed
<1>a. /\ OpenSocketIsServed /\ queued \in Nat
      /\ workers \in [Workers -> {"idle", "loop", "reading", "handle", "query", "busy", "send"}]
      /\ from \in [Workers -> Nat]
  BY ServerAssumption DEF TcpInv, TypeOK
<1>1. CASE UNCHANGED vars \/ Arrive \/ HangUp \/ AcceptError
  BY <1>1, <1>a DEF vars, Arrive, HangUp, AcceptError
<1>2. CASE Accept
  BY <1>2, <1>a DEF Accept
<1>3. ASSUME NEW w \in Workers, StartTask(w) \/ Read(w) \/ ReadClosed(w) \/ ReadEnd(w)
      PROVE  OpenSocketIsServed'
  <2>1. CASE StartTask(w)
    BY <1>a, <2>1 DEF StartTask
  <2>2. CASE Read(w)
    BY <1>a, <2>2 DEF Read
  <2>3. CASE ReadClosed(w)
    BY <2>3 DEF ReadClosed
  <2>4. CASE ReadEnd(w)
    BY <1>a, <2>4 DEF ReadEnd
  <2> QED BY <1>3, <2>1, <2>2, <2>3, <2>4
<1>4. ASSUME NEW w \in Workers, NEW to \in {"loop", "handle", "query", "busy", "send"},
             workers' = [workers EXCEPT ![w] = to],
             socket_' = socket_ \/ socket_' = 0, gone' = gone
      PROVE  OpenSocketIsServed'
  BY <1>4, <1>a
<1>5. ASSUME NEW w \in Workers, NEW m \in Messages, Receive(w, m) PROVE OpenSocketIsServed'
  BY <1>4, <1>5 DEF Receive
<1>6. ASSUME NEW w \in Workers,
             \/ Reject(w) \/ Ignore(w) \/ HandleQuery(w)
             \/ HandleConnect(w) \/ HandleDisconnect(w)
      PROVE  OpenSocketIsServed'
  BY <1>4, <1>6 DEF Reject, Ignore, HandleQuery, HandleConnect, HandleDisconnect, Handle
<1>7. ASSUME NEW w \in Workers,
             \/ TakeConnection(w) \/ CallReturns(w) \/ CallThrows(w)
             \/ Send(w) \/ NoRecipient(w)
      PROVE  OpenSocketIsServed'
  BY <1>4, <1>7 DEF TakeConnection, CallReturns, AfterCall, CallThrows, Send, NoRecipient
<1> QED BY <1>1, <1>2, <1>3, <1>5, <1>6, <1>7, TcpSteps

------------------------------------------------------------------------------
(* The inductive invariant holds in every reachable state.                 *)
THEOREM TcpSafety == Spec => []TcpInv
<1>1. TcpInv /\ [Next]_vars => TcpInv'
  BY TcpTypeStep, BudgetKept, ClosedStep, HolderStep, ServedStep DEF TcpInv
<1> QED BY TcpInit, <1>1, PTL DEF Spec

(* TypeOK of every state; that the available connections never exceed the  *)
(* pool needs the count of those in use.                                   *)
THEOREM TcpTypeCorrect == Spec => []TypeOK
<1>1. TcpInv => TypeOK
  BY DEF TcpInv
<1> QED BY TcpSafety, <1>1, PTL

(* An open connection is read by someone until its client is gone.         *)
THEOREM OpenConnectionsAreServed == Spec => []OpenSocketIsServed
<1>1. TcpInv => OpenSocketIsServed
  BY DEF TcpInv
<1> QED BY TcpSafety, <1>1, PTL

(* A handler that locks the registry while it calls the database never     *)
(* comes to lock it again.                                                 *)
THEOREM RegistryIsNotRelocked == Spec => []HolderIsAboutToThrow
<1>1. TcpInv => HolderIsAboutToThrow
  BY DEF TcpInv
<1> QED BY TcpSafety, <1>1, PTL

(* With socket_ open no accept is pending, and with no task and no busy    *)
(* worker nobody closes it.                                                *)
THEOREM StuckIsForGood == Spec => StuckForGood
<1>1. TcpInv /\ [Next]_vars => [Stuck => Stuck' /\ accepted' = accepted]_vars
  <2> SUFFICES ASSUME TcpInv, [Next]_vars, Stuck PROVE Stuck' /\ accepted' = accepted
    OBVIOUS
  <2>a. /\ socket_ # 0 /\ ~accepting /\ socket_ \in gone /\ queued = 0
        /\ \A w \in Workers : workers[w] = "idle"
    BY ServerAssumption DEF TcpInv, TypeOK, AcceptsOnlyClosed, Stuck
  <2> USE DEF Stuck
  <2>1. CASE UNCHANGED vars \/ Arrive \/ HangUp \/ Accept \/ AcceptError
    BY <2>1, <2>a DEF vars, Arrive, HangUp, Accept, AcceptError
  <2>2. ASSUME NEW w \in Workers,
               \/ StartTask(w) \/ Read(w) \/ ReadClosed(w) \/ ReadEnd(w)
               \/ NoRecipient(w) \/ Send(w) \/ \E m \in Messages : Receive(w, m)
        PROVE  FALSE
    BY <2>2, <2>a DEF StartTask, Read, ReadClosed, ReadEnd, NoRecipient, Send, Receive
  <2>3. ASSUME NEW w \in Workers,
               \/ Reject(w) \/ Ignore(w) \/ HandleQuery(w)
               \/ HandleConnect(w) \/ HandleDisconnect(w)
               \/ TakeConnection(w) \/ CallReturns(w) \/ CallThrows(w)
        PROVE  FALSE
    BY <2>3, <2>a DEF Reject, Ignore, HandleQuery, HandleConnect, HandleDisconnect, Handle,
                      TakeConnection, CallReturns, CallThrows
  <2> QED BY <2>1, <2>2, <2>3, TcpSteps
<1> QED BY TcpSafety, <1>1, PTL DEF Spec, StuckForGood

==============================================================================
