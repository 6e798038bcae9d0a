--------------------------- MODULE ClientLibProofs ---------------------------
(***************************************************************************)
(* No thread takes the answer to the call of another, for every number of  *)
(* threads, calls and messages, as long as the counter of request IDs has  *)
(* not come back to 0.  An answer that is on its way has one thread that   *)
(* waits for it, and that thread owns dataReceptionMutex; whoever reads    *)
(* the socket owns the mutex or finds it free.                             *)
(***************************************************************************)
EXTENDS ClientLib, SequenceTheorems, TLAPS

\* Most steps are first-order: Zenon proves them.  SMT is cited where a step
\* needs arithmetic or sequences.
USE Zenon

\* The 16-bit counter is not at the ID of unsolicited messages.
NotWrapped == nextAvailableRequestID # 0

Asking == {"writeRequest", "sendMessageBlocking"}

\* t has sent its request, or is about to: it owns the reception mutex.
Owner(t) ==
  \/ call[t] = "writeRequest" /\ pc[t] \in {"send", "await", "push", "signal"}
  \/ /\ call[t] = "sendMessageBlocking"
     /\ pc[t] \in {"emissionLock", "send", "await", "push", "signal"}

\* t waits for an answer, or puts aside what came before it.
Waiting(t) ==
  /\ t \in Thread
  /\ call[t] \in Asking
  /\ pc[t] = "await" \/ (pc[t] \in {"push", "signal"} /\ resume[t] = "await")

Discipline(t) ==
  /\ Owner(t) => dataReceptionMutex = t
  /\ pc[t] \in {"emissionLock", "send"} => call[t] \in Calls
  /\ pc[t] \in {"receptionLock", "await"} => call[t] \in Calls \cap Asking
  /\ pc[t] \in {"push", "signal"} =>
       /\ call[t] \in Calls
       /\ resume[t] # "idle"
       /\ resume[t] = "await" => call[t] \in Asking
  /\ call[t] = "writeRequest" /\ pc[t] \in {"send", "await", "push", "signal"} =>
       requestID[t] # 0

Threads == \A t \in Thread : Discipline(t)

Asks(i) == toDaemon[i].call # "sendMessage"
Answers(i) == socket[i].to # NULL

RequestsAreAwaited ==
  \A i \in 1 .. Len(toDaemon) : Asks(i) =>
    LET t == toDaemon[i].thread IN
    /\ Waiting(t)
    /\ call[t] = toDaemon[i].call
    /\ call[t] = "writeRequest" => toDaemon[i].id = requestID[t]

AnswersAreAwaited ==
  \A i \in 1 .. Len(socket) : Answers(i) =>
    LET t == socket[i].to IN
    /\ Waiting(t)
    /\ call[t] = "writeRequest" => socket[i].id = requestID[t]
    /\ call[t] = "sendMessageBlocking" => socket[i].kind = "SEND_MESSAGE"

OneAtATime ==
  /\ \A i, j \in 1 .. Len(toDaemon) : Asks(i) /\ Asks(j) => i = j
  /\ \A i, j \in 1 .. Len(socket) : Answers(i) /\ Answers(j) => i = j
  /\ \A i \in 1 .. Len(toDaemon), j \in 1 .. Len(socket) : ~(Asks(i) /\ Answers(j))

Daemon ==
  /\ ~daemonAlive => toDaemon = <<>>
  /\ \A i \in 1 .. Len(socket) : socket[i].to = NULL => socket[i].id = 0

Kept ==
  /\ AnswerIsNotStolen
  /\ \A t \in Thread : pc[t] = "push" => carried[t] \in Message /\ carried[t].to = NULL

IInv ==
  /\ TypeOK
  /\ Threads
  /\ RequestsAreAwaited
  /\ AnswersAreAwaited
  /\ OneAtATime
  /\ Daemon
  /\ Kept

-----------------------------------------------------------------------------
\* The next message of the socket, and what is left when it has been read.
LEMMA Taken ==
  ASSUME TypeOK, socket # <<>>
  PROVE  /\ Len(socket) \in Nat \ {0}
         /\ Head(socket) = socket[1]
         /\ socket[1] \in Message
         /\ Tail(socket) \in Seq(Message)
         /\ Len(Tail(socket)) = Len(socket) - 1
         /\ \A i \in 1 .. Len(socket) - 1 : Tail(socket)[i] = socket[i + 1]
<1>1. socket \in Seq(Message)
  BY DEF TypeOK
<1> QED BY <1>1, SMT

\* The call of t returns: t is out of it, and nothing changes for the others.
LEMMA Returns ==
  ASSUME TypeOK, NEW t \in Thread, return(t)
  PROVE  /\ pc' \in [Thread -> Places]
         /\ call' \in [Thread -> Calls \cup {NULL}]
         /\ dataReceptionMutex' \in Thread \cup {NULL}
         /\ pc'[t] \in {"idle", "handler"}
         /\ \A u \in Thread \ {t} :
              /\ pc'[u] = pc[u]
              /\ call'[u] = call[u]
              /\ dataReceptionMutex = u => dataReceptionMutex' = u
<1>1. /\ pc \in [Thread -> Places] /\ call \in [Thread -> Calls \cup {NULL}]
      /\ back[t] \in {"idle", "handler"} /\ back[t] \in Places
      /\ dataReceptionMutex \in Thread \cup {NULL}
  BY DEF TypeOK, Places
<1>2. /\ pc' = [pc EXCEPT ![t] = back[t]]
      /\ call' = [call EXCEPT ![t] = NULL]
      /\ dataReceptionMutex' = IF dataReceptionMutex = t THEN NULL ELSE dataReceptionMutex
  BY DEF return
<1> QED BY <1>1, <1>2

\* The parts of the state are typed; a message is pushed only when it is there.
LEMMA TypeStep ==
  ASSUME TypeOK, Threads, Kept, Next
  PROVE  TypeOK'
<1> USE ThreadAssumption, CallsAssumption, RequestIDsAssumption
    DEF ThreadAssumption, CallsAssumption, RequestIDsAssumption
<1>1. ASSUME NEW kind \in {"SEND_MESSAGE", "SERVICES_REGISTERED", "SERVICES_UNREGISTERED"},
             daemonSends(kind)
      PROVE  TypeOK'
  <2>1. [kind |-> kind, id |-> 0, to |-> NULL, number |-> sent + 1] \in Message
    BY SMT DEF Message, TypeOK
  <2>2. socket' \in Seq(Message) /\ sent' \in Nat
    BY <1>1, <2>1, SMT DEF daemonSends, TypeOK
  <2> QED BY <1>1, <2>2 DEF daemonSends, TypeOK, threadVars, connectionVars, loopVars
<1>2. CASE daemonReads
  <2> DEFINE r == Head(toDaemon)
  <2>1. r \in Request /\ Tail(toDaemon) \in Seq(Request)
    <3>1. toDaemon \in Seq(Request) /\ toDaemon # <<>>
      BY <1>2 DEF daemonReads, TypeOK
    <3> QED BY <3>1, SMT
  <2>2. [kind |-> IF r.call = "writeRequest" THEN "ANSWER" ELSE "SEND_MESSAGE",
         id |-> r.id, to |-> r.thread, number |-> 0] \in Message
    BY <2>1 DEF Message, Request
  <2>3. socket' \in Seq(Message)
    BY <1>2, <2>2, SMT DEF daemonReads, TypeOK
  <2> QED BY <1>2, <2>1, <2>3 DEF daemonReads, TypeOK, threadVars, connectionVars, loopVars
<1>3. CASE daemonStops
  BY <1>3, SMT DEF daemonStops, TypeOK, threadVars, connectionVars, loopVars
<1>4. ASSUME NEW t \in Thread, NEW k \in Calls, startCall(t, k) PROVE TypeOK'
  BY <1>4 DEF startCall, TypeOK, daemonVars, connectionVars, loopVars, Places
<1>5. ASSUME NEW t \in Thread, lockEmission(t) PROVE TypeOK'
  BY <1>5 DEF lockEmission, takeEmission, TypeOK, daemonVars, loopVars, Places
<1>6. ASSUME NEW t \in Thread, lockReception(t) PROVE TypeOK'
  <2>1. (nextAvailableRequestID + 1) % RequestIDs \in 0 .. RequestIDs - 1
    BY SMT DEF TypeOK
  <2>2. /\ requestID' \in [Thread -> 0 .. RequestIDs - 1]
        /\ nextAvailableRequestID' \in 0 .. RequestIDs - 1
    BY <1>6, <2>1, SMT DEF lockReception, TypeOK
  <2>3. pc' \in [Thread -> Places] /\ dataReceptionMutex' \in Thread \cup {NULL}
    BY <1>6 DEF lockReception, TypeOK, Places
  <2> QED BY <1>6, <2>2, <2>3 DEF lockReception, TypeOK, daemonVars, loopVars
<1>7. ASSUME NEW t \in Thread, send(t) PROVE TypeOK'
  <2> DEFINE r == [call |-> call[t], thread |-> t,
                       id |-> IF call[t] = "writeRequest" THEN requestID[t] ELSE 0]
  <2>1. r \in Request
    BY <1>7, SMT DEF send, TypeOK, Threads, Discipline, Request
  <2>2. toDaemon' \in Seq(Request)
    BY <1>7, <2>1, SMT DEF send, TypeOK
  <2>3. /\ pc' \in [Thread -> Places]
        /\ call' \in [Thread -> Calls \cup {NULL}]
        /\ dataReceptionMutex' \in Thread \cup {NULL}
    <3>1. CASE call[t] \in Asking
      BY <1>7, <3>1 DEF send, TypeOK, Places, Asking
    <3>2. CASE call[t] \notin Asking
      BY <1>7, <3>2, Returns DEF send, Asking
    <3> QED BY <3>1, <3>2
  <2> QED BY <1>7, <2>2, <2>3 DEF send, TypeOK, loopVars
<1>8. ASSUME NEW t \in Thread, sendFails(t) \/ awaitFails(t) PROVE TypeOK'
  <2>1. return(t)
    BY <1>8 DEF sendFails, awaitFails
  <2> QED BY <1>8, <2>1, Returns, SMT DEF sendFails, awaitFails, TypeOK, daemonVars, loopVars
<1>9. ASSUME NEW t \in Thread, sendAsserts(t) PROVE TypeOK'
  BY <1>9 DEF sendAsserts, TypeOK, daemonVars, threadVars, loopVars
<1>10. ASSUME NEW t \in Thread, onCongestionDetected(t) PROVE TypeOK'
  <2>1. Head(socket) \in Message /\ Tail(socket) \in Seq(Message)
    BY <1>10, Taken DEF onCongestionDetected
  <2> QED BY <1>10, <2>1 DEF onCongestionDetected, TypeOK, connectionVars, loopVars, Places
<1>11. ASSUME NEW t \in Thread, await(t) PROVE TypeOK'
  <2>1. Head(socket) \in Message /\ Tail(socket) \in Seq(Message)
    BY <1>11, Taken DEF await
  <2>2. socket' \in Seq(Message)
    BY <1>11, <2>1 DEF await
  <2>3. CASE return(t) /\ UNCHANGED <<carried, resume>>
    BY <1>11, <2>2, <2>3, Returns DEF await, TypeOK, loopVars
  <2>4. CASE UNCHANGED <<pc, call, carried, resume, dataEmissionMutex, dataReceptionMutex>>
    BY <1>11, <2>2, <2>4 DEF await, TypeOK, loopVars
  <2>5. CASE /\ carried' = [carried EXCEPT ![t] = Head(socket)]
             /\ resume' = [resume EXCEPT ![t] = "await"]
             /\ pc' = [pc EXCEPT ![t] = "push"]
             /\ UNCHANGED <<call, dataEmissionMutex, dataReceptionMutex>>
    BY <1>11, <2>1, <2>2, <2>5 DEF await, TypeOK, loopVars, Places
  <2> QED BY <1>11, <2>3, <2>4, <2>5 DEF await
<1>12. ASSUME NEW t \in Thread, push(t) PROVE TypeOK'
  <2>1. pc[t] = "push" => carried[t] \in Message
    BY DEF Kept
  <2>2. m_queue' \in Seq(Message)
    <3>1. CASE pc[t] = "push" /\ m_queue' = Append(m_queue, carried[t])
      BY <3>1, <2>1, SMT DEF TypeOK
    <3>2. CASE UNCHANGED m_queue
      BY <3>2 DEF TypeOK
    <3> QED BY <1>12, <3>1, <3>2 DEF push, pushToQueue
  <2>3. pc' \in [Thread -> Places] /\ carried' \in [Thread -> Message \cup {NULL}]
    <3>1. pc[t] = "signal" => resume[t] \in Places
      BY DEF TypeOK, Places
    <3> QED BY <1>12, <3>1 DEF push, pushToQueue, TypeOK, Places
  <2> QED BY <1>12, <2>2, <2>3 DEF push, TypeOK, daemonVars, loopVars
<1>13. CASE watch \/ readIndicator \/ handlerReturns
  BY <1>13 DEF watch, readIndicator, handlerReturns, TypeOK, daemonVars, connectionVars,
               loopVars, Places
<1>14. CASE dispatchQueuedMessages
  <2>1. m_queue' \in Seq(Message) /\ held' \in Message \cup {NULL}
    <3>1. m_queue # <<>> => Tail(m_queue) \in Seq(Message)
      BY SMT DEF TypeOK
    <3> QED BY <1>14, <3>1 DEF dispatchQueuedMessages, pop, TypeOK
  <2>2. pc' \in [Thread -> Places]
    BY <1>14 DEF dispatchQueuedMessages, TypeOK, Places
  <2> QED BY <1>14, <2>1, <2>2 DEF dispatchQueuedMessages, TypeOK, daemonVars
<1>15. CASE readIncomingMessages
  <2>1. socket' \in Seq(Message) /\ held' \in Message \cup {NULL}
    <3>1. socket # <<>> => Head(socket) \in Message /\ Tail(socket) \in Seq(Message)
      BY Taken
    <3> QED BY <1>15, <3>1 DEF readIncomingMessages, TypeOK
  <2> QED BY <1>15, <2>1 DEF readIncomingMessages, TypeOK, connectionVars, Places
<1> QED
  BY <1>1, <1>2, <1>3, <1>4, <1>5, <1>6, <1>7, <1>8, <1>9, <1>10, <1>11, <1>12, <1>13, <1>14,
     <1>15
  DEF Next, InCall, MainLoop

\* Threads keep to the order of the mutexes and of the steps of a call.
LEMMA ThreadsStep ==
  ASSUME TypeOK, Threads, NotWrapped, Next
  PROVE  Threads'
<1> USE ThreadAssumption, CallsAssumption
    DEF ThreadAssumption, CallsAssumption, Threads, Discipline, Owner, Asking
<1>1. CASE \/ daemonReads \/ daemonStops
           \/ \E kind \in {"SEND_MESSAGE", "SERVICES_REGISTERED", "SERVICES_UNREGISTERED"} :
                daemonSends(kind)
  BY <1>1 DEF daemonSends, daemonReads, daemonStops, threadVars, connectionVars
<1>2. ASSUME NEW t \in Thread, NEW k \in Calls, startCall(t, k) PROVE Threads'
  BY <1>2, ZenonT(60) DEF startCall, connectionVars, TypeOK
<1>3. ASSUME NEW t \in Thread, lockEmission(t) PROVE Threads'
  BY <1>3 DEF lockEmission, takeEmission, TypeOK
<1>4. ASSUME NEW t \in Thread, lockReception(t) PROVE Threads'
  BY <1>4, SMT DEF lockReception, NotWrapped, TypeOK
<1>5. ASSUME NEW t \in Thread, send(t) PROVE Threads'
  <2>1. CASE call[t] \in Asking
    BY <1>5, <2>1, SMT DEF send, TypeOK
  <2>2. CASE call[t] \notin Asking
    <3>1. return(t)
      BY <1>5, <2>2 DEF send
    <3> QED BY <1>5, <3>1, Returns, ZenonT(60) DEF send
  <2> QED BY <2>1, <2>2
<1>6. ASSUME NEW t \in Thread, sendFails(t) \/ awaitFails(t) PROVE Threads'
  <2>1. return(t)
    BY <1>6 DEF sendFails, awaitFails
  <2> QED BY <1>6, <2>1, Returns, SMT DEF sendFails, awaitFails
<1>7. ASSUME NEW t \in Thread, sendAsserts(t) PROVE Threads'
  BY <1>7 DEF sendAsserts, threadVars
<1>8. ASSUME NEW t \in Thread, onCongestionDetected(t) PROVE Threads'
  BY <1>8 DEF onCongestionDetected, connectionVars, TypeOK
<1>9. ASSUME NEW t \in Thread, await(t) PROVE Threads'
  <2>1. CASE return(t) /\ UNCHANGED <<carried, resume>>
    BY <1>9, <2>1, Returns, ZenonT(60) DEF await
  <2>2. CASE UNCHANGED <<pc, call, carried, resume, dataEmissionMutex, dataReceptionMutex>>
    BY <1>9, <2>2 DEF await
  <2>3. CASE /\ carried' = [carried EXCEPT ![t] = Head(socket)]
             /\ resume' = [resume EXCEPT ![t] = "await"]
             /\ pc' = [pc EXCEPT ![t] = "push"]
             /\ UNCHANGED <<call, dataEmissionMutex, dataReceptionMutex>>
    BY <1>9, <2>3, SMT DEF await, TypeOK
  <2> QED BY <1>9, <2>1, <2>2, <2>3 DEF await
<1>10. ASSUME NEW t \in Thread, push(t) PROVE Threads'
  BY <1>10, SMT DEF push, pushToQueue, TypeOK
<1>11. CASE MainLoop
  BY <1>11, SMT DEF MainLoop, watch, readIndicator, handlerReturns, dispatchQueuedMessages,
               readIncomingMessages, connectionVars, TypeOK
<1> QED
  BY <1>1, <1>2, <1>3, <1>4, <1>5, <1>6, <1>7, <1>8, <1>9, <1>10, <1>11
  DEF Next, InCall

-----------------------------------------------------------------------------
\* What a step does to the requests and answers that are under way.

Underway == RequestsAreAwaited /\ AnswersAreAwaited /\ OneAtATime /\ Daemon

\* Who waits goes on waiting for the same answer.
Keeps ==
  \A u \in Thread : Waiting(u) =>
    Waiting(u)' /\ call'[u] = call[u] /\ requestID'[u] = requestID[u]

Quiet == Keeps /\ UNCHANGED <<toDaemon, socket>>

\* The daemon sends a message of its own accord.
Tells ==
  /\ Keeps
  /\ UNCHANGED toDaemon
  /\ \E m \in Message : m.to = NULL /\ m.id = 0 /\ socket' = Append(socket, m)

\* t sends, and waits if it is to be answered; nothing else is under way then.
Sends(t) ==
  LET r == [call |-> call[t], thread |-> t,
            id |-> IF call[t] = "writeRequest" THEN requestID[t] ELSE 0]
  IN /\ Keeps
     /\ UNCHANGED socket
     /\ daemonAlive
     /\ r \in Request
     /\ toDaemon' = Append(toDaemon, r)
     /\ call[t] # "sendMessage" =>
          /\ Waiting(t)' /\ call'[t] = call[t] /\ requestID'[t] = requestID[t]
          /\ \A i \in 1 .. Len(toDaemon) : ~Asks(i)
          /\ \A i \in 1 .. Len(socket) : ~Answers(i)

\* A message that is no answer is read.
Reads ==
  /\ Keeps
  /\ UNCHANGED toDaemon
  /\ socket # <<>> /\ ~Answers(1)
  /\ socket' = Tail(socket)

\* The one answer that is under way is read.
Answered ==
  /\ UNCHANGED toDaemon
  /\ socket # <<>> /\ Answers(1)
  /\ socket' = Tail(socket)

\* The daemon is gone, and with it the requests.
Gone ==
  /\ toDaemon' = <<>>
  /\ \/ Keeps /\ socket' = socket
     \/ socket' = <<>>

\* The thread a request or an answer under way belongs to owns the mutex.
LEMMA Belongs ==
  ASSUME TypeOK, Threads, Underway
  PROVE  /\ \A t \in Thread : Waiting(t) => dataReceptionMutex = t
         /\ \A i \in 1 .. Len(toDaemon) : Asks(i) =>
              dataReceptionMutex = toDaemon[i].thread /\ Waiting(dataReceptionMutex)
         /\ \A i \in 1 .. Len(socket) : Answers(i) =>
              dataReceptionMutex = socket[i].to /\ Waiting(dataReceptionMutex)
<1>1. \A t : Waiting(t) => t \in Thread /\ dataReceptionMutex = t
  BY DEF Waiting, Threads, Discipline, Owner, Asking
<1> QED BY <1>1 DEF Underway, RequestsAreAwaited, AnswersAreAwaited

\* Whoever reads while the mutex is free, or owns it without waiting, reads no
\* answer.
LEMMA NoAnswerForOthers ==
  ASSUME TypeOK, Threads, Underway, ~Waiting(dataReceptionMutex)
  PROVE  /\ \A i \in 1 .. Len(toDaemon) : ~Asks(i)
         /\ \A i \in 1 .. Len(socket) : ~Answers(i)
BY Belongs

\* A step is one of these.
LEMMA Steps ==
  ASSUME TypeOK, Threads, Underway, Next
  PROVE  \/ /\ Quiet \/ Tells \/ Reads \/ Answered \/ (\E t \in Thread : Sends(t))
            /\ UNCHANGED daemonAlive
         \/ daemonReads
         \/ Gone
<1> USE ThreadAssumption DEF ThreadAssumption
<1>1. ASSUME NEW kind \in {"SEND_MESSAGE", "SERVICES_REGISTERED", "SERVICES_UNREGISTERED"},
             daemonSends(kind)
      PROVE  Tells /\ UNCHANGED daemonAlive
  <2> DEFINE m == [kind |-> kind, id |-> 0, to |-> NULL, number |-> sent + 1]
  <2>1. m \in Message /\ m.to = NULL /\ m.id = 0
    BY RequestIDsAssumption, SMT DEF RequestIDsAssumption, Message, TypeOK
  <2>2. Keeps
    BY <1>1 DEF daemonSends, Keeps, Waiting, threadVars
  <2>3. socket' = Append(socket, m) /\ UNCHANGED <<toDaemon, daemonAlive>>
    BY <1>1 DEF daemonSends
  <2> QED BY <2>1, <2>2, <2>3 DEF Tells
<1>2. CASE daemonStops
  BY <1>2 DEF daemonStops, Gone, Keeps, Waiting, threadVars
<1>3. ASSUME NEW t \in Thread, NEW k \in Calls, startCall(t, k)
      PROVE  Quiet /\ UNCHANGED daemonAlive
  BY <1>3 DEF startCall, daemonVars, Quiet, Keeps, Waiting, TypeOK
<1>4. ASSUME NEW t \in Thread, lockEmission(t) PROVE Quiet /\ UNCHANGED daemonAlive
  BY <1>4 DEF lockEmission, takeEmission, daemonVars, Quiet, Keeps, Waiting, TypeOK
<1>5. ASSUME NEW t \in Thread, lockReception(t) PROVE Quiet /\ UNCHANGED daemonAlive
  BY <1>5 DEF lockReception, daemonVars, Quiet, Keeps, Waiting, TypeOK
<1>6. ASSUME NEW t \in Thread, sendFails(t) PROVE Quiet /\ UNCHANGED daemonAlive
  BY <1>6, Returns DEF sendFails, daemonVars, Quiet, Keeps, Waiting
<1>7. ASSUME NEW t \in Thread, sendAsserts(t) PROVE Quiet /\ UNCHANGED daemonAlive
  BY <1>7 DEF sendAsserts, daemonVars, threadVars, Quiet, Keeps, Waiting
<1>8. ASSUME NEW t \in Thread, push(t) PROVE Quiet /\ UNCHANGED daemonAlive
  BY <1>8 DEF push, pushToQueue, daemonVars, Quiet, Keeps, Waiting, TypeOK
<1>9. CASE watch \/ readIndicator \/ handlerReturns \/ dispatchQueuedMessages
  <2>1. Quiet /\ UNCHANGED daemonAlive
    BY <1>9 DEF watch, readIndicator, handlerReturns, dispatchQueuedMessages, daemonVars,
                Quiet, Keeps, Waiting, TypeOK
  <2> QED BY <2>1
<1>10. ASSUME NEW t \in Thread, awaitFails(t) PROVE Gone
  BY <1>10 DEF awaitFails, daemonVars, Gone, Underway, Daemon
<1>11. ASSUME NEW t \in Thread, send(t) PROVE Sends(t) /\ UNCHANGED daemonAlive
  <2> DEFINE r == [call |-> call[t], thread |-> t,
                   id |-> IF call[t] = "writeRequest" THEN requestID[t] ELSE 0]
  <2>1. call[t] \in Calls /\ pc[t] = "send"
    BY <1>11 DEF send, Threads, Discipline
  <2>2. r \in Request
    BY <2>1, RequestIDsAssumption, SMT DEF RequestIDsAssumption, Request, TypeOK
  <2>3. /\ daemonAlive
        /\ toDaemon' = Append(toDaemon, r)
        /\ UNCHANGED <<socket, requestID, resume, daemonAlive>>
    BY <1>11 DEF send
  <2>4. CASE call[t] \in Asking
    <3>1. UNCHANGED call /\ pc' = [pc EXCEPT ![t] = "await"]
      BY <1>11, <2>4 DEF send, Asking
    <3>2. Keeps /\ Waiting(t)'
      BY <2>3, <2>4, <3>1 DEF Keeps, Waiting, TypeOK
    <3>3. dataReceptionMutex = t /\ ~Waiting(t)
      BY <2>1, <2>4 DEF Threads, Discipline, Owner, Asking, Waiting
    <3> QED BY <2>2, <2>3, <3>1, <3>2, <3>3, NoAnswerForOthers DEF Sends
  <2>5. CASE call[t] \notin Asking
    <3>1. call[t] = "sendMessage"
      BY <2>1, <2>5, CallsAssumption DEF CallsAssumption, Asking
    <3>2. return(t)
      BY <1>11, <2>5 DEF send, Asking
    <3>3. Keeps
      BY <2>1, <2>3, <3>2, Returns DEF Keeps, Waiting
    <3> QED BY <2>2, <2>3, <3>1, <3>3 DEF Sends
  <2> QED BY <2>4, <2>5
<1>12. ASSUME NEW t \in Thread, onCongestionDetected(t) PROVE Reads /\ UNCHANGED daemonAlive
  <2>1. ~Waiting(dataReceptionMutex)
    BY <1>12 DEF onCongestionDetected, Waiting
  <2>2. socket # <<>> /\ ~Answers(1)
    BY <1>12, <2>1, Taken, NoAnswerForOthers, SMT DEF onCongestionDetected
  <2>3. Keeps
    BY <1>12 DEF onCongestionDetected, Keeps, Waiting, TypeOK
  <2> QED BY <1>12, <2>2, <2>3 DEF onCongestionDetected, Reads
<1>13. CASE readIncomingMessages
  <2>1. Keeps /\ UNCHANGED <<daemonAlive, toDaemon>>
    BY <1>13 DEF readIncomingMessages, Keeps, Waiting, TypeOK
  <2>2. CASE UNCHANGED socket
    BY <2>1, <2>2 DEF Quiet
  <2>3. CASE socket # <<>> /\ socket' = Tail(socket)
    <3>1. ~Waiting(dataReceptionMutex)
      BY <1>13 DEF readIncomingMessages, Waiting
    <3>2. ~Answers(1)
      BY <2>3, <3>1, Taken, NoAnswerForOthers, SMT
    <3> QED BY <2>1, <2>3, <3>2 DEF Reads
  <2> QED BY <1>13, <2>2, <2>3 DEF readIncomingMessages
<1>14. ASSUME NEW t \in Thread, await(t) PROVE (Reads \/ Answered) /\ UNCHANGED daemonAlive
  <2>1. socket # <<>> /\ socket' = Tail(socket) /\ UNCHANGED <<toDaemon, requestID, daemonAlive>>
    BY <1>14 DEF await
  <2>2. CASE Answers(1)
    BY <2>1, <2>2 DEF Answered
  <2>3. CASE ~Answers(1)
    <3>1. call[t] \in Asking /\ (call[t] = "writeRequest" => requestID[t] # 0)
      BY <1>14 DEF await, Threads, Discipline
    <3>2. socket[1].to = NULL /\ socket[1].id = 0
      BY <2>1, <2>3, Taken, SMT DEF Answers, Underway, Daemon
    <3>3. ~(IF call[t] = "writeRequest" THEN isResponseOf(Head(socket), t)
                                        ELSE isAnswerTo(Head(socket), t))
      BY <2>1, <3>1, <3>2, Taken DEF isResponseOf, isAnswerTo, Asking
    <3>4. \/ UNCHANGED <<pc, call, resume>>
          \/ /\ resume' = [resume EXCEPT ![t] = "await"]
             /\ pc' = [pc EXCEPT ![t] = "push"]
             /\ UNCHANGED call
      BY <1>14, <3>3 DEF await
    <3>5. Keeps
      BY <2>1, <3>4 DEF Keeps, Waiting, TypeOK
    <3> QED BY <2>1, <2>3, <3>5 DEF Reads
  <2> QED BY <2>2, <2>3
<1> QED
  BY <1>1, <1>2, <1>3, <1>4, <1>5, <1>6, <1>7, <1>8, <1>9, <1>10, <1>11, <1>12, <1>13, <1>14
  DEF Next, InCall, MainLoop

\* Each of these keeps every request and every answer with the one thread that
\* waits for it.
LEMMA UnderwayStep ==
  ASSUME TypeOK, Threads, Underway, Next
  PROVE  Underway'
<1> USE ThreadAssumption DEF ThreadAssumption
<1>1. /\ toDaemon \in Seq(Request) /\ Len(toDaemon) \in Nat
      /\ socket \in Seq(Message) /\ Len(socket) \in Nat
      /\ \A i \in 1 .. Len(toDaemon) : toDaemon[i] \in Request /\ toDaemon[i].thread \in Thread
      /\ \A i \in 1 .. Len(socket) : socket[i] \in Message /\ socket[i].to \in Thread \cup {NULL}
  <2>1. toDaemon \in Seq(Request) /\ socket \in Seq(Message)
    BY DEF TypeOK
  <2>2. /\ Len(toDaemon) \in Nat /\ \A i \in 1 .. Len(toDaemon) : toDaemon[i] \in Request
        /\ Len(socket) \in Nat /\ \A i \in 1 .. Len(socket) : socket[i] \in Message
    BY <2>1, SMT
  <2>3. /\ \A r \in Request : r.thread \in Thread
        /\ \A m \in Message : m.to \in Thread \cup {NULL}
    BY DEF Request, Message
  <2> QED BY <2>1, <2>2, <2>3
<1>2. CASE Quiet /\ UNCHANGED daemonAlive
  BY <1>1, <1>2, SMT DEF Underway, RequestsAreAwaited, AnswersAreAwaited, OneAtATime, Daemon, Quiet,
     Keeps, Asks, Answers
<1>3. CASE Tells /\ UNCHANGED daemonAlive
  <2>1. PICK m \in Message : m.to = NULL /\ m.id = 0 /\ socket' = Append(socket, m)
    BY <1>3 DEF Tells
  <2>2. /\ Len(socket') = Len(socket) + 1
        /\ socket'[Len(socket) + 1] = m
        /\ \A i \in 1 .. Len(socket) : socket'[i] = socket[i]
    BY <1>1, <2>1, SMT
  <2>3. /\ \A i \in 1 .. Len(socket') : i \in 1 .. Len(socket) \/ i = Len(socket) + 1
        /\ \A i \in 1 .. Len(socket') : Answers(i)' => i \in 1 .. Len(socket) /\ Answers(i)
    BY <1>1, <2>1, <2>2, SMT DEF Answers
  <2>4. RequestsAreAwaited' /\ AnswersAreAwaited'
    <3>1. RequestsAreAwaited'
      BY <1>1, <1>3, ZenonT(60) DEF Tells, Keeps, Underway, RequestsAreAwaited, Asks
    <3>2. AnswersAreAwaited'
      BY <1>1, <1>3, <2>2, <2>3, SMT DEF Tells, Keeps, Underway, AnswersAreAwaited, Answers
    <3> QED BY <3>1, <3>2
  <2>5. OneAtATime'
    BY <1>3, <2>3 DEF Tells, Underway, OneAtATime, Asks
  <2>6. Daemon'
    BY <1>3, <2>1, <2>2, <2>3 DEF Tells, Underway, Daemon
  <2> QED BY <2>4, <2>5, <2>6 DEF Underway
<1>4. CASE Reads /\ UNCHANGED daemonAlive
  <2>1. /\ Len(socket') = Len(socket) - 1
        /\ \A i \in 1 .. Len(socket') : i + 1 \in 1 .. Len(socket) /\ socket'[i] = socket[i + 1]
    BY <1>1, <1>4, Taken, SMT DEF Reads
  <2>2. RequestsAreAwaited' /\ AnswersAreAwaited'
    <3>1. RequestsAreAwaited'
      BY <1>1, <1>4, ZenonT(60) DEF Reads, Keeps, Underway, RequestsAreAwaited, Asks
    <3>2. AnswersAreAwaited'
      BY <1>1, <1>4, <2>1, SMT DEF Reads, Keeps, Underway, AnswersAreAwaited, Answers
    <3> QED BY <3>1, <3>2
  <2>3. OneAtATime'
    BY <1>1, <1>4, <2>1, SMTT(60) DEF Reads, Underway, OneAtATime, Asks, Answers
  <2>4. Daemon'
    BY <1>4, <2>1 DEF Reads, Underway, Daemon
  <2> QED BY <2>2, <2>3, <2>4 DEF Underway
<1>5. CASE Answered /\ UNCHANGED daemonAlive
  <2>1. /\ Len(socket') = Len(socket) - 1 /\ 1 \in 1 .. Len(socket)
        /\ \A i \in 1 .. Len(socket') :
             i + 1 \in 1 .. Len(socket) /\ i + 1 # 1 /\ socket'[i] = socket[i + 1]
    BY <1>1, <1>5, Taken, SMT DEF Answered
  <2>2. /\ \A i \in 1 .. Len(toDaemon) : ~Asks(i)
        /\ \A i \in 1 .. Len(socket) : i # 1 => ~Answers(i)
    BY <1>5, <2>1 DEF Answered, Underway, OneAtATime
  <2>3. /\ \A i \in 1 .. Len(toDaemon') : ~Asks(i)'
        /\ \A i \in 1 .. Len(socket') : ~Answers(i)'
    BY <1>5, <2>1, <2>2 DEF Answered, Asks, Answers
  <2>4. Daemon'
    BY <1>5, <2>1 DEF Answered, Underway, Daemon
  <2> QED
    BY <2>3, <2>4 DEF Underway, RequestsAreAwaited, AnswersAreAwaited, OneAtATime
<1>6. ASSUME NEW t \in Thread, Sends(t), UNCHANGED daemonAlive PROVE Underway'
  <2> DEFINE r == [call |-> call[t], thread |-> t,
                   id |-> IF call[t] = "writeRequest" THEN requestID[t] ELSE 0]
  <2>1. /\ Len(toDaemon') = Len(toDaemon) + 1
        /\ toDaemon'[Len(toDaemon) + 1] = r
        /\ \A i \in 1 .. Len(toDaemon) : toDaemon'[i] = toDaemon[i]
    BY <1>1, <1>6, SMT DEF Sends
  <2>2. \A i \in 1 .. Len(toDaemon') : i \in 1 .. Len(toDaemon) \/ i = Len(toDaemon) + 1
    <3>1. Len(toDaemon) \in Nat /\ Len(toDaemon') = Len(toDaemon) + 1
      BY <1>1, <2>1
    <3> QED BY <3>1, SMT
  <2>3. Daemon'
    BY <1>6 DEF Sends, Underway, Daemon
  <2>4. CASE call[t] = "sendMessage"
    <3>1. \A i \in 1 .. Len(toDaemon') : Asks(i)' => i \in 1 .. Len(toDaemon) /\ Asks(i)
      BY <2>1, <2>2, <2>4, SMT DEF Asks
    <3>2. RequestsAreAwaited'
      <4> SUFFICES ASSUME NEW i \in 1 .. Len(toDaemon'), Asks(i)'
                   PROVE  (LET u == toDaemon[i].thread IN
                           /\ Waiting(u)
                           /\ call[u] = toDaemon[i].call
                           /\ call[u] = "writeRequest" => toDaemon[i].id = requestID[u])'
        BY DEF RequestsAreAwaited
      <4>1. i \in 1 .. Len(toDaemon) /\ Asks(i) /\ toDaemon'[i] = toDaemon[i]
        BY <2>1, <3>1
      <4>2. PICK u \in Thread : u = toDaemon[i].thread
        BY <1>1, <4>1
      <4>3. /\ Waiting(u) /\ call[u] = toDaemon[i].call
            /\ call[u] = "writeRequest" => toDaemon[i].id = requestID[u]
        BY <4>1, <4>2 DEF Underway, RequestsAreAwaited
      <4>4. Waiting(u)' /\ call'[u] = call[u] /\ requestID'[u] = requestID[u]
        BY <1>6, <4>3 DEF Sends, Keeps
      <4> QED BY <4>1, <4>2, <4>3, <4>4
    <3>3. AnswersAreAwaited'
      BY <1>1, <1>6, ZenonT(60) DEF Sends, Keeps, Underway, AnswersAreAwaited, Answers
    <3>4. OneAtATime'
      BY <1>6, <3>1 DEF Sends, Underway, OneAtATime, Answers
    <3> QED BY <2>3, <3>2, <3>3, <3>4 DEF Underway
  <2>5. CASE call[t] # "sendMessage"
    <3>1. /\ \A i \in 1 .. Len(toDaemon') : Asks(i)' => i = Len(toDaemon) + 1
          /\ \A i \in 1 .. Len(socket') : ~Answers(i)'
      BY <1>6, <2>1, <2>2, <2>5 DEF Sends, Asks, Answers
    <3>2. Waiting(t)' /\ call'[t] = call[t] /\ requestID'[t] = requestID[t]
      BY <1>6, <2>5 DEF Sends
    <3>3. RequestsAreAwaited'
      <4>1. \A i \in 1 .. Len(toDaemon') : Asks(i)' => toDaemon'[i] = r
        BY <2>1, <3>1
      <4>2. r.thread = t /\ r.call = call[t] /\ (call[t] = "writeRequest" => r.id = requestID[t])
        OBVIOUS
      <4> HIDE DEF r
      <4> QED BY <3>2, <4>1, <4>2 DEF RequestsAreAwaited
    <3> QED BY <2>3, <3>1, <3>3 DEF Underway, AnswersAreAwaited, OneAtATime
  <2> QED BY <2>4, <2>5
<1>7. CASE daemonReads
  <2> DEFINE r == toDaemon[1]
             answer == [kind |-> IF r.call = "writeRequest" THEN "ANSWER" ELSE "SEND_MESSAGE",
                        id |-> r.id, to |-> r.thread, number |-> 0]
  <2>1. /\ 1 \in 1 .. Len(toDaemon) /\ Head(toDaemon) = r
        /\ Len(toDaemon') = Len(toDaemon) - 1
        /\ \A i \in 1 .. Len(toDaemon') :
             i + 1 \in 1 .. Len(toDaemon) /\ toDaemon'[i] = toDaemon[i + 1]
    BY <1>1, <1>7, SMT DEF daemonReads
  <2>2. Keeps /\ UNCHANGED <<call, requestID>> /\ \A u : Waiting(u) => Waiting(u)'
    BY <1>7 DEF daemonReads, Keeps, Waiting, threadVars
  <2>3. daemonAlive'
    BY <1>7 DEF daemonReads
  <2>4. CASE ~Asks(1)
    <3>1. UNCHANGED socket
      BY <1>7, <2>1, <2>4 DEF daemonReads, Asks
    <3>2. RequestsAreAwaited' /\ AnswersAreAwaited'
      BY <2>1, <2>2, <3>1
      DEF Underway, RequestsAreAwaited, AnswersAreAwaited, Asks, Answers
    <3>3. OneAtATime'
      <4>1. /\ \A i \in 1 .. Len(toDaemon') :
                 Asks(i)' => i \in Nat /\ i + 1 \in 1 .. Len(toDaemon) /\ Asks(i + 1)
            /\ \A i \in 1 .. Len(socket') : Answers(i)' => i \in 1 .. Len(socket) /\ Answers(i)
        BY <1>1, <2>1, <3>1, SMT DEF Asks, Answers
      <4> QED BY <4>1, SMT DEF Underway, OneAtATime
    <3> QED BY <2>3, <3>1, <3>2, <3>3 DEF Underway, Daemon
  <2>5. CASE Asks(1)
    <3>1. socket' = Append(socket, answer)
      BY <1>7, <2>1, <2>5 DEF daemonReads, Asks
    <3>2. /\ Len(socket') = Len(socket) + 1
          /\ socket'[Len(socket) + 1] = answer
          /\ \A i \in 1 .. Len(socket) : socket'[i] = socket[i]
          /\ \A i \in 1 .. Len(socket') : i \in 1 .. Len(socket) \/ i = Len(socket) + 1
      BY <1>1, <3>1, SMT
    <3>3. /\ \A i \in 1 .. Len(socket) : ~Answers(i)
          /\ \A i \in 1 .. Len(toDaemon) : i # 1 => ~Asks(i)
      BY <2>1, <2>5 DEF Underway, OneAtATime
    <3>4. \A i \in 1 .. Len(toDaemon') : ~Asks(i)'
      <4> SUFFICES ASSUME NEW i \in 1 .. Len(toDaemon') PROVE ~Asks(i)'
        OBVIOUS
      <4>1. i + 1 # 1 BY SMT
      <4> QED BY <2>1, <3>3, <4>1 DEF Asks
    <3>5. \A i \in 1 .. Len(socket') : Answers(i)' => i = Len(socket) + 1
      BY <3>2, <3>3 DEF Answers
    <3>6. PICK u \in Thread : u = r.thread
      BY <1>1, <2>1
    <3>7. /\ Waiting(u) /\ call[u] = r.call
          /\ call[u] = "writeRequest" => r.id = requestID[u]
      BY <2>1, <2>5, <3>6 DEF Underway, RequestsAreAwaited
    <3>8. Waiting(u)' /\ call'[u] = call[u] /\ requestID'[u] = requestID[u]
      BY <2>2, <3>7
    <3>9. /\ answer.to = u /\ answer.id = r.id
          /\ call[u] = "sendMessageBlocking" => answer.kind = "SEND_MESSAGE"
      BY <3>6, <3>7
    <3>10. AnswersAreAwaited'
      BY <3>2, <3>5, <3>7, <3>8, <3>9 DEF AnswersAreAwaited
    <3>11. Daemon'
      BY <2>3, <3>2, <3>9 DEF Underway, Daemon
    <3> QED BY <3>4, <3>5, <3>10, <3>11 DEF Underway, RequestsAreAwaited, OneAtATime
  <2> QED BY <2>4, <2>5
<1>8. CASE Gone
  <2>1. Len(toDaemon') = 0
    BY <1>8 DEF Gone
  <2>2. CASE Keeps /\ socket' = socket
    BY <1>1, <1>8, <2>1, <2>2, SMT DEF Gone, Underway, RequestsAreAwaited, AnswersAreAwaited,
       OneAtATime, Daemon, Keeps, Asks, Answers
  <2>3. CASE socket' = <<>>
    <3>1. Len(socket') = 0
      BY <2>3
    <3>2. 1 .. Len(toDaemon') = {} /\ 1 .. Len(socket') = {} /\ toDaemon' = <<>>
      BY <1>8, <2>1, <3>1, SMT DEF Gone
    <3> QED BY <3>2 DEF Underway, RequestsAreAwaited, AnswersAreAwaited, OneAtATime, Daemon
  <2> QED BY <1>8, <2>2, <2>3 DEF Gone
<1> QED BY <1>2, <1>3, <1>4, <1>5, <1>6, <1>7, <1>8, Steps

\* No thread puts an answer aside: a thread that reads an answer is the one it
\* is for, and returns with it.
LEMMA KeptStep ==
  ASSUME TypeOK, Threads, Underway, Kept, Next
  PROVE  Kept'
<1> USE ThreadAssumption DEF ThreadAssumption
<1>1. /\ m_queue \in Seq(Message)
      /\ carried \in [Thread -> Message \cup {NULL}]
      /\ pc \in [Thread -> Places]
      /\ \A i \in 1 .. Len(m_queue) : m_queue[i].to = NULL
  <2>1. /\ m_queue \in Seq(Message)
        /\ carried \in [Thread -> Message \cup {NULL}]
        /\ pc \in [Thread -> Places]
    BY DEF TypeOK
  <2>2. \A i \in DOMAIN m_queue : m_queue[i].to = NULL
    BY DEF Kept, AnswerIsNotStolen, Range
  <2>3. DOMAIN m_queue = 1 .. Len(m_queue)
    BY <2>1, SMT
  <2> QED BY <2>1, <2>2, <2>3
<1>2. ASSUME /\ m_queue' = m_queue \/ (m_queue # <<>> /\ m_queue' = Tail(m_queue))
             /\ \A t \in Thread : carried'[t] = carried[t] /\ (pc'[t] = "push" => pc[t] = "push")
             /\ held' \in {held, NULL} \/ (held' \in Message /\ held'.to = NULL)
      PROVE  Kept'
  <2>1. \A i \in 1 .. Len(m_queue') : m_queue'[i].to = NULL
    <3>1. CASE m_queue' = m_queue
      BY <1>1, <3>1
    <3>2. CASE m_queue # <<>> /\ m_queue' = Tail(m_queue)
      <4>1. \A i \in 1 .. Len(m_queue') : i + 1 \in 1 .. Len(m_queue) /\ m_queue'[i] = m_queue[i + 1]
        BY <1>1, <3>2, SMT
      <4> QED BY <1>1, <4>1
    <3> QED BY <1>2, <3>1, <3>2
  <2>2. \A m \in Range(m_queue') : m.to = NULL
    BY <1>1, <1>2, <2>1, SMT DEF Range
  <2> QED BY <1>1, <1>2, <2>2 DEF Kept, AnswerIsNotStolen
<1>3. ASSUME NEW t \in Thread, onCongestionDetected(t) \/ await(t),
             carried' = [carried EXCEPT ![t] = Head(socket)],
             pc' = [pc EXCEPT ![t] = "push"]
      PROVE  Kept'
  <2>1. socket # <<>> /\ UNCHANGED <<m_queue, held>>
    BY <1>3 DEF onCongestionDetected, await, connectionVars, loopVars
  <2>2. Head(socket) = socket[1] /\ socket[1] \in Message /\ 1 \in 1 .. Len(socket)
    BY <2>1, Taken, SMT
  <2>3. ~Answers(1)
    <3>1. CASE onCongestionDetected(t)
      <4>1. ~Waiting(dataReceptionMutex)
        BY <3>1 DEF onCongestionDetected, Waiting
      <4> QED BY <2>2, <4>1, NoAnswerForOthers
    <3>2. CASE await(t)
      <4> SUFFICES ASSUME Answers(1) PROVE FALSE
        OBVIOUS
      <4>1. pc[t] = "await" /\ call[t] \in Asking /\ dataReceptionMutex = t
        BY <3>2 DEF await, Threads, Discipline, Owner, Asking
      <4>2. socket[1].to = t
        BY <2>2, <4>1, Belongs
      <4>3. /\ call[t] = "writeRequest" => isResponseOf(Head(socket), t)
            /\ call[t] = "sendMessageBlocking" => isAnswerTo(Head(socket), t)
        BY <2>2, <4>2 DEF Underway, AnswersAreAwaited, isResponseOf, isAnswerTo
      <4>4. pc'[t] \in {"idle", "handler", "await"}
        BY <1>1, <3>2, <4>1, <4>3, Returns DEF await, Asking, isAnswerTo
      <4> QED BY <1>1, <1>3, <4>4
    <3> QED BY <1>3, <3>1, <3>2
  <2> QED BY <1>1, <1>3, <2>1, <2>2, <2>3 DEF Kept, AnswerIsNotStolen, Answers
<1>4. ASSUME NEW t \in Thread, push(t) PROVE Kept'
  <2>1. UNCHANGED held
    BY <1>4 DEF push, loopVars
  <2>2. CASE pc[t] = "push"
    <3>1. /\ m_queue' = Append(m_queue, carried[t])
          /\ carried' = [carried EXCEPT ![t] = NULL]
          /\ pc' = [pc EXCEPT ![t] = "signal"]
      BY <1>4, <2>2 DEF push, pushToQueue
    <3>2. carried[t] \in Message /\ carried[t].to = NULL
      BY <2>2 DEF Kept
    <3>3. m_queue' \in Seq(Message) /\ \A i \in 1 .. Len(m_queue') : m_queue'[i].to = NULL
      BY <1>1, <3>1, <3>2, SMT
    <3>4. \A m \in Range(m_queue') : m.to = NULL
      BY <3>3, SMT DEF Range
    <3> QED BY <1>1, <2>1, <3>1, <3>4 DEF Kept, AnswerIsNotStolen
  <2>3. CASE pc[t] # "push"
    <3>1. UNCHANGED <<m_queue, carried>> /\ pc' = [pc EXCEPT ![t] = resume[t]]
      BY <1>4, <2>3 DEF push, pushToQueue
    <3>2. resume[t] # "push"
      BY DEF TypeOK
    <3> QED BY <1>1, <1>2, <2>1, <3>1, <3>2
  <2> QED BY <2>2, <2>3
<1>5. CASE \/ daemonReads \/ daemonStops
           \/ \E kind \in {"SEND_MESSAGE", "SERVICES_REGISTERED", "SERVICES_UNREGISTERED"} :
                daemonSends(kind)
  BY <1>2, <1>5 DEF daemonSends, daemonReads, daemonStops, threadVars, connectionVars, loopVars
<1>6. ASSUME NEW t \in Thread, NEW k \in Calls, startCall(t, k) PROVE Kept'
  BY <1>1, <1>2, <1>6 DEF startCall, connectionVars, loopVars
<1>7. ASSUME NEW t \in Thread, lockEmission(t) PROVE Kept'
  BY <1>1, <1>2, <1>7 DEF lockEmission, takeEmission, loopVars
<1>8. ASSUME NEW t \in Thread, lockReception(t) PROVE Kept'
  BY <1>1, <1>2, <1>8 DEF lockReception, loopVars
<1>9. ASSUME NEW t \in Thread, send(t) PROVE Kept'
  <2>1. \A u \in Thread : pc'[u] = "push" => pc[u] = "push"
    <3>1. CASE pc' = [pc EXCEPT ![t] = "await"]
      BY <1>1, <3>1
    <3>2. CASE return(t)
      BY <3>2, Returns
    <3> QED BY <1>9, <3>1, <3>2 DEF send
  <2> QED BY <1>2, <1>9, <2>1 DEF send, loopVars
<1>10. ASSUME NEW t \in Thread, sendFails(t) \/ awaitFails(t) PROVE Kept'
  <2>1. return(t) /\ UNCHANGED <<m_queue, carried, held>>
    BY <1>10 DEF sendFails, awaitFails, loopVars
  <2>2. \A u \in Thread : pc'[u] = "push" => pc[u] = "push"
    BY <2>1, Returns
  <2> QED BY <1>2, <2>1, <2>2
<1>11. ASSUME NEW t \in Thread, sendAsserts(t) PROVE Kept'
  BY <1>2, <1>11 DEF sendAsserts, threadVars, loopVars
<1>12. ASSUME NEW t \in Thread, await(t) PROVE Kept'
  <2>1. UNCHANGED <<m_queue, held>>
    BY <1>12 DEF await, loopVars
  <2>2. CASE return(t) /\ UNCHANGED carried
    <3>1. \A u \in Thread : pc'[u] = "push" => pc[u] = "push"
      BY <2>2, Returns
    <3> QED BY <1>2, <2>1, <2>2, <3>1
  <2>3. CASE UNCHANGED <<pc, carried>>
    BY <1>2, <2>1, <2>3
  <2> QED BY <1>3, <1>12, <2>2, <2>3 DEF await
<1>13. ASSUME NEW t \in Thread, onCongestionDetected(t) PROVE Kept'
  BY <1>3, <1>13 DEF onCongestionDetected
<1>14. CASE watch \/ readIndicator \/ handlerReturns \/ dispatchQueuedMessages
  <2>1. UNCHANGED carried /\ \A t \in Thread : pc'[t] = "push" => pc[t] = "push"
    BY <1>1, <1>14 DEF watch, readIndicator, handlerReturns, dispatchQueuedMessages
  <2>2. /\ m_queue' = m_queue \/ (m_queue # <<>> /\ m_queue' = Tail(m_queue))
        /\ held' \in {held, NULL}
    BY <1>14 DEF watch, readIndicator, handlerReturns, dispatchQueuedMessages, pop,
       connectionVars, loopVars
  <2> QED BY <1>2, <2>1, <2>2
<1>15. CASE readIncomingMessages
  <2>1. UNCHANGED <<carried, m_queue>> /\ \A t \in Thread : pc'[t] = "push" => pc[t] = "push"
    BY <1>1, <1>15 DEF readIncomingMessages, connectionVars
  <2>2. CASE UNCHANGED held
    BY <1>2, <2>1, <2>2
  <2>3. CASE socket # <<>> /\ held' = Head(socket)
    <3>1. ~Waiting(dataReceptionMutex)
      BY <1>15 DEF readIncomingMessages, Waiting
    <3>2. held' \in Message /\ held'.to = NULL
      BY <2>3, <3>1, Taken, NoAnswerForOthers, SMT DEF Answers
    <3> QED BY <1>2, <2>1, <3>2
  <2> QED BY <1>15, <2>2, <2>3 DEF readIncomingMessages
<1> QED
  BY <1>4, <1>5, <1>6, <1>7, <1>8, <1>9, <1>10, <1>11, <1>12, <1>13, <1>14, <1>15
  DEF Next, InCall, MainLoop

-----------------------------------------------------------------------------
\* The invariant holds at the start.
LEMMA Initially == ASSUME Init PROVE IInv
<1> USE ThreadAssumption, RequestIDsAssumption
    DEF ThreadAssumption, RequestIDsAssumption, Init
<1>1. TypeOK
  BY SMT DEF TypeOK, Places
<1>2. Threads
  BY DEF Threads, Discipline, Owner
<1>3. RequestsAreAwaited /\ AnswersAreAwaited /\ OneAtATime /\ Daemon
  BY SMT DEF RequestsAreAwaited, AnswersAreAwaited, OneAtATime, Daemon
<1>4. Kept
  BY SMT DEF Kept, AnswerIsNotStolen, Range
<1> QED BY <1>1, <1>2, <1>3, <1>4 DEF IInv

\* Every step keeps it while the counter has not come back to 0.
LEMMA Inductive == ASSUME IInv, NotWrapped, [Next]_vars PROVE IInv'
<1>1. CASE Next
  BY <1>1, TypeStep, ThreadsStep, UnderwayStep, KeptStep DEF IInv, Underway
<1>2. CASE UNCHANGED vars
  <2>1. UNCHANGED <<daemonAlive, toDaemon, socket, sent, pc, call, back, requestID, carried,
                    resume, dataReceptionMutex, m_queue, nextAvailableRequestID, held>>
    BY <1>2 DEF vars, daemonVars, threadVars, connectionVars, loopVars
  <2>2. TypeOK'
    BY <2>1 DEF IInv, TypeOK
  <2>3. Threads'
    BY <2>1 DEF IInv, Threads, Discipline, Owner
  <2>4. RequestsAreAwaited' /\ AnswersAreAwaited'
    BY <2>1 DEF IInv, RequestsAreAwaited, AnswersAreAwaited, Asks, Answers, Waiting
  <2>5. OneAtATime' /\ Daemon'
    BY <2>1 DEF IInv, OneAtATime, Asks, Answers, Daemon
  <2>6. Kept'
    BY <2>1 DEF IInv, Kept, AnswerIsNotStolen
  <2> QED BY <2>2, <2>3, <2>4, <2>5, <2>6 DEF IInv
<1> QED BY <1>1, <1>2

\* The answer to writeRequest or sendMessageBlocking is read by the thread that
\* made the call, whatever the other threads send, read and queue in between:
\* readIncomingMessages and enqueueIncomingMessages take an answer from nobody.
\* It holds as long as nextAvailableRequestID has not come back to 0, the ID of
\* the messages that answer nothing.
THEOREM AnswersReachTheirCaller == Spec /\ []NotWrapped => []AnswerIsNotStolen
<1>1. Init => IInv
  BY Initially
<1>2. IInv /\ NotWrapped /\ [Next]_vars => IInv'
  BY Inductive
<1>3. IInv => AnswerIsNotStolen
  BY DEF IInv, Kept
<1> QED BY <1>1, <1>2, <1>3, PTL DEF Spec
=============================================================================
