------------------------------ MODULE ClientLib ------------------------------
(***************************************************************************)
(* ClientDaemonConnection of the client library: the connection of an      *)
(* application to the daemon, shared by the thread that runs the main loop *)
(* and by other threads that make calls.                                   *)
(*                                                                         *)
(* A thread that waits for an answer reads every message that comes first  *)
(* and puts it in m_queue for the main loop; a pipe wakes the main loop.   *)
(* Two recursive mutexes guard the two directions of the socket.  A step   *)
(* of the model is what a thread does between two points where another     *)
(* thread can take effect: acquiring a mutex, the socket, m_queue, the     *)
(* pipe.  Messages are read whole; MessageStream models their bytes.       *)
(***************************************************************************)
EXTENDS Naturals, Sequences, Functions

CONSTANTS
  Thread,           \* threads of the application
  Main,             \* the thread that runs the main loop
  NULL,             \* nullptr, no message, no owner of a mutex
  Calls,            \* calls the application makes
  NestedCalls,      \* do message handlers of the application make calls?
  DaemonMayStop,    \* may the daemon stop?
  RequestIDs,       \* number of values of the type IPCRequestID
  FirstRequestID,   \* initial value of nextAvailableRequestID
  SocketCapacity,   \* messages the socket to the daemon takes
  PipeCapacity,     \* bytes the pipe takes
  MaxSent,          \* bound: messages the daemon sends of its own accord
  MaxCalls          \* bound: calls

ASSUME ThreadAssumption == Main \in Thread /\ NULL \notin Thread
ASSUME CallsAssumption ==
  Calls \subseteq {"writeRequest", "sendMessageBlocking", "sendMessage"}
ASSUME RequestIDsAssumption ==
  RequestIDs \in Nat \ {0} /\ FirstRequestID \in 0 .. RequestIDs - 1

VARIABLES
  daemonAlive,
  toDaemon,             \* messages the daemon has not read
  socket,               \* messages the application has not read
  sent,                 \* messages the daemon sent of its own accord
  registered            \* is the service registered in the daemon?

daemonVars == <<daemonAlive, toDaemon, socket, sent, registered>>

VARIABLES
  pc,                   \* what each thread does next
  call,                 \* the call a thread is in
  back,                 \* where the call returns to
  requestID,            \* IPC request ID of the last request of a thread
  carried,              \* a message a thread has read, about to push
  resume,               \* what a thread does once it has pushed
  calls                 \* calls made

threadVars == <<pc, call, back, requestID, carried, resume, calls>>

VARIABLES
  dataEmissionMutex,    \* owner, or NULL
  dataReceptionMutex,   \* owner, or NULL
  m_queue,              \* messages to be dispatched by the main loop
  pipe,                 \* bytes in m_queuedMessageIndicatorPipe
  nextAvailableRequestID,
  connected,            \* is the file descriptor of the socket open?
  aborted               \* an assertion has failed

connectionVars == <<dataEmissionMutex, dataReceptionMutex, m_queue, pipe,
                    nextAvailableRequestID, connected, aborted>>

VARIABLES
  from,                 \* who called dispatchQueuedMessages
  held,                 \* a message read by readIncomingMessages, not handled
  handled,              \* the daemon's messages, in the order of handling
  m_availableServices,  \* entries of the ServiceRegistry for the service
  undefinedErase,       \* the ServiceRegistry erased end()
  reported              \* the listener's onDisconnected was called

loopVars == <<from, held, handled, m_availableServices, undefinedErase,
              reported>>

vars == <<daemonVars, threadVars, connectionVars, loopVars>>

\* A message from the daemon: its IPC request ID (0 unless it answers an IPC
\* request), the thread whose call it answers, and its number among those
\* the daemon sends of its own accord.
Message == [kind : {"SEND_MESSAGE", "ANSWER", "SERVICES_REGISTERED",
                    "SERVICES_UNREGISTERED"},
            id : 0 .. RequestIDs - 1, to : Thread \cup {NULL}, number : Nat]

\* A message to the daemon: the call of a thread, and its IPC request ID.
Request == [call : Calls, thread : Thread, id : 0 .. RequestIDs - 1]

-----------------------------------------------------------------------------
\* IPCInputMessage::isResponseOf
isResponseOf(m, t) == m.id = requestID[t]

\* InputMessage::isAnswerTo: the SOME/IP request ID of a blocking message
\* identifies the call.
isAnswerTo(m, t) == m.kind = "SEND_MESSAGE" /\ m.to = t

Init ==
  /\ daemonAlive = TRUE
  /\ toDaemon = <<>>
  /\ socket = <<>>
  /\ sent = 0
  /\ registered = FALSE
  /\ pc = [t \in Thread |-> "idle"]
  /\ call = [t \in Thread |-> NULL]
  /\ back = [t \in Thread |-> "idle"]
  /\ requestID = [t \in Thread |-> 0]
  /\ carried = [t \in Thread |-> NULL]
  /\ resume = [t \in Thread |-> "idle"]
  /\ calls = 0
  /\ dataEmissionMutex = NULL
  /\ dataReceptionMutex = NULL
  /\ m_queue = <<>>
  /\ pipe = 0
  /\ nextAvailableRequestID = FirstRequestID
  /\ connected = TRUE
  /\ aborted = FALSE
  /\ from = "start"
  /\ held = NULL
  /\ handled = <<>>
  /\ m_availableServices = 0
  /\ undefinedErase = FALSE
  /\ reported = FALSE
-----------------------------------------------------------------------------
\* The daemon (external): it sends messages of its own accord, reads what the
\* application sends, answers requests and blocking messages, and may stop.

daemonSends(kind) ==
  /\ daemonAlive
  /\ sent < MaxSent
  /\ kind = "SERVICES_REGISTERED" => ~registered
  /\ kind = "SERVICES_UNREGISTERED" => registered
  /\ sent' = sent + 1
  /\ registered' = (kind = "SERVICES_REGISTERED" \/
                    (kind = "SEND_MESSAGE" /\ registered))
  /\ socket' = Append(socket, [kind |-> kind, id |-> 0, to |-> NULL,
                               number |-> sent + 1])
  /\ UNCHANGED <<daemonAlive, toDaemon, threadVars, connectionVars, loopVars>>

daemonReads ==
  /\ daemonAlive
  /\ toDaemon # <<>>
  /\ toDaemon' = Tail(toDaemon)
  /\ LET r == Head(toDaemon)
         answer == [kind |-> IF r.call = "writeRequest" THEN "ANSWER"
                             ELSE "SEND_MESSAGE",
                    id |-> r.id, to |-> r.thread, number |-> 0]
     IN socket' = IF r.call = "sendMessage" THEN socket
                  ELSE Append(socket, answer)
  /\ UNCHANGED <<daemonAlive, sent, registered, threadVars, connectionVars,
                 loopVars>>

daemonStops ==
  /\ DaemonMayStop
  /\ daemonAlive
  /\ daemonAlive' = FALSE
  /\ toDaemon' = <<>>
  /\ UNCHANGED <<socket, sent, registered, threadVars, connectionVars,
                 loopVars>>

-----------------------------------------------------------------------------
\* What a call does.  writeRequest takes both mutexes, emission first, and
\* keeps them until the answer is there; sendMessageBlocking keeps the
\* reception mutex and takes the emission mutex in writeMessage only;
\* sendMessage takes the emission mutex.

startCall(t, k) ==
  /\ ~aborted
  /\ connected
  /\ calls < MaxCalls
  /\ pc[t] = "idle" \/ (NestedCalls /\ pc[t] = "handler")
  /\ calls' = calls + 1
  /\ call' = [call EXCEPT ![t] = k]
  /\ back' = [back EXCEPT ![t] = pc[t]]
  /\ pc' = [pc EXCEPT ![t] = IF k = "sendMessageBlocking"
                             THEN "receptionLock" ELSE "emissionLock"]
  /\ UNCHANGED <<daemonVars, requestID, carried, resume, connectionVars,
                 loopVars>>

\* MUTANT: the emission mutex is not released.
returnKeepingEmission(t) ==
  /\ pc' = [pc EXCEPT ![t] = back[t]]
  /\ call' = [call EXCEPT ![t] = NULL]
  /\ dataReceptionMutex' = IF dataReceptionMutex = t THEN NULL
                           ELSE dataReceptionMutex
  /\ UNCHANGED dataEmissionMutex

\* The call of t returns and releases its mutexes.
return(t) ==
  /\ pc' = [pc EXCEPT ![t] = back[t]]
  /\ call' = [call EXCEPT ![t] = NULL]
  /\ dataEmissionMutex' = IF dataEmissionMutex = t THEN NULL
                          ELSE dataEmissionMutex
  /\ dataReceptionMutex' = IF dataReceptionMutex = t THEN NULL
                           ELSE dataReceptionMutex

\* MUTANT: writeRequest does not keep other threads from reading.
lockEmissionOnly(t) ==
  /\ dataEmissionMutex' = t
  /\ requestID' = [requestID EXCEPT ![t] = nextAvailableRequestID]
  /\ nextAvailableRequestID' = (nextAvailableRequestID + 1) % RequestIDs
  /\ pc' = [pc EXCEPT ![t] = "send"]

takeEmission(t) ==
  /\ dataEmissionMutex' = t
  /\ pc' = [pc EXCEPT ![t] = IF call[t] = "writeRequest"
                             THEN "receptionLock" ELSE "send"]
  /\ UNCHANGED <<requestID, nextAvailableRequestID>>

lockEmission(t) ==
  /\ ~aborted
  /\ pc[t] = "emissionLock"
  /\ dataEmissionMutex = NULL
  /\ takeEmission(t)
  /\ UNCHANGED <<daemonVars, call, back, carried, resume, calls,
                 dataReceptionMutex, m_queue, pipe, connected, aborted,
                 loopVars>>

\* writeRequest has both mutexes now and assigns the request its ID.
lockReception(t) ==
  /\ ~aborted
  /\ pc[t] = "receptionLock"
  /\ dataReceptionMutex = NULL
  /\ dataReceptionMutex' = t
  /\ IF call[t] = "writeRequest"
     THEN /\ requestID' = [requestID EXCEPT ![t] = nextAvailableRequestID]
          /\ nextAvailableRequestID' = (nextAvailableRequestID + 1) % RequestIDs
          /\ pc' = [pc EXCEPT ![t] = "send"]
     ELSE /\ pc' = [pc EXCEPT ![t] = "emissionLock"]
          /\ UNCHANGED <<requestID, nextAvailableRequestID>>
  /\ UNCHANGED <<daemonVars, call, back, carried, resume, calls,
                 dataEmissionMutex, m_queue, pipe, connected, aborted,
                 loopVars>>

\* UDSConnection::writeBlocking: there is room in the socket.
send(t) ==
  /\ ~aborted
  /\ pc[t] = "send"
  /\ connected
  /\ daemonAlive
  /\ Len(toDaemon) < SocketCapacity
  /\ toDaemon' = Append(toDaemon,
                        [call |-> call[t], thread |-> t,
                         id |-> IF call[t] = "writeRequest"
                                THEN requestID[t] ELSE 0])
  /\ CASE call[t] = "writeRequest" ->
            /\ pc' = [pc EXCEPT ![t] = "await"]
            /\ UNCHANGED <<call, dataEmissionMutex, dataReceptionMutex>>
       [] call[t] = "sendMessageBlocking" ->
            /\ pc' = [pc EXCEPT ![t] = "await"]
            /\ dataEmissionMutex' = NULL
            /\ UNCHANGED <<call, dataReceptionMutex>>
       [] OTHER -> return(t)
  /\ UNCHANGED <<daemonAlive, socket, sent, registered, back, requestID,
                 carried, resume, calls, m_queue, pipe,
                 nextAvailableRequestID, connected, aborted, loopVars>>
\* SocketStreamConnection::writeBytesBlocking without a peer: disconnect()
\* closes the descriptor and calls onDisconnected.  The calls ignore the
\* error, find the descriptor closed when they read, and return.
sendFails(t) ==
  /\ ~aborted
  /\ pc[t] = "send"
  /\ connected
  /\ ~daemonAlive
  /\ connected' = FALSE
  /\ reported' = TRUE
  /\ return(t)
  /\ UNCHANGED <<daemonVars, back, requestID, carried, resume, calls, m_queue,
                 pipe, nextAvailableRequestID, aborted, from, held, handled,
                 m_availableServices, undefinedErase>>

\* writeBytesBlocking asserts that the descriptor is open.
sendAsserts(t) ==
  /\ ~aborted
  /\ pc[t] = "send"
  /\ ~connected
  /\ aborted' = TRUE
  /\ UNCHANGED <<daemonVars, threadVars, dataEmissionMutex,
                 dataReceptionMutex, m_queue, pipe, nextAvailableRequestID,
                 connected, loopVars>>

\* onCongestionDetected with enqueueIncomingMessages: while the socket to the
\* daemon is full the caller reads what the daemon sends.
onCongestionDetected(t) ==
  /\ ~aborted
  /\ pc[t] = "send"
  /\ connected
  /\ Len(toDaemon) = SocketCapacity
  /\ socket # <<>>
  /\ dataReceptionMutex \in {NULL, t}
  /\ socket' = Tail(socket)
  /\ carried' = [carried EXCEPT ![t] = Head(socket)]
  /\ resume' = [resume EXCEPT ![t] = "send"]
  /\ pc' = [pc EXCEPT ![t] = "push"]
  /\ UNCHANGED <<daemonAlive, toDaemon, sent, registered, call, back,
                 requestID, calls, connectionVars, loopVars>>

\* readIncomingMessagesBlocking takes the next message.  writeRequest and
\* waitForAnswer return on the answer and push other messages; waitForAnswer
\* drops what is not a SEND_MESSAGE.
await(t) ==
  LET m == Head(socket) IN
  /\ ~aborted
  /\ pc[t] = "await"
  /\ socket # <<>>
  /\ socket' = Tail(socket)
  /\ \/ /\ IF call[t] = "writeRequest" THEN isResponseOf(m, t)
                                       ELSE isAnswerTo(m, t)
        /\ return(t)
        /\ UNCHANGED <<carried, resume>>
     \/ /\ IF call[t] = "writeRequest" THEN ~isResponseOf(m, t)
           ELSE m.kind = "SEND_MESSAGE" /\ ~isAnswerTo(m, t)
        /\ carried' = [carried EXCEPT ![t] = m]
        /\ resume' = [resume EXCEPT ![t] = "await"]
        /\ pc' = [pc EXCEPT ![t] = "push"]
        /\ UNCHANGED <<call, dataEmissionMutex, dataReceptionMutex>>
     \/ /\ call[t] = "sendMessageBlocking"
        /\ m.kind # "SEND_MESSAGE"
        /\ UNCHANGED <<pc, call, carried, resume, dataEmissionMutex,
                       dataReceptionMutex>>
  /\ UNCHANGED <<daemonAlive, toDaemon, sent, registered, back, requestID,
                 calls, m_queue, pipe, nextAvailableRequestID, connected,
                 aborted, loopVars>>

\* The end of the stream: IPCBufferReader::read reports DISCONNECTED and the
\* call returns an error.
awaitFails(t) ==
  /\ ~aborted
  /\ pc[t] = "await"
  /\ socket = <<>>
  /\ ~daemonAlive
  /\ return(t)
  /\ UNCHANGED <<daemonVars, back, requestID, carried, resume, calls, m_queue,
                 pipe, nextAvailableRequestID, connected, aborted, loopVars>>

\* MUTANT: the pipe is written before the message is in the queue.
pushToQueueAfterSignal(t) ==
  \/ /\ pc[t] = "push"
     /\ pipe < PipeCapacity
     /\ pipe' = pipe + 1
     /\ pc' = [pc EXCEPT ![t] = "signal"]
     /\ UNCHANGED <<m_queue, carried>>
  \/ /\ pc[t] = "signal"
     /\ m_queue' = Append(m_queue, carried[t])
     /\ carried' = [carried EXCEPT ![t] = NULL]
     /\ pc' = [pc EXCEPT ![t] = resume[t]]
     /\ UNCHANGED pipe

\* ClientDaemonConnection::pushToQueue, in its two steps: the message is
\* queued, then a byte is written to the pipe, which blocks when it is full.
pushToQueue(t) ==
  \/ /\ pc[t] = "push"
     /\ m_queue' = Append(m_queue, carried[t])
     /\ carried' = [carried EXCEPT ![t] = NULL]
     /\ pc' = [pc EXCEPT ![t] = "signal"]
     /\ UNCHANGED pipe
  \/ /\ pc[t] = "signal"
     /\ pipe < PipeCapacity
     /\ pipe' = pipe + 1
     /\ pc' = [pc EXCEPT ![t] = resume[t]]
     /\ UNCHANGED <<m_queue, carried>>

push(t) ==
  /\ ~aborted
  /\ pushToQueue(t)
  /\ UNCHANGED <<daemonVars, call, back, requestID, resume, calls,
                 dataEmissionMutex, dataReceptionMutex,
                 nextAvailableRequestID, connected, aborted, loopVars>>

-----------------------------------------------------------------------------
\* The main loop.

\* m_inputDataWatch calls dispatchIncomingMessages and
\* m_bufferedMessagesWatch dispatchQueuedMessages.  The descriptor of the
\* socket is readable at the end of the stream, too.
watch ==
  /\ ~aborted
  /\ pc[Main] = "idle"
  /\ \/ connected /\ (socket # <<>> \/ ~daemonAlive) /\ from' = "start"
     \/ pipe > 0 /\ from' = "watch"
  /\ pc' = [pc EXCEPT ![Main] = "indicator"]
  /\ UNCHANGED <<daemonVars, call, back, requestID, carried, resume, calls,
                 connectionVars, held, handled, m_availableServices,
                 undefinedErase, reported>>

\* The pipe is read without blocking.
readPipe == pipe' = IF pipe > 0 THEN pipe - 1 ELSE 0

\* dispatchQueuedMessages starts by reading a byte from the pipe.
readIndicator ==
  /\ ~aborted
  /\ pc[Main] = "indicator"
  /\ readPipe
  /\ pc' = [pc EXCEPT ![Main] = "pop"]
  /\ UNCHANGED <<daemonVars, call, back, requestID, carried, resume, calls,
                 dataEmissionMutex, dataReceptionMutex, m_queue,
                 nextAvailableRequestID, connected, aborted, loopVars>>

\* handleConstIncomingIPCMessage: the ServiceRegistry is updated; other
\* messages go to the application.  Erasing a service that is not listed
\* erases end().
handleConstIncomingIPCMessage(m) ==
  /\ handled' = IF m.number = 0 THEN handled ELSE Append(handled, m.number)
  /\ m_availableServices' =
       CASE m.kind = "SERVICES_REGISTERED" -> m_availableServices + 1
         [] m.kind = "SERVICES_UNREGISTERED" /\ m_availableServices > 0 ->
              m_availableServices - 1
         [] OTHER -> m_availableServices
  /\ undefinedErase' = (undefinedErase \/
                        (m.kind = "SERVICES_UNREGISTERED" /\
                         m_availableServices = 0))

\* SafeMessageQueue::pop and the handling of the message.
pop ==
  /\ handleConstIncomingIPCMessage(Head(m_queue))
  /\ m_queue' = Tail(m_queue)

\* dispatchQueuedMessages, one turn of its loop.  Once the queue is empty,
\* dispatchIncomingMessages goes on to read the socket, onIPCInputMessage
\* handles the message it was called for, and the watch returns.
dispatchQueuedMessages ==
  /\ ~aborted
  /\ pc[Main] = "pop"
  /\ dataReceptionMutex = NULL
  /\ \/ /\ m_queue # <<>>
        /\ pop
        /\ pc' = [pc EXCEPT ![Main] = "handler"]
        /\ UNCHANGED held
     \/ /\ m_queue = <<>>
        /\ from = "message"
        /\ handleConstIncomingIPCMessage(held)
        /\ held' = NULL
        /\ pc' = [pc EXCEPT ![Main] = "handler"]
        /\ UNCHANGED m_queue
     \/ /\ m_queue = <<>>
        /\ from # "message"
        /\ pc' = [pc EXCEPT ![Main] = IF from = "start" THEN "read" ELSE "idle"]
        /\ UNCHANGED <<m_queue, held, handled, m_availableServices,
                       undefinedErase>>
  /\ UNCHANGED <<daemonVars, call, back, requestID, carried, resume, calls,
                 dataEmissionMutex, dataReceptionMutex, pipe,
                 nextAvailableRequestID, connected, aborted, from, reported>>

\* The application's handler of a message returns.
handlerReturns ==
  /\ ~aborted
  /\ pc[Main] = "handler"
  /\ pc' = [pc EXCEPT ![Main] = IF from = "message" /\ held = NULL
                                THEN "read" ELSE "pop"]
  /\ UNCHANGED <<daemonVars, call, back, requestID, carried, resume, calls,
                 connectionVars, loopVars>>

\* readIncomingMessages, one turn of its loop: a message that was read waits
\* in onIPCInputMessage until the queue has been dispatched.
readIncomingMessages ==
  /\ ~aborted
  /\ pc[Main] = "read"
  /\ dataReceptionMutex = NULL
  /\ \/ /\ connected
        /\ socket # <<>>
        /\ socket' = Tail(socket)
        /\ held' = Head(socket)
        /\ from' = "message"
        /\ pc' = [pc EXCEPT ![Main] = "indicator"]
     \/ /\ ~connected \/ socket = <<>>
        /\ pc' = [pc EXCEPT ![Main] = "idle"]
        /\ UNCHANGED <<socket, held, from>>
  /\ UNCHANGED <<daemonAlive, toDaemon, sent, registered, call, back,
                 requestID, carried, resume, calls, connectionVars, handled,
                 m_availableServices, undefinedErase, reported>>

-----------------------------------------------------------------------------
MainLoop ==
  \/ watch
  \/ readIndicator
  \/ dispatchQueuedMessages
  \/ handlerReturns
  \/ readIncomingMessages

InCall(t) ==
  \/ lockEmission(t)
  \/ lockReception(t)
  \/ send(t)
  \/ sendFails(t)
  \/ sendAsserts(t)
  \/ onCongestionDetected(t)
  \/ await(t)
  \/ awaitFails(t)
  \/ push(t)

Next ==
  \/ \E kind \in {"SEND_MESSAGE", "SERVICES_REGISTERED",
                  "SERVICES_UNREGISTERED"} : daemonSends(kind)
  \/ daemonReads
  \/ daemonStops
  \/ \E t \in Thread : (\E k \in Calls : startCall(t, k)) \/ InCall(t)
  \/ MainLoop

\* The threads are scheduled, handlers return, and the daemon's main loop
\* serves the connection as long as the daemon runs.
Fairness ==
  /\ WF_vars(daemonReads)
  /\ WF_vars(MainLoop)
  /\ \A t \in Thread : WF_vars(InCall(t))

Spec == Init /\ [][Next]_vars /\ Fairness

-----------------------------------------------------------------------------
Places ==
  {"idle", "indicator", "pop", "handler", "read", "emissionLock",
   "receptionLock", "send", "await", "push", "signal"}

TypeOK ==
  /\ toDaemon \in Seq(Request)
  /\ socket \in Seq(Message)
  /\ m_queue \in Seq(Message)
  /\ sent \in Nat
  /\ pc \in [Thread -> Places]
  /\ call \in [Thread -> Calls \cup {NULL}]
  /\ back \in [Thread -> {"idle", "handler"}]
  /\ requestID \in [Thread -> 0 .. RequestIDs - 1]
  /\ carried \in [Thread -> Message \cup {NULL}]
  /\ resume \in [Thread -> {"idle", "send", "await"}]
  /\ dataReceptionMutex \in Thread \cup {NULL}
  /\ nextAvailableRequestID \in 0 .. RequestIDs - 1
  /\ held \in Message \cup {NULL}

\* The answer to a blocking call is read by the thread that made the call:
\* no other thread ever takes it, neither for m_queue nor for the main loop.
AnswerIsNotStolen ==
  /\ \A m \in Range(m_queue) : m.to = NULL
  /\ \A t \in Thread : carried[t] # NULL => carried[t].to = NULL
  /\ held # NULL => held.to = NULL

\* Where the messages of the daemon are on their way to the application.
underway ==
  {m.number : m \in Range(socket) \cup Range(m_queue)}
    \cup {carried[t].number : t \in {u \in Thread : carried[u] # NULL}}
    \cup (IF held = NULL THEN {} ELSE {held.number})

\* The application handles the daemon's messages in the order they were sent.
HandledInOrder ==
  \A i, j \in 1 .. Len(handled) : i < j => handled[i] < handled[j]

\* When nothing is on its way, the ServiceRegistry lists the service if and
\* only if the daemon has it registered, and it never erased end().
RegistryIsAccurate ==
  /\ ~undefinedErase
  /\ underway \ {0} = {} /\ connected =>
       m_availableServices = IF registered THEN 1 ELSE 0

\* A call returns, whatever the daemon and the other threads do.
CallsReturn ==
  \A t \in Thread : call[t] # NULL ~> (call[t] = NULL \/ aborted)

\* A writeRequest and a sendMessageBlocking, which take the mutexes in opposite
\* orders, are under way at the same time.
lockOrdersMeet ==
  \E t, u \in Thread : call[t] = "writeRequest" /\ call[u] = "sendMessageBlocking"

\* A call returns, whatever the daemon and the other threads do, unless the
\* two lock orders meet.
CallsReturnUnlessOrdersMeet ==
  \A t \in Thread :
    call[t] # NULL ~> (call[t] = NULL \/ aborted \/ lockOrdersMeet)

\* Each message of the daemon is handled, unless the connection is lost or a
\* sendMessageBlocking, which drops some of them, comes in between.
EverythingIsHandled ==
  \A n \in 1 .. MaxSent :
    n \in underway ~> \/ n \in Range(handled)
                      \/ ~connected \/ aborted
                      \/ \E t \in Thread : call[t] = "sendMessageBlocking"

\* The application is told when the connection to the daemon is lost.
LossIsReported == ~daemonAlive ~> (reported \/ aborted)

=============================================================================
