------------------------- MODULE ReentrantDispatcher -------------------------
(***************************************************************************)
(* The dispatcher when writes fail.  A write to a client whose application *)
(* has gone fails with EPIPE and disconnects the client on the spot, in    *)
(* the middle of the handler that wrote: the client leaves the vectors the *)
(* handler may be iterating over, and its services are unregistered, which *)
(* writes to the other clients in turn.                                    *)
(*                                                                         *)
(* The daemon is one record that the functions of lib/Dispatcher,          *)
(* lib/Client and daemon/LocalClient map to the next one.  A handler is    *)
(* one action.  A std::vector that is modified while it is iterated over   *)
(* is a memory area with a size: erase() moves the elements behind the     *)
(* erased one down and leaves the last slot as it was.                     *)
(***************************************************************************)
EXTENDS Integers, Sequences, FiniteSets, SequencesExt

CONSTANTS
  Client,            \* LocalClient objects
  ServiceID,         \* ServiceIDs
  Member,            \* notifications one can subscribe to
  Reregister,        \* may an application register a service it has already?
  MaxServices,       \* bound: Service objects allocated
  MaxRegistrations,  \* bound: entries of m_registeredServices of a client
  MaxSubscriptions,  \* bound: entries of m_subscribedNotifications of a client
  EarlyExit,         \* may an application go before the daemon accepts it?
  MaxHungUp          \* bound: applications that go away

ASSUME FlagsAssumption == Reregister \in BOOLEAN /\ EarlyExit \in BOOLEAN

VARIABLES
  d,       \* the daemon
  hungUp   \* clients whose application has closed its end

vars == <<d, hungUp>>

-----------------------------------------------------------------------------
\* std::vector while it may be iterated over.
emptyVector == [mem |-> <<>>, size |-> 0]
elements(v) == SubSeq(v.mem, 1, v.size)
push_back(v, e) == [mem |-> Append(elements(v), e), size |-> v.size + 1]
erase(v, i) == [mem |-> [j \in DOMAIN v.mem |->
                           IF j \in i .. v.size - 1 THEN v.mem[j + 1]
                                                    ELSE v.mem[j]],
                size |-> v.size - 1]
\* removeFromVector, Notification::unsubscribe: the first occurrence goes.
removeFromVector(v, e) ==
  IF \E i \in 1 .. v.size : v.mem[i] = e
  THEN erase(v, CHOOSE i \in 1 .. v.size :
                  v.mem[i] = e /\ \A j \in 1 .. i - 1 : v.mem[j] # e)
  ELSE v

\* Between two handlers nothing iterates: the slots behind the end are free.
settle(dd) ==
  [dd EXCEPT !.m_listeners = [mem |-> elements(@), size |-> @.size],
             !.m_subscribedClients =
                [m \in Member |-> [mem |-> elements(@[m]), size |-> @[m].size]]]

servicesFor(dd, sid) == {s \in dd.m_services : s.serviceID = sid}

-----------------------------------------------------------------------------
RECURSIVE writeNonBlocking(_, _, _), onDisconnected(_, _),
          unregisterAll(_, _, _), unregisterService(_, _),
          notifyUnregistered(_, _, _)

\* The application reads what was written to it; SERVICES_REGISTERED and
\* SERVICES_UNREGISTERED update its ServiceRegistry.
deliver(dd, c, msg) ==
  CASE msg.type = "SERVICES_REGISTERED" ->
         [dd EXCEPT !.m_availableServices[c][msg.sid] = @ + 1]
    [] msg.type = "SERVICES_UNREGISTERED" ->
         [dd EXCEPT !.m_availableServices[c][msg.sid] = @ - 1]
    [] OTHER -> dd

\* UDSConnection::writeNonBlocking with the assertion of
\* SocketStreamConnection::writeBytesNonBlocking and its EPIPE branch.
writeNonBlocking(dd, c, msg) ==
  IF dd.aborted THEN dd
  ELSE IF ~dd.connected[c] THEN [dd EXCEPT !.aborted = TRUE]
  ELSE IF c \in hungUp
       THEN onDisconnected([dd EXCEPT !.connected[c] = FALSE], c)
       ELSE deliver(dd, c, msg)

\* LocalClient::onServiceRegistered / onServiceUnregistered
onServiceChange(dd, c, type, sid) ==
  IF dd.connected[c]
  THEN writeNonBlocking(dd, c, [type |-> type, sid |-> sid])
  ELSE dd

\* The reverse loop of Dispatcher::unregisterService, at the i-th listener.
notifyUnregistered(dd, i, sid) ==
  IF i = 0 \/ dd.aborted THEN dd
  ELSE notifyUnregistered(
         onServiceChange(dd, dd.m_listeners.mem[i],
                         "SERVICES_UNREGISTERED", sid), i - 1, sid)

\* Dispatcher::unregisterService
unregisterService(dd, service) ==
  notifyUnregistered([dd EXCEPT !.m_services = @ \ {service}],
                     dd.m_listeners.size, service.serviceID)

\* The loop of Client::unregisterClient over m_registeredServices.
unregisterAll(dd, c, i) ==
  IF i > Len(dd.m_registeredServices[c]) \/ dd.aborted THEN dd
  ELSE unregisterAll(unregisterService(dd, dd.m_registeredServices[c][i]),
                     c, i + 1)

\* MUTANT: a client that subscribed twice is unsubscribed once.
unsubscribeOnce(dd, c) ==
  [dd EXCEPT !.m_subscribedClients =
     [m \in Member |-> removeFromVector(@[m], c)]]

\* Client::unregisterClient: subscriptions, services, then
\* Dispatcher::onClientDisconnected.
unsubscribeAll(dd, c) ==
  [dd EXCEPT !.m_subscribedClients =
     [m \in Member |->
        FoldLeft(LAMBDA v, n : IF n = m THEN removeFromVector(v, c) ELSE v,
                 @[m], dd.m_subscribedNotifications[c])]]

onClientDisconnected(dd, c) ==
  IF dd.aborted THEN dd
  ELSE IF dd.deleteLater[c] THEN [dd EXCEPT !.aborted = TRUE]
  ELSE [dd EXCEPT !.deleteLater[c] = TRUE, !.registered[c] = FALSE]

unregisterClient(dd, c) ==
  IF dd.registered[c]
  THEN onClientDisconnected(unregisterAll(unsubscribeAll(dd, c), c, 1), c)
  ELSE dd

\* LocalClient::onDisconnected
onDisconnected(dd, c) ==
  unregisterClient(
    [dd EXCEPT !.m_listeners = removeFromVector(@, c)], c)

\* The forward loop of Dispatcher::registerService over the listeners; "end"
\* is the end() taken before the loop.
RECURSIVE notifyRegistered(_, _, _, _)
notifyRegistered(dd, i, end, sid) ==
  IF i > end \/ dd.aborted THEN dd
  ELSE notifyRegistered(
         onServiceChange(dd, dd.m_listeners.mem[i],
                         "SERVICES_REGISTERED", sid), i + 1, end, sid)

\* The loop of Notification::sendMessageToSubscribedClients.
RECURSIVE sendMessageToSubscribedClients(_, _, _, _)
sendMessageToSubscribedClients(dd, i, end, m) ==
  IF i > end \/ dd.aborted THEN dd
  ELSE sendMessageToSubscribedClients(
         writeNonBlocking(dd, dd.m_subscribedClients[m].mem[i],
                          [type |-> "SEND_MESSAGE"]), i + 1, end, m)

-----------------------------------------------------------------------------
Init ==
  /\ hungUp = {}
  /\ d = [m_services |-> {},
          m_listeners |-> emptyVector,
          m_subscribedClients |-> [m \in Member |-> emptyVector],
          allocated |-> 0,
          aborted |-> FALSE,
          accepted |-> {},
          deleted |-> {},
          connected |-> [c \in Client |-> FALSE],
          registered |-> [c \in Client |-> FALSE],
          deleteLater |-> [c \in Client |-> FALSE],
          m_registeredServices |-> [c \in Client |-> <<>>],
          m_subscribedNotifications |-> [c \in Client |-> <<>>],
          m_availableServices |-> [c \in Client |-> [sid \in ServiceID |-> 0]]]

\* A handler maps the daemon to "next"; it runs unless the daemon stopped.
handle(next) == ~d.aborted /\ d' = settle(next) /\ UNCHANGED hungUp

\* A message of c that has arrived is read, even if c has closed meanwhile.
canRead(c) == d.connected[c] /\ d.registered[c]

\* LocalServer::createNewClientConnection: sendRegistry writes before the
\* client counts as registered and before it is a listener.
createNewClientConnection(c) ==
  /\ c \notin d.accepted
  /\ LET registry == [sid \in ServiceID |-> Cardinality(servicesFor(d, sid))]
         accepted == [d EXCEPT !.accepted = @ \cup {c},
                               !.connected[c] = TRUE,
                               !.m_availableServices[c] = registry]
         greeted == writeNonBlocking(accepted, c, [type |-> "REGISTRY"])
     IN handle([greeted EXCEPT !.registered[c] = TRUE,
                               !.m_listeners = push_back(@, c)])

\* REGISTER_SERVICE: Dispatcher::tryRegisterService, then the answer.
handleRegister(c, sid) ==
  /\ canRead(c)
  /\ Len(d.m_registeredServices[c]) < MaxRegistrations
  /\ LET answer(dd) == writeNonBlocking(dd, c, [type |-> "ANSWER"])
         list(dd, s) == [dd EXCEPT !.m_registeredServices[c] = Append(@, s)]
         new == [serviceID |-> sid, client |-> c, address |-> d.allocated]
     IN
     \/ /\ servicesFor(d, sid) = {}
        /\ d.allocated < MaxServices
        /\ handle(answer(list(
             notifyRegistered([d EXCEPT !.allocated = @ + 1,
                                        !.m_services = @ \cup {new}],
                              1, d.m_listeners.size, sid), new)))
     \/ \E s \in servicesFor(d, sid) :
          IF s.client = c
          THEN Reregister /\ handle(answer(list(d, s)))
          ELSE handle(answer(d))

\* UNREGISTER_SERVICE: the first entry for sid, then the answer.
handleUnregister(c, sid) ==
  /\ canRead(c)
  /\ LET mine == d.m_registeredServices[c]
         found == {i \in DOMAIN mine : mine[i].serviceID = sid}
         answer(dd) == writeNonBlocking(dd, c, [type |-> "ANSWER"])
     IN
     IF found = {} THEN handle(answer(d))
     ELSE LET i == CHOOSE i \in found : \A j \in found : i <= j
          IN handle(answer(
               [unregisterService(d, mine[i]) EXCEPT
                  !.m_registeredServices[c] = RemoveAt(@, i)]))

\* SUBSCRIBE_NOTIFICATION: no answer is sent.
handleSubscribe(c, m) ==
  /\ canRead(c)
  /\ Len(d.m_subscribedNotifications[c]) < MaxSubscriptions
  /\ handle([d EXCEPT
               !.m_subscribedClients[m] = push_back(@, c),
               !.m_subscribedNotifications[c] = Append(@, m)])

\* SEND_MESSAGE with a notification.
handleNotification(c, m) ==
  /\ canRead(c)
  /\ handle(sendMessageToSubscribedClients(
              d, 1, d.m_subscribedClients[m].size, m))

\* SEND_MESSAGE with a request: to the client of the service, or an error
\* back to the sender.
handleRequest(c, sid) ==
  /\ canRead(c)
  /\ IF servicesFor(d, sid) = {}
     THEN handle(writeNonBlocking(d, c, [type |-> "SEND_MESSAGE"]))
     ELSE \E s \in servicesFor(d, sid) :
            handle(writeNonBlocking(d, s.client, [type |-> "SEND_MESSAGE"]))

\* SEND_MESSAGE with the answer to a request of "to" (Dispatcher::
\* getClientFromId: the clients that have not been disconnected).
handleReply(c, to) ==
  /\ canRead(c)
  /\ to \in d.accepted
  /\ ~d.deleteLater[to]
  /\ to \notin d.deleted
  /\ handle(writeNonBlocking(d, to, [type |-> "SEND_MESSAGE"]))

\* The hang-up watch of the main loop.
handleHangUp(c) ==
  /\ c \in hungUp
  /\ d.connected[c]
  /\ handle(onDisconnected([d EXCEPT !.connected[c] = FALSE], c))

\* Dispatcher::cleanDisconnectedClients
cleanDisconnectedClients ==
  LET dead == {c \in Client : d.deleteLater[c]} IN
  /\ dead # {}
  /\ handle([d EXCEPT
       !.deleted = @ \cup dead,
       !.deleteLater = [c \in Client |-> FALSE],
       !.m_registeredServices =
          [c \in Client |-> IF c \in dead THEN <<>> ELSE @[c]],
       !.m_subscribedNotifications =
          [c \in Client |-> IF c \in dead THEN <<>> ELSE @[c]]])

\* An application exits or is killed, at any time after it has connected;
\* the daemon may not have accepted the connection yet.
applicationGoes(c) ==
  /\ ~d.aborted
  /\ EarlyExit \/ c \in d.accepted
  /\ c \notin hungUp
  /\ Cardinality(hungUp) < MaxHungUp
  /\ hungUp' = hungUp \cup {c}
  /\ UNCHANGED d

Next ==
  \/ \E c \in Client :
       \/ createNewClientConnection(c)
       \/ handleHangUp(c)
       \/ applicationGoes(c)
       \/ \E sid \in ServiceID : \/ handleRegister(c, sid)
                                 \/ handleUnregister(c, sid)
                                 \/ handleRequest(c, sid)
       \/ \E m \in Member : handleSubscribe(c, m) \/ handleNotification(c, m)
       \/ \E to \in Client : handleReply(c, to)
  \/ cleanDisconnectedClients

\* The main loop serves its hang-up watches and the idle callback.
Spec == /\ Init /\ [][Next]_vars
        /\ \A c \in Client : WF_vars(handleHangUp(c))
        /\ WF_vars(cleanDisconnectedClients)

-----------------------------------------------------------------------------
\* "assert(getFileDescriptor() != UNINITIALIZED_FILE_DESCRIPTOR)": the
\* daemon writes to no client it has disconnected.
NoWriteAfterDisconnect == ~d.aborted

\* Between two handlers, no service, subscription or listener refers to a
\* client that was unregistered, whatever writes failed on the way: the
\* idle callback may delete its object.
NoDanglingClient ==
  \A c \in Client : ~d.aborted /\ (d.deleteLater[c] \/ c \in d.deleted) =>
    /\ c \notin ToSet(elements(d.m_listeners))
    /\ \A m \in Member : c \notin ToSet(elements(d.m_subscribedClients[m]))
    /\ \A s \in d.m_services : s.client # c

\* An application that is there has been told of exactly the services that
\* are registered.
RegistryIsAccurate ==
  \A c \in Client : ~d.aborted /\ d.registered[c] /\ c \notin hungUp =>
    \A sid \in ServiceID :
      d.m_availableServices[c][sid] = Cardinality(servicesFor(d, sid))

\* The object of a client whose application has gone is eventually deleted,
\* unless an assertion stops the daemon.
GoneClientIsDeleted ==
  \A c \in Client :
    c \in hungUp /\ c \in d.accepted ~> (c \in d.deleted \/ d.aborted)
=============================================================================
