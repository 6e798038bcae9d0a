--------------------------- MODULE RemoteServices ---------------------------
(***************************************************************************)
(* How a daemon learns the services of other daemons and uses them: the    *)
(* multicast messages of RemoteServiceListener, the RemoteTCPClients that  *)
(* TCPManager keeps for the endpoints it has heard of, the services these  *)
(* register in the dispatcher, and the TCP connection a request opens.     *)
(* Each host has one endpoint; its daemon may be restarted.  A step is a   *)
(* callback of the main loop.                                              *)
(***************************************************************************)
EXTENDS DiscoverySession, Sequences, FiniteSets, Functions

CONSTANTS
  Host,           \* endpoints of other daemons
  ServiceID,
  InstanceID,
  NULL,           \* nullptr
  MayOffer,       \* services each host may offer
  WellKnown,      \* services in the activation configuration
  Lossy,          \* may messages be lost?
  Reorder,        \* may messages overtake each other?
  HostMayRestart, \* may a host be restarted?
  HostMayBeDown,  \* may connect() fail?
  Requests,       \* do local clients send requests?
  Subscriptions,  \* services whose notifications local clients subscribe to
  MaxMessages,    \* bound: service discovery messages in flight, per host
  MaxSent,        \* bound: service discovery messages, all hosts together
  MaxRestarts     \* bound: restarts, all hosts together

ServiceIDs == [serviceID : ServiceID, instanceID : InstanceID]
None == "none"

ASSUME RemoteAssumption ==
  /\ MayOffer \in [Host -> SUBSET ServiceIDs]
  /\ WellKnown \cup Subscriptions \subseteq ServiceIDs
  /\ {NULL, None} \cap InstanceID = {}

VARIABLES
  offers,       \* services each host offers now
  session,      \* session of each host's next message
  life,         \* how often each host was started
  sentCount,    \* messages sent so far
  net,          \* messages in flight, per host
  lost,         \* has a message been lost?
  overtaken,    \* hosts whose messages have not come in order
  objects,      \* RemoteTCPClients created so far
  m_clients,    \* TCPManager::m_clients: the object of each host, or 0
  m_services,   \* the object that provides each remote service, or 0
  m_notifications, \* services a local client has subscribed to
  waiting,      \* requests without an answer
  dead          \* how the daemon ended, or None

hostVars == <<offers, session, life, sentCount, net, lost, overtaken>>
daemonVars == <<objects, m_clients, m_services, m_notifications, waiting, dead>>
vars == <<hostVars, daemonVars>>

\* A daemon sends a query when it starts (ServiceAnnouncer::init).
Init ==
  /\ offers = [h \in Host |-> {}]
  /\ session = [h \in Host |-> assignUniqueSessionID(firstSession)]
  /\ life = [h \in Host |-> 1]
  /\ sentCount = 0
  /\ net = [h \in Host |-> <<>>]
  /\ lost = FALSE
  /\ overtaken = {}
  /\ objects = <<>>
  /\ m_clients = [h \in Host |-> 0]
  /\ m_services = [s \in ServiceIDs |-> 0]
  /\ m_notifications = {}
  /\ waiting = {}
  /\ dead = None

-----------------------------------------------------------------------------
(* The other hosts: ServiceAnnouncer, as ServiceAnnouncement models it.    *)

\* Host h multicasts a message about service.
announce(h, type, service) ==
  /\ sentCount < MaxSent
  /\ Len(net[h]) < MaxMessages
  /\ net' = [net EXCEPT ![h] = Append(@, [type |-> type, service |-> service,
                                          session |-> session[h], life |-> life[h]])]
  /\ session' = [session EXCEPT ![h] = assignUniqueSessionID(@)]
  /\ sentCount' = sentCount + 1
  /\ UNCHANGED <<lost, overtaken>>

\* A service is registered at h: no other instance of its service ID is
\* offered at the same endpoint.
hostOffers(h, service) ==
  /\ service \in MayOffer[h]
  /\ \A s \in offers[h] : s.serviceID # service.serviceID
  /\ announce(h, "offer", service)
  /\ offers' = [offers EXCEPT ![h] = @ \cup {service}]
  /\ UNCHANGED <<life, daemonVars>>

hostOffersAgain(h, service) ==
  /\ service \in offers[h]
  /\ announce(h, "offer", service)
  /\ UNCHANGED <<offers, life, daemonVars>>

hostWithdraws(h, service) ==
  /\ service \in offers[h]
  /\ announce(h, "stop", service)
  /\ offers' = [offers EXCEPT ![h] = @ \ {service}]
  /\ UNCHANGED <<life, daemonVars>>

\* The daemon of h is started again, without a word to the listeners; the
\* query it sends then is not about a service.
hostRestarts(h) ==
  /\ HostMayRestart
  /\ FoldFunction(+, 0, life) < Cardinality(Host) + MaxRestarts
  /\ offers' = [offers EXCEPT ![h] = {}]
  /\ session' = [session EXCEPT ![h] = assignUniqueSessionID(firstSession)]
  /\ life' = [life EXCEPT ![h] = @ + 1]
  /\ UNCHANGED <<sentCount, net, lost, overtaken, daemonVars>>

messageLost(h) ==
  /\ Lossy
  /\ net[h] # <<>>
  /\ net' = [net EXCEPT ![h] = Tail(@)]
  /\ lost' = TRUE
  /\ UNCHANGED <<offers, session, life, sentCount, overtaken, daemonVars>>

-----------------------------------------------------------------------------
(* The daemon.  The operators take its state d, a record, and return the   *)
(* state after the call; m_registeredServices and m_instanceNamespace are  *)
(* fields of the RemoteTCPClient.                                          *)

daemon == [objects |-> objects, m_clients |-> m_clients, m_services |-> m_services,
           dead |-> dead]

\* The daemon ends, for the first reason it meets.
die(d, how) == IF d.dead = None THEN [d EXCEPT !.dead = how] ELSE d

newClient(h) ==
  [host |-> h, state |-> "registered", connection |-> 0,
   m_registeredServices |-> {}, m_lastReceivedSessionID |-> 0, life |-> 0,
   m_instanceNamespace |-> [sid \in ServiceID |-> None]]

\* TCPManager::getOrCreateClient
getOrCreateClient(d, h) ==
  IF d.m_clients[h] # 0 THEN d
  ELSE [d EXCEPT !.objects = Append(@, newClient(h)),
                 !.m_clients[h] = Len(d.objects) + 1]

\* Client::unregisterClient; the object is deleted when the daemon is idle.
unregisterClient(d, o) ==
  IF d.objects[o].state # "registered" THEN d
  ELSE [d EXCEPT !.objects[o].state = "disconnected",
                 !.m_services = [s \in ServiceIDs |->
                    IF s \in d.objects[o].m_registeredServices THEN 0 ELSE @[s]]]

\* SocketStreamConnection::disconnect and TCPClient::onDisconnected
disconnect(d, o) ==
  IF d.objects[o].connection = 0 THEN d
  ELSE unregisterClient([d EXCEPT !.objects[o].connection = 0], o)

\* MUTANT: the client is taken off the list of TCPManager only.
onClientRebootForgetful(d, o) == [d EXCEPT !.m_clients[d.objects[o].host] = 0]

\* MUTANT: the connection of the client is left open.
onClientRebootConnected(d, o) ==
  [unregisterClient(d, o) EXCEPT !.m_clients[d.objects[o].host] = 0]

\* TCPManager::onClientReboot
onClientReboot(d, o) ==
  [unregisterClient(disconnect(d, o), o) EXCEPT !.m_clients[d.objects[o].host] = 0]

\* RemoteTCPClient::connect unless connected, then a write, which asserts
\* that there is a connection.  up: does the host answer?
connectAndWrite(d, o, up) ==
  IF d.objects[o].connection # 0 THEN d
  ELSE IF up THEN [d EXCEPT !.objects[o].connection = life[d.objects[o].host]]
  ELSE die(d, "closed")

\* A Service pointer of the namespace is followed to compare its instance.
checkInstance(d, o, service) ==
  LET instance == d.objects[o].m_instanceNamespace[service.serviceID] IN
  IF instance = NULL THEN die(d, "null")
  ELSE IF instance \notin {None, service.instanceID} THEN die(d, "instance")
  ELSE d

\* TCPClient::onNotificationSubscribed
onNotificationSubscribed(d, o, service, up) ==
  connectAndWrite([checkInstance(d, o, service) EXCEPT
      !.objects[o].m_instanceNamespace[service.serviceID] = service.instanceID], o, up)

\* Client::registerService for a remote service: refused if the service is
\* known; otherwise the notifications of the service are subscribed to.
registerService(d, o, service, up) ==
  LET registered == [d EXCEPT !.m_services[service] = o,
                              !.objects[o].m_registeredServices = @ \cup {service}]
  IN IF d.m_services[service] # 0 THEN d
     ELSE IF service \in m_notifications
     THEN onNotificationSubscribed(registered, o, service, up)
     ELSE registered

\* TCPClient::onServiceAvailable: what registerService returned, a Service or
\* nullptr, goes to the namespace.
onServiceAvailable(d, o, service, up) ==
  LET returned == IF d.m_services[service] # 0 THEN NULL ELSE service.instanceID IN
  [checkInstance(registerService(d, o, service, up), o, service) EXCEPT
     !.objects[o].m_instanceNamespace[service.serviceID] = returned]

\* MUTANT: the service stays registered in the dispatcher.
onServiceUnavailableNamespace(d, o, service) ==
  [d EXCEPT !.objects[o].m_instanceNamespace[service.serviceID] = None]

\* TCPClient::onServiceUnavailable
onServiceUnavailable(d, o, service) ==
  [d EXCEPT !.m_services[service] =
                IF service \in d.objects[o].m_registeredServices THEN 0 ELSE @,
            !.objects[o] = [d.objects[o] EXCEPT
                              !.m_registeredServices = @ \ {service},
                              !.m_instanceNamespace[service.serviceID] = None]]

\* TCPClient::detectReboot, once it has remembered the session of m.
heard(d, o, m) ==
  [d EXCEPT !.objects[o] = [@ EXCEPT !.m_lastReceivedSessionID = m.session.id,
                                     !.life = m.life]]

\* TCPManager::onRemoteServiceAvailable
onRemoteServiceAvailable(d0, h, m, up) ==
  LET d == getOrCreateClient(d0, h)
      o == d.m_clients[h]
      rebooted == hasRebooted(d.objects[o].m_lastReceivedSessionID, m.session)
      e == IF rebooted THEN getOrCreateClient(onClientReboot(heard(d, o, m), o), h)
                       ELSE heard(d, o, m)
  IN IF m.service \in WellKnown THEN d0
     ELSE IF d.objects[o].state = "deleted" THEN die(d, "freed")
     ELSE onServiceAvailable(e, e.m_clients[h], m.service, up)

\* TCPManager::onRemoteServiceUnavailable; its filter is not given the service.
onRemoteServiceUnavailable(d0, h, m) ==
  LET d == getOrCreateClient(d0, h)
      o == d.m_clients[h]
  IN IF d.objects[o].state = "deleted" THEN die(d, "freed")
     ELSE IF hasRebooted(d.objects[o].m_lastReceivedSessionID, m.session)
     THEN onClientReboot(heard(d, o, m), o)
     ELSE onServiceUnavailable(heard(d, o, m), o, m.service)

\* The daemon goes on in state d, without the requests done; the answers to
\* requests on a closed connection are lost.
becomes(d, done) ==
  /\ objects' = d.objects
  /\ m_clients' = d.m_clients
  /\ m_services' = d.m_services
  /\ dead' = d.dead
  /\ waiting' = {w \in waiting \ done : d.objects[w.object].connection # 0}

HostIsUp == IF HostMayBeDown THEN BOOLEAN ELSE {TRUE}

-----------------------------------------------------------------------------
\* RemoteServiceListener::handleMessage: a message of h is decoded and
\* handled.
handleMessage(h) ==
  /\ dead = None
  /\ \E i \in DOMAIN net[h], up \in HostIsUp :
       LET m == net[h][i] IN
       /\ Reorder \/ i = 1
       /\ overtaken' = IF i = 1 THEN overtaken ELSE overtaken \cup {h}
       /\ net' = [net EXCEPT ![h] = SubSeq(@, 1, i - 1) \o SubSeq(@, i + 1, Len(@))]
       /\ \/ m.type = "offer" /\ becomes(onRemoteServiceAvailable(daemon, h, m, up), {})
          \/ m.type = "stop" /\ becomes(onRemoteServiceUnavailable(daemon, h, m), {})
  /\ UNCHANGED <<offers, session, life, sentCount, lost, m_notifications>>

\* A request of a local client for a remote service (TCPClient::sendMessage).
sendMessage(service) ==
  LET o == m_services[service] IN
  /\ Requests
  /\ dead = None
  /\ o # 0
  /\ \/ /\ objects[o].state = "deleted"
        /\ becomes(die(daemon, "freed"), {})
     \/ /\ objects[o].state # "deleted"
        /\ \E up \in HostIsUp :
             LET d == connectAndWrite(daemon, o, up) IN
             /\ objects' = d.objects
             /\ dead' = d.dead
             /\ waiting' = waiting \cup {[object |-> o, service |-> service]}
             /\ UNCHANGED <<m_clients, m_services>>
  /\ UNCHANGED <<hostVars, m_notifications>>

\* A local client subscribes to a notification of service, which need not be
\* known (Dispatcher::subscribeClientForNotifications).
subscribe(service) ==
  LET o == m_services[service] IN
  /\ service \in Subscriptions
  /\ dead = None
  /\ m_notifications' = m_notifications \cup {service}
  /\ \/ /\ o = 0
        /\ UNCHANGED <<objects, m_clients, m_services, waiting, dead>>
     \/ /\ o # 0
        /\ objects[o].state = "deleted"
        /\ becomes(die(daemon, "freed"), {})
     \/ /\ o # 0
        /\ objects[o].state # "deleted"
        /\ \E up \in HostIsUp :
             becomes(onNotificationSubscribed(daemon, o, service, up), {})
  /\ UNCHANGED hostVars

\* The answer to a request arrives (TCPClient::setupConnection, callback for
\* incoming data): its service must be in the namespace.
receiveReply(w) ==
  LET instance == objects[w.object].m_instanceNamespace[w.service.serviceID] IN
  /\ dead = None
  /\ w \in waiting
  /\ objects[w.object].connection = life[objects[w.object].host]
  /\ becomes(IF instance = None THEN die(daemon, "unknown")
             ELSE IF instance = NULL THEN die(daemon, "null")
             ELSE daemon, {w})
  /\ UNCHANGED <<hostVars, m_notifications>>

\* The end of a connection to a daemon that was restarted is noticed.
hangUp(o) ==
  /\ dead = None
  /\ objects[o].connection \notin {0, life[objects[o].host]}
  /\ becomes(disconnect(daemon, o), {})
  /\ UNCHANGED <<hostVars, m_notifications>>

\* Dispatcher::cleanDisconnectedClients, when the daemon is idle.
cleanDisconnectedClients ==
  /\ dead = None
  /\ \E o \in DOMAIN objects : objects[o].state = "disconnected"
  /\ objects' = [o \in DOMAIN objects |->
       IF objects[o].state = "disconnected" THEN [objects[o] EXCEPT !.state = "deleted"]
                                            ELSE objects[o]]
  /\ UNCHANGED <<hostVars, m_clients, m_services, m_notifications, waiting, dead>>

HostStep(h) ==
  \/ hostRestarts(h)
  \/ messageLost(h)
  \/ \E s \in MayOffer[h] : hostOffers(h, s) \/ hostOffersAgain(h, s) \/ hostWithdraws(h, s)

Next ==
  \/ \E h \in Host : HostStep(h) \/ handleMessage(h)
  \/ \E s \in ServiceIDs : sendMessage(s) \/ subscribe(s)
  \/ \E w \in waiting : receiveReply(w)
  \/ \E o \in DOMAIN objects : hangUp(o)
  \/ cleanDisconnectedClients

Spec == Init /\ [][Next]_vars

-----------------------------------------------------------------------------
\* A registered service of a host that was not restarted belongs to a client
\* that a later message about it will reach: one that is registered and that
\* TCPManager knows.  Otherwise no stop-offer could ever withdraw the service.
OwnerIsKnown ==
  dead = None => \A s \in ServiceIDs : m_services[s] # 0 =>
    LET owner == objects[m_services[s]] IN
    life[owner.host] = 1 =>
      /\ owner.state = "registered"
      /\ m_clients[owner.host] = m_services[s]
      /\ s \in owner.m_registeredServices

\* An open connection to a host that was not restarted belongs to a
\* registered client that TCPManager knows: a client given up because its host
\* seemed to reboot does not stay connected, to receive messages after it was
\* deleted.
ConnectionIsOwned ==
  dead = None => \A o \in DOMAIN objects :
    objects[o].connection # 0 /\ life[objects[o].host] = 1 =>
      objects[o].state = "registered" /\ m_clients[objects[o].host] = o

\* A host is taken for restarted only if it was: the client of a host is
\* given up only for a message of a later life of the host than the message
\* before, if messages arrive in order or not at all.
NoFalseReboot ==
  [][\A h \in Host \ overtaken' : m_clients[h] # 0 /\ m_clients'[h] # m_clients[h] =>
       Head(net[h]).life > objects[m_clients[h]].life]_vars

\* As long as no message was lost or overtaken and a host was not restarted,
\* the services registered for it are those it offers, once its messages have
\* been handled, well-known services and those of other hosts excepted.
DiscoveryIsExact ==
  dead = None /\ ~lost => \A h \in Host \ overtaken : net[h] = <<>> /\ life[h] = 1 =>
    LET others == (UNION {MayOffer[g] : g \in Host \ {h}}) \cup WellKnown IN
    {s \in ServiceIDs \ others : m_services[s] # 0 /\ objects[m_services[s]].host = h}
      = offers[h] \ others

\* TCPManager and the dispatcher use no client after its deletion.
NoFreedClient == dead # "freed"

\* A message is written to an open connection only: the assertion of
\* SocketStreamConnection::writeBytesNonBlocking.
ConnectionIsOpen == dead # "closed"

\* The service of a message received is in the namespace of the connection:
\* the assertion of TCPClient::setupConnection.
ReplyServiceIsKnown == dead # "unknown"
=============================================================================
