------------------------- MODULE ServiceAnnouncement -------------------------
(***************************************************************************)
(* How a daemon publishes its local services on the network: TCPManager    *)
(* gives each service a TCPServer, ServiceAnnouncer multicasts an offer    *)
(* with the port of that server, and a stop-offer before the service is    *)
(* taken off the server.  A server offers one instance of a service ID,    *)
(* since a SOME/IP message on the wire does not name the instance.  The    *)
(* datagrams are bytes, and a listener decodes every one of them.          *)
(***************************************************************************)
EXTENDS DiscoverySession, WireFormat, FiniteSets

CONSTANTS
  ServiceID,
  InstanceID,
  Address,          \* the address of the network interface, four bytes
  BasePort,         \* TCP port of the command line (option --port)
  m_portCount,      \* ports TCPManager tries, 10 in the code
  PortCountOption,  \* option --portcount of the command line
  MaxServices,      \* bound: services registered at the same time
  MaxDatagrams      \* bound: service discovery messages

ASSUME PortAssumption ==
  /\ ServiceID \subseteq 0 .. 65535
  /\ InstanceID \subseteq 0 .. 65535
  /\ Address \in [1 .. 4 -> 0 .. 255]
  /\ BasePort \in Nat
  /\ m_portCount \in Nat \ {0}
  /\ PortCountOption \in Nat \ {0}
  /\ MaxServices \in Nat
  /\ MaxDatagrams \in Nat

VARIABLES
  m_services,  \* local services of the dispatcher, in registration order
  m_servers,   \* TCPServers of TCPManager, in the order of their creation
  taken,       \* ports that other programs listen to
  session,     \* session of the next service discovery message
  sent,        \* sessions of the messages sent, as a listener reads them
  offered      \* offers a listener that gets every message believes in

vars == <<m_services, m_servers, taken, session, sent, offered>>

ServiceIDs == [serviceID : ServiceID, instanceID : InstanceID]
Port == BasePort .. BasePort + m_portCount + PortCountOption

\* The listener reads the datagram of message m.
received(m) == decodeDatagram(serialize(m))

\* ServiceAnnouncer::init has sent a query.
Init ==
  /\ m_services = <<>>
  /\ m_servers = <<>>
  /\ taken \in SUBSET Port
  /\ session = assignUniqueSessionID(firstSession)
  /\ sent = <<received([session |-> firstSession, unicast |-> FALSE,
                        entries |-> <<queryEntry>>, options |-> <<>>]).session>>
  /\ offered = {}

-----------------------------------------------------------------------------
\* TCPServer::isServiceRegistered(ServiceID)
isServiceRegistered(server, serviceID) ==
  \E service \in server.instances : service.serviceID = serviceID

\* TCPManager::getEndPoint: the index of the server that publishes service
\* among servers, or 0.
getEndPoint(servers, service) ==
  SelectInSeq(servers, LAMBDA server : service \in server.instances)

\* The ports TCPServer::init can bind.
freePorts ==
  (BasePort .. BasePort + m_portCount - 1)
    \ (taken \cup {m_servers[i].port : i \in DOMAIN m_servers})

\* MUTANT: any server will do.
bindServiceAnywhere(service) ==
  LET available == DOMAIN m_servers
      port == CHOOSE p \in freePorts : \A q \in freePorts : p <= q
  IN IF available # {}
     THEN [m_servers EXCEPT ![CHOOSE i \in available : \A j \in available : j <= i]
                              .instances = @ \cup {service}]
     ELSE IF freePorts = {} THEN m_servers
     ELSE Append(m_servers, [port |-> port, instances |-> {service}])

\* TCPManager::bindService: the servers once service is bound.  The last
\* server without its service ID takes it; otherwise a new server on the
\* first port that can be bound.  A server without a port is forgotten,
\* together with the service it was given.
bindService(service) ==
  LET available == {i \in DOMAIN m_servers :
                      ~isServiceRegistered(m_servers[i], service.serviceID)}
      port == CHOOSE p \in freePorts : \A q \in freePorts : p <= q
  IN IF available # {}
     THEN [m_servers EXCEPT ![CHOOSE i \in available : \A j \in available : j <= i]
                              .instances = @ \cup {service}]
     ELSE IF freePorts = {} THEN m_servers
     ELSE Append(m_servers, [port |-> port, instances |-> {service}])

\* TCPServer::removeService on the server that publishes service.
unbindService(service) ==
  LET i == getEndPoint(m_servers, service) IN
  IF i = 0 THEN m_servers
  ELSE [m_servers EXCEPT ![i].instances = @ \ {service}]

\* Where service is published by one of servers, as a set.
endPointOf(servers, service) ==
  LET i == getEndPoint(servers, service) IN
  IF i = 0 THEN {} ELSE {[address |-> Address, port |-> servers[i].port]}

\* The message that offers service at endPoint, or withdraws it.
offerMessage(s, service, ttl, endPoint) ==
  [session |-> s, unicast |-> FALSE,
   entries |-> <<offerEntry(service, ttl)>>, options |-> <<endPoint>>]

\* What the offers o become by a call of the listener.
heardBy(o, c) ==
  LET offer == [service |-> c.service, endPoint |-> c.endPoint] IN
  IF c.call = "available" THEN o \cup {offer} ELSE o \ {offer}

\* ServiceAnnouncer::sendMessage, a message for each of services that one of
\* servers publishes; the time to live is 0 to withdraw them.
sendMessages(services, servers, ttl) ==
  LET published == SelectSeq(services, LAMBDA s : getEndPoint(servers, s) # 0)
      sessions == FoldLeft(LAMBDA acc, s : Append(acc, assignUniqueSessionID(Last(acc))),
                           <<session>>, published)
      messages == [k \in DOMAIN published |->
                     received(offerMessage(sessions[k], published[k], ttl,
                       CHOOSE e \in endPointOf(servers, published[k]) : TRUE))]
  IN /\ Len(sent) + Len(published) <= MaxDatagrams
     /\ sent' = sent \o [k \in DOMAIN messages |-> messages[k].session]
     /\ session' = Last(sessions)
     /\ offered' = FoldLeft(heardBy, offered,
                            FlattenSeq([k \in DOMAIN messages |-> messages[k].calls]))

-----------------------------------------------------------------------------
\* A local service is registered: TCPManager, the first listener, binds it,
\* and ServiceAnnouncer, the second, offers it.
registerService(service) ==
  /\ service \notin ToSet(m_services)
  /\ Len(m_services) < MaxServices
  /\ m_services' = Append(m_services, service)
  /\ m_servers' = bindService(service)
  /\ sendMessages(<<service>>, m_servers', allOnes)
  /\ UNCHANGED taken

\* MUTANT: the listeners are notified in the order of registration, so the
\* service is unbound when ServiceAnnouncer looks for its server.
unregisterServiceForward(service) ==
  /\ service \in ToSet(m_services)
  /\ m_services' = SelectSeq(m_services, LAMBDA s : s # service)
  /\ m_servers' = unbindService(service)
  /\ sendMessages(<<service>>, m_servers', number(0))
  /\ UNCHANGED taken

\* A local service is unregistered: the listeners are notified in reverse
\* order, so ServiceAnnouncer withdraws the offer before the service is
\* unbound.
unregisterService(service) ==
  /\ service \in ToSet(m_services)
  /\ m_services' = SelectSeq(m_services, LAMBDA s : s # service)
  /\ sendMessages(<<service>>, m_servers, number(0))
  /\ m_servers' = unbindService(service)
  /\ UNCHANGED taken

\* ServiceAnnouncer::announceServices: every 30 seconds, and when another
\* daemon asks for services.
announceServices ==
  /\ sendMessages(m_services, m_servers, allOnes)
  /\ UNCHANGED <<m_services, m_servers, taken>>

Next ==
  \/ announceServices
  \/ \E service \in ServiceIDs : registerService(service) \/ unregisterService(service)

Spec == Init /\ [][Next]_vars

-----------------------------------------------------------------------------
\* What the network believes is what the daemon can serve: the offers that a
\* listener decodes from the datagrams and that were not withdrawn are those
\* of the services registered now, at the address and port of the server that
\* publishes them.  Withdrawing an offer needs the server, which
\* is why unregisterService notifies its listeners in reverse order.
OffersAreCurrent ==
  offered = UNION {{[service |-> s, endPoint |-> e] : e \in endPointOf(m_servers, s)}
                     : s \in ToSet(m_services)}

\* A message that arrives at a port names one service: no two instances of a
\* service ID are offered at the same port, whatever was registered and
\* unregistered before.
EndpointIsUnambiguous ==
  \A o, p \in offered :
    o.endPoint = p.endPoint /\ o.service.serviceID = p.service.serviceID => o = p

\* A daemon that runs on never looks restarted to a listener that gets some
\* of its messages in their order, before and after the session identifiers
\* wrap around.
SessionTellsReboot ==
  \A i, j \in DOMAIN sent : i < j => ~hasRebooted(sent[i].id, sent[j])

\* A registered service is published unless every port the daemon was told
\* to try is in use.
PublishedIfPortFree ==
  \A s \in ToSet(m_services) : getEndPoint(m_servers, s) = 0 =>
    BasePort .. BasePort + PortCountOption - 1
      \subseteq taken \cup {m_servers[i].port : i \in DOMAIN m_servers}
=============================================================================
