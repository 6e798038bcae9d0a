------------------------ MODULE RemoteServicesProofs ------------------------
(***************************************************************************)
(* Proofs about RemoteServices, for any hosts, services, number of session *)
(* identifiers and messages in flight.                                     *)
(***************************************************************************)
EXTENDS RemoteServices, TLAPS

\* Most steps are first-order: Zenon proves them.  SMT is cited where a step
\* needs arithmetic or sequences.
USE Zenon

Session == [id : 1 .. SessionIDs - 1, reboot : BOOLEAN]
SDMessage == [type : {"offer", "stop"}, service : ServiceIDs, session : Session,
              life : Nat \ {0}]
State == {"registered", "disconnected", "deleted"}
TCPClient ==
  [host : Host, state : State, connection : Nat,
   m_registeredServices : SUBSET ServiceIDs, m_lastReceivedSessionID : Nat,
   life : Nat, m_instanceNamespace : [ServiceID -> InstanceID \cup {None, NULL}]]
\* How the daemon may end.
Cause == {"closed", "freed", "instance", "null", "unknown"}
Daemon ==
  [objects : Seq(TCPClient), m_clients : [Host -> Nat],
   m_services : [ServiceIDs -> Nat], dead : Cause \cup {None}]

\* What is true of one RemoteTCPClient.
ClientOK(x) ==
  /\ x.m_registeredServices \subseteq MayOffer[x.host]
  /\ x.connection <= life[x.host]
  /\ x.life = 0 => x.m_lastReceivedSessionID = 0

\* The daemon's pointers lead to clients of the right host.
Typed(d) ==
  /\ d \in Daemon
  /\ \A o \in DOMAIN d.objects : ClientOK(d.objects[o])
  /\ \A h \in Host : /\ d.m_clients[h] \in 0 .. Len(d.objects)
                     /\ d.m_clients[h] # 0 => d.objects[d.m_clients[h]].host = h
  /\ \A s \in ServiceIDs :
       /\ d.m_services[s] \in 0 .. Len(d.objects)
       /\ d.m_services[s] # 0 => s \in MayOffer[d.objects[d.m_services[s]].host]

\* The clients of a host that was not restarted: the one TCPManager knows is
\* the one that is registered, and only it has a connection and services.
OwnedAt(d, o) ==
  /\ d.objects[o].state = "registered" <=> d.m_clients[d.objects[o].host] = o
  /\ d.objects[o].state # "registered" => d.objects[o].connection = 0
  /\ \A s \in ServiceIDs : d.m_services[s] = o =>
       d.objects[o].state = "registered" /\ s \in d.objects[o].m_registeredServices
Owned(d) == \A o \in DOMAIN d.objects : life[d.objects[o].host] = 1 => OwnedAt(d, o)

\* The state of the hosts and of the network.
HostsTyped ==
  /\ offers \in [Host -> SUBSET ServiceIDs]
  /\ session \in [Host -> Session]
  /\ life \in [Host -> Nat \ {0}]
  /\ net \in [Host -> Seq(SDMessage)]
  /\ \A h \in Host : offers[h] \subseteq MayOffer[h]
  /\ \A h \in Host : \A i \in DOMAIN net[h] : net[h][i].service \in MayOffer[h]

\* Message n was sent after one with session identifier id in the given life
\* of its sender, and does not look like a message of another life.
Follows(n, id, l) == l <= n.life /\ (l = n.life /\ n.session.reboot => id < n.session.id)

\* The messages of h in flight are in the order in which they were sent.
SentInOrder(h) ==
  /\ \A i, j \in DOMAIN net[h] : i < j =>
       Follows(net[h][j], net[h][i].session.id, net[h][i].life)
  /\ \A i \in DOMAIN net[h] :
       Follows([session |-> session[h], life |-> life[h]],
               net[h][i].session.id, net[h][i].life)

\* The client of h has heard of nothing later.
HeardBefore(h) ==
  m_clients[h] # 0 =>
    LET x == objects[m_clients[h]] IN
    /\ \A i \in DOMAIN net[h] : Follows(net[h][i], x.m_lastReceivedSessionID, x.life)
    /\ Follows([session |-> session[h], life |-> life[h]],
               x.m_lastReceivedSessionID, x.life)

SessionsInOrder == \A h \in Host : SentInOrder(h) /\ (h \notin overtaken => HeardBefore(h))

\* The services that no other host may offer and that may be registered.
Own(h) == ServiceIDs \ ((UNION {MayOffer[g] : g \in Host \ {h}}) \cup WellKnown)

\* Service s of host h: the last message about it in flight, or else the
\* registry, says whether it is offered.
ExactFor(h, s) ==
  /\ (\A i \in DOMAIN net[h] : net[h][i].service # s)
       => (m_services[s] # 0 <=> s \in offers[h])
  /\ \A i \in DOMAIN net[h] :
       net[h][i].service = s /\ (\A j \in DOMAIN net[h] : j > i => net[h][j].service # s)
         => (net[h][i].type = "offer" <=> s \in offers[h])
Exact ==
  dead = None /\ ~lost => \A h \in Host \ overtaken : life[h] = 1 =>
    \A s \in Own(h) : ExactFor(h, s)

IInv == HostsTyped /\ Typed(daemon) /\ Owned(daemon) /\ SessionsInOrder /\ Exact

-----------------------------------------------------------------------------
(* Sequences: the vectors of the daemon and the messages in flight.        *)

\* The indices of a sequence.
LEMMA Indices ==
  ASSUME NEW S, NEW q \in Seq(S)
  PROVE  Len(q) \in Nat /\ DOMAIN q = 1 .. Len(q) /\ \A i \in DOMAIN q : q[i] \in S
BY SMT

\* One element replaced.
LEMMA Replaced ==
  ASSUME NEW S, NEW q \in Seq(S), NEW k \in 1 .. Len(q), NEW v \in S
  PROVE  LET r == [q EXCEPT ![k] = v] IN
         r \in Seq(S) /\ Len(r) = Len(q) /\ DOMAIN r = DOMAIN q
BY SMT

\* std::vector::push_back
LEMMA Appended ==
  ASSUME NEW S, NEW q \in Seq(S), NEW v \in S
  PROVE  LET r == Append(q, v) IN
         /\ r \in Seq(S) /\ Len(r) = Len(q) + 1 /\ DOMAIN r = 1 .. Len(q) + 1
         /\ r[Len(q) + 1] = v /\ \A i \in 1 .. Len(q) : r[i] = q[i]
BY SMT

\* The first of the messages taken away.
LEMMA Shifted ==
  ASSUME NEW S, NEW q \in Seq(S), q # << >>
  PROVE  LET r == Tail(q) IN
         /\ r \in Seq(S) /\ Len(r) = Len(q) - 1 /\ 1 \in DOMAIN q
         /\ \A i \in 1 .. Len(q) - 1 : r[i] = q[i + 1]
BY SMT

\* A stretch of a sequence.
LEMMA Stretch ==
  ASSUME NEW S, NEW q \in Seq(S), NEW a \in 1 .. Len(q) + 1, NEW b \in a - 1 .. Len(q)
  PROVE  LET r == SubSeq(q, a, b) IN
         /\ r \in Seq(S) /\ Len(r) = b + 1 - a
         /\ \A i \in 1 .. b + 1 - a : r[i] = q[i + a - 1]
BY SMT

\* Two stretches put together.
LEMMA Joined ==
  ASSUME NEW S, NEW a \in Seq(S), NEW b \in Seq(S)
  PROVE  LET r == a \o b IN
         /\ r \in Seq(S) /\ Len(r) = Len(a) + Len(b)
         /\ \A i \in 1 .. Len(a) + Len(b) : r[i] = IF i <= Len(a) THEN a[i] ELSE b[i - Len(a)]
BY SMT

-----------------------------------------------------------------------------
(* The operators of the daemon, one lemma for each.                        *)

\* The parts of the daemon's state.
LEMMA DaemonParts ==
  ASSUME NEW d, Typed(d)
  PROVE  /\ d.objects \in Seq(TCPClient)
         /\ Len(d.objects) \in Nat
         /\ DOMAIN d.objects = 1 .. Len(d.objects)
         /\ d.m_clients \in [Host -> Nat]
         /\ d.m_services \in [ServiceIDs -> Nat]
         /\ \A o \in DOMAIN d.objects : d.objects[o] \in TCPClient
         /\ d = [objects |-> d.objects, m_clients |-> d.m_clients,
                 m_services |-> d.m_services, dead |-> d.dead]
BY SMT DEF Typed, Daemon

\* e is d, but for one client.
Touches(d, e, o) ==
  /\ DOMAIN e.objects = DOMAIN d.objects
  /\ Len(e.objects) = Len(d.objects)
  /\ e.objects[o].host = d.objects[o].host
  /\ \A p \in DOMAIN d.objects : p # o => e.objects[p] = d.objects[p]

\* e is d, but for the connection and the namespace of one client, and perhaps
\* the end of the daemon.
Keeps(d, e, o) ==
  /\ Touches(d, e, o)
  /\ e.m_clients = d.m_clients
  /\ e.m_services = d.m_services
  /\ e.objects[o].state = d.objects[o].state
  /\ e.objects[o].m_registeredServices = d.objects[o].m_registeredServices
  /\ e.objects[o].connection \in {d.objects[o].connection, life[d.objects[o].host]}
  /\ e.objects[o].m_lastReceivedSessionID = d.objects[o].m_lastReceivedSessionID
  /\ e.objects[o].life = d.objects[o].life
  /\ d.dead # None => e.dead # None

\* A client is replaced by another object for the same host.
LEMMA ReplaceObject ==
  ASSUME NEW d, Typed(d), NEW o \in DOMAIN d.objects, NEW x \in TCPClient,
         x.host = d.objects[o].host, ClientOK(x)
  PROVE  /\ Typed([d EXCEPT !.objects[o] = x])
         /\ [d EXCEPT !.objects[o] = x].objects[o] = x
         /\ Touches(d, [d EXCEPT !.objects[o] = x], o)
         /\ [d EXCEPT !.objects[o] = x].m_clients = d.m_clients
         /\ [d EXCEPT !.objects[o] = x].m_services = d.m_services
         /\ [d EXCEPT !.objects[o] = x].dead = d.dead
<1> DEFINE e == [d EXCEPT !.objects[o] = x]
<1>1. /\ d.objects \in Seq(TCPClient) /\ Len(d.objects) \in Nat
      /\ DOMAIN d.objects = 1 .. Len(d.objects)
  BY DaemonParts
<1>2. e \in Daemon /\ e.objects = [d.objects EXCEPT ![o] = x]
      /\ e.m_clients = d.m_clients /\ e.m_services = d.m_services /\ e.dead = d.dead
  BY <1>1, Replaced DEF Typed, Daemon
<1>3. DOMAIN e.objects = DOMAIN d.objects /\ Len(e.objects) = Len(d.objects)
  BY <1>1, <1>2, Replaced, SMT
<1>4. e.objects[o] = x /\ \A p \in DOMAIN d.objects : p # o => e.objects[p] = d.objects[p]
  BY <1>1, <1>2
<1> HIDE DEF e
<1>5. \A p \in DOMAIN d.objects : e.objects[p].host = d.objects[p].host /\ ClientOK(e.objects[p])
  BY <1>4 DEF Typed
<1>6. Typed(e)
  BY <1>1, <1>2, <1>3, <1>5, SMT DEF Typed
<1> QED BY <1>2, <1>3, <1>4, <1>6 DEF e, Touches

LEMMA KeepsReflexive ==
  ASSUME NEW d, NEW o
  PROVE  Keeps(d, d, o)
BY DEF Keeps, Touches

LEMMA KeepsTransitive ==
  ASSUME NEW d, NEW e, NEW f, NEW o, Keeps(d, e, o), Keeps(e, f, o)
  PROVE  Keeps(d, f, o)
BY DEF Keeps, Touches

\* The daemon ends: nothing else changes.
LEMMA Die ==
  ASSUME NEW d, Typed(d), NEW how \in Cause
  PROVE  /\ Typed(die(d, how))
         /\ die(d, how).objects = d.objects
         /\ die(d, how).m_clients = d.m_clients
         /\ die(d, how).m_services = d.m_services
         /\ die(d, how).dead # None
         /\ \A o : Keeps(d, die(d, how), o)
<1> DEFINE e == die(d, how)
<1>0. how # None BY DEF Cause, None
<1>1. /\ e \in Daemon /\ e.objects = d.objects /\ e.m_clients = d.m_clients
      /\ e.m_services = d.m_services /\ e.dead # None
  BY <1>0 DEF Typed, Daemon, die
<1> HIDE DEF e
<1>2. Typed(e) BY <1>1 DEF Typed
<1>3. \A o : Keeps(d, e, o) BY <1>1 DEF Keeps, Touches
<1> QED BY <1>1, <1>2, <1>3 DEF e

\* RemoteTCPClient::connect and the write that follows.
LEMMA ConnectAndWrite ==
  ASSUME HostsTyped, NEW d, Typed(d), NEW o \in DOMAIN d.objects, NEW up
  PROVE  /\ Typed(connectAndWrite(d, o, up))
         /\ Keeps(d, connectAndWrite(d, o, up), o)
<1>1. CASE d.objects[o].connection # 0
  BY <1>1, KeepsReflexive DEF connectAndWrite
<1>2. CASE d.objects[o].connection = 0 /\ up
  <2> DEFINE x == [d.objects[o] EXCEPT !.connection = life[d.objects[o].host]]
  <2>1. connectAndWrite(d, o, up) = [d EXCEPT !.objects[o] = x]
    BY <1>2 DEF connectAndWrite
  <2>2. d.objects[o] \in TCPClient /\ ClientOK(d.objects[o])
    BY DaemonParts DEF Typed
  <2>3. life[d.objects[o].host] \in Nat
    BY <2>2 DEF HostsTyped, TCPClient
  <2>4. /\ x \in TCPClient /\ x.host = d.objects[o].host
        /\ x.state = d.objects[o].state
        /\ x.m_registeredServices = d.objects[o].m_registeredServices
        /\ x.connection = life[d.objects[o].host]
        /\ x.m_lastReceivedSessionID = d.objects[o].m_lastReceivedSessionID
        /\ x.life = d.objects[o].life
    BY <2>2, <2>3 DEF TCPClient
  <2>5. ClientOK(x)
    BY <2>2, <2>3, <2>4, SMT DEF ClientOK
  <2> HIDE DEF x
  <2> DEFINE e == [d EXCEPT !.objects[o] = x]
  <2>6. /\ Typed(e) /\ e.objects[o] = x /\ Touches(d, e, o)
        /\ e.m_clients = d.m_clients /\ e.m_services = d.m_services /\ e.dead = d.dead
    BY <2>4, <2>5, ReplaceObject, SMT
  <2> HIDE DEF e
  <2>7. Keeps(d, e, o) BY <2>4, <2>6 DEF Keeps
  <2> QED BY <2>1, <2>6, <2>7 DEF e
<1>3. CASE d.objects[o].connection = 0 /\ ~up
  <2>1. connectAndWrite(d, o, up) = die(d, "closed")
    BY <1>3 DEF connectAndWrite
  <2>2. "closed" \in Cause BY DEF Cause
  <2> QED BY <2>1, <2>2, Die
<1> QED BY <1>1, <1>2, <1>3

\* The instance of a message is compared with that of the namespace.
LEMMA CheckInstance ==
  ASSUME NEW d, Typed(d), NEW o, NEW service
  PROVE  /\ Typed(checkInstance(d, o, service))
         /\ checkInstance(d, o, service).objects = d.objects
         /\ Keeps(d, checkInstance(d, o, service), o)
<1>1. \/ checkInstance(d, o, service) = d
      \/ checkInstance(d, o, service) = die(d, "null")
      \/ checkInstance(d, o, service) = die(d, "instance")
  BY DEF checkInstance
<1>2. "null" \in Cause /\ "instance" \in Cause BY DEF Cause
<1> QED BY <1>1, <1>2, Die, KeepsReflexive

\* An entry of the namespace of instances is set.
LEMMA SetNamespace ==
  ASSUME HostsTyped, NEW d, Typed(d), NEW o \in DOMAIN d.objects,
         NEW sid \in ServiceID, NEW v \in InstanceID \cup {None, NULL}
  PROVE  /\ Typed([d EXCEPT !.objects[o].m_instanceNamespace[sid] = v])
         /\ Keeps(d, [d EXCEPT !.objects[o].m_instanceNamespace[sid] = v], o)
<1> DEFINE x == [d.objects[o] EXCEPT !.m_instanceNamespace[sid] = v]
<1>1. [d EXCEPT !.objects[o].m_instanceNamespace[sid] = v] = [d EXCEPT !.objects[o] = x]
  OBVIOUS
<1>2. d.objects[o] \in TCPClient /\ ClientOK(d.objects[o])
  BY DaemonParts DEF Typed
<1>3. /\ x \in TCPClient /\ x.host = d.objects[o].host
      /\ x.state = d.objects[o].state
      /\ x.m_registeredServices = d.objects[o].m_registeredServices
      /\ x.connection = d.objects[o].connection
      /\ x.m_lastReceivedSessionID = d.objects[o].m_lastReceivedSessionID
      /\ x.life = d.objects[o].life
  BY <1>2 DEF TCPClient
<1>4. ClientOK(x)
  BY <1>2, <1>3 DEF ClientOK
<1> HIDE DEF x
<1> DEFINE e == [d EXCEPT !.objects[o] = x]
<1>6. /\ Typed(e) /\ e.objects[o] = x /\ Touches(d, e, o)
      /\ e.m_clients = d.m_clients /\ e.m_services = d.m_services /\ e.dead = d.dead
  BY <1>3, <1>4, ReplaceObject, SMT
<1> HIDE DEF e
<1>7. Keeps(d, e, o) BY <1>3, <1>6 DEF Keeps
<1> QED BY <1>1, <1>6, <1>7 DEF e

\* TCPClient::onNotificationSubscribed
LEMMA OnNotificationSubscribed ==
  ASSUME HostsTyped, NEW d, Typed(d), NEW o \in DOMAIN d.objects,
         NEW service \in ServiceIDs, NEW up
  PROVE  /\ Typed(onNotificationSubscribed(d, o, service, up))
         /\ Keeps(d, onNotificationSubscribed(d, o, service, up), o)
<1> DEFINE c == checkInstance(d, o, service)
           n == [c EXCEPT !.objects[o].m_instanceNamespace[service.serviceID]
                            = service.instanceID]
<1>1. onNotificationSubscribed(d, o, service, up) = connectAndWrite(n, o, up)
  BY DEF onNotificationSubscribed
<1>2. service.serviceID \in ServiceID
      /\ service.instanceID \in InstanceID \cup {None, NULL}
  BY DEF ServiceIDs
<1>3. Typed(c) /\ Keeps(d, c, o) /\ o \in DOMAIN c.objects
  BY CheckInstance
<1> HIDE DEF c
<1>4. Typed(n) /\ Keeps(c, n, o)
  BY <1>2, <1>3, SetNamespace
<1> HIDE DEF n
<1>5. o \in DOMAIN n.objects
  BY <1>3, <1>4 DEF Keeps, Touches
<1>6. Typed(connectAndWrite(n, o, up)) /\ Keeps(n, connectAndWrite(n, o, up), o)
  BY <1>4, <1>5, ConnectAndWrite
<1>7. Keeps(d, n, o)
  BY <1>3, <1>4, KeepsTransitive
<1> QED BY <1>1, <1>6, <1>7, KeepsTransitive

\* A crash leaves the clients and the services as they are.
LEMMA SameOwned ==
  ASSUME NEW d, NEW e, Owned(d), e.objects = d.objects, e.m_clients = d.m_clients,
         e.m_services = d.m_services
  PROVE  Owned(e)
<1> SUFFICES ASSUME NEW o \in DOMAIN e.objects, life[e.objects[o].host] = 1
             PROVE  OwnedAt(e, o)
  BY DEF Owned
<1>1. o \in DOMAIN d.objects /\ life[d.objects[o].host] = 1 OBVIOUS
<1>2. OwnedAt(d, o) BY <1>1 DEF Owned
<1> QED BY <1>2 DEF OwnedAt

\* What Keeps leaves alone.
LEMMA KeepsOwned ==
  ASSUME NEW d, NEW e, NEW o \in DOMAIN d.objects, Owned(d), Keeps(d, e, o),
         life[d.objects[o].host] = 1 => d.objects[o].state = "registered"
  PROVE  Owned(e)
<1> SUFFICES ASSUME NEW p \in DOMAIN e.objects, life[e.objects[p].host] = 1
             PROVE  OwnedAt(e, p)
  BY DEF Owned
<1>1. p \in DOMAIN d.objects /\ e.m_clients = d.m_clients /\ e.m_services = d.m_services
  BY DEF Keeps, Touches
<1>2. CASE p = o
  <2>1. life[d.objects[o].host] = 1 BY <1>2 DEF Keeps, Touches
  <2>2. OwnedAt(d, o) BY <2>1 DEF Owned
  <2> QED BY <1>1, <1>2, <2>1, <2>2 DEF Keeps, Touches, OwnedAt
<1>3. CASE p # o
  <2>1. e.objects[p] = d.objects[p] BY <1>1, <1>3 DEF Keeps, Touches
  <2>2. OwnedAt(d, p) BY <1>1, <2>1 DEF Owned
  <2> QED BY <1>1, <2>1, <2>2 DEF OwnedAt
<1> QED BY <1>2, <1>3

\* The daemon registers a service: the entries of the dispatcher and of the
\* client.
Register(d, o, service) ==
  [d EXCEPT !.m_services[service] = o,
            !.objects[o].m_registeredServices = @ \cup {service}]

LEMMA Registered ==
  ASSUME HostsTyped, NEW d, Typed(d), Owned(d), NEW o \in DOMAIN d.objects,
         d.m_clients[d.objects[o].host] = o, NEW service \in ServiceIDs,
         service \in MayOffer[d.objects[o].host], NEW e, e = Register(d, o, service)
  PROVE  /\ Typed(e)
         /\ Owned(e)
         /\ Touches(d, e, o)
         /\ e.objects[o].m_lastReceivedSessionID = d.objects[o].m_lastReceivedSessionID
         /\ e.objects[o].life = d.objects[o].life
         /\ e.m_clients = d.m_clients
         /\ \A s \in ServiceIDs :
              e.m_services[s] = IF s = service THEN o ELSE d.m_services[s]
         /\ e.dead = d.dead
<1> DEFINE x == [d.objects[o] EXCEPT !.m_registeredServices = @ \cup {service}]
           c == [d EXCEPT !.objects[o] = x]
<1>1. d.objects[o] \in TCPClient /\ ClientOK(d.objects[o])
  BY DaemonParts DEF Typed
<1>2. /\ x \in TCPClient /\ x.host = d.objects[o].host
      /\ x.state = d.objects[o].state
      /\ x.m_registeredServices = d.objects[o].m_registeredServices \cup {service}
      /\ x.connection = d.objects[o].connection
      /\ x.m_lastReceivedSessionID = d.objects[o].m_lastReceivedSessionID
      /\ x.life = d.objects[o].life
  BY <1>1 DEF TCPClient
<1>3. ClientOK(x)
  BY <1>1, <1>2 DEF ClientOK
<1>4. e = [c EXCEPT !.m_services = [d.m_services EXCEPT ![service] = o]]
  BY DaemonParts DEF Register
<1> HIDE DEF x
<1>5. /\ Typed(c) /\ c.objects[o] = x /\ Touches(d, c, o)
      /\ c.m_clients = d.m_clients /\ c.m_services = d.m_services /\ c.dead = d.dead
  BY <1>2, <1>3, ReplaceObject, SMT
<1> HIDE DEF c
<1>6. o \in Nat /\ o \in 0 .. Len(d.objects) /\ o \in DOMAIN c.objects
  BY <1>5, DaemonParts, SMT DEF Touches
<1>7. /\ e.objects = c.objects /\ e.m_clients = c.m_clients /\ e.dead = c.dead
      /\ e.m_services = [d.m_services EXCEPT ![service] = o]
      /\ e \in Daemon
  <2> DEFINE t == [d.m_services EXCEPT ![service] = o]
  <2>1. t \in [ServiceIDs -> Nat]
    BY <1>6, DaemonParts
  <2>2. c \in Daemon BY <1>5 DEF Typed
  <2>3. e = [c EXCEPT !.m_services = t] BY <1>4
  <2> HIDE DEF t
  <2>4. e \in Daemon /\ e.objects = c.objects /\ e.m_clients = c.m_clients
        /\ e.dead = c.dead /\ e.m_services = t
    BY <2>1, <2>2, <2>3 DEF Daemon
  <2> QED BY <2>4 DEF t
<1>8. \A s \in ServiceIDs : e.m_services[s] = IF s = service THEN o ELSE d.m_services[s]
  BY <1>7, DaemonParts
<1>9. Typed(e)
  <2>1. o \in 0 .. Len(e.objects) /\ service \in MayOffer[e.objects[o].host]
    BY <1>2, <1>5, <1>6, <1>7 DEF Touches
  <2>2. \A s \in ServiceIDs :
          /\ e.m_services[s] \in 0 .. Len(e.objects)
          /\ e.m_services[s] # 0 => s \in MayOffer[e.objects[e.m_services[s]].host]
    <3> TAKE s \in ServiceIDs
    <3>1. CASE s = service
      BY <1>8, <2>1, <3>1
    <3>2. CASE s # service
      <4>1. e.m_services[s] = c.m_services[s] BY <1>5, <1>8, <3>2
      <4> QED BY <1>5, <1>7, <4>1 DEF Typed
    <3> QED BY <3>1, <3>2
  <2> QED BY <1>5, <1>7, <2>2 DEF Typed
<1>10. Owned(e)
  <2> SUFFICES ASSUME NEW p \in DOMAIN e.objects, life[e.objects[p].host] = 1
               PROVE  OwnedAt(e, p)
    BY DEF Owned
  <2>1. p \in DOMAIN d.objects BY <1>5, <1>7 DEF Touches
  <2>2. e.m_clients = d.m_clients BY <1>5, <1>7
  <2>3. CASE p = o
    <3>1. e.objects[o] = x BY <1>5, <1>7
    <3>2. OwnedAt(d, o) BY <1>2, <2>3, <3>1 DEF Owned
    <3> QED BY <1>2, <1>8, <2>2, <2>3, <3>1, <3>2, SMT DEF OwnedAt
  <2>4. CASE p # o
    <3>1. e.objects[p] = d.objects[p] BY <1>5, <1>7, <2>1, <2>4 DEF Touches
    <3>2. OwnedAt(d, p) BY <2>1, <3>1 DEF Owned
    <3> QED BY <1>8, <2>2, <2>4, <3>1, <3>2 DEF OwnedAt
  <2> QED BY <2>3, <2>4
<1> QED BY <1>2, <1>5, <1>7, <1>8, <1>9, <1>10 DEF Touches

\* e is d with a service of the client o registered.
Offered(d, o, service, e) ==
  /\ Typed(e)
  /\ Owned(e)
  /\ Touches(d, e, o)
  /\ e.m_clients = d.m_clients
  /\ \A s \in ServiceIDs : e.m_services[s] =
       IF s = service /\ d.m_services[s] = 0 THEN o ELSE d.m_services[s]
  /\ e.objects[o].m_lastReceivedSessionID = d.objects[o].m_lastReceivedSessionID
  /\ e.objects[o].life = d.objects[o].life
  /\ d.dead # None => e.dead # None

\* TCPClient::onServiceAvailable for the client o that TCPManager knows.
LEMMA OnServiceAvailable ==
  ASSUME HostsTyped, NEW d, Typed(d), Owned(d), NEW o \in DOMAIN d.objects,
         d.m_clients[d.objects[o].host] = o, NEW service \in ServiceIDs,
         service \in MayOffer[d.objects[o].host], NEW up
  PROVE  Offered(d, o, service, onServiceAvailable(d, o, service, up))
<1> SUFFICES ASSUME NEW e, e = onServiceAvailable(d, o, service, up) PROVE Offered(d, o, service, e) OBVIOUS
<1> DEFINE r == Register(d, o, service)
           c == IF d.m_services[service] = 0 THEN r ELSE d
           f == registerService(d, o, service, up)
           k == checkInstance(f, o, service)
           v == IF d.m_services[service] # 0 THEN NULL ELSE service.instanceID
<1>1. e = [k EXCEPT !.objects[o].m_instanceNamespace[service.serviceID] = v]
  BY DEF onServiceAvailable
<1>2. \/ f = c
      \/ d.m_services[service] = 0 /\ f = onNotificationSubscribed(c, o, service, up)
  BY DEF registerService, Register
<1>3. /\ Typed(c) /\ Owned(c) /\ Touches(d, c, o) /\ c.m_clients = d.m_clients
      /\ \A s \in ServiceIDs : c.m_services[s] =
           IF s = service /\ d.m_services[s] = 0 THEN o ELSE d.m_services[s]
      /\ c.objects[o].m_lastReceivedSessionID = d.objects[o].m_lastReceivedSessionID
      /\ c.objects[o].life = d.objects[o].life
      /\ c.dead = d.dead
  <2> HIDE DEF r
  <2>1. CASE d.m_services[service] = 0
    <3>1. c = r BY <2>1
    <3>0. c = Register(d, o, service)
      BY <3>1 DEF r
    <3> HIDE DEF c
    <3>2. Typed(c) /\ Owned(c) /\ Touches(d, c, o)
      BY <3>0, Registered
    <3>3. /\ c.objects[o].m_lastReceivedSessionID = d.objects[o].m_lastReceivedSessionID
          /\ c.objects[o].life = d.objects[o].life
          /\ c.m_clients = d.m_clients
          /\ \A s \in ServiceIDs :
               c.m_services[s] = IF s = service THEN o ELSE d.m_services[s]
          /\ c.dead = d.dead
      BY <3>0, Registered, SMT
    <3> QED BY <2>1, <3>2, <3>3
  <2>2. CASE d.m_services[service] # 0
    BY <2>2 DEF Touches
  <2> QED BY <2>1, <2>2
<1> HIDE DEF c, f, v
<1>4. o \in DOMAIN c.objects /\ c.objects[o].host = d.objects[o].host
  BY <1>3 DEF Touches
<1>5. Typed(f) /\ Keeps(c, f, o)
  BY <1>2, <1>3, <1>4, OnNotificationSubscribed, KeepsReflexive, SMT
<1>6. Typed(k) /\ Keeps(f, k, o)
  BY <1>5, CheckInstance
<1> HIDE DEF k
<1>7. Keeps(c, k, o) /\ o \in DOMAIN k.objects
  <2>1. Keeps(c, k, o) BY <1>5, <1>6, KeepsTransitive
  <2> QED BY <1>4, <2>1 DEF Keeps, Touches
<1>8. service.serviceID \in ServiceID /\ v \in InstanceID \cup {None, NULL}
  BY DEF ServiceIDs, v
<1>9. Typed(e) /\ Keeps(k, e, o)
  <2> DEFINE n == [k EXCEPT !.objects[o].m_instanceNamespace[service.serviceID] = v]
  <2>1. Typed(n) /\ Keeps(k, n, o)
    BY <1>6, <1>7, <1>8, SetNamespace
  <2> QED BY <1>1, <2>1
<1>10. Keeps(c, e, o)
  BY <1>7, <1>9, KeepsTransitive
<1>11. life[c.objects[o].host] = 1 => c.objects[o].state = "registered"
  BY <1>3, <1>4, SMT DEF Owned, OwnedAt
<1>12. Owned(e)
  BY <1>3, <1>4, <1>10, <1>11, KeepsOwned
<1>13. Touches(d, e, o)
  BY <1>3, <1>10 DEF Keeps, Touches
<1>14. /\ e.m_clients = d.m_clients /\ e.m_services = c.m_services
       /\ e.objects[o].m_lastReceivedSessionID = d.objects[o].m_lastReceivedSessionID
       /\ e.objects[o].life = d.objects[o].life
       /\ d.dead # None => e.dead # None
  BY <1>3, <1>10 DEF Keeps
<1> QED BY <1>3, <1>9, <1>12, <1>13, <1>14 DEF Offered

\* e is d with a service of the client o taken back.
Withdrawn(d, o, service, e) ==
  /\ Typed(e)
  /\ Owned(e)
  /\ Touches(d, e, o)
  /\ e.m_clients = d.m_clients
  /\ \A s \in ServiceIDs : e.m_services[s] =
       IF s = service /\ s \in d.objects[o].m_registeredServices
       THEN 0 ELSE d.m_services[s]
  /\ e.objects[o].m_lastReceivedSessionID = d.objects[o].m_lastReceivedSessionID
  /\ e.objects[o].life = d.objects[o].life
  /\ e.dead = d.dead

\* TCPClient::onServiceUnavailable
LEMMA OnServiceUnavailable ==
  ASSUME NEW d, Typed(d), Owned(d), NEW o \in DOMAIN d.objects,
         NEW service \in ServiceIDs
  PROVE  Withdrawn(d, o, service, onServiceUnavailable(d, o, service))
<1> SUFFICES ASSUME NEW e, e = onServiceUnavailable(d, o, service) PROVE Withdrawn(d, o, service, e) OBVIOUS
<1> DEFINE reg == d.objects[o].m_registeredServices
           x == [d.objects[o] EXCEPT !.m_registeredServices = @ \ {service},
                                     !.m_instanceNamespace[service.serviceID] = None]
           c == [d EXCEPT !.objects[o] = x]
           t == IF service \in reg THEN [d.m_services EXCEPT ![service] = 0] ELSE d.m_services
<1>1. d.objects[o] \in TCPClient /\ ClientOK(d.objects[o])
  BY DaemonParts DEF Typed
<1>2. /\ x \in TCPClient /\ x.host = d.objects[o].host
      /\ x.state = d.objects[o].state
      /\ x.m_registeredServices = reg \ {service}
      /\ x.connection = d.objects[o].connection
      /\ x.m_lastReceivedSessionID = d.objects[o].m_lastReceivedSessionID
      /\ x.life = d.objects[o].life
  BY <1>1 DEF TCPClient, ServiceIDs
<1>3. ClientOK(x)
  BY <1>1, <1>2 DEF ClientOK
<1>4. t \in [ServiceIDs -> Nat]
      /\ \A s \in ServiceIDs : t[s] = IF s = service /\ s \in reg THEN 0 ELSE d.m_services[s]
  BY DaemonParts
<1>5. e = [c EXCEPT !.m_services = t]
  <2>1. [d.m_services EXCEPT ![service] = d.m_services[service]] = d.m_services
    BY DaemonParts
  <2>2. [d.m_services EXCEPT ![service] = IF service \in reg THEN 0 ELSE d.m_services[service]] = t
    BY <2>1
  <2>3. e = [d EXCEPT !.objects[o] = x,
                      !.m_services = [d.m_services EXCEPT ![service] =
                         IF service \in reg THEN 0 ELSE d.m_services[service]]]
    <3> DEFINE m == [d.m_services EXCEPT ![service] =
                       IF service \in reg THEN 0 ELSE d.m_services[service]]
    <3>3. e = [d EXCEPT !.m_services = m, !.objects = [d.objects EXCEPT ![o] = x]]
      BY DEF onServiceUnavailable
    <3> HIDE DEF x, m
    <3>4. e = [d EXCEPT !.objects = [d.objects EXCEPT ![o] = x], !.m_services = m]
      BY <3>3, DaemonParts
    <3> QED BY <3>4 DEF m
  <2>4. e = [d EXCEPT !.objects[o] = x, !.m_services = t]
    BY <2>2, <2>3
  <2> HIDE DEF x, t
  <2> QED BY <2>4, DaemonParts
<1> HIDE DEF x
<1>6. /\ Typed(c) /\ c.objects[o] = x /\ Touches(d, c, o)
      /\ c.m_clients = d.m_clients /\ c.m_services = d.m_services /\ c.dead = d.dead
  BY <1>2, <1>3, ReplaceObject, SMT
<1> HIDE DEF c, t
<1>7. /\ e.objects = c.objects /\ e.m_clients = c.m_clients /\ e.dead = c.dead
      /\ e.m_services = t /\ e \in Daemon
  BY <1>4, <1>5, <1>6 DEF Typed, Daemon
<1>8. Typed(e)
  <2>1. \A s \in ServiceIDs :
          /\ e.m_services[s] \in 0 .. Len(e.objects)
          /\ e.m_services[s] # 0 => s \in MayOffer[e.objects[e.m_services[s]].host]
    <3> TAKE s \in ServiceIDs
    <3>1. e.m_services[s] = 0 \/ e.m_services[s] = c.m_services[s]
      BY <1>4, <1>6, <1>7
    <3>2. Len(e.objects) \in Nat BY <1>7, SMT DEF Daemon
    <3> QED BY <1>6, <1>7, <3>1, <3>2, SMT DEF Typed
  <2> QED BY <1>6, <1>7, <2>1 DEF Typed
<1>9. Owned(e)
  <2> SUFFICES ASSUME NEW p \in DOMAIN e.objects, life[e.objects[p].host] = 1
               PROVE  OwnedAt(e, p)
    BY DEF Owned
  <2>1. p \in DOMAIN d.objects /\ p # 0
    <3>1. DOMAIN d.objects = 1 .. Len(d.objects) /\ Len(d.objects) \in Nat BY DaemonParts
    <3> QED BY <1>6, <1>7, <3>1, SMT DEF Touches
  <2>2. e.m_clients = d.m_clients BY <1>6, <1>7
  <2>3. \A s \in ServiceIDs : e.m_services[s] = p =>
          d.m_services[s] = p /\ ~(s = service /\ s \in reg)
    BY <1>4, <1>7, <2>1
  <2>4. CASE p = o
    <3>1. e.objects[o] = x BY <1>6, <1>7
    <3>2. OwnedAt(d, o) BY <1>2, <2>4, <3>1 DEF Owned
    <3> QED BY <1>2, <2>2, <2>3, <2>4, <3>1, <3>2 DEF OwnedAt
  <2>5. CASE p # o
    <3>1. e.objects[p] = d.objects[p] BY <1>6, <1>7, <2>1, <2>5 DEF Touches
    <3>2. OwnedAt(d, p) BY <2>1, <3>1 DEF Owned
    <3> QED BY <2>2, <2>3, <3>1, <3>2 DEF OwnedAt
  <2> QED BY <2>4, <2>5
<1> QED BY <1>2, <1>4, <1>6, <1>7, <1>8, <1>9 DEF Touches, Withdrawn

\* e is d with the client of h found or created.
ClientFound(d, h, e) ==
  /\ Typed(e)
  /\ Owned(e)
  /\ e.m_clients[h] \in DOMAIN e.objects
  /\ e.objects[e.m_clients[h]].host = h
  /\ e.m_services = d.m_services
  /\ e.dead = d.dead
  /\ DOMAIN d.objects \subseteq DOMAIN e.objects
  /\ \A p \in DOMAIN d.objects : e.objects[p] = d.objects[p]
  /\ \A g \in Host : g # h => e.m_clients[g] = d.m_clients[g]
  /\ d.m_clients[h] # 0 => e = d
  /\ d.m_clients[h] = 0 => /\ e.objects[e.m_clients[h]].m_lastReceivedSessionID = 0
                           /\ e.objects[e.m_clients[h]].life = 0

\* TCPManager::getOrCreateClient: a client that has heard of nothing.
LEMMA GetOrCreateClient ==
  ASSUME HostsTyped, NEW d, Typed(d), Owned(d), NEW h \in Host
  PROVE  ClientFound(d, h, getOrCreateClient(d, h))
<1> SUFFICES ASSUME NEW e, e = getOrCreateClient(d, h) PROVE ClientFound(d, h, e) OBVIOUS
<1>1. /\ d.objects \in Seq(TCPClient) /\ Len(d.objects) \in Nat
      /\ DOMAIN d.objects = 1 .. Len(d.objects)
      /\ d.m_clients \in [Host -> Nat]
  BY DaemonParts
<1>2. CASE d.m_clients[h] # 0
  <2>1. e = d BY <1>2 DEF getOrCreateClient
  <2>2. d.m_clients[h] \in DOMAIN d.objects /\ d.objects[d.m_clients[h]].host = h
    BY <1>1, <1>2, SMT DEF Typed
  <2> QED BY <1>2, <2>1, <2>2 DEF ClientFound
<1>3. CASE d.m_clients[h] = 0
  <2> DEFINE x == newClient(h)
             n == Len(d.objects) + 1
             q == Append(d.objects, x)
             t == [d.m_clients EXCEPT ![h] = n]
  <2>1. /\ x \in TCPClient /\ x.host = h /\ x.state = "registered" /\ x.connection = 0
        /\ x.m_registeredServices = {} /\ x.m_lastReceivedSessionID = 0 /\ x.life = 0
    BY DEF newClient, TCPClient, State
  <2>2. ClientOK(x)
    BY <2>1, SMT DEF ClientOK, HostsTyped
  <2>3. e = [d EXCEPT !.objects = q, !.m_clients = t]
    BY <1>3 DEF getOrCreateClient
  <2> HIDE DEF x
  <2>4. /\ q \in Seq(TCPClient) /\ Len(q) = n /\ q[n] = x
        /\ \A p \in DOMAIN d.objects : q[p] = d.objects[p]
        /\ DOMAIN q = 1 .. n
    BY <1>1, <2>1, Appended, SMT
  <2>5. n \in Nat /\ n > Len(d.objects) /\ n # 0 /\ n \notin DOMAIN d.objects
    BY <1>1, SMT
  <2>6. t \in [Host -> Nat] /\ \A g \in Host : t[g] = IF g = h THEN n ELSE d.m_clients[g]
    BY <1>1, <2>5
  <2> HIDE DEF q, t
  <2>7. /\ e \in Daemon /\ e.objects = q /\ e.m_clients = t
        /\ e.m_services = d.m_services /\ e.dead = d.dead
    BY <2>3, <2>4, <2>6 DEF Typed, Daemon
  <2> HIDE DEF n
  <2>8. DOMAIN q = DOMAIN d.objects \cup {n} /\ Len(q) = Len(d.objects) + 1
    BY <1>1, <2>4, SMT DEF n
  <2>9. \A o \in DOMAIN e.objects : ClientOK(e.objects[o])
    BY <2>2, <2>4, <2>7, <2>8 DEF Typed
  <2>10. \A g \in Host : /\ e.m_clients[g] \in 0 .. Len(e.objects)
                         /\ e.m_clients[g] # 0 => e.objects[e.m_clients[g]].host = g
    <3> TAKE g \in Host
    <3>1. CASE g = h
      BY <1>1, <2>1, <2>4, <2>5, <2>6, <2>7, <2>8, <3>1, SMT
    <3>2. CASE g # h
      <4>1. e.m_clients[g] = d.m_clients[g] BY <2>6, <2>7, <3>2
      <4>2. d.m_clients[g] \in 0 .. Len(d.objects)
            /\ (d.m_clients[g] # 0 => d.objects[d.m_clients[g]].host = g)
        BY DEF Typed
      <4>3. d.m_clients[g] # 0 => d.m_clients[g] \in DOMAIN d.objects
        BY <1>1, <4>2, SMT
      <4> QED BY <1>1, <2>4, <2>7, <2>8, <4>1, <4>2, <4>3, SMT
    <3> QED BY <3>1, <3>2
  <2>11. \A s \in ServiceIDs :
           /\ d.m_services[s] \in 0 .. Len(e.objects) /\ d.m_services[s] # n
           /\ d.m_services[s] # 0 => s \in MayOffer[e.objects[d.m_services[s]].host]
    <3> TAKE s \in ServiceIDs
    <3>1. d.m_services[s] \in 0 .. Len(d.objects)
          /\ (d.m_services[s] # 0 => s \in MayOffer[d.objects[d.m_services[s]].host])
      BY DEF Typed
    <3>2. d.m_services[s] # 0 => d.m_services[s] \in DOMAIN d.objects
      BY <1>1, <3>1, SMT
    <3> QED BY <1>1, <2>4, <2>5, <2>7, <2>8, <3>1, <3>2, SMT
  <2>12. Typed(e)
    BY <2>7, <2>9, <2>10, <2>11 DEF Typed
  <2>13. Owned(e)
    <3> SUFFICES ASSUME NEW p \in DOMAIN e.objects, life[e.objects[p].host] = 1
                 PROVE  OwnedAt(e, p)
      BY DEF Owned
    <3>1. CASE p = n
      <4>1. e.objects[p] = x /\ e.m_clients[h] = n BY <2>4, <2>6, <2>7, <3>1
      <4>2. \A s \in ServiceIDs : e.m_services[s] # p BY <2>7, <2>11, <3>1
      <4> QED BY <2>1, <3>1, <4>1, <4>2 DEF OwnedAt
    <3>2. CASE p # n
      <4>1. p \in DOMAIN d.objects /\ e.objects[p] = d.objects[p]
        BY <2>4, <2>7, <2>8, <3>2
      <4>2. OwnedAt(d, p) BY <4>1 DEF Owned
      <4>3. d.objects[p].host \in Host
        BY <4>1, DaemonParts DEF TCPClient
      <4>4. e.m_clients[d.objects[p].host] = p <=> d.m_clients[d.objects[p].host] = p
        <5>1. p # 0 BY <1>1, <4>1, SMT
        <5> QED BY <1>3, <2>6, <2>7, <3>2, <4>3, <5>1
      <4> QED BY <2>7, <4>1, <4>2, <4>4 DEF OwnedAt
    <3> QED BY <3>1, <3>2
  <2>14. e.m_clients[h] = n /\ e.objects[n] = x
    BY <2>4, <2>6, <2>7
  <2>15. \A g \in Host : g # h => e.m_clients[g] = d.m_clients[g]
    BY <2>6, <2>7
  <2>16. /\ DOMAIN d.objects \subseteq DOMAIN e.objects /\ n \in DOMAIN e.objects
         /\ \A p \in DOMAIN d.objects : e.objects[p] = d.objects[p]
    BY <2>4, <2>7, <2>8
  <2> QED BY <1>3, <2>1, <2>7, <2>12, <2>13, <2>14, <2>15, <2>16 DEF ClientFound
<1> QED BY <1>2, <1>3 DEF ClientFound

\* e is d with the session of m remembered.
SessionKept(d, o, m, e) ==
  /\ Typed(e)
  /\ Owned(e)
  /\ Touches(d, e, o)
  /\ e.m_clients = d.m_clients
  /\ e.m_services = d.m_services
  /\ e.dead = d.dead
  /\ e.objects[o].m_lastReceivedSessionID = m.session.id
  /\ e.objects[o].life = m.life
  /\ e.objects[o].m_registeredServices = d.objects[o].m_registeredServices
  /\ e.objects[o].state = d.objects[o].state

\* TCPClient::detectReboot: the session is remembered.
LEMMA Heard ==
  ASSUME NEW d, Typed(d), Owned(d), NEW o \in DOMAIN d.objects,
         NEW m \in SDMessage
  PROVE  SessionKept(d, o, m, heard(d, o, m))
<1> SUFFICES ASSUME NEW e, e = heard(d, o, m) PROVE SessionKept(d, o, m, e) OBVIOUS
<1> DEFINE x == [d.objects[o] EXCEPT !.m_lastReceivedSessionID = m.session.id,
                                     !.life = m.life]
<1>1. d.objects[o] \in TCPClient /\ ClientOK(d.objects[o])
  BY DaemonParts DEF Typed
<1>2. m.session.id \in Nat /\ m.life \in Nat /\ m.life # 0
  BY SessionIDsAssumption, SMT DEF SDMessage, Session
<1>3. /\ x \in TCPClient /\ x.host = d.objects[o].host
      /\ x.state = d.objects[o].state
      /\ x.m_registeredServices = d.objects[o].m_registeredServices
      /\ x.connection = d.objects[o].connection
      /\ x.m_lastReceivedSessionID = m.session.id
      /\ x.life = m.life
  BY <1>1, <1>2 DEF TCPClient
<1>4. ClientOK(x)
  BY <1>1, <1>2, <1>3 DEF ClientOK
<1>5. e = [d EXCEPT !.objects[o] = x]
  BY DEF heard
<1> HIDE DEF x
<1>6. /\ Typed(e) /\ e.objects[o] = x /\ Touches(d, e, o)
      /\ e.m_clients = d.m_clients /\ e.m_services = d.m_services /\ e.dead = d.dead
  BY <1>3, <1>4, <1>5, ReplaceObject, SMT
<1>7. Owned(e)
  <2> SUFFICES ASSUME NEW p \in DOMAIN e.objects, life[e.objects[p].host] = 1
               PROVE  OwnedAt(e, p)
    BY DEF Owned
  <2>1. p \in DOMAIN d.objects BY <1>6 DEF Touches
  <2>2. CASE p = o
    <3>1. OwnedAt(d, o) BY <1>3, <1>6, <2>2 DEF Owned
    <3> QED BY <1>3, <1>6, <2>2, <3>1 DEF OwnedAt
  <2>3. CASE p # o
    <3>1. e.objects[p] = d.objects[p] BY <1>6, <2>1, <2>3 DEF Touches
    <3>2. OwnedAt(d, p) BY <2>1, <3>1 DEF Owned
    <3> QED BY <1>6, <3>1, <3>2 DEF OwnedAt
  <2> QED BY <2>2, <2>3
<1> QED BY <1>3, <1>6, <1>7 DEF SessionKept

\* Client::unregisterClient: the services of the client are taken out of the
\* dispatcher.
LEMMA UnregisterClient ==
  ASSUME NEW d, Typed(d), NEW o \in DOMAIN d.objects, NEW e,
         e = unregisterClient(d, o)
  PROVE  /\ Typed(e)
         /\ Touches(d, e, o)
         /\ e.m_clients = d.m_clients
         /\ e.dead = d.dead
         /\ e.objects[o].state # "registered"
         /\ e.objects[o].connection = d.objects[o].connection
         /\ e.objects[o].m_lastReceivedSessionID = d.objects[o].m_lastReceivedSessionID
         /\ e.objects[o].life = d.objects[o].life
         /\ \A s \in ServiceIDs : e.m_services[s] =
              IF d.objects[o].state = "registered" /\ s \in d.objects[o].m_registeredServices
              THEN 0 ELSE d.m_services[s]
<1> DEFINE reg == d.objects[o].m_registeredServices
           x == [d.objects[o] EXCEPT !.state = "disconnected"]
           c == [d EXCEPT !.objects[o] = x]
           t == [s \in ServiceIDs |-> IF s \in reg THEN 0 ELSE d.m_services[s]]
<1>1. CASE d.objects[o].state # "registered"
  <2>1. e = d BY <1>1 DEF unregisterClient
  <2> QED BY <1>1, <2>1, SMT DEF Touches
<1>2. CASE d.objects[o].state = "registered"
  <2>1. d.objects[o] \in TCPClient /\ ClientOK(d.objects[o])
    BY DaemonParts DEF Typed
  <2>2. /\ x \in TCPClient /\ x.host = d.objects[o].host
        /\ x.state # "registered"
        /\ x.m_registeredServices = reg
        /\ x.connection = d.objects[o].connection
        /\ x.m_lastReceivedSessionID = d.objects[o].m_lastReceivedSessionID
        /\ x.life = d.objects[o].life
    BY <2>1 DEF TCPClient, State
  <2>3. ClientOK(x)
    BY <2>1, <2>2 DEF ClientOK
  <2>4. t \in [ServiceIDs -> Nat]
        /\ \A s \in ServiceIDs : t[s] = IF s \in reg THEN 0 ELSE d.m_services[s]
    BY DaemonParts
  <2>5. e = [c EXCEPT !.m_services = t]
    BY <1>2, DaemonParts DEF unregisterClient
  <2> HIDE DEF x, t, reg
  <2>6. /\ Typed(c) /\ c.objects[o] = x /\ Touches(d, c, o)
        /\ c.m_clients = d.m_clients /\ c.m_services = d.m_services /\ c.dead = d.dead
    BY <2>2, <2>3, ReplaceObject, SMT
  <2> HIDE DEF c
  <2>7. /\ e \in Daemon /\ e.objects = c.objects /\ e.m_clients = c.m_clients
        /\ e.dead = c.dead /\ e.m_services = t
    BY <2>4, <2>5, <2>6 DEF Typed, Daemon
  <2>8. \A s \in ServiceIDs :
          /\ e.m_services[s] \in 0 .. Len(e.objects)
          /\ e.m_services[s] # 0 => s \in MayOffer[e.objects[e.m_services[s]].host]
    <3> TAKE s \in ServiceIDs
    <3>1. /\ c.m_services[s] \in 0 .. Len(c.objects)
          /\ c.m_services[s] # 0 => s \in MayOffer[c.objects[c.m_services[s]].host]
      BY <2>6 DEF Typed
    <3>2. e.m_services[s] = 0 \/ e.m_services[s] = c.m_services[s]
      BY <2>4, <2>6, <2>7
    <3> QED BY <2>7, <3>1, <3>2, SMT
  <2>9. Typed(e)
    BY <2>6, <2>7, <2>8 DEF Typed
  <2> QED BY <1>2, <2>2, <2>4, <2>6, <2>7, <2>9 DEF Touches, reg
<1> QED BY <1>1, <1>2

\* e is d with the connection of the client o closed.
HungUp(d, o, e) ==
  /\ Typed(e)
  /\ Touches(d, e, o)
  /\ e.m_clients = d.m_clients
  /\ e.dead = d.dead
  /\ e.objects[o].connection = 0
  /\ e.objects[o].m_lastReceivedSessionID = d.objects[o].m_lastReceivedSessionID
  /\ e.objects[o].life = d.objects[o].life
  /\ IF d.objects[o].connection = 0 THEN e = d
     ELSE /\ e.objects[o].state # "registered"
          /\ \A s \in ServiceIDs : e.m_services[s] =
               IF /\ d.objects[o].state = "registered"
                  /\ s \in d.objects[o].m_registeredServices
               THEN 0 ELSE d.m_services[s]

\* SocketStreamConnection::disconnect and TCPClient::onDisconnected.
LEMMA Disconnect ==
  ASSUME HostsTyped, NEW d, Typed(d), NEW o \in DOMAIN d.objects
  PROVE  HungUp(d, o, disconnect(d, o))
<1> SUFFICES ASSUME NEW e, e = disconnect(d, o) PROVE HungUp(d, o, e) OBVIOUS
<1> DEFINE x == [d.objects[o] EXCEPT !.connection = 0]
           c == [d EXCEPT !.objects[o] = x]
<1>1. CASE d.objects[o].connection = 0
  <2>1. e = d BY <1>1 DEF disconnect
  <2> QED BY <1>1, <2>1 DEF Touches, HungUp
<1>2. CASE d.objects[o].connection # 0
  <2>1. d.objects[o] \in TCPClient /\ ClientOK(d.objects[o])
    BY DaemonParts DEF Typed
  <2>2. /\ x \in TCPClient /\ x.host = d.objects[o].host
        /\ x.state = d.objects[o].state
        /\ x.m_registeredServices = d.objects[o].m_registeredServices
        /\ x.connection = 0
        /\ x.m_lastReceivedSessionID = d.objects[o].m_lastReceivedSessionID
        /\ x.life = d.objects[o].life
    BY <2>1 DEF TCPClient
  <2>3. 0 <= life[x.host]
    <3>1. x.host \in Host BY <2>2 DEF TCPClient
    <3> QED BY <3>1, SMT DEF HostsTyped
  <2>4. ClientOK(x)
    BY <2>1, <2>2, <2>3 DEF ClientOK
  <2>5. e = unregisterClient(c, o)
    BY <1>2 DEF disconnect
  <2> HIDE DEF x
  <2>6. /\ Typed(c) /\ c.objects[o] = x /\ Touches(d, c, o)
        /\ c.m_clients = d.m_clients /\ c.m_services = d.m_services /\ c.dead = d.dead
    BY <2>2, <2>4, ReplaceObject, SMT
  <2> HIDE DEF c
  <2>7. o \in DOMAIN c.objects BY <2>6 DEF Touches
  <2>8. /\ Typed(e)
        /\ Touches(c, e, o)
        /\ e.m_clients = c.m_clients
        /\ e.dead = c.dead
        /\ e.objects[o].state # "registered"
        /\ e.objects[o].connection = x.connection
        /\ e.objects[o].m_lastReceivedSessionID = x.m_lastReceivedSessionID
        /\ e.objects[o].life = x.life
        /\ \A s \in ServiceIDs : e.m_services[s] =
             IF x.state = "registered" /\ s \in x.m_registeredServices
             THEN 0 ELSE c.m_services[s]
    BY <2>5, <2>6, <2>7, UnregisterClient, SMT
  <2>9. Touches(d, e, o)
    BY <2>6, <2>8 DEF Touches
  <2> QED BY <1>2, <2>2, <2>6, <2>8, <2>9 DEF HungUp
<1> QED BY <1>1, <1>2 DEF HungUp

\* e is d with the client of h given up.
GivenUp(d, h, e) ==
  /\ Typed(e)
  /\ Owned(e)
  /\ e.m_clients[h] = 0
  /\ e.dead = d.dead
  /\ \A g \in Host : g # h => e.m_clients[g] = d.m_clients[g]
  /\ DOMAIN e.objects = DOMAIN d.objects
  /\ \A p \in DOMAIN d.objects : d.objects[p].host # h => e.objects[p] = d.objects[p]
  /\ \A s \in ServiceIDs : s \notin MayOffer[h] => e.m_services[s] = d.m_services[s]

\* TCPManager::onClientReboot of the client of h: it is given up, with its
\* connection and its services.
LEMMA OnClientReboot ==
  ASSUME HostsTyped, NEW d, Typed(d), Owned(d), NEW h \in Host,
         d.m_clients[h] # 0
  PROVE  GivenUp(d, h, onClientReboot(d, d.m_clients[h]))
<1> SUFFICES ASSUME NEW e, e = onClientReboot(d, d.m_clients[h]) PROVE GivenUp(d, h, e) OBVIOUS
<1> DEFINE o == d.m_clients[h]
           c == disconnect(d, o)
           u == unregisterClient(c, o)
<1>1. o \in DOMAIN d.objects /\ d.objects[o].host = h /\ o # 0
  BY DaemonParts, SMT DEF Typed
<1>2. e = [u EXCEPT !.m_clients[h] = 0]
  BY <1>1 DEF onClientReboot
<1> HIDE DEF o
<1>3. /\ Typed(c)
      /\ Touches(d, c, o)
      /\ c.m_clients = d.m_clients
      /\ c.dead = d.dead
      /\ c.objects[o].connection = 0
      /\ IF d.objects[o].connection = 0 THEN c = d
         ELSE /\ c.objects[o].state # "registered"
              /\ \A s \in ServiceIDs : c.m_services[s] =
                   IF /\ d.objects[o].state = "registered"
                      /\ s \in d.objects[o].m_registeredServices
                   THEN 0 ELSE d.m_services[s]
  <2>1. HungUp(d, o, c) BY <1>1, Disconnect
  <2> QED BY <2>1 DEF HungUp
<1> HIDE DEF c
<1>4. o \in DOMAIN c.objects BY <1>1, <1>3 DEF Touches
<1>5. /\ Typed(u)
      /\ Touches(c, u, o)
      /\ u.m_clients = c.m_clients
      /\ u.dead = c.dead
      /\ u.objects[o].state # "registered"
      /\ u.objects[o].connection = c.objects[o].connection
      /\ \A s \in ServiceIDs : u.m_services[s] =
           IF c.objects[o].state = "registered" /\ s \in c.objects[o].m_registeredServices
           THEN 0 ELSE c.m_services[s]
  BY <1>3, <1>4, UnregisterClient, SMT
<1> HIDE DEF u
<1>6. \A s \in ServiceIDs : u.m_services[s] =
        IF d.objects[o].state = "registered" /\ s \in d.objects[o].m_registeredServices
        THEN 0 ELSE d.m_services[s]
  BY <1>3, <1>5
<1>7. Touches(d, u, o) /\ u.m_clients = d.m_clients
  BY <1>3, <1>5 DEF Touches
<1>8. /\ e \in Daemon /\ e.objects = u.objects /\ e.m_services = u.m_services
      /\ e.dead = u.dead /\ e.m_clients = [u.m_clients EXCEPT ![h] = 0]
  <2> DEFINE t == [u.m_clients EXCEPT ![h] = 0]
  <2>1. t \in [Host -> Nat] BY <1>5, DaemonParts
  <2>2. u \in Daemon BY <1>5 DEF Typed
  <2>3. e = [u EXCEPT !.m_clients = t] BY <1>2
  <2> HIDE DEF t
  <2>4. /\ e \in Daemon /\ e.objects = u.objects /\ e.m_services = u.m_services
        /\ e.dead = u.dead /\ e.m_clients = t
    BY <2>1, <2>2, <2>3 DEF Daemon
  <2> QED BY <2>4 DEF t
<1>9. \A g \in Host : e.m_clients[g] = IF g = h THEN 0 ELSE u.m_clients[g]
  BY <1>5, <1>8, DaemonParts
<1>10. Typed(e)
  <2>1. \A g \in Host : /\ e.m_clients[g] \in 0 .. Len(e.objects)
                        /\ e.m_clients[g] # 0 => e.objects[e.m_clients[g]].host = g
    <3> TAKE g \in Host
    <3>1. /\ u.m_clients[g] \in 0 .. Len(u.objects)
          /\ u.m_clients[g] # 0 => u.objects[u.m_clients[g]].host = g
      BY <1>5 DEF Typed
    <3>2. e.m_clients[g] = 0 \/ e.m_clients[g] = u.m_clients[g] BY <1>9
    <3> QED BY <1>8, <3>1, <3>2, SMT
  <2> QED BY <1>5, <1>8, <2>1, ZenonT(60) DEF Typed
<1>11. Owned(e)
  <2> SUFFICES ASSUME NEW p \in DOMAIN e.objects, life[e.objects[p].host] = 1
               PROVE  OwnedAt(e, p)
    BY DEF Owned
  <2>1. p \in DOMAIN d.objects /\ p # 0
    BY <1>7, <1>8, DaemonParts, SMT DEF Touches
  <2>2. \A s \in ServiceIDs : e.m_services[s] = p =>
          /\ d.m_services[s] = p
          /\ ~(d.objects[o].state = "registered" /\ s \in d.objects[o].m_registeredServices)
    BY <1>6, <1>8, <2>1
  <2>3. CASE p = o
    <3>1. /\ e.objects[o] = u.objects[o] /\ e.objects[o].host = h
          /\ e.objects[o].state # "registered" /\ e.objects[o].connection = 0
      BY <1>1, <1>3, <1>5, <1>7, <1>8 DEF Touches
    <3>2. OwnedAt(d, o) BY <1>1, <2>3, <3>1 DEF Owned
    <3>3. \A s \in ServiceIDs : e.m_services[s] # p
      BY <2>2, <2>3, <3>2 DEF OwnedAt
    <3>4. e.m_clients[h] = 0 BY <1>9
    <3> QED BY <2>1, <2>3, <3>1, <3>3, <3>4 DEF OwnedAt
  <2>4. CASE p # o
    <3>1. e.objects[p] = d.objects[p] BY <1>7, <1>8, <2>1, <2>4 DEF Touches
    <3>2. OwnedAt(d, p) BY <2>1, <3>1 DEF Owned
    <3>3. d.objects[p].host \in Host BY <2>1, DaemonParts DEF TCPClient
    <3>4. e.m_clients[d.objects[p].host] = p <=> d.m_clients[d.objects[p].host] = p
      BY <1>7, <1>9, <2>1, <2>4, <3>3 DEF o
    <3> QED BY <2>2, <3>1, <3>2, <3>4 DEF OwnedAt
  <2> QED BY <2>3, <2>4
<1>12. \A s \in ServiceIDs : s \notin MayOffer[h] => e.m_services[s] = d.m_services[s]
  <2>1. d.objects[o].m_registeredServices \subseteq MayOffer[h]
    BY <1>1 DEF Typed, ClientOK
  <2> QED BY <1>6, <1>8, <2>1
<1>13. \A p \in DOMAIN d.objects : d.objects[p].host # h => e.objects[p] = d.objects[p]
  BY <1>1, <1>7, <1>8 DEF Touches
<1>14. e.dead = d.dead /\ DOMAIN e.objects = DOMAIN d.objects
  BY <1>3, <1>5, <1>7, <1>8 DEF Touches
<1> QED BY <1>7, <1>9, <1>10, <1>11, <1>12, <1>13, <1>14 DEF GivenUp

\* The client that the daemon knows for h has heard a message that looks like
\* the first of another life of h.
Rebooted(d, h, m) ==
  /\ d.m_clients[h] # 0
  /\ hasRebooted(d.objects[d.m_clients[h]].m_lastReceivedSessionID, m.session)

\* What a message m of host h may do to the daemon: nothing to the clients and
\* the services of others, and the client of h remembers at most m.
Handles(d, e, h, m) ==
  /\ Typed(e)
  /\ Owned(e)
  /\ DOMAIN d.objects \subseteq DOMAIN e.objects
  /\ \A g \in Host : g # h => e.m_clients[g] = d.m_clients[g]
  /\ \A p \in DOMAIN d.objects : d.objects[p].host # h => e.objects[p] = d.objects[p]
  /\ \A s \in ServiceIDs : s \notin MayOffer[h] => e.m_services[s] = d.m_services[s]
  /\ d.m_clients[h] # 0 /\ ~Rebooted(d, h, m) => e.m_clients[h] = d.m_clients[h]
  /\ e.m_clients[h] # 0 =>
       LET x == e.objects[e.m_clients[h]]
           y == d.objects[d.m_clients[h]] IN
       \/ x.m_lastReceivedSessionID = 0 /\ x.life = 0
       \/ x.m_lastReceivedSessionID = m.session.id /\ x.life = m.life
       \/ /\ d.m_clients[h] # 0
          /\ x.m_lastReceivedSessionID = y.m_lastReceivedSessionID
          /\ x.life = y.life

\* TCPManager::onRemoteServiceAvailable
LEMMA OnRemoteServiceAvailable ==
  ASSUME HostsTyped, NEW d, Typed(d), Owned(d), NEW h \in Host, NEW m \in SDMessage,
         m.service \in MayOffer[h], NEW up, NEW e,
         e = onRemoteServiceAvailable(d, h, m, up)
  PROVE  /\ Handles(d, e, h, m)
         /\ m.service \notin WellKnown /\ ~Rebooted(d, h, m) /\ e.dead = None =>
              /\ e.m_services[m.service] # 0
              /\ \A s \in ServiceIDs : s # m.service => e.m_services[s] = d.m_services[s]
<1> DEFINE c == getOrCreateClient(d, h)
           o == c.m_clients[h]
           k == heard(c, o, m)
           r == onClientReboot(k, o)
           n == getOrCreateClient(r, h)
           service == m.service
           rebooted == hasRebooted(c.objects[o].m_lastReceivedSessionID, m.session)
<1>1. CASE service \in WellKnown
  <2>1. e = d BY <1>1 DEF onRemoteServiceAvailable
  <2> QED BY <1>1, <2>1 DEF Handles
<1>2. CASE service \notin WellKnown
  <2>1. e = IF c.objects[o].state = "deleted" THEN die(c, "freed")
            ELSE IF rebooted THEN onServiceAvailable(n, n.m_clients[h], service, up)
            ELSE onServiceAvailable(k, k.m_clients[h], service, up)
    BY <1>2 DEF onRemoteServiceAvailable
  <2>2. /\ Typed(c) /\ Owned(c) /\ o \in DOMAIN c.objects /\ c.objects[o].host = h
        /\ c.m_services = d.m_services
        /\ DOMAIN d.objects \subseteq DOMAIN c.objects
        /\ \A p \in DOMAIN d.objects : c.objects[p] = d.objects[p]
        /\ \A g \in Host : g # h => c.m_clients[g] = d.m_clients[g]
        /\ d.m_clients[h] # 0 => c = d
        /\ d.m_clients[h] = 0 => /\ c.objects[o].m_lastReceivedSessionID = 0
                                 /\ c.objects[o].life = 0
    <3>1. ClientFound(d, h, c) BY GetOrCreateClient
    <3> QED BY <3>1 DEF ClientFound
  <2> HIDE DEF c
  <2>3. o # 0 /\ o \in Nat BY <2>2, DaemonParts, SMT
  <2>4. rebooted <=> Rebooted(d, h, m)
    <3>1. CASE d.m_clients[h] # 0
      BY <2>2, <3>1 DEF Rebooted
    <3>2. CASE d.m_clients[h] = 0
      <4>1. m.session.id \in Nat BY SessionIDsAssumption, SMT DEF SDMessage, Session
      <4> QED BY <2>2, <3>2, <4>1, SMT DEF Rebooted, hasRebooted
    <3> QED BY <3>1, <3>2
  <2>5. CASE c.objects[o].state = "deleted"
    <3>1. "freed" \in Cause BY DEF Cause
    <3>2. e = die(c, "freed") BY <2>1, <2>5
    <3>3. /\ Typed(e) /\ e.objects = c.objects /\ e.m_clients = c.m_clients
          /\ e.m_services = c.m_services /\ e.dead # None
      BY <2>2, <3>1, <3>2, Die, SMT
    <3>4. Owned(e) BY <2>2, <3>3, SameOwned
    <3> QED BY <2>2, <2>3, <3>3, <3>4 DEF Handles
  <2> DEFINE q == IF rebooted THEN n ELSE k
  <2>6. CASE c.objects[o].state # "deleted"
    <3>1. e = onServiceAvailable(q, q.m_clients[h], service, up)
      BY <2>1, <2>6
    <3>2. /\ Typed(k) /\ Owned(k) /\ Touches(c, k, o)
          /\ k.m_clients = c.m_clients /\ k.m_services = c.m_services
          /\ k.objects[o].m_lastReceivedSessionID = m.session.id
          /\ k.objects[o].life = m.life
      <4>1. SessionKept(c, o, m, k) BY <2>2, Heard
      <4> QED BY <4>1 DEF SessionKept
    <3> HIDE DEF k
    <3>3. Handles(d, q, h, m) /\ q.m_clients[h] \in DOMAIN q.objects
          /\ q.objects[q.m_clients[h]].host = h
          /\ (~rebooted => q.m_services = d.m_services)
      <4>1. CASE ~rebooted
        <5>1. q = k BY <4>1
        <5>2. /\ k.m_clients[h] = o /\ o \in DOMAIN k.objects /\ k.objects[o].host = h
              /\ DOMAIN d.objects \subseteq DOMAIN k.objects
              /\ k.m_services = d.m_services
          BY <2>2, <3>2 DEF Touches
        <5>3. \A p \in DOMAIN d.objects : d.objects[p].host # h => k.objects[p] = d.objects[p]
          BY <2>2, <3>2 DEF Touches
        <5>4. \A g \in Host : g # h => k.m_clients[g] = d.m_clients[g]
          BY <2>2, <3>2
        <5>5. d.m_clients[h] # 0 => k.m_clients[h] = d.m_clients[h]
          BY <2>2, <3>2
        <5>6. Handles(d, k, h, m)
          BY <3>2, <5>2, <5>3, <5>4, <5>5 DEF Handles
        <5> QED BY <5>1, <5>2, <5>6
      <4>2. CASE rebooted
        <5>1. q = n BY <4>2
        <5>2. k.m_clients[h] = o /\ o # 0 BY <2>3, <3>2
        <5>3. /\ Typed(r) /\ Owned(r) /\ r.m_clients[h] = 0
              /\ \A g \in Host : g # h => r.m_clients[g] = k.m_clients[g]
              /\ DOMAIN r.objects = DOMAIN k.objects
              /\ \A p \in DOMAIN k.objects :
                   k.objects[p].host # h => r.objects[p] = k.objects[p]
              /\ \A s \in ServiceIDs : s \notin MayOffer[h] => r.m_services[s] = k.m_services[s]
          <6>1. GivenUp(k, h, r) BY <3>2, <5>2, OnClientReboot
          <6> QED BY <6>1 DEF GivenUp
        <5> HIDE DEF r, o
        <5>4. /\ Typed(n) /\ Owned(n) /\ n.m_clients[h] \in DOMAIN n.objects
              /\ n.objects[n.m_clients[h]].host = h
              /\ n.m_services = r.m_services
              /\ DOMAIN r.objects \subseteq DOMAIN n.objects
              /\ \A p \in DOMAIN r.objects : n.objects[p] = r.objects[p]
              /\ \A g \in Host : g # h => n.m_clients[g] = r.m_clients[g]
              /\ n.objects[n.m_clients[h]].m_lastReceivedSessionID = 0
              /\ n.objects[n.m_clients[h]].life = 0
          <6>1. ClientFound(r, h, n) BY <5>3, GetOrCreateClient
          <6> QED BY <5>3, <6>1 DEF ClientFound
        <5> HIDE DEF n
        <5>5. DOMAIN d.objects \subseteq DOMAIN n.objects
              /\ \A p \in DOMAIN d.objects : p \in DOMAIN k.objects
          BY <2>2, <3>2, <5>3, <5>4 DEF Touches
        <5>6. \A p \in DOMAIN d.objects : d.objects[p].host # h => n.objects[p] = d.objects[p]
          <6> SUFFICES ASSUME NEW p \in DOMAIN d.objects, d.objects[p].host # h
                       PROVE  n.objects[p] = d.objects[p]
            OBVIOUS
          <6>1. c.objects[p] = d.objects[p] /\ p # o BY <2>2 DEF o
          <6>2. k.objects[p] = c.objects[p] BY <2>2, <3>2, <6>1 DEF Touches
          <6> QED BY <5>3, <5>4, <5>5, <6>1, <6>2, SMT
        <5>7. \A g \in Host : g # h => n.m_clients[g] = d.m_clients[g]
          BY <2>2, <3>2, <5>3, <5>4, SMT
        <5>8. \A s \in ServiceIDs : s \notin MayOffer[h] => n.m_services[s] = d.m_services[s]
          BY <2>2, <3>2, <5>3, <5>4, SMT
        <5>9. Handles(d, n, h, m)
          BY <2>4, <4>2, <5>4, <5>5, <5>6, <5>7, <5>8 DEF Handles
        <5> QED BY <4>2, <5>1, <5>4, <5>9
      <4> QED BY <4>1, <4>2
    <3> HIDE DEF q
    <3> DEFINE w == q.m_clients[h]
    <3>4. Typed(q) /\ Owned(q) BY <3>3 DEF Handles
    <3>5. service \in ServiceIDs BY DEF SDMessage
    <3>6. /\ Typed(e) /\ Owned(e) /\ Touches(q, e, w)
          /\ e.m_clients = q.m_clients
          /\ \A s \in ServiceIDs : e.m_services[s] =
               IF s = service /\ q.m_services[s] = 0 THEN w ELSE q.m_services[s]
          /\ e.objects[w].m_lastReceivedSessionID = q.objects[w].m_lastReceivedSessionID
          /\ e.objects[w].life = q.objects[w].life
      <4>1. Offered(q, w, service, e) BY <3>1, <3>3, <3>4, <3>5, OnServiceAvailable
      <4> QED BY <4>1 DEF Offered
    <3>7. w # 0 /\ e.m_clients[h] = w BY <3>3, <3>4, <3>6, DaemonParts, SMT
    <3> HIDE DEF w, service
    <3>8. \A p \in DOMAIN d.objects : d.objects[p].host # h => e.objects[p] = d.objects[p]
      <4> SUFFICES ASSUME NEW p \in DOMAIN d.objects, d.objects[p].host # h
                   PROVE  e.objects[p] = d.objects[p]
        OBVIOUS
      <4>1. q.objects[p] = d.objects[p] /\ p \in DOMAIN q.objects BY <3>3 DEF Handles
      <4>2. p # w BY <3>3, <4>1 DEF w
      <4> QED BY <3>6, <4>1, <4>2 DEF Touches
    <3>9. DOMAIN d.objects \subseteq DOMAIN e.objects
          /\ (\A g \in Host : g # h => e.m_clients[g] = d.m_clients[g])
          /\ (d.m_clients[h] # 0 /\ ~Rebooted(d, h, m) => e.m_clients[h] = d.m_clients[h])
      BY <3>3, <3>6 DEF Handles, Touches
    <3>10. \A s \in ServiceIDs : s \notin MayOffer[h] => e.m_services[s] = d.m_services[s]
      <4>1. service \in MayOffer[h] BY DEF service
      <4> QED BY <3>3, <3>6, <4>1 DEF Handles
    <3>11. LET x == e.objects[e.m_clients[h]]
               y == d.objects[d.m_clients[h]] IN
           \/ x.m_lastReceivedSessionID = 0 /\ x.life = 0
           \/ x.m_lastReceivedSessionID = m.session.id /\ x.life = m.life
           \/ /\ d.m_clients[h] # 0
              /\ x.m_lastReceivedSessionID = y.m_lastReceivedSessionID
              /\ x.life = y.life
      BY <3>3, <3>6, <3>7 DEF Handles, w
    <3>12. Handles(d, e, h, m)
      BY <3>6, <3>8, <3>9, <3>10, <3>11 DEF Handles
    <3>13. ~rebooted => /\ e.m_services[service] # 0
                        /\ \A s \in ServiceIDs : s # service => e.m_services[s] = d.m_services[s]
      BY <3>3, <3>5, <3>6, <3>7 DEF service
    <3> QED BY <2>4, <3>12, <3>13 DEF service
  <2> QED BY <2>5, <2>6
<1> QED BY <1>1, <1>2

\* The service of m is unregistered if the client of host h had registered it.
Withdraws(d, e, h, m) ==
  /\ d.m_clients[h] # 0 /\ m.service \in d.objects[d.m_clients[h]].m_registeredServices
       => e.m_services[m.service] = 0
  /\ d.m_services[m.service] = 0 => e.m_services[m.service] = 0
  /\ \A s \in ServiceIDs : s # m.service => e.m_services[s] = d.m_services[s]

\* TCPManager::onRemoteServiceUnavailable
LEMMA OnRemoteServiceUnavailable ==
  ASSUME HostsTyped, NEW d, Typed(d), Owned(d), NEW h \in Host, NEW m \in SDMessage,
         m.service \in MayOffer[h], NEW e, e = onRemoteServiceUnavailable(d, h, m)
  PROVE  /\ Handles(d, e, h, m)
         /\ ~Rebooted(d, h, m) /\ e.dead = None => Withdraws(d, e, h, m)
<1> USE DEF Withdraws
<1> DEFINE c == getOrCreateClient(d, h)
           o == c.m_clients[h]
           k == heard(c, o, m)
           service == m.service
           rebooted == hasRebooted(c.objects[o].m_lastReceivedSessionID, m.session)
<1>1. e = IF c.objects[o].state = "deleted" THEN die(c, "freed")
          ELSE IF rebooted THEN onClientReboot(k, o)
          ELSE onServiceUnavailable(k, o, service)
  BY DEF onRemoteServiceUnavailable
<1>2. /\ Typed(c) /\ Owned(c) /\ o \in DOMAIN c.objects /\ c.objects[o].host = h
      /\ c.m_services = d.m_services
      /\ DOMAIN d.objects \subseteq DOMAIN c.objects
      /\ \A p \in DOMAIN d.objects : c.objects[p] = d.objects[p]
      /\ \A g \in Host : g # h => c.m_clients[g] = d.m_clients[g]
      /\ d.m_clients[h] # 0 => c = d
      /\ d.m_clients[h] = 0 => /\ c.objects[o].m_lastReceivedSessionID = 0
                               /\ c.objects[o].life = 0
  <2>1. ClientFound(d, h, c) BY GetOrCreateClient
  <2> QED BY <2>1 DEF ClientFound
<1> HIDE DEF c
<1>3. o # 0 /\ o \in Nat BY <1>2, DaemonParts, SMT
<1>4. rebooted <=> Rebooted(d, h, m)
  <2>1. CASE d.m_clients[h] # 0
    BY <1>2, <2>1 DEF Rebooted
  <2>2. CASE d.m_clients[h] = 0
    <3>1. m.session.id \in Nat BY SessionIDsAssumption, SMT DEF SDMessage, Session
    <3> QED BY <1>2, <2>2, <3>1, SMT DEF Rebooted, hasRebooted
  <2> QED BY <2>1, <2>2
<1>5. CASE c.objects[o].state = "deleted"
  <2>1. "freed" \in Cause BY DEF Cause
  <2>2. e = die(c, "freed") BY <1>1, <1>5
  <2>3. /\ Typed(e) /\ e.objects = c.objects /\ e.m_clients = c.m_clients
        /\ e.m_services = c.m_services /\ e.dead # None
    BY <1>2, <2>1, <2>2, Die, SMT
  <2>4. Owned(e) BY <1>2, <2>3, SameOwned
  <2> QED BY <1>2, <1>3, <2>3, <2>4 DEF Handles
<1>6. CASE c.objects[o].state # "deleted"
  <2>1. /\ Typed(k) /\ Owned(k) /\ Touches(c, k, o)
        /\ k.m_clients = c.m_clients /\ k.m_services = c.m_services
        /\ k.objects[o].m_lastReceivedSessionID = m.session.id
        /\ k.objects[o].life = m.life
        /\ k.objects[o].m_registeredServices = c.objects[o].m_registeredServices
    <3>1. SessionKept(c, o, m, k) BY <1>2, Heard
    <3> QED BY <3>1 DEF SessionKept
  <2> HIDE DEF k
  <2>2. /\ k.m_clients[h] = o /\ o \in DOMAIN k.objects /\ k.objects[o].host = h
        /\ DOMAIN d.objects \subseteq DOMAIN k.objects
        /\ k.m_services = d.m_services
    BY <1>2, <2>1 DEF Touches
  <2>3. \A p \in DOMAIN d.objects : d.objects[p].host # h => k.objects[p] = d.objects[p] /\ p # o
    BY <1>2, <2>1 DEF Touches
  <2>4. \A g \in Host : g # h => k.m_clients[g] = d.m_clients[g]
    BY <1>2, <2>1
  <2>5. CASE rebooted
    <3>1. e = onClientReboot(k, k.m_clients[h]) BY <1>1, <1>6, <2>2, <2>5
    <3>2. /\ Typed(e) /\ Owned(e) /\ e.m_clients[h] = 0
          /\ \A g \in Host : g # h => e.m_clients[g] = k.m_clients[g]
          /\ DOMAIN e.objects = DOMAIN k.objects
          /\ \A p \in DOMAIN k.objects : k.objects[p].host # h => e.objects[p] = k.objects[p]
          /\ \A s \in ServiceIDs : s \notin MayOffer[h] => e.m_services[s] = k.m_services[s]
      <4>1. GivenUp(k, h, e) BY <1>3, <2>1, <2>2, <3>1, OnClientReboot
      <4> QED BY <4>1 DEF GivenUp
    <3>3. \A p \in DOMAIN d.objects : d.objects[p].host # h => e.objects[p] = d.objects[p]
      BY <2>2, <2>3, <3>2
    <3>4. Handles(d, e, h, m)
      BY <1>4, <2>2, <2>4, <2>5, <3>2, <3>3 DEF Handles
    <3> QED BY <1>4, <2>5, <3>4
  <2>6. CASE ~rebooted
    <3>1. e = onServiceUnavailable(k, o, service) BY <1>1, <1>6, <2>6
    <3>2. service \in ServiceIDs BY DEF SDMessage
    <3>3. /\ Typed(e) /\ Owned(e) /\ Touches(k, e, o)
          /\ e.m_clients = k.m_clients
          /\ \A s \in ServiceIDs : e.m_services[s] =
               IF s = service /\ s \in k.objects[o].m_registeredServices
               THEN 0 ELSE k.m_services[s]
          /\ e.objects[o].m_lastReceivedSessionID = k.objects[o].m_lastReceivedSessionID
          /\ e.objects[o].life = k.objects[o].life
      <4>1. Withdrawn(k, o, service, e) BY <2>1, <2>2, <3>1, <3>2, OnServiceUnavailable
      <4> QED BY <4>1 DEF Withdrawn
    <3>4. \A p \in DOMAIN d.objects : d.objects[p].host # h => e.objects[p] = d.objects[p]
      BY <2>2, <2>3, <3>3 DEF Touches
    <3>5. \A s \in ServiceIDs : s \notin MayOffer[h] => e.m_services[s] = d.m_services[s]
      BY <2>2, <3>3
    <3>6. d.m_clients[h] # 0 => e.m_clients[h] = d.m_clients[h]
      BY <1>2, <2>1, <3>3
    <3>7. DOMAIN d.objects \subseteq DOMAIN e.objects /\ e.m_clients[h] = o
      BY <2>2, <3>3 DEF Touches
    <3>8. Handles(d, e, h, m)
      BY <2>1, <2>4, <3>3, <3>4, <3>5, <3>6, <3>7 DEF Handles
    <3>9. \A s \in ServiceIDs : s # m.service => e.m_services[s] = d.m_services[s]
      BY <2>2, <3>3
    <3>10. d.m_clients[h] # 0 /\ service \in d.objects[d.m_clients[h]].m_registeredServices
           => e.m_services[service] = 0
      BY <1>2, <2>1, <3>2, <3>3
    <3>11. d.m_services[service] = 0 => e.m_services[service] = 0
      BY <2>2, <3>2, <3>3
    <3> QED BY <3>8, <3>9, <3>10, <3>11
  <2> QED BY <2>5, <2>6
<1> QED BY <1>5, <1>6

-----------------------------------------------------------------------------
(* The steps.                                                              *)

\* The session identifiers of a host.
LEMMA NextSession ==
  ASSUME NEW s \in Session
  PROVE  LET n == assignUniqueSessionID(s) IN
         n \in Session /\ (n.reboot => s.reboot /\ s.id < n.id)
<1>1. s.id \in 1 .. SessionIDs - 1 /\ s.reboot \in BOOLEAN BY DEF Session
<1>2. SessionIDs \in Nat /\ SessionIDs > 2 BY SessionIDsAssumption
<1>3. CASE s.id + 1 = SessionIDs
  <2>1. (s.id + 1) % SessionIDs = 0 BY <1>1, <1>2, <1>3, SMT
  <2>2. assignUniqueSessionID(s) = [id |-> 1, reboot |-> FALSE]
    BY <2>1 DEF assignUniqueSessionID
  <2> QED BY <1>2, <2>2, SMT DEF Session
<1>4. CASE s.id + 1 # SessionIDs
  <2>1. s.id + 1 \in 1 .. SessionIDs - 1 BY <1>1, <1>2, <1>4, SMT
  <2>2. (s.id + 1) % SessionIDs = s.id + 1 BY <1>2, <2>1, SMT
  <2>3. assignUniqueSessionID(s) = [id |-> s.id + 1, reboot |-> s.reboot]
    BY <1>1, <2>1, <2>2, SMT DEF assignUniqueSessionID
  <2> QED BY <1>1, <2>1, <2>3, SMT DEF Session
<1> QED BY <1>3, <1>4

LEMMA FirstSession == assignUniqueSessionID(firstSession) \in Session
<1>1. firstSession \in Session BY SessionIDsAssumption, SMT DEF firstSession, Session
<1> QED BY <1>1, NextSession

\* The daemon goes on in state e; no host has a shorter history.
LEMMA DaemonGoesOn ==
  ASSUME HostsTyped, NEW e, Typed(e), Owned(e), daemon' = e,
         \A h \in Host : life'[h] \in Nat /\ life[h] <= life'[h]
  PROVE  Typed(daemon)' /\ Owned(daemon)'
<1>1. /\ e.objects \in Seq(TCPClient) /\ Len(e.objects) \in Nat
      /\ DOMAIN e.objects = 1 .. Len(e.objects)
      /\ \A o \in DOMAIN e.objects : e.objects[o] \in TCPClient
  BY DaemonParts
<1>2. \A o \in DOMAIN e.objects :
        /\ e.objects[o].host \in Host
        /\ e.objects[o].connection \in Nat
  BY <1>1 DEF TCPClient
<1>3. \A o \in DOMAIN daemon'.objects : ClientOK(daemon.objects[o])'
  <2> SUFFICES ASSUME NEW o \in DOMAIN e.objects
               PROVE  /\ e.objects[o].m_registeredServices \subseteq MayOffer[e.objects[o].host]
                      /\ e.objects[o].connection <= life'[e.objects[o].host]
                      /\ e.objects[o].life = 0 => e.objects[o].m_lastReceivedSessionID = 0
    BY DEF ClientOK
  <2>1. ClientOK(e.objects[o]) BY DEF Typed
  <2>2. life[e.objects[o].host] \in Nat BY <1>2 DEF HostsTyped
  <2> QED BY <1>2, <2>1, <2>2, SMT DEF ClientOK
<1>4. Typed(daemon)'
  BY <1>3 DEF Typed
<1>5. \A o \in DOMAIN e.objects : life'[e.objects[o].host] = 1 => life[e.objects[o].host] = 1
  <2> SUFFICES ASSUME NEW o \in DOMAIN e.objects, life'[e.objects[o].host] = 1
               PROVE  life[e.objects[o].host] = 1
    OBVIOUS
  <2>1. life[e.objects[o].host] \in Nat \ {0} BY <1>2 DEF HostsTyped
  <2> QED BY <1>2, <2>1, SMT
<1>6. Owned(daemon)'
  <2> SUFFICES ASSUME NEW o \in DOMAIN e.objects, life'[e.objects[o].host] = 1
               PROVE  OwnedAt(daemon, o)'
    BY DEF Owned
  <2>1. OwnedAt(e, o) BY <1>5 DEF Owned
  <2> QED BY <2>1 DEF OwnedAt
<1> QED BY <1>4, <1>6

\* The parts of the state of a host and of its client.
LEMMA HostParts ==
  ASSUME HostsTyped, Typed(daemon), NEW h \in Host
  PROVE  /\ session[h] \in Session /\ session[h].id \in Nat /\ session[h].reboot \in BOOLEAN
         /\ life[h] \in Nat /\ life[h] # 0
         /\ net[h] \in Seq(SDMessage) /\ Len(net[h]) \in Nat
         /\ DOMAIN net[h] = 1 .. Len(net[h])
         /\ \A i \in DOMAIN net[h] :
              /\ net[h][i] \in SDMessage /\ net[h][i].session.id \in Nat
              /\ net[h][i].life \in Nat /\ net[h][i].life # 0
              /\ net[h][i].session.reboot \in BOOLEAN
         /\ m_clients[h] # 0 =>
              /\ m_clients[h] \in DOMAIN objects
              /\ objects[m_clients[h]].host = h
              /\ objects[m_clients[h]].m_lastReceivedSessionID \in Nat
              /\ objects[m_clients[h]].life \in Nat
<1>1. SessionIDs \in Nat BY SessionIDsAssumption
<1>2. session[h] \in Session /\ life[h] \in Nat \ {0} /\ net[h] \in Seq(SDMessage)
  BY DEF HostsTyped
<1>3. session[h].id \in Nat /\ session[h].reboot \in BOOLEAN
  BY <1>1, <1>2, SMT DEF Session
<1>4. \A m \in SDMessage : /\ m.session.id \in Nat /\ m.life \in Nat /\ m.life # 0
                           /\ m.session.reboot \in BOOLEAN
  BY <1>1, SMT DEF SDMessage, Session
<1>5. daemon.objects = objects /\ daemon.m_clients = m_clients
  BY DEF daemon
<1>6. m_clients[h] # 0 => m_clients[h] \in DOMAIN objects /\ objects[m_clients[h]].host = h
                          /\ objects[m_clients[h]] \in TCPClient
  BY <1>5, DaemonParts, SMT DEF Typed
<1>7. \A x \in TCPClient : x.m_lastReceivedSessionID \in Nat /\ x.life \in Nat
  BY DEF TCPClient
<1>8. DOMAIN net[h] = 1 .. Len(net[h]) /\ Len(net[h]) \in Nat
      /\ \A i \in DOMAIN net[h] : net[h][i] \in SDMessage
  BY <1>2, SMT
<1> QED BY <1>2, <1>3, <1>4, <1>6, <1>7, <1>8

\* A session later than that of the host follows what that one follows.
LEMMA LaterSession ==
  ASSUME HostsTyped, Typed(daemon), SessionsInOrder, NEW h \in Host,
         NEW t \in Session, NEW k \in Nat, life[h] <= k,
         k = life[h] /\ t.reboot => session[h].reboot /\ session[h].id < t.id
  PROVE  /\ \A i \in DOMAIN net[h] :
              Follows([session |-> t, life |-> k], net[h][i].session.id, net[h][i].life)
         /\ h \notin overtaken /\ m_clients[h] # 0 =>
              Follows([session |-> t, life |-> k],
                      objects[m_clients[h]].m_lastReceivedSessionID,
                      objects[m_clients[h]].life)
<1>1. t.id \in Nat /\ t.reboot \in BOOLEAN
  BY SessionIDsAssumption, SMT DEF Session
<1>2. session[h].id \in Nat /\ session[h].reboot \in BOOLEAN /\ life[h] \in Nat
  BY HostParts
<1>3. \A id, l \in Nat : Follows([session |-> session[h], life |-> life[h]], id, l)
                           => Follows([session |-> t, life |-> k], id, l)
  BY <1>1, <1>2, SMT DEF Follows
<1>4. \A i \in DOMAIN net[h] :
        Follows([session |-> session[h], life |-> life[h]],
                net[h][i].session.id, net[h][i].life)
  BY DEF SessionsInOrder, SentInOrder
<1>5. h \notin overtaken /\ m_clients[h] # 0 =>
        Follows([session |-> session[h], life |-> life[h]],
                objects[m_clients[h]].m_lastReceivedSessionID,
                objects[m_clients[h]].life)
  BY DEF SessionsInOrder, HeardBefore
<1>6. \A i \in DOMAIN net[h] : net[h][i].session.id \in Nat /\ net[h][i].life \in Nat
  BY HostParts
<1>7. m_clients[h] # 0 => /\ objects[m_clients[h]].m_lastReceivedSessionID \in Nat
                          /\ objects[m_clients[h]].life \in Nat
  BY HostParts
<1> QED BY <1>3, <1>4, <1>5, <1>6, <1>7

\* A host of which nothing changes keeps the order of its messages.
LEMMA SameHost ==
  ASSUME NEW g \in Host, net'[g] = net[g], session'[g] = session[g], life'[g] = life[g],
         m_clients'[g] = m_clients[g],
         m_clients[g] # 0 => objects'[m_clients[g]] = objects[m_clients[g]],
         SentInOrder(g), g \notin overtaken => HeardBefore(g), overtaken \subseteq overtaken'
  PROVE  SentInOrder(g)' /\ (g \notin overtaken' => HeardBefore(g)')
<1>1. SentInOrder(g)' BY DEF SentInOrder, Follows
<1>2. ASSUME g \notin overtaken' PROVE HeardBefore(g)'
  <2>1. HeardBefore(g) BY <1>2
  <2> QED BY <2>1 DEF HeardBefore, Follows
<1> QED BY <1>1, <1>2

\* ServiceAnnouncer multicasts a message of h about a service, whose type says
\* whether the service is offered from now on.
LEMMA Announced ==
  ASSUME IInv, NEW h \in Host, NEW type \in {"offer", "stop"}, NEW service \in MayOffer[h],
         announce(h, type, service), UNCHANGED <<life, daemonVars>>,
         offers' \in [Host -> SUBSET ServiceIDs], offers'[h] \subseteq MayOffer[h],
         \A g \in Host : g # h => offers'[g] = offers[g],
         \A s \in ServiceIDs : s # service => (s \in offers'[h] <=> s \in offers[h]),
         type = "offer" <=> service \in offers'[h]
  PROVE  IInv'
<1> DEFINE m == [type |-> type, service |-> service, session |-> session[h], life |-> life[h]]
           n == Len(net[h]) + 1
<1>0. /\ HostsTyped /\ Typed(daemon) /\ Owned(daemon) /\ SessionsInOrder /\ Exact
      /\ service \in ServiceIDs
  BY RemoteAssumption DEF IInv
<1>1. /\ session[h] \in Session /\ life[h] \in Nat /\ life[h] # 0
      /\ net[h] \in Seq(SDMessage) /\ Len(net[h]) \in Nat
      /\ DOMAIN net[h] = 1 .. Len(net[h])
  BY <1>0, HostParts
<1>2. m \in SDMessage BY <1>0, <1>1 DEF SDMessage
<1>3. /\ net' = [net EXCEPT ![h] = Append(net[h], m)]
      /\ session' = [session EXCEPT ![h] = assignUniqueSessionID(session[h])]
      /\ lost' = lost /\ overtaken' = overtaken
  BY DEF announce
<1>4. /\ m.service = service /\ m.type = type /\ m.session = session[h] /\ m.life = life[h]
  OBVIOUS
<1> HIDE DEF m
<1>5. /\ Append(net[h], m) \in Seq(SDMessage) /\ Len(Append(net[h], m)) = n
      /\ Append(net[h], m)[n] = m /\ DOMAIN Append(net[h], m) = 1 .. n
      /\ \A i \in DOMAIN net[h] : Append(net[h], m)[i] = net[h][i]
  BY <1>1, <1>2, Appended, SMT
<1>6. net \in [Host -> Seq(SDMessage)] /\ session \in [Host -> Session]
  BY <1>0 DEF HostsTyped
<1>7. /\ net'[h] = Append(net[h], m) /\ net' \in [Host -> Seq(SDMessage)]
      /\ \A g \in Host : g # h => net'[g] = net[g]
  BY <1>3, <1>5, <1>6
<1>8. DOMAIN net'[h] = DOMAIN net[h] \cup {n} /\ n \in Nat
      /\ \A i \in DOMAIN net[h] : i < n /\ i \in Nat
  BY <1>1, <1>5, <1>7, SMT
<1>9. /\ session'[h] \in Session /\ session' \in [Host -> Session]
      /\ session'[h].reboot => session[h].reboot /\ session[h].id < session'[h].id
      /\ \A g \in Host : g # h => session'[g] = session[g]
  BY <1>1, <1>3, <1>6, NextSession
<1>10. /\ net'[h][n] = m /\ \A i \in DOMAIN net[h] : net'[h][i] = net[h][i]
  BY <1>5, <1>7
<1> HIDE DEF n
<1>11. HostsTyped'
  <2>1. \A g \in Host : \A i \in DOMAIN net'[g] : net'[g][i].service \in MayOffer[g]
    BY <1>0, <1>4, <1>7, <1>8, <1>10 DEF HostsTyped
  <2>2. \A g \in Host : offers'[g] \subseteq MayOffer[g]
    BY <1>0 DEF HostsTyped
  <2>3. life' = life OBVIOUS
  <2> QED BY <1>0, <1>7, <1>9, <2>1, <2>2, <2>3 DEF HostsTyped
<1>12. Typed(daemon)' /\ Owned(daemon)'
  <2>1. daemon' = daemon BY DEF daemonVars, daemon
  <2>2. \A g \in Host : life'[g] \in Nat /\ life[g] <= life'[g]
    BY <1>0, SMT DEF HostsTyped
  <2> QED BY <1>0, <2>1, <2>2, DaemonGoesOn
<1>13. SessionsInOrder'
  <2> SUFFICES ASSUME NEW g \in Host
               PROVE  SentInOrder(g)' /\ (g \notin overtaken' => HeardBefore(g)')
    BY DEF SessionsInOrder
  <2>1. SentInOrder(g) /\ (g \notin overtaken => HeardBefore(g))
    BY <1>0 DEF SessionsInOrder
  <2>2. CASE g # h
    <3>1. m_clients' = m_clients /\ objects' = objects BY DEF daemonVars
    <3> QED BY <1>3, <1>7, <1>9, <2>1, <2>2, <3>1, SameHost
  <2>3. CASE g = h
    <3> DEFINE t == session'[h]
    <3>1. t \in Session /\ life[h] <= life[h]
          /\ (life[h] = life[h] /\ t.reboot => session[h].reboot /\ session[h].id < t.id)
      BY <1>1, <1>9, SMT
    <3>2. /\ \A i \in DOMAIN net[h] :
               Follows([session |-> t, life |-> life[h]], net[h][i].session.id, net[h][i].life)
          /\ h \notin overtaken /\ m_clients[h] # 0 =>
               Follows([session |-> t, life |-> life[h]],
                       objects[m_clients[h]].m_lastReceivedSessionID,
                       objects[m_clients[h]].life)
      BY <1>0, <1>1, <3>1, LaterSession
    <3>3. \A i, j \in DOMAIN net'[h] : i < j =>
            Follows(net'[h][j], net'[h][i].session.id, net'[h][i].life)
      <4> SUFFICES ASSUME NEW i \in DOMAIN net'[h], NEW j \in DOMAIN net'[h], i < j
                   PROVE  Follows(net'[h][j], net'[h][i].session.id, net'[h][i].life)
        OBVIOUS
      <4>1. i \in DOMAIN net[h] BY <1>8, SMT
      <4>2. CASE j = n
        <5>1. Follows([session |-> session[h], life |-> life[h]],
                      net[h][i].session.id, net[h][i].life)
          BY <2>1, <2>3, <4>1 DEF SentInOrder
        <5> QED BY <1>4, <1>10, <4>1, <4>2, <5>1 DEF Follows
      <4>3. CASE j \in DOMAIN net[h]
        BY <1>10, <2>1, <2>3, <4>1, <4>3 DEF SentInOrder
      <4> QED BY <1>8, <4>2, <4>3
    <3>4. \A i \in DOMAIN net'[h] :
            Follows([session |-> t, life |-> life[h]], net'[h][i].session.id, net'[h][i].life)
      <4>1. Follows([session |-> t, life |-> life[h]], m.session.id, m.life)
        BY <1>1, <1>4, <3>1 DEF Follows
      <4> QED BY <1>8, <1>10, <3>2, <4>1
    <3>5. SentInOrder(h)'
      BY <3>3, <3>4 DEF SentInOrder, Follows
    <3>6. ASSUME h \notin overtaken' PROVE HeardBefore(h)'
      <4>1. HeardBefore(h) /\ h \notin overtaken BY <1>3, <2>1, <2>3, <3>6
      <4>2. m_clients' = m_clients /\ objects' = objects BY DEF daemonVars
      <4>3. ASSUME m_clients[h] # 0, NEW i \in DOMAIN net'[h]
            PROVE  Follows(net'[h][i], objects[m_clients[h]].m_lastReceivedSessionID,
                           objects[m_clients[h]].life)
        <5>1. CASE i = n
          BY <1>4, <1>10, <4>1, <4>3, <5>1 DEF HeardBefore, Follows
        <5>2. CASE i \in DOMAIN net[h]
          BY <1>10, <4>1, <4>3, <5>2 DEF HeardBefore
        <5> QED BY <1>8, <4>3, <5>1, <5>2
      <4> QED BY <3>2, <4>1, <4>2, <4>3 DEF HeardBefore, Follows
    <3> QED BY <2>3, <3>5, <3>6
  <2> QED BY <2>2, <2>3
<1>14. Exact'
  <2> SUFFICES ASSUME dead = None, ~lost, NEW g \in Host \ overtaken, life[g] = 1,
                      NEW s \in Own(g)
               PROVE  ExactFor(g, s)'
    BY <1>3 DEF Exact, daemonVars, Own
  <2>1. ExactFor(g, s) BY <1>0 DEF Exact
  <2>2. m_services' = m_services BY DEF daemonVars
  <2>3. s \in ServiceIDs BY DEF Own
  <2>4. CASE g # h
    BY <1>7, <2>1, <2>2, <2>4 DEF ExactFor
  <2>5. CASE g = h /\ s # service
    <3>1. s \in offers'[h] <=> s \in offers[h] BY <2>3, <2>5
    <3>2. (\A i \in DOMAIN net'[h] : net'[h][i].service # s)
            => (m_services[s] # 0 <=> s \in offers[h])
      BY <1>8, <1>10, <2>1, <2>5 DEF ExactFor
    <3>3. ASSUME NEW i \in DOMAIN net'[h], net'[h][i].service = s,
                 \A j \in DOMAIN net'[h] : j > i => net'[h][j].service # s
          PROVE  net'[h][i].type = "offer" <=> s \in offers[h]
      <4>1. i \in DOMAIN net[h] BY <1>4, <1>8, <1>10, <2>5, <3>3
      <4>2. \A j \in DOMAIN net[h] : j > i => net[h][j].service # s
        BY <1>8, <1>10, <3>3
      <4> QED BY <1>10, <2>1, <2>5, <3>3, <4>1, <4>2 DEF ExactFor
    <3> QED BY <2>2, <2>5, <3>1, <3>2, <3>3 DEF ExactFor
  <2>6. CASE g = h /\ s = service
    <3>1. ~ \A i \in DOMAIN net'[h] : net'[h][i].service # s
      BY <1>4, <1>8, <1>10, <2>6
    <3>2. ASSUME NEW i \in DOMAIN net'[h], net'[h][i].service = s,
                 \A j \in DOMAIN net'[h] : j > i => net'[h][j].service # s
          PROVE  net'[h][i].type = "offer" <=> s \in offers'[h]
      <4>1. i = n BY <1>4, <1>8, <1>10, <2>6, <3>2
      <4> QED BY <1>4, <1>10, <2>6, <4>1
    <3> QED BY <2>6, <3>1, <3>2 DEF ExactFor
  <2> QED BY <2>4, <2>5, <2>6
<1> QED BY <1>11, <1>12, <1>13, <1>14 DEF IInv

\* Message i is taken out of a queue q.
Without(q, i, r) ==
  /\ DOMAIN r = 1 .. Len(q) - 1
  /\ \A j \in DOMAIN r : r[j] = q[IF j < i THEN j ELSE j + 1]

LEMMA Removed ==
  ASSUME NEW S, NEW q \in Seq(S), NEW i \in 1 .. Len(q), NEW r,
         r = SubSeq(q, 1, i - 1) \o SubSeq(q, i + 1, Len(q))
  PROVE  r \in Seq(S) /\ Without(q, i, r)
<1> DEFINE a == SubSeq(q, 1, i - 1)
           b == SubSeq(q, i + 1, Len(q))
           n == Len(q)
<1>0. n \in Nat /\ i \in Nat BY SMT
<1>1. a \in Seq(S) /\ Len(a) = i - 1 /\ \A j \in 1 .. i - 1 : a[j] = q[j]
  <2>1. 1 \in Int /\ i - 1 \in Int BY SMT
  <2>2. \A j \in 1 .. i - 1 : j \in 1 .. n BY SMT
  <2> QED BY <1>0, <2>1, <2>2, Stretch, SMT
<1>2. b \in Seq(S) /\ Len(b) = n - i /\ \A j \in 1 .. n - i : b[j] = q[j + i]
  <2>1. i + 1 \in Int /\ n \in Int BY SMT
  <2>2. \A j \in i + 1 .. n : j \in 1 .. n BY SMT
  <2> QED BY <1>0, <2>1, <2>2, Stretch, SMT
<1>3. r = a \o b OBVIOUS
<1> HIDE DEF a, b
<1>4. /\ r \in Seq(S) /\ Len(r) = (i - 1) + (n - i)
      /\ \A j \in 1 .. (i - 1) + (n - i) : r[j] = IF j <= i - 1 THEN a[j] ELSE b[j - (i - 1)]
  <2>1. /\ a \o b \in Seq(S) /\ Len(a \o b) = Len(a) + Len(b)
        /\ \A j \in 1 .. Len(a) + Len(b) :
             (a \o b)[j] = IF j <= Len(a) THEN a[j] ELSE b[j - Len(a)]
    BY <1>1, <1>2, Joined
  <2> QED BY <1>1, <1>2, <1>3, <2>1
<1>5. (i - 1) + (n - i) = n - 1 BY <1>0, SMT
<1>6. DOMAIN r = 1 .. n - 1 BY <1>4, <1>5, Indices
<1>7. ASSUME NEW j \in 1 .. n - 1 PROVE r[j] = q[IF j < i THEN j ELSE j + 1]
  <2>1. CASE j < i
    <3>1. j \in 1 .. i - 1 /\ j <= i - 1 BY <1>0, <2>1, SMT
    <3> QED BY <1>1, <1>4, <1>5, <2>1, <3>1
  <2>2. CASE ~(j < i)
    <3>1. j - (i - 1) \in 1 .. n - i /\ ~(j <= i - 1) /\ (j - (i - 1)) + i = j + 1
      BY <1>0, <2>2, SMT
    <3> QED BY <1>2, <1>4, <1>5, <2>2, <3>1
  <2> QED BY <2>1, <2>2
<1> QED BY <1>4, <1>6, <1>7 DEF Without

\* A message of h is taken off the network: the others stay in order.
LEMMA FewerMessages ==
  ASSUME HostsTyped, Typed(daemon), NEW h \in Host, NEW i \in DOMAIN net[h],
         net'[h] \in Seq(SDMessage),
         Without(net[h], i, net'[h]), session'[h] = session[h], life'[h] = life[h]
  PROVE  /\ \A j \in DOMAIN net'[h] : \E k \in DOMAIN net[h] : net'[h][j] = net[h][k]
         /\ SentInOrder(h) => SentInOrder(h)'
<1>1. Len(net[h]) \in Nat /\ DOMAIN net[h] = 1 .. Len(net[h])
  BY HostParts
<1>2. \A j \in DOMAIN net'[h] : /\ j \in Nat
                                /\ j \in DOMAIN net[h]
                                /\ j + 1 \in DOMAIN net[h]
                                /\ net'[h][j] = net[h][IF j < i THEN j ELSE j + 1]
  BY <1>1, SMT DEF Without
<1>3. \A j \in DOMAIN net'[h] : \E k \in DOMAIN net[h] : net'[h][j] = net[h][k]
  BY <1>2
<1>4. ASSUME SentInOrder(h) PROVE SentInOrder(h)'
  <2>1. ASSUME NEW j \in DOMAIN net'[h], NEW k \in DOMAIN net'[h], j < k
        PROVE  Follows(net'[h][k], net'[h][j].session.id, net'[h][j].life)
    <3> DEFINE a == IF j < i THEN j ELSE j + 1
               b == IF k < i THEN k ELSE k + 1
    <3>1. a \in DOMAIN net[h] /\ b \in DOMAIN net[h] /\ a < b
      BY <1>1, <1>2, <2>1, SMTT(30)
    <3>2. net'[h][j] = net[h][a] /\ net'[h][k] = net[h][b]
      BY <1>2
    <3> HIDE DEF a, b
    <3> QED BY <1>4, <3>1, <3>2 DEF SentInOrder
  <2>2. \A j \in DOMAIN net'[h] :
          Follows([session |-> session[h], life |-> life[h]],
                  net'[h][j].session.id, net'[h][j].life)
    BY <1>3, <1>4 DEF SentInOrder
  <2> QED BY <2>1, <2>2 DEF SentInOrder, Follows
<1> QED BY <1>3, <1>4

\* The daemon of a host is restarted.
LEMMA Restarted ==
  ASSUME IInv, NEW h \in Host, hostRestarts(h)
  PROVE  IInv'
<1>0. HostsTyped /\ Typed(daemon) /\ Owned(daemon) /\ SessionsInOrder /\ Exact
  BY DEF IInv
<1>1. /\ offers \in [Host -> SUBSET ServiceIDs] /\ session \in [Host -> Session]
      /\ life \in [Host -> Nat \ {0}] /\ net \in [Host -> Seq(SDMessage)]
  BY <1>0 DEF HostsTyped
<1>2. /\ offers' = [offers EXCEPT ![h] = {}]
      /\ session' = [session EXCEPT ![h] = assignUniqueSessionID(firstSession)]
      /\ life' = [life EXCEPT ![h] = life[h] + 1]
      /\ net' = net /\ lost' = lost /\ overtaken' = overtaken
      /\ daemon' = daemon /\ m_clients' = m_clients /\ objects' = objects
      /\ m_services' = m_services /\ dead' = dead
  BY DEF hostRestarts, daemonVars, daemon
<1>3. /\ offers' \in [Host -> SUBSET ServiceIDs] /\ offers'[h] = {}
      /\ \A g \in Host : g # h => offers'[g] = offers[g]
  BY <1>1, <1>2
<1>4. /\ session' \in [Host -> Session] /\ session'[h] \in Session
      /\ \A g \in Host : g # h => session'[g] = session[g]
  BY <1>1, <1>2, FirstSession
<1>5. /\ life' \in [Host -> Nat \ {0}] /\ life'[h] = life[h] + 1 /\ life[h] \in Nat \ {0}
      /\ \A g \in Host : g # h => life'[g] = life[g]
  BY <1>1, <1>2, SMT
<1>6. HostsTyped'
  <2>1. \A g \in Host : offers'[g] \subseteq MayOffer[g]
    BY <1>0, <1>3 DEF HostsTyped
  <2> QED BY <1>0, <1>2, <1>3, <1>4, <1>5, <2>1 DEF HostsTyped
<1>7. Typed(daemon)' /\ Owned(daemon)'
  <2>1. \A g \in Host : life'[g] \in Nat /\ life[g] <= life'[g]
    <3> TAKE g \in Host
    <3>1. life[g] \in Nat BY <1>1
    <3>2. life'[g] = life[g] \/ life'[g] = life[g] + 1 BY <1>5
    <3> QED BY <3>1, <3>2, SMT
  <2> QED BY <1>0, <1>2, <2>1, DaemonGoesOn
<1>8. SessionsInOrder'
  <2> SUFFICES ASSUME NEW g \in Host
               PROVE  SentInOrder(g)' /\ (g \notin overtaken' => HeardBefore(g)')
    BY DEF SessionsInOrder
  <2>1. SentInOrder(g) /\ (g \notin overtaken => HeardBefore(g))
    BY <1>0 DEF SessionsInOrder
  <2>2. CASE g # h
    BY <1>2, <1>4, <1>5, <2>1, <2>2, SameHost
  <2>3. CASE g = h
    <3> DEFINE t == session'[h]
               k == life'[h]
    <3>1. t \in Session /\ k \in Nat /\ life[h] <= k /\ k # life[h]
      BY <1>4, <1>5, SMT
    <3>2. /\ \A i \in DOMAIN net[h] :
               Follows([session |-> t, life |-> k], net[h][i].session.id, net[h][i].life)
          /\ h \notin overtaken /\ m_clients[h] # 0 =>
               Follows([session |-> t, life |-> k],
                       objects[m_clients[h]].m_lastReceivedSessionID,
                       objects[m_clients[h]].life)
      BY <1>0, <3>1, LaterSession
    <3>3. SentInOrder(h)'
      BY <1>2, <2>1, <2>3, <3>2, ZenonT(60) DEF SentInOrder, Follows
    <3>4. ASSUME h \notin overtaken' PROVE HeardBefore(h)'
      <4>1. HeardBefore(h) /\ h \notin overtaken BY <1>2, <2>1, <2>3, <3>4
      <4> QED BY <1>2, <3>2, <4>1 DEF HeardBefore, Follows
    <3> QED BY <2>3, <3>3, <3>4
  <2> QED BY <2>2, <2>3
<1>9. Exact'
  <2> SUFFICES ASSUME dead = None, ~lost, NEW g \in Host \ overtaken, life'[g] = 1,
                      NEW s \in Own(g)
               PROVE  ExactFor(g, s)'
    BY <1>2 DEF Exact, Own
  <2>1. g # h /\ life[g] = 1 BY <1>5, SMT
  <2>2. ExactFor(g, s) BY <1>0, <2>1 DEF Exact
  <2> QED BY <1>2, <1>3, <2>1, <2>2 DEF ExactFor
<1> QED BY <1>6, <1>7, <1>8, <1>9 DEF IInv

\* A message is lost.
LEMMA MessageLost ==
  ASSUME IInv, NEW h \in Host, messageLost(h)
  PROVE  IInv'
<1>0. HostsTyped /\ Typed(daemon) /\ Owned(daemon) /\ SessionsInOrder /\ Exact
  BY DEF IInv
<1>1. /\ net[h] # <<>> /\ net' = [net EXCEPT ![h] = Tail(net[h])] /\ lost'
      /\ offers' = offers /\ session' = session /\ life' = life /\ overtaken' = overtaken
      /\ daemon' = daemon /\ m_clients' = m_clients /\ objects' = objects
  BY DEF messageLost, daemonVars, daemon
<1>2. net \in [Host -> Seq(SDMessage)] /\ net[h] \in Seq(SDMessage)
  BY <1>0 DEF HostsTyped
<1>3. /\ Tail(net[h]) \in Seq(SDMessage) /\ Len(Tail(net[h])) = Len(net[h]) - 1
      /\ \A j \in 1 .. Len(net[h]) - 1 : Tail(net[h])[j] = net[h][j + 1]
      /\ 1 \in DOMAIN net[h]
  BY <1>1, <1>2, Shifted
<1>4. /\ net'[h] = Tail(net[h]) /\ net' \in [Host -> Seq(SDMessage)]
      /\ \A g \in Host : g # h => net'[g] = net[g]
  BY <1>1, <1>2, <1>3
<1>5. Without(net[h], 1, net'[h])
  BY <1>3, <1>4, Indices, SMT DEF Without
<1>6. /\ \A j \in DOMAIN net'[h] : \E k \in DOMAIN net[h] : net'[h][j] = net[h][k]
      /\ SentInOrder(h) => SentInOrder(h)'
  BY <1>0, <1>1, <1>3, <1>4, <1>5, FewerMessages
<1>7. HostsTyped'
  <2>1. \A g \in Host : \A i \in DOMAIN net[g] : net[g][i].service \in MayOffer[g]
    BY <1>0 DEF HostsTyped
  <2>2. \A g \in Host : \A i \in DOMAIN net'[g] : net'[g][i].service \in MayOffer[g]
    <3> TAKE g \in Host
    <3>1. CASE g = h BY <1>6, <2>1, <3>1
    <3>2. CASE g # h BY <1>4, <2>1, <3>2
    <3> QED BY <3>1, <3>2
  <2> QED BY <1>0, <1>1, <1>4, <2>2 DEF HostsTyped
<1>8. Typed(daemon)' /\ Owned(daemon)'
  <2>1. \A g \in Host : life'[g] \in Nat /\ life[g] <= life'[g]
    BY <1>0, <1>1, SMT DEF HostsTyped
  <2> QED BY <1>0, <1>1, <2>1, DaemonGoesOn
<1>9. SessionsInOrder'
  <2> SUFFICES ASSUME NEW g \in Host
               PROVE  SentInOrder(g)' /\ (g \notin overtaken' => HeardBefore(g)')
    BY DEF SessionsInOrder
  <2>1. SentInOrder(g) /\ (g \notin overtaken => HeardBefore(g))
    BY <1>0 DEF SessionsInOrder
  <2>2. CASE g # h
    BY <1>1, <1>4, <2>1, <2>2, SameHost
  <2>3. CASE g = h
    <3>1. ASSUME h \notin overtaken' PROVE HeardBefore(h)'
      <4>1. HeardBefore(h) BY <1>1, <2>1, <2>3, <3>1
      <4> QED BY <1>1, <1>6, <4>1, ZenonT(60) DEF HeardBefore, Follows
    <3> QED BY <1>6, <2>1, <2>3, <3>1
  <2> QED BY <2>2, <2>3
<1>10. Exact' BY <1>1 DEF Exact
<1> QED BY <1>7, <1>8, <1>9, <1>10 DEF IInv

\* The daemon goes on in state d.
LEMMA Becomes ==
  ASSUME NEW d, Typed(d), NEW done, becomes(d, done)
  PROVE  daemon' = d
<1>1. d = [objects |-> d.objects, m_clients |-> d.m_clients,
           m_services |-> d.m_services, dead |-> d.dead]
  BY DaemonParts
<1> QED BY <1>1 DEF becomes, daemon

\* A step of the daemon that is not about a message of service discovery: the
\* services it may take out are those of hosts that were restarted.
LEMMA DaemonStep ==
  ASSUME IInv, UNCHANGED hostVars, dead = None, NEW e, Typed(e), Owned(e), daemon' = e,
         e.m_clients = m_clients,
         \A p \in DOMAIN objects :
           /\ e.objects[p].m_lastReceivedSessionID = objects[p].m_lastReceivedSessionID
           /\ e.objects[p].life = objects[p].life,
         \A s \in ServiceIDs : \/ e.m_services[s] = m_services[s]
                               \/ \E g \in Host : life[g] # 1 /\ s \in MayOffer[g]
  PROVE  IInv' /\ m_clients' = m_clients
<1>0. HostsTyped /\ Typed(daemon) /\ Owned(daemon) /\ SessionsInOrder /\ Exact
  BY DEF IInv
<1>1. /\ offers' = offers /\ session' = session /\ life' = life /\ net' = net
      /\ lost' = lost /\ overtaken' = overtaken
  BY DEF hostVars
<1>2. m_clients' = m_clients /\ objects' = e.objects /\ m_services' = e.m_services
  BY DEF daemon
<1>3. HostsTyped' BY <1>0, <1>1 DEF HostsTyped
<1>4. Typed(daemon)' /\ Owned(daemon)'
  <2>1. \A g \in Host : life'[g] \in Nat /\ life[g] <= life'[g]
    BY <1>0, <1>1, SMT DEF HostsTyped
  <2> QED BY <1>0, <2>1, DaemonGoesOn
<1>5. SessionsInOrder'
  <2> SUFFICES ASSUME NEW g \in Host
               PROVE  SentInOrder(g)' /\ (g \notin overtaken' => HeardBefore(g)')
    BY DEF SessionsInOrder
  <2>1. SentInOrder(g) /\ (g \notin overtaken => HeardBefore(g))
    BY <1>0 DEF SessionsInOrder
  <2>2. SentInOrder(g)' BY <1>1, <2>1 DEF SentInOrder, Follows
  <2>3. ASSUME g \notin overtaken', m_clients[g] # 0 PROVE HeardBefore(g)'
    <3>1. HeardBefore(g) BY <1>1, <2>1, <2>3
    <3>2. m_clients[g] \in DOMAIN objects BY <1>0, <2>3, HostParts
    <3> QED BY <1>1, <1>2, <3>1, <3>2 DEF HeardBefore, Follows
  <2>4. m_clients[g] = 0 => HeardBefore(g)' BY <1>2 DEF HeardBefore
  <2> QED BY <2>2, <2>3, <2>4
<1>6. Exact'
  <2> SUFFICES ASSUME ~lost, NEW g \in Host \ overtaken, life[g] = 1, NEW s \in Own(g)
               PROVE  ExactFor(g, s)'
    BY <1>1 DEF Exact, Own
  <2>1. ExactFor(g, s) BY <1>0 DEF Exact
  <2>2. s \in ServiceIDs /\ \A f \in Host : f # g => s \notin MayOffer[f]
    BY DEF Own
  <2>3. m_services'[s] = m_services[s] BY <1>2, <2>2
  <2> QED BY <1>1, <2>1, <2>3 DEF ExactFor
<1> QED BY <1>2, <1>3, <1>4, <1>5, <1>6 DEF IInv

\* The daemon ends.
LEMMA DaemonEnds ==
  ASSUME IInv, UNCHANGED hostVars, dead = None, NEW how \in Cause, NEW done,
         becomes(die(daemon, how), done)
  PROVE  IInv' /\ m_clients' = m_clients
<1> DEFINE e == die(daemon, how)
<1>1. /\ Typed(e) /\ e.objects = objects /\ e.m_clients = m_clients
      /\ e.m_services = m_services
  <2>1. Typed(daemon) BY DEF IInv
  <2>2. daemon.objects = objects /\ daemon.m_clients = m_clients
        /\ daemon.m_services = m_services
    BY DEF daemon
  <2> QED BY <2>1, <2>2, Die
<1> HIDE DEF e
<1>2. Owned(e) BY <1>1 DEF IInv, Owned, OwnedAt, daemon
<1>3. daemon' = e BY <1>1, Becomes DEF e
<1> QED BY <1>1, <1>2, <1>3, DaemonStep

\* The client of a service is registered, if its host was not restarted.
LEMMA OwnerRegistered ==
  ASSUME IInv, NEW s \in ServiceIDs, m_services[s] # 0
  PROVE  /\ m_services[s] \in DOMAIN daemon.objects
         /\ life[daemon.objects[m_services[s]].host] = 1
              => daemon.objects[m_services[s]].state = "registered"
<1>1. daemon.m_services = m_services BY DEF daemon
<1>2. Typed(daemon) /\ Owned(daemon) BY DEF IInv
<1>3. m_services[s] \in DOMAIN daemon.objects
  BY <1>1, <1>2, DaemonParts, SMT DEF Typed
<1> QED BY <1>1, <1>2, <1>3 DEF Owned, OwnedAt

\* The daemon writes to the client of a service.
LEMMA DaemonWrites ==
  ASSUME IInv, UNCHANGED hostVars, dead = None, NEW s \in ServiceIDs,
         m_services[s] # 0, NEW e, Typed(e), Keeps(daemon, e, m_services[s]), daemon' = e
  PROVE  IInv' /\ m_clients' = m_clients
<1> DEFINE o == m_services[s]
<1>1. /\ o \in DOMAIN daemon.objects
      /\ life[daemon.objects[o].host] = 1 => daemon.objects[o].state = "registered"
  BY OwnerRegistered
<1>2. Owned(daemon) BY DEF IInv
<1>3. Keeps(daemon, e, o) OBVIOUS
<1> HIDE DEF o
<1>4. Owned(e) BY <1>1, <1>2, <1>3, KeepsOwned
<1>5. daemon.objects = objects /\ daemon.m_clients = m_clients
      /\ daemon.m_services = m_services
  BY DEF daemon
<1>6. e.m_clients = m_clients /\ e.m_services = m_services
  BY <1>3, <1>5 DEF Keeps
<1>7. \A p \in DOMAIN objects :
        /\ e.objects[p].m_lastReceivedSessionID = objects[p].m_lastReceivedSessionID
        /\ e.objects[p].life = objects[p].life
  BY <1>3, <1>5 DEF Keeps, Touches
<1> QED BY <1>4, <1>6, <1>7, DaemonStep

LEMMA SendMessage ==
  ASSUME IInv, NEW s \in ServiceIDs, sendMessage(s)
  PROVE  IInv' /\ m_clients' = m_clients
<1> DEFINE o == m_services[s]
<1>1. dead = None /\ o # 0 /\ UNCHANGED hostVars
  BY DEF sendMessage
<1>2. CASE becomes(die(daemon, "freed"), {})
  <2>1. "freed" \in Cause BY DEF Cause
  <2> QED BY <1>1, <1>2, <2>1, DaemonEnds
<1>3. ASSUME NEW up, objects' = connectAndWrite(daemon, o, up).objects,
             dead' = connectAndWrite(daemon, o, up).dead, UNCHANGED <<m_clients, m_services>>
      PROVE  IInv' /\ m_clients' = m_clients
  <2> DEFINE e == connectAndWrite(daemon, o, up)
  <2>1. o \in DOMAIN daemon.objects BY <1>1, OwnerRegistered
  <2>2. Typed(e) /\ Keeps(daemon, e, o)
    BY <2>1, ConnectAndWrite DEF IInv
  <2>3. objects' = e.objects /\ dead' = e.dead BY <1>3
  <2> HIDE DEF e
  <2>4. daemon.m_clients = m_clients /\ daemon.m_services = m_services
    BY DEF daemon
  <2>5. e.m_clients = m_clients /\ e.m_services = m_services
    BY <2>2, <2>4 DEF Keeps
  <2>6. daemon' = e
    <3>1. e = [objects |-> e.objects, m_clients |-> e.m_clients,
               m_services |-> e.m_services, dead |-> e.dead]
      BY <2>2, DaemonParts
    <3>2. m_clients' = m_clients /\ m_services' = m_services BY <1>3
    <3> QED BY <2>3, <2>5, <3>1, <3>2 DEF daemon
  <2> QED BY <1>1, <2>2, <2>6, DaemonWrites
<1> QED BY <1>2, <1>3 DEF sendMessage

LEMMA Subscribe ==
  ASSUME IInv, NEW s \in ServiceIDs, subscribe(s)
  PROVE  IInv' /\ m_clients' = m_clients
<1> DEFINE o == m_services[s]
<1>1. dead = None /\ UNCHANGED hostVars
  BY DEF subscribe
<1>2. CASE UNCHANGED <<objects, m_clients, m_services, waiting, dead>>
  <2>1. daemon' = daemon BY <1>2 DEF daemon
  <2>2. daemon.objects = objects /\ daemon.m_clients = m_clients
        /\ daemon.m_services = m_services
    BY DEF daemon
  <2>3. Typed(daemon) /\ Owned(daemon) BY DEF IInv
  <2> QED BY <1>1, <2>1, <2>2, <2>3, DaemonStep
<1>3. CASE becomes(die(daemon, "freed"), {})
  <2>1. "freed" \in Cause BY DEF Cause
  <2> QED BY <1>1, <1>3, <2>1, DaemonEnds
<1>4. ASSUME o # 0, NEW up, becomes(onNotificationSubscribed(daemon, o, s, up), {})
      PROVE  IInv' /\ m_clients' = m_clients
  <2> DEFINE e == onNotificationSubscribed(daemon, o, s, up)
  <2>1. o \in DOMAIN daemon.objects BY <1>4, OwnerRegistered
  <2>2. Typed(e) /\ Keeps(daemon, e, o)
    BY <2>1, OnNotificationSubscribed DEF IInv
  <2>3. daemon' = e BY <1>4, <2>2, Becomes
  <2> HIDE DEF e
  <2> QED BY <1>1, <1>4, <2>2, <2>3, DaemonWrites
<1> QED BY <1>2, <1>3, <1>4 DEF subscribe

LEMMA ReceiveReply ==
  ASSUME IInv, NEW w, receiveReply(w)
  PROVE  IInv' /\ m_clients' = m_clients
<1>1. dead = None /\ UNCHANGED hostVars BY DEF receiveReply
<1>2. \/ becomes(die(daemon, "unknown"), {w})
      \/ becomes(die(daemon, "null"), {w})
      \/ becomes(daemon, {w})
  BY DEF receiveReply
<1>3. "unknown" \in Cause /\ "null" \in Cause BY DEF Cause
<1>4. CASE becomes(daemon, {w})
  <2>1. Typed(daemon) /\ Owned(daemon) BY DEF IInv
  <2>2. daemon' = daemon BY <1>4, <2>1, Becomes
  <2>3. daemon.objects = objects /\ daemon.m_clients = m_clients
        /\ daemon.m_services = m_services
    BY DEF daemon
  <2> QED BY <1>1, <2>1, <2>2, <2>3, DaemonStep
<1> QED BY <1>1, <1>2, <1>3, <1>4, DaemonEnds

\* The connection to a daemon that is gone ends: its host was restarted.
LEMMA HangUp ==
  ASSUME IInv, NEW o \in DOMAIN objects, hangUp(o)
  PROVE  IInv' /\ m_clients' = m_clients
<1> DEFINE h == objects[o].host
           e == disconnect(daemon, o)
<1>1. /\ dead = None /\ UNCHANGED hostVars /\ becomes(e, {})
      /\ objects[o].connection # 0 /\ objects[o].connection # life[h]
  BY DEF hangUp
<1>2. HostsTyped /\ Typed(daemon) /\ Owned(daemon) BY DEF IInv
<1>3. daemon.objects = objects /\ daemon.m_clients = m_clients
      /\ daemon.m_services = m_services
  BY DEF daemon
<1>4. /\ Typed(e)
      /\ Touches(daemon, e, o)
      /\ e.m_clients = m_clients
      /\ e.objects[o].m_lastReceivedSessionID = objects[o].m_lastReceivedSessionID
      /\ e.objects[o].life = objects[o].life
      /\ \A s \in ServiceIDs : e.m_services[s] =
           IF objects[o].state = "registered" /\ s \in objects[o].m_registeredServices
           THEN 0 ELSE m_services[s]
  <2>1. HungUp(daemon, o, e) BY <1>1, <1>2, <1>3, Disconnect
  <2> QED BY <1>1, <1>3, <2>1 DEF HungUp
<1> HIDE DEF e
<1>5. daemon' = e BY <1>1, <1>4, Becomes
<1>6. h \in Host /\ life[h] # 1 /\ objects[o].m_registeredServices \subseteq MayOffer[h]
  <2>1. objects[o] \in TCPClient /\ ClientOK(objects[o])
    BY <1>2, <1>3, DaemonParts DEF Typed
  <2>2. h \in Host /\ objects[o].connection \in Nat BY <2>1 DEF TCPClient
  <2>3. life[h] \in Nat BY <1>2, <2>2 DEF HostsTyped
  <2> QED BY <1>1, <2>1, <2>2, <2>3, SMT DEF ClientOK
<1>7. Owned(e)
  <2> SUFFICES ASSUME NEW p \in DOMAIN e.objects, life[e.objects[p].host] = 1
               PROVE  OwnedAt(e, p)
    BY DEF Owned
  <2>1. p # o BY <1>3, <1>4, <1>6 DEF Touches
  <2>2. p \in DOMAIN objects /\ e.objects[p] = objects[p] /\ p # 0
    BY <1>2, <1>3, <1>4, <2>1, DaemonParts, SMT DEF Touches
  <2>3. OwnedAt(daemon, p) BY <1>2, <1>3, <2>2 DEF Owned
  <2>4. \A s \in ServiceIDs : e.m_services[s] = p => m_services[s] = p
    BY <1>4, <2>2
  <2> QED BY <1>3, <1>4, <2>2, <2>3, <2>4 DEF OwnedAt
<1>8. \A p \in DOMAIN objects :
        /\ e.objects[p].m_lastReceivedSessionID = objects[p].m_lastReceivedSessionID
        /\ e.objects[p].life = objects[p].life
  BY <1>3, <1>4 DEF Touches
<1>9. \A s \in ServiceIDs : \/ e.m_services[s] = m_services[s]
                            \/ \E g \in Host : life[g] # 1 /\ s \in MayOffer[g]
  BY <1>4, <1>6
<1> QED BY <1>1, <1>4, <1>5, <1>7, <1>8, <1>9, DaemonStep

\* Clients that are disconnected are deleted.
LEMMA Clean ==
  ASSUME IInv, cleanDisconnectedClients
  PROVE  IInv' /\ m_clients' = m_clients
<1> DEFINE f == [o \in DOMAIN objects |->
                   IF objects[o].state = "disconnected"
                   THEN [objects[o] EXCEPT !.state = "deleted"] ELSE objects[o]]
           e == [objects |-> f, m_clients |-> m_clients, m_services |-> m_services,
                 dead |-> dead]
<1>1. /\ dead = None /\ UNCHANGED hostVars /\ objects' = f /\ m_clients' = m_clients
      /\ m_services' = m_services /\ dead' = dead
  BY DEF cleanDisconnectedClients
<1>2. Typed(daemon) /\ Owned(daemon) BY DEF IInv
<1>3. daemon.objects = objects /\ daemon.m_clients = m_clients
      /\ daemon.m_services = m_services /\ daemon.dead = dead
  BY DEF daemon
<1>4. /\ Len(objects) \in Nat /\ DOMAIN objects = 1 .. Len(objects)
      /\ \A o \in DOMAIN objects : objects[o] \in TCPClient /\ ClientOK(objects[o])
  BY <1>2, <1>3, DaemonParts DEF Typed
<1>5. \A o \in DOMAIN objects :
        /\ f[o] \in TCPClient
        /\ f[o].host = objects[o].host
        /\ f[o].state = "registered" <=> objects[o].state = "registered"
        /\ f[o].connection = objects[o].connection
        /\ f[o].m_registeredServices = objects[o].m_registeredServices
        /\ f[o].m_lastReceivedSessionID = objects[o].m_lastReceivedSessionID
        /\ f[o].life = objects[o].life
  <2> TAKE o \in DOMAIN objects
  <2>1. CASE objects[o].state = "disconnected"
    <3>1. f[o] = [objects[o] EXCEPT !.state = "deleted"] BY <2>1
    <3>2. "deleted" \in State /\ "deleted" # "registered" /\ "disconnected" # "registered"
      BY DEF State
    <3>3. objects[o] \in TCPClient BY <1>4
    <3> QED BY <2>1, <3>1, <3>2, <3>3 DEF TCPClient
  <2>2. CASE objects[o].state # "disconnected"
    BY <1>4, <2>2
  <2> QED BY <2>1, <2>2
<1>6. DOMAIN f = DOMAIN objects OBVIOUS
<1> HIDE DEF f
<1>7. /\ e.objects = f /\ e.m_clients = m_clients /\ e.m_services = m_services
      /\ e.dead = dead
  OBVIOUS
<1>8. f \in Seq(TCPClient) /\ Len(f) = Len(objects)
  <2>1. f = [o \in 1 .. Len(objects) |-> f[o]]
    BY <1>1, <1>4 DEF f
  <2>2. \A o \in 1 .. Len(objects) : f[o] \in TCPClient BY <1>4, <1>5
  <2>3. f \in Seq(TCPClient)
    BY <1>4, <2>1, <2>2, SMT
  <2> QED BY <1>4, <1>6, <2>3, Indices, SMT
<1>9. e \in Daemon
  <2>1. daemon \in Daemon BY <1>2 DEF Typed
  <2>2. /\ m_clients \in [Host -> Nat] /\ m_services \in [ServiceIDs -> Nat]
        /\ dead \in Cause \cup {None}
    BY <1>3, <2>1 DEF Daemon
  <2> QED BY <1>8, <2>2 DEF Daemon
<1>10. daemon' = e BY <1>1 DEF daemon
<1> HIDE DEF e
<1>11. Typed(e)
  <2>1. \A o \in DOMAIN e.objects : ClientOK(e.objects[o])
    BY <1>4, <1>5, <1>6, <1>7 DEF ClientOK
  <2>2. \A h \in Host : /\ m_clients[h] \in 0 .. Len(objects)
                        /\ m_clients[h] # 0 => objects[m_clients[h]].host = h
    BY <1>2, <1>3 DEF Typed
  <2>3. \A s \in ServiceIDs :
          /\ m_services[s] \in 0 .. Len(objects)
          /\ m_services[s] # 0 => s \in MayOffer[objects[m_services[s]].host]
    BY <1>2, <1>3 DEF Typed
  <2>4. \A n \in 0 .. Len(objects) : n # 0 => n \in DOMAIN objects
    BY <1>4, SMT
  <2>5. \A h \in Host : /\ e.m_clients[h] \in 0 .. Len(e.objects)
                        /\ e.m_clients[h] # 0 => e.objects[e.m_clients[h]].host = h
    BY <1>5, <1>7, <1>8, <2>2, <2>4
  <2>6. \A s \in ServiceIDs :
          /\ e.m_services[s] \in 0 .. Len(e.objects)
          /\ e.m_services[s] # 0 => s \in MayOffer[e.objects[e.m_services[s]].host]
    BY <1>5, <1>7, <1>8, <2>3, <2>4
  <2> QED BY <1>9, <2>1, <2>5, <2>6 DEF Typed
<1>12. Owned(e)
  <2> SUFFICES ASSUME NEW p \in DOMAIN e.objects, life[e.objects[p].host] = 1
               PROVE  OwnedAt(e, p)
    BY DEF Owned
  <2>1. p \in DOMAIN objects /\ life[objects[p].host] = 1 BY <1>5, <1>6, <1>7
  <2>2. OwnedAt(daemon, p) BY <1>2, <1>3, <2>1 DEF Owned
  <2> QED BY <1>3, <1>5, <1>7, <2>1, <2>2, ZenonT(60) DEF OwnedAt
<1>13. \A p \in DOMAIN objects :
         /\ e.objects[p].m_lastReceivedSessionID = objects[p].m_lastReceivedSessionID
         /\ e.objects[p].life = objects[p].life
  BY <1>5, <1>7
<1> QED BY <1>1, <1>7, <1>10, <1>11, <1>12, <1>13, DaemonStep

\* RemoteServiceListener::handleMessage handles message i of h, and the daemon
\* goes on in state e.
Received(h, i, e) ==
  /\ dead = None
  /\ i \in DOMAIN net[h]
  /\ overtaken' = IF i = 1 THEN overtaken ELSE overtaken \cup {h}
  /\ net' = [net EXCEPT ![h] = SubSeq(@, 1, i - 1) \o SubSeq(@, i + 1, Len(@))]
  /\ \/ /\ net[h][i].type = "offer"
        /\ \E up : e = onRemoteServiceAvailable(daemon, h, net[h][i], up)
     \/ /\ net[h][i].type = "stop"
        /\ e = onRemoteServiceUnavailable(daemon, h, net[h][i])
  /\ daemon' = e
  /\ UNCHANGED <<offers, session, life, sentCount, lost, m_notifications>>

\* The service of message m is registered, or unregistered if the client of
\* host h had registered it, and the others stay.
Settles(e, h, m) ==
  /\ \A s \in ServiceIDs : s # m.service => e.m_services[s] = m_services[s]
  /\ m.service \notin WellKnown /\ m.type = "offer" => e.m_services[m.service] # 0
  /\ m.type = "stop" =>
       \/ e.m_services[m.service] = 0
       \/ /\ m_services[m.service] # 0
          /\ ~(m_clients[h] # 0 /\ m.service \in objects[m_clients[h]].m_registeredServices)

\* What the message does to the daemon.
LEMMA ReceivedEffect ==
  ASSUME IInv, NEW h \in Host, NEW i, NEW e, Received(h, i, e)
  PROVE  /\ Handles(daemon, e, h, net[h][i])
         /\ ~Rebooted(daemon, h, net[h][i]) /\ e.dead = None => Settles(e, h, net[h][i])
<1> DEFINE m == net[h][i]
<1>1. HostsTyped /\ Typed(daemon) /\ Owned(daemon) BY DEF IInv
<1>2. i \in DOMAIN net[h] BY DEF Received
<1>3. m \in SDMessage BY <1>1, <1>2, HostParts
<1>4. m.service \in MayOffer[h] BY <1>1, <1>2 DEF HostsTyped
<1>5. daemon.objects = objects /\ daemon.m_clients = m_clients
      /\ daemon.m_services = m_services
  BY DEF daemon
<1>6. \/ m.type = "offer" /\ \E up : e = onRemoteServiceAvailable(daemon, h, m, up)
      \/ m.type = "stop" /\ e = onRemoteServiceUnavailable(daemon, h, m)
  BY DEF Received
<1> HIDE DEF m
<1>7. ASSUME NEW up, m.type = "offer", e = onRemoteServiceAvailable(daemon, h, m, up)
      PROVE  /\ Handles(daemon, e, h, m)
             /\ m.service \notin WellKnown /\ ~Rebooted(daemon, h, m) /\ e.dead = None =>
                  /\ e.m_services[m.service] # 0
                  /\ \A s \in ServiceIDs : s # m.service => e.m_services[s] = m_services[s]
             /\ m.service \in WellKnown => e = daemon
  <2>1. m.service \in WellKnown => e = daemon
    BY <1>7 DEF onRemoteServiceAvailable
  <2> QED BY <1>1, <1>3, <1>4, <1>5, <1>7, <2>1, OnRemoteServiceAvailable, SMT
<1>8. ASSUME m.type = "stop", e = onRemoteServiceUnavailable(daemon, h, m)
      PROVE  /\ Handles(daemon, e, h, m)
             /\ ~Rebooted(daemon, h, m) /\ e.dead = None =>
                  /\ m_clients[h] # 0
                       /\ m.service \in objects[m_clients[h]].m_registeredServices
                       => e.m_services[m.service] = 0
                  /\ m_services[m.service] = 0 => e.m_services[m.service] = 0
                  /\ \A s \in ServiceIDs : s # m.service => e.m_services[s] = m_services[s]
  <2>1. Handles(daemon, e, h, m) BY <1>1, <1>3, <1>4, <1>8, OnRemoteServiceUnavailable
  <2>2. ~Rebooted(daemon, h, m) /\ e.dead = None => Withdraws(daemon, e, h, m)
    BY <1>1, <1>3, <1>4, <1>8, OnRemoteServiceUnavailable
  <2> QED BY <1>5, <2>1, <2>2 DEF Withdraws
<1>9. "offer" # "stop" OBVIOUS
<1> QED BY <1>5, <1>6, <1>7, <1>8, <1>9 DEF m, Settles

\* A message in order does not look like one of another life of its sender,
\* unless it is.
LEMMA NotRebooted ==
  ASSUME IInv, NEW h \in Host \ overtaken, NEW i \in DOMAIN net[h], m_clients[h] # 0,
         net[h][i].life <= objects[m_clients[h]].life
  PROVE  ~Rebooted(daemon, h, net[h][i])
<1> DEFINE m == net[h][i]
           x == objects[m_clients[h]]
<1>1. HostsTyped /\ Typed(daemon) BY DEF IInv
<1>2. Follows(m, x.m_lastReceivedSessionID, x.life)
  BY DEF IInv, SessionsInOrder, HeardBefore
<1>3. /\ m.session.id \in Nat /\ m.life \in Nat /\ m.session.reboot \in BOOLEAN
      /\ x.m_lastReceivedSessionID \in Nat /\ x.life \in Nat
  BY <1>1, HostParts
<1>4. daemon.objects = objects /\ daemon.m_clients = m_clients BY DEF daemon
<1>5. m.life <= x.life OBVIOUS
<1>6. ~hasRebooted(x.m_lastReceivedSessionID, m.session)
  <2> HIDE DEF m, x
  <2> QED BY <1>2, <1>3, <1>5, SMT DEF Follows, hasRebooted
<1> QED BY <1>4, <1>6 DEF Rebooted

\* A host that was not restarted is not taken for restarted.
LEMMA FirstLife ==
  ASSUME IInv, NEW h \in Host \ overtaken, NEW i \in DOMAIN net[h], life[h] = 1
  PROVE  ~Rebooted(daemon, h, net[h][i])
<1> DEFINE x == objects[m_clients[h]]
<1>1. HostsTyped /\ Typed(daemon) BY DEF IInv
<1>2. daemon.objects = objects /\ daemon.m_clients = m_clients BY DEF daemon
<1>3. CASE m_clients[h] = 0
  BY <1>2, <1>3 DEF Rebooted
<1>4. CASE m_clients[h] # 0
  <2>1. /\ x.life \in Nat /\ net[h][i].life \in Nat /\ net[h][i].session.id \in Nat
        /\ m_clients[h] \in DOMAIN objects
    BY <1>1, <1>4, HostParts
  <2>2. x.life = 0 => x.m_lastReceivedSessionID = 0
    BY <1>1, <1>2, <2>1 DEF Typed, ClientOK
  <2>3. net[h][i].life <= 1
    BY <2>1 DEF IInv, SessionsInOrder, SentInOrder, Follows
  <2>4. CASE x.life = 0
    BY <1>2, <2>1, <2>2, <2>4, SMT DEF Rebooted, hasRebooted
  <2>5. CASE x.life # 0
    <3>1. net[h][i].life <= x.life BY <2>1, <2>3, <2>5, SMT
    <3> QED BY <1>4, <3>1, NotRebooted
  <2> QED BY <2>4, <2>5
<1> QED BY <1>3, <1>4

\* RemoteServiceListener::handleMessage preserves the invariant.
LEMMA MessageReceived ==
  ASSUME IInv, NEW h \in Host, NEW i, NEW e, Received(h, i, e)
  PROVE  IInv'
<1> DEFINE m == net[h][i]
<1>0. HostsTyped /\ Typed(daemon) /\ Owned(daemon) /\ SessionsInOrder /\ Exact
  BY DEF IInv
<1>1. /\ dead = None /\ i \in DOMAIN net[h] /\ daemon' = e
      /\ overtaken' = IF i = 1 THEN overtaken ELSE overtaken \cup {h}
      /\ net' = [net EXCEPT ![h] = SubSeq(net[h], 1, i - 1) \o SubSeq(net[h], i + 1, Len(net[h]))]
      /\ offers' = offers /\ session' = session /\ life' = life /\ lost' = lost
  BY DEF Received
<1>2. Handles(daemon, e, h, m) BY ReceivedEffect
<1>3. /\ daemon.objects = objects /\ daemon.m_clients = m_clients
      /\ daemon.m_services = m_services
  BY DEF daemon
<1>4. /\ objects' = e.objects /\ m_clients' = e.m_clients /\ m_services' = e.m_services
      /\ dead' = e.dead
  BY <1>1 DEF daemon
<1>5. net \in [Host -> Seq(SDMessage)] /\ net[h] \in Seq(SDMessage) /\ i \in 1 .. Len(net[h])
  BY <1>0, <1>1, HostParts DEF HostsTyped
<1>6. /\ net' \in [Host -> Seq(SDMessage)] /\ Without(net[h], i, net'[h])
      /\ \A g \in Host : g # h => net'[g] = net[g]
  <2> DEFINE r == SubSeq(net[h], 1, i - 1) \o SubSeq(net[h], i + 1, Len(net[h]))
  <2>1. r \in Seq(SDMessage) /\ Without(net[h], i, r) BY <1>5, Removed
  <2>2. net' = [net EXCEPT ![h] = r] BY <1>1
  <2> HIDE DEF r
  <2> QED BY <1>5, <2>1, <2>2
<1>7. /\ \A j \in DOMAIN net'[h] : \E k \in DOMAIN net[h] : net'[h][j] = net[h][k]
      /\ SentInOrder(h) => SentInOrder(h)'
  BY <1>0, <1>1, <1>6, FewerMessages
<1>8. HostsTyped'
  <2>1. \A g \in Host : \A j \in DOMAIN net[g] : net[g][j].service \in MayOffer[g]
    BY <1>0 DEF HostsTyped
  <2>2. \A g \in Host : \A j \in DOMAIN net'[g] : net'[g][j].service \in MayOffer[g]
    <3> TAKE g \in Host
    <3>1. CASE g = h BY <1>7, <2>1, <3>1
    <3>2. CASE g # h BY <1>6, <2>1, <3>2
    <3> QED BY <3>1, <3>2
  <2> QED BY <1>0, <1>1, <1>6, <2>2 DEF HostsTyped
<1>9. Typed(daemon)' /\ Owned(daemon)'
  <2>1. \A g \in Host : life'[g] \in Nat /\ life[g] <= life'[g]
    BY <1>0, <1>1, SMT DEF HostsTyped
  <2>2. Typed(e) /\ Owned(e) BY <1>2 DEF Handles
  <2> QED BY <1>0, <1>1, <2>1, <2>2, DaemonGoesOn
<1>10. SessionsInOrder'
  <2> SUFFICES ASSUME NEW g \in Host
               PROVE  SentInOrder(g)' /\ (g \notin overtaken' => HeardBefore(g)')
    BY DEF SessionsInOrder
  <2>1. SentInOrder(g) /\ (g \notin overtaken => HeardBefore(g))
    BY <1>0 DEF SessionsInOrder
  <2>2. CASE g # h
    <3>1. m_clients'[g] = m_clients[g] BY <1>2, <1>3, <1>4, <2>2 DEF Handles
    <3>2. m_clients[g] # 0 => objects'[m_clients[g]] = objects[m_clients[g]]
      <4>1. m_clients[g] # 0 => m_clients[g] \in DOMAIN objects
                                /\ objects[m_clients[g]].host = g
        BY <1>0, HostParts
      <4> QED BY <1>2, <1>3, <1>4, <2>2, <4>1 DEF Handles
    <3>3. overtaken \subseteq overtaken' BY <1>1
    <3> QED BY <1>1, <1>6, <2>1, <2>2, <3>1, <3>2, <3>3, SameHost
  <2>3. CASE g = h
    <3>1. SentInOrder(h)' BY <1>7, <2>1, <2>3
    <3>2. ASSUME h \notin overtaken', m_clients'[h] # 0 PROVE HeardBefore(h)'
      <4> DEFINE x == objects'[m_clients'[h]]
                 y == objects[m_clients[h]]
                 now == [session |-> session[h], life |-> life[h]]
      <4>1. i = 1 /\ h \notin overtaken BY <1>1, <3>2
      <4>2. \/ x.m_lastReceivedSessionID = 0 /\ x.life = 0
            \/ x.m_lastReceivedSessionID = m.session.id /\ x.life = m.life
            \/ /\ m_clients[h] # 0
               /\ x.m_lastReceivedSessionID = y.m_lastReceivedSessionID
               /\ x.life = y.life
        BY <1>2, <1>3, <1>4, <3>2 DEF Handles
      <4>3. now.life # 0 /\ now.life \in Nat BY <1>0, HostParts
      <4>4. \A j \in DOMAIN net'[h] :
              /\ net'[h][j].life # 0 /\ net'[h][j].life \in Nat
              /\ Follows(net'[h][j], m.session.id, m.life)
              /\ m_clients[h] # 0 => Follows(net'[h][j], y.m_lastReceivedSessionID, y.life)
        <5> TAKE j \in DOMAIN net'[h]
        <5>1. /\ j + 1 \in DOMAIN net[h] /\ net'[h][j] = net[h][j + 1]
              /\ 1 < j + 1 /\ 1 \in DOMAIN net[h]
          BY <1>1, <1>5, <1>6, <4>1, Indices, SMT DEF Without
        <5>2. net[h][j + 1].life # 0 /\ net[h][j + 1].life \in Nat
          BY <1>0, <5>1, HostParts
        <5>3. Follows(net[h][j + 1], m.session.id, m.life)
          BY <2>1, <2>3, <4>1, <5>1 DEF SentInOrder
        <5>4. m_clients[h] # 0 => Follows(net[h][j + 1], y.m_lastReceivedSessionID, y.life)
          BY <2>1, <2>3, <4>1, <5>1 DEF HeardBefore
        <5> QED BY <5>1, <5>2, <5>3, <5>4
      <4>5. Follows(now, m.session.id, m.life)
        BY <1>1, <2>1, <2>3 DEF SentInOrder
      <4>6. m_clients[h] # 0 => Follows(now, y.m_lastReceivedSessionID, y.life)
        BY <2>1, <2>3, <4>1 DEF HeardBefore
      <4>7. \A n : n.life # 0 /\ n.life \in Nat => Follows(n, 0, 0)
        BY SMT DEF Follows
      <4>8. now' = now BY <1>1
      <4> HIDE DEF x, y, now, m
      <4>9. \A j \in DOMAIN net'[h] : Follows(net'[h][j], x.m_lastReceivedSessionID, x.life)
        BY <4>2, <4>4, <4>7
      <4>10. Follows(now, x.m_lastReceivedSessionID, x.life)
        BY <4>2, <4>3, <4>5, <4>6, <4>7
      <4> QED BY <1>1, <4>9, <4>10 DEF HeardBefore, Follows, x, now
    <3>3. m_clients'[h] = 0 => HeardBefore(h)' BY DEF HeardBefore
    <3> QED BY <2>3, <3>1, <3>2, <3>3
  <2> QED BY <2>2, <2>3
<1>11. Exact'
  <2> SUFFICES ASSUME dead' = None, ~lost, NEW g \in Host \ overtaken', life[g] = 1,
                      NEW s \in Own(g)
               PROVE  ExactFor(g, s)'
    BY <1>1 DEF Exact, Own
  <2>1. g \notin overtaken BY <1>1
  <2>2. ExactFor(g, s) BY <1>0, <1>1, <2>1 DEF Exact
  <2>3. s \in ServiceIDs /\ s \notin WellKnown /\ \A f \in Host : f # g => s \notin MayOffer[f]
    <3> DEFINE U == UNION {MayOffer[f] : f \in Host \ {g}}
    <3>1. s \in ServiceIDs /\ s \notin U \cup WellKnown BY DEF Own
    <3>2. \A f \in Host : f # g => MayOffer[f] \subseteq U OBVIOUS
    <3> HIDE DEF U
    <3> QED BY <3>1, <3>2
  <2>4. CASE g # h
    <3>1. m_services'[s] = m_services[s] BY <1>2, <1>3, <1>4, <2>3, <2>4 DEF Handles
    <3> QED BY <1>1, <1>6, <2>2, <2>4, <3>1, ZenonT(60) DEF ExactFor
  <2>5. CASE g = h
    <3>1. i = 1 /\ h \notin overtaken BY <1>1, <2>5
    <3>2. /\ \A k \in ServiceIDs : k # m.service => m_services'[k] = m_services[k]
          /\ m.service \notin WellKnown /\ m.type = "offer" => m_services'[m.service] # 0
          /\ m.type = "stop" =>
               \/ m_services'[m.service] = 0
               \/ /\ m_services[m.service] # 0
                  /\ ~(m_clients[h] # 0 /\ m.service \in objects[m_clients[h]].m_registeredServices)
      <4>1. ~Rebooted(daemon, h, m) BY <1>1, <2>5, <3>1, FirstLife
      <4>2. e.dead = None BY <1>3, <1>4
      <4>3. Settles(e, h, m) BY <4>1, <4>2, ReceivedEffect
      <4> QED BY <1>3, <1>4, <4>3 DEF Settles
    <3>3. /\ Len(net[h]) \in Nat /\ DOMAIN net[h] = 1 .. Len(net[h])
          /\ DOMAIN net'[h] = 1 .. Len(net[h]) - 1
          /\ \A j \in 1 .. Len(net[h]) - 1 : net'[h][j] = net[h][j + 1]
      <4>1. Len(net[h]) \in Nat /\ DOMAIN net[h] = 1 .. Len(net[h]) BY <1>0, HostParts
      <4>2. \A j \in 1 .. Len(net[h]) - 1 : ~(j < 1) BY <4>1, SMT
      <4> QED BY <1>6, <3>1, <4>1, <4>2 DEF Without
    <3>4. ASSUME NEW j \in DOMAIN net'[h], net'[h][j].service = s,
                 \A k \in DOMAIN net'[h] : k > j => net'[h][k].service # s
          PROVE  net'[h][j].type = "offer" <=> s \in offers[h]
      <4>1. j + 1 \in DOMAIN net[h] /\ net[h][j + 1] = net'[h][j] BY <3>3, <3>4, SMT
      <4>2. ASSUME NEW k \in DOMAIN net[h], k > j + 1 PROVE net[h][k].service # s
        <5>1. k - 1 \in DOMAIN net'[h] /\ k - 1 > j /\ (k - 1) + 1 = k
          BY <3>3, <3>4, <4>2, SMT
        <5>2. net'[h][k - 1] = net[h][k] BY <3>3, <5>1
        <5> QED BY <3>4, <5>1, <5>2
      <4> QED BY <2>2, <2>5, <3>4, <4>1, <4>2 DEF ExactFor
    <3>5. ASSUME \A j \in DOMAIN net'[h] : net'[h][j].service # s
          PROVE  m_services'[s] # 0 <=> s \in offers[h]
      <4>1. ASSUME NEW k \in DOMAIN net[h], k > 1 PROVE net[h][k].service # s
        <5>1. k - 1 \in DOMAIN net'[h] /\ (k - 1) + 1 = k
          BY <3>3, <4>1, SMT
        <5>2. net'[h][k - 1] = net[h][k] BY <3>3, <5>1
        <5> QED BY <3>5, <5>1, <5>2
      <4>2. CASE m.service # s
        <5>1. \A k \in DOMAIN net[h] : net[h][k].service # s
          BY <3>1, <3>3, <4>1, <4>2, SMT
        <5>2. m_services'[s] = m_services[s] BY <2>3, <3>2, <4>2
        <5> QED BY <2>2, <2>5, <5>1, <5>2 DEF ExactFor
      <4>3. CASE m.service = s
        <5>1. m.type = "offer" <=> s \in offers[h]
          BY <1>1, <2>2, <2>5, <3>1, <4>1, <4>3 DEF ExactFor
        <5>2. m \in SDMessage BY <1>0, <1>1, HostParts
        <5>3. m.type = "offer" \/ m.type = "stop" BY <5>2 DEF SDMessage
        <5>4. m_services[s] # 0 =>
                m_clients[h] # 0 /\ s \in objects[m_clients[h]].m_registeredServices
          <6> SUFFICES ASSUME m_services[s] # 0
                       PROVE  m_clients[h] # 0
                              /\ s \in objects[m_clients[h]].m_registeredServices
            OBVIOUS
          <6>1. /\ m_services[s] \in DOMAIN objects
                /\ objects[m_services[s]].host \in Host
                /\ s \in MayOffer[objects[m_services[s]].host]
            BY <1>0, <1>3, <2>3, DaemonParts, SMTT(30) DEF Typed, TCPClient
          <6>2. objects[m_services[s]].host = h BY <2>3, <2>5, <6>1
          <6>3. OwnedAt(daemon, m_services[s])
            BY <1>0, <1>3, <2>5, <6>1, <6>2 DEF Owned
          <6> QED BY <1>3, <2>3, <6>2, <6>3 DEF OwnedAt
        <5> QED BY <2>3, <3>2, <4>3, <5>1, <5>3, <5>4
      <4> QED BY <4>2, <4>3
    <3> QED BY <1>1, <2>5, <3>4, <3>5, ZenonT(60) DEF ExactFor
  <2> QED BY <2>4, <2>5
<1> QED BY <1>8, <1>9, <1>10, <1>11 DEF IInv

\* A step of a host.
LEMMA HostSteps ==
  ASSUME IInv, NEW h \in Host, HostStep(h)
  PROVE  IInv' /\ m_clients' = m_clients
<1>0. HostsTyped BY DEF IInv
<1>1. offers \in [Host -> SUBSET ServiceIDs] /\ offers[h] \subseteq MayOffer[h]
      /\ MayOffer[h] \subseteq ServiceIDs
  BY <1>0, RemoteAssumption DEF HostsTyped
<1>2. CASE hostRestarts(h) BY <1>2, Restarted DEF hostRestarts, daemonVars
<1>3. CASE messageLost(h) BY <1>3, MessageLost DEF messageLost, daemonVars
<1>4. ASSUME NEW s \in MayOffer[h], hostOffers(h, s) PROVE IInv' /\ m_clients' = m_clients
  <2>1. announce(h, "offer", s) /\ UNCHANGED <<life, daemonVars>>
        /\ offers' = [offers EXCEPT ![h] = offers[h] \cup {s}]
    BY <1>4 DEF hostOffers
  <2>2. /\ offers' \in [Host -> SUBSET ServiceIDs] /\ offers'[h] = offers[h] \cup {s}
        /\ \A g \in Host : g # h => offers'[g] = offers[g]
    BY <1>1, <2>1
  <2>3. "offer" \in {"offer", "stop"} /\ s \in offers'[h] BY <2>2
  <2>4. IInv' BY <1>1, <2>1, <2>2, <2>3, Announced, SMT
  <2> QED BY <2>1, <2>4 DEF daemonVars
<1>5. ASSUME NEW s \in MayOffer[h], hostOffersAgain(h, s)
      PROVE  IInv' /\ m_clients' = m_clients
  <2>1. announce(h, "offer", s) /\ UNCHANGED <<life, daemonVars>>
        /\ offers' = offers /\ s \in offers[h]
    BY <1>5 DEF hostOffersAgain
  <2>2. "offer" \in {"offer", "stop"} OBVIOUS
  <2>3. IInv' BY <1>1, <2>1, <2>2, Announced
  <2> QED BY <2>1, <2>3 DEF daemonVars
<1>6. ASSUME NEW s \in MayOffer[h], hostWithdraws(h, s)
      PROVE  IInv' /\ m_clients' = m_clients
  <2>1. announce(h, "stop", s) /\ UNCHANGED <<life, daemonVars>>
        /\ offers' = [offers EXCEPT ![h] = offers[h] \ {s}]
    BY <1>6 DEF hostWithdraws
  <2>2. /\ offers' \in [Host -> SUBSET ServiceIDs] /\ offers'[h] = offers[h] \ {s}
        /\ \A g \in Host : g # h => offers'[g] = offers[g]
    BY <1>1, <2>1
  <2>3. "stop" \in {"offer", "stop"} /\ "stop" # "offer" /\ s \notin offers'[h] BY <2>2
  <2>4. IInv' BY <1>1, <2>1, <2>2, <2>3, Announced
  <2> QED BY <2>1, <2>4 DEF daemonVars
<1> QED BY <1>2, <1>3, <1>4, <1>5, <1>6 DEF HostStep

\* What handleMessage does is what Received says.
LEMMA HandlesMessage ==
  ASSUME IInv, NEW h \in Host, handleMessage(h)
  PROVE  \E i, e : Received(h, i, e)
<1>0. HostsTyped /\ Typed(daemon) /\ Owned(daemon) BY DEF IInv
<1>1. PICK i \in DOMAIN net[h], up \in HostIsUp :
        /\ overtaken' = IF i = 1 THEN overtaken ELSE overtaken \cup {h}
        /\ net' = [net EXCEPT ![h] = SubSeq(@, 1, i - 1) \o SubSeq(@, i + 1, Len(@))]
        /\ \/ /\ net[h][i].type = "offer"
              /\ becomes(onRemoteServiceAvailable(daemon, h, net[h][i], up), {})
           \/ /\ net[h][i].type = "stop"
              /\ becomes(onRemoteServiceUnavailable(daemon, h, net[h][i]), {})
  BY DEF handleMessage
<1> DEFINE m == net[h][i]
           a == onRemoteServiceAvailable(daemon, h, m, up)
           b == onRemoteServiceUnavailable(daemon, h, m)
<1>2. m \in SDMessage /\ m.service \in MayOffer[h]
  BY <1>0, HostParts DEF HostsTyped
<1>3. dead = None /\ UNCHANGED <<offers, session, life, sentCount, lost, m_notifications>>
  BY DEF handleMessage
<1>4. CASE m.type = "offer" /\ becomes(a, {})
  <2>1. Typed(a) BY <1>0, <1>2, OnRemoteServiceAvailable DEF Handles
  <2>2. daemon' = a BY <1>4, <2>1, Becomes
  <2>3. Received(h, i, a) BY <1>1, <1>3, <1>4, <2>2 DEF Received
  <2> QED BY <2>3
<1>5. CASE m.type = "stop" /\ becomes(b, {})
  <2>1. Typed(b) BY <1>0, <1>2, OnRemoteServiceUnavailable DEF Handles
  <2>2. daemon' = b BY <1>5, <2>1, Becomes
  <2>3. Received(h, i, b) BY <1>1, <1>3, <1>5, <2>2 DEF Received
  <2> QED BY <2>3
<1> QED BY <1>1, <1>4, <1>5

\* The initial state.
LEMMA Initially == Init => IInv
<1> SUFFICES ASSUME Init PROVE IInv OBVIOUS
<1>0. MayOffer \in [Host -> SUBSET ServiceIDs] BY RemoteAssumption
<1>1. HostsTyped BY <1>0, FirstSession, SMT DEF HostsTyped, Init
<1>2. Typed(daemon)
  <2>1. daemon.objects = <<>> /\ daemon.m_clients = [h \in Host |-> 0]
        /\ daemon.m_services = [s \in ServiceIDs |-> 0] /\ daemon.dead = None
    BY DEF daemon, Init
  <2>2. daemon \in Daemon BY SMT DEF Daemon, daemon, Init
  <2>3. DOMAIN daemon.objects = {} /\ Len(daemon.objects) = 0 BY <2>1, SMT
  <2> QED BY <2>1, <2>2, <2>3, SMT DEF Typed
<1>3. Owned(daemon) BY SMT DEF Owned, daemon, Init
<1>4. SessionsInOrder BY SMT DEF SessionsInOrder, SentInOrder, HeardBefore, Init
<1>5. Exact
  <2> SUFFICES ASSUME NEW h \in Host, NEW s \in Own(h) PROVE ExactFor(h, s)
    BY DEF Exact
  <2>1. s \in ServiceIDs BY DEF Own
  <2> QED BY <2>1, SMT DEF ExactFor, Init
<1> QED BY <1>1, <1>2, <1>3, <1>4, <1>5 DEF IInv

\* IInv is an inductive invariant, and the client TCPManager knows for a host
\* changes only when a message of the host is handled.
LEMMA Step ==
  ASSUME IInv, [Next]_vars
  PROVE  /\ IInv'
         /\ \/ m_clients' = m_clients
            \/ \E h \in Host : \E i, e : Received(h, i, e)
<1>1. CASE UNCHANGED vars
  <2>1. UNCHANGED hostVars /\ UNCHANGED daemonVars BY <1>1 DEF vars
  <2>2. daemon' = daemon /\ m_clients' = m_clients /\ dead' = dead
        /\ m_services' = m_services /\ objects' = objects
    BY <2>1 DEF daemonVars, daemon
  <2>3. /\ offers' = offers /\ session' = session /\ life' = life /\ net' = net
        /\ lost' = lost /\ overtaken' = overtaken
    BY <2>1 DEF hostVars
  <2>4. HostsTyped' /\ SessionsInOrder' /\ Exact'
    <3>1. HostsTyped' BY <2>3 DEF IInv, HostsTyped
    <3>2. SessionsInOrder'
      BY <2>2, <2>3 DEF IInv, SessionsInOrder, SentInOrder, HeardBefore
    <3>3. \A g \in Host, s \in ServiceIDs : ExactFor(g, s)' <=> ExactFor(g, s)
      BY <2>2, <2>3, ZenonT(60) DEF ExactFor
    <3>4. Exact' BY <2>2, <2>3, <3>3 DEF IInv, Exact, Own
    <3> QED BY <3>1, <3>2, <3>4
  <2>5. \A g \in Host : life'[g] \in Nat /\ life[g] <= life'[g]
    <3>1. \A g \in Host : life[g] \in Nat BY DEF IInv, HostsTyped
    <3> QED BY <2>3, <3>1, SMT
  <2>6. HostsTyped /\ Typed(daemon) /\ Owned(daemon) BY DEF IInv
  <2>7. Typed(daemon)' /\ Owned(daemon)'
    BY <2>2, <2>5, <2>6, DaemonGoesOn
  <2> QED BY <2>2, <2>4, <2>7 DEF IInv
<1>2. ASSUME NEW h \in Host, HostStep(h) PROVE IInv' /\ m_clients' = m_clients
  BY <1>2, HostSteps
<1>3. ASSUME NEW h \in Host, handleMessage(h)
      PROVE  IInv' /\ \E i, e : Received(h, i, e)
  BY <1>3, HandlesMessage, MessageReceived
<1>4. ASSUME NEW s \in ServiceIDs, sendMessage(s) \/ subscribe(s)
      PROVE  IInv' /\ m_clients' = m_clients
  BY <1>4, SendMessage, Subscribe
<1>5. ASSUME NEW w \in waiting, receiveReply(w) PROVE IInv' /\ m_clients' = m_clients
  BY <1>5, ReceiveReply
<1>6. ASSUME NEW o \in DOMAIN objects, hangUp(o) PROVE IInv' /\ m_clients' = m_clients
  BY <1>6, HangUp
<1>7. CASE cleanDisconnectedClients BY <1>7, Clean
<1> QED BY <1>1, <1>2, <1>3, <1>4, <1>5, <1>6, <1>7 DEF Next

-----------------------------------------------------------------------------
\* The inductive invariant of the remote services: the daemon's pointers lead
\* to clients of the right host, the messages of a host are in flight in the
\* order in which it sent them, and the last one about a service, or else the
\* registry, says whether it is offered.
THEOREM Invariance == Spec => []IInv
<1>1. IInv /\ [Next]_vars => IInv' BY Step
<1> QED BY <1>1, Initially, PTL DEF Spec

\* The dispatcher's entry of a remote service leads to the client that later
\* messages of its host will reach (Client::registerService and
\* TCPManager::getOrCreateClient), for a host that was not restarted.
THEOREM OwnerKnown == Spec => []OwnerIsKnown
<1>1. IInv => OwnerIsKnown
  <2> SUFFICES ASSUME IInv, NEW s \in ServiceIDs, m_services[s] # 0,
                      life[objects[m_services[s]].host] = 1
               PROVE  /\ objects[m_services[s]].state = "registered"
                      /\ m_clients[objects[m_services[s]].host] = m_services[s]
                      /\ s \in objects[m_services[s]].m_registeredServices
    BY DEF OwnerIsKnown
  <2>1. daemon.objects = objects /\ daemon.m_clients = m_clients
        /\ daemon.m_services = m_services
    BY DEF daemon
  <2>2. m_services[s] \in DOMAIN objects BY <2>1, OwnerRegistered
  <2>3. OwnedAt(daemon, m_services[s]) BY <2>1, <2>2 DEF IInv, Owned
  <2> QED BY <2>1, <2>3 DEF OwnedAt
<1> QED BY <1>1, Invariance, PTL

\* A connection to a host that was not restarted belongs to the client that
\* TCPManager knows: onClientReboot closes what it forgets.
THEOREM ConnectionOwned == Spec => []ConnectionIsOwned
<1>1. IInv => ConnectionIsOwned
  <2> SUFFICES ASSUME IInv, NEW o \in DOMAIN objects, objects[o].connection # 0,
                      life[objects[o].host] = 1
               PROVE  objects[o].state = "registered" /\ m_clients[objects[o].host] = o
    BY DEF ConnectionIsOwned
  <2>1. daemon.objects = objects /\ daemon.m_clients = m_clients
    BY DEF daemon
  <2>2. OwnedAt(daemon, o) BY <2>1 DEF IInv, Owned
  <2> QED BY <2>1, <2>2 DEF OwnedAt
<1> QED BY <1>1, Invariance, PTL

\* Without losses, overtaking and restarts, what the daemon knows of a host's
\* own services is what the host offers, once its messages are handled.
THEOREM DiscoveryExact == Spec => []DiscoveryIsExact
<1>1. IInv => DiscoveryIsExact
  <2> SUFFICES ASSUME IInv, dead = None, ~lost, NEW h \in Host \ overtaken,
                      net[h] = <<>>, life[h] = 1
               PROVE  LET others == (UNION {MayOffer[g] : g \in Host \ {h}}) \cup WellKnown
                      IN {s \in ServiceIDs \ others :
                            m_services[s] # 0 /\ objects[m_services[s]].host = h}
                           = offers[h] \ others
    BY DEF DiscoveryIsExact
  <2> DEFINE U == UNION {MayOffer[g] : g \in Host \ {h}}
  <2>1. Own(h) = ServiceIDs \ (U \cup WellKnown) BY DEF Own
  <2>2. \A s \in Own(h) : m_services[s] # 0 <=> s \in offers[h]
    BY SMT DEF IInv, Exact, ExactFor
  <2>3. daemon.objects = objects /\ daemon.m_services = m_services /\ Typed(daemon)
    BY DEF daemon, IInv
  <2>4. \A s \in Own(h) : m_services[s] # 0 => objects[m_services[s]].host = h
    <3> SUFFICES ASSUME NEW s \in Own(h), m_services[s] # 0
                 PROVE  objects[m_services[s]].host = h
      OBVIOUS
    <3>1. s \in ServiceIDs /\ s \notin U BY <2>1
    <3>2. /\ m_services[s] \in DOMAIN objects
          /\ s \in MayOffer[objects[m_services[s]].host]
      BY <2>3, <3>1, OwnerRegistered DEF Typed
    <3>3. objects[m_services[s]].host \in Host
      BY <2>3, <3>2, DaemonParts DEF TCPClient
    <3> QED BY <3>1, <3>2, <3>3
  <2>5. offers[h] \subseteq ServiceIDs BY DEF IInv, HostsTyped
  <2> HIDE DEF U
  <2>6. {s \in ServiceIDs \ (U \cup WellKnown) :
           m_services[s] # 0 /\ objects[m_services[s]].host = h}
          = offers[h] \ (U \cup WellKnown)
    BY <2>1, <2>2, <2>4, <2>5
  <2> QED BY <2>6 DEF U
<1> QED BY <1>1, Invariance, PTL

\* The client of a host is given up (TCPManager::onClientReboot) only for a
\* message of a later life of the host than the message before, if messages
\* arrive in order or not at all.
THEOREM NoFalseReboots == Spec => NoFalseReboot
<1> DEFINE A == \A h \in Host \ overtaken' :
                  m_clients[h] # 0 /\ m_clients'[h] # m_clients[h] =>
                    Head(net[h]).life > objects[m_clients[h]].life
<1>1. IInv /\ [Next]_vars => [A]_vars
  <2> SUFFICES ASSUME IInv, [Next]_vars, NEW g \in Host \ overtaken',
                      m_clients[g] # 0, m_clients'[g] # m_clients[g]
               PROVE  Head(net[g]).life > objects[m_clients[g]].life
    OBVIOUS
  <2>0. PICK h \in Host : \E i, e : Received(h, i, e) BY Step
  <2>1. PICK i, e : Received(h, i, e) BY <2>0
  <2>2. HostsTyped /\ Typed(daemon) BY DEF IInv
  <2>3. /\ daemon.m_clients = m_clients /\ m_clients' = e.m_clients
        /\ i \in DOMAIN net[h]
        /\ overtaken' = IF i = 1 THEN overtaken ELSE overtaken \cup {h}
    BY <2>1 DEF Received, daemon
  <2>4. Handles(daemon, e, h, net[h][i]) BY <2>1, ReceivedEffect
  <2>5. g = h /\ Rebooted(daemon, h, net[h][i]) BY <2>3, <2>4 DEF Handles
  <2>6. i = 1 /\ h \notin overtaken BY <2>3, <2>5
  <2>7. ~(net[h][1].life <= objects[m_clients[h]].life)
    BY <2>3, <2>5, <2>6, NotRebooted
  <2>8. net[h][1].life \in Nat /\ objects[m_clients[h]].life \in Nat
    BY <2>2, <2>3, <2>5, <2>6, HostParts
  <2>9. Head(net[h]) = net[h][1] BY SMT
  <2> QED BY <2>5, <2>7, <2>8, <2>9, SMT
<1> QED BY <1>1, Invariance, PTL DEF Spec, NoFalseReboot
=============================================================================
