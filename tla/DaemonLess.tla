----------------------------- MODULE DaemonLess -----------------------------
(***************************************************************************)
(* Applications without a daemon: each DaemonLessClient has a dispatcher,  *)
(* a TCPManager, a ServiceAnnouncer, a RemoteServiceListener and a         *)
(* ServiceRegistry of its own, and they find each other by multicast.      *)
(* Here these components are put together: what one announcer sends, the   *)
(* listeners of the others receive, and subscriptions, requests and        *)
(* notifications go over TCP.  Each is on a host of its own, as multicast  *)
(* messages are not looped back; it has one endpoint, a service one        *)
(* instance, and its Notification one member.  No application restarts,    *)
(* and messages do not overtake each other, so that none is taken for the  *)
(* sign of a reboot.  The group is followed until one of them crashes.  A  *)
(* step is a call of an application or a callback of its main loop.        *)
(***************************************************************************)
EXTENDS Naturals, Sequences, FiniteSets, Functions

CONSTANTS
  Application,
  Service,
  Provider,         \* the applications that register services
  MaxRegistrations, \* bound: services registered, in all
  MaxCalls,         \* bound: subscriptions, notifications and requests, in all
  MaxLost           \* bound: service discovery messages lost

ASSUME DaemonLessAssumption ==
  /\ Provider \subseteq Application
  /\ {MaxRegistrations, MaxCalls, MaxLost} \subseteq Nat

VARIABLES
  app,           \* the state of each application
  discovery,     \* service discovery messages under way, by <<from, to>>
  toServer,      \* messages on the TCP connection that from opened to to
  toClient,      \* messages on the TCP connection that to opened to from
  registrations, \* services registered
  calls,         \* subscriptions, notifications and requests
  lost,          \* service discovery messages lost
  dead           \* how the first application crashed, or None

None == "none"
netVars == <<discovery, toServer, toClient>>
boundVars == <<registrations, calls, lost>>
vars == <<app, netVars, boundVars, dead>>

Pair == {p \in Application \X Application : p[1] # p[2]}

Init ==
  /\ app = [a \in Application |->
       [phase |-> "new",             \* "new", "connecting" or "connected"
        m_services |-> <<>>,         \* services and their providers
        m_registeredServices |-> [s \in Service |-> None],
        m_availableServices |-> <<>>,
        m_notifications |-> {},
        m_subscribedClients |-> [s \in Service |-> <<>>],
        m_instanceNamespace |-> [b \in Application |-> [s \in Service |-> None]],
        inbox |-> [s \in Service |-> 0]]]
  /\ discovery = [p \in Pair |-> <<>>]
  /\ toServer = [p \in Pair |-> <<>>]
  /\ toClient = [p \in Pair |-> <<>>]
  /\ registrations = 0
  /\ calls = 0
  /\ lost = 0
  /\ dead = None

-----------------------------------------------------------------------------
(* The operators take the state w of the group, a record, and return the   *)
(* state after the call.                                                   *)

world == [app |-> app, discovery |-> discovery, toServer |-> toServer,
          toClient |-> toClient, dead |-> dead]

die(w, how) == IF w.dead = None THEN [w EXCEPT !.dead = how] ELSE w

becomes(after) ==
  \E w \in {after} :
    /\ app' = w.app
    /\ discovery' = w.discovery
    /\ toServer' = w.toServer
    /\ toClient' = w.toClient
    /\ dead' = w.dead

message(type, service) == [type |-> type, service |-> service]

\* The Service of s in the dispatcher of a: its providers, one or none.
getService(w, a, s) ==
  {w.app[a].m_services[i][2] : i \in {j \in DOMAIN w.app[a].m_services :
                                        w.app[a].m_services[j][1] = s}}

local(w, a) == {s \in Service : getService(w, a, s) = {a}}

\* Messages of a to everyone who listens by now.
multicast(w, a, messages) ==
  [w EXCEPT !.discovery = [p \in Pair |->
     IF p[1] = a /\ w.app[p[2]].phase = "connected" THEN @[p] \o messages ELSE @[p]]]

\* ServiceAnnouncer::onServiceRegistered and onServiceUnregistered: without
\* a channel, nothing is sent.
announce(w, a, type, s) ==
  IF w.app[a].phase = "new" THEN w ELSE multicast(w, a, <<message(type, s)>>)

\* TCPClient::onNotificationSubscribed for the client of a that stands for b,
\* or DaemonInterface::onNotificationSubscribed, which does nothing.
onNotificationSubscribed(w, a, b, s) ==
  IF b = a THEN w
  ELSE IF w.app[a].m_instanceNamespace[b][s] = "null" THEN die(w, "null")
  ELSE [w EXCEPT !.app[a].m_instanceNamespace[b][s] = "service",
                 !.toServer[<<a, b>>] = Append(@, message("subscribe", s))]

\* Service::onNotificationSubscribed, if s has a provider.
askProvider(w, a, s) ==
  IF getService(w, a, s) = {} THEN w
  ELSE onNotificationSubscribed(w, a, CHOOSE b \in getService(w, a, s) : TRUE, s)

\* Dispatcher::getOrCreateNotification; Notification::init asks the provider.
getOrCreateNotification(w, a, s) ==
  IF s \in w.app[a].m_notifications THEN w
  ELSE askProvider([w EXCEPT !.app[a].m_notifications = @ \cup {s}], a, s)

\* Dispatcher::subscribeClientForNotifications
subscribeClientForNotifications(w, a, s, client) ==
  askProvider([getOrCreateNotification(w, a, s)
                 EXCEPT !.app[a].m_subscribedClients[s] = Append(@, client)], a, s)

\* MUTANT: a Notification that is there already does not hear of its provider.
registerServiceUnnoticed(w, a, s, b) ==
  LET x == [w.app[a] EXCEPT !.m_services = Append(@, <<s, b>>),
                            !.m_availableServices = Append(@, s)]
      listed == [w EXCEPT !.app[a] = x]
  IN IF b = a THEN announce(listed, a, "offer", s) ELSE listed

\* Dispatcher::registerService for a service that is not known, provided by
\* b, and its listeners, ServiceAnnouncer and DaemonLessClient, whose
\* ServiceRegistry lists it; then the Notification of the service.
registerService(w, a, s, b) ==
  LET x == [w.app[a] EXCEPT !.m_services = Append(@, <<s, b>>),
                            !.m_availableServices = Append(@, s)]
      listed == [w EXCEPT !.app[a] = x]
      told == IF b = a THEN announce(listed, a, "offer", s) ELSE listed
  IN IF s \in w.app[a].m_notifications THEN askProvider(told, a, s) ELSE told

\* ServiceRegistry::onServiceUnregistered: the first entry for s goes.
eraseFirst(seq, s) ==
  LET i == CHOOSE i \in DOMAIN seq : seq[i] = s /\ \A j \in DOMAIN seq : seq[j] = s => i <= j
  IN IF s \in Range(seq) THEN SubSeq(seq, 1, i - 1) \o SubSeq(seq, i + 1, Len(seq)) ELSE seq

\* MUTANT: the registry is not told of a service of another application.
unregisterServiceOwn(w, a, s, b) ==
  LET x == [w.app[a] EXCEPT !.m_services = eraseFirst(@, <<s, b>>),
                            !.m_availableServices = IF b = a THEN eraseFirst(@, s) ELSE @]
      gone == [w EXCEPT !.app[a] = x]
  IN IF b = a THEN announce(gone, a, "stop", s) ELSE gone

\* Dispatcher::unregisterService and the same listeners, in reverse order.
unregisterService(w, a, s, b) ==
  LET x == [w.app[a] EXCEPT !.m_services = eraseFirst(@, <<s, b>>),
                            !.m_availableServices = eraseFirst(@, s)]
      gone == [w EXCEPT !.app[a] = x]
  IN IF b = a THEN announce(gone, a, "stop", s) ELSE gone

\* TCPManager::onRemoteServiceAvailable and TCPClient::onServiceAvailable: a
\* service that is known is refused, and what registerService returned, a
\* Service or nullptr, replaces the entry of the namespace, which an
\* assertion looks at before.
onServiceAvailable(w, a, s, b) ==
  LET known == getService(w, a, s) # {}
      v == IF known THEN w ELSE registerService(w, a, s, b)
      checked == IF v.app[a].m_instanceNamespace[b][s] = "null" THEN die(v, "null") ELSE v
  IN [checked EXCEPT !.app[a].m_instanceNamespace[b][s] =
        IF known THEN "null" ELSE "service"]

\* MUTANT: the service stays registered.
onServiceUnavailableKept(w, a, s, b) ==
  [w EXCEPT !.app[a].m_instanceNamespace[b][s] = None]

\* TCPManager::onRemoteServiceUnavailable and TCPClient::onServiceUnavailable
onServiceUnavailable(w, a, s, b) ==
  LET v == IF getService(w, a, s) = {b} THEN unregisterService(w, a, s, b) ELSE w IN
  [v EXCEPT !.app[a].m_instanceNamespace[b][s] = None]

\* MUTANT: nobody is told again.
announceServicesOnce(w, a) == w

\* Offers of the services of a, in the order of its m_services.
offersOf(a, services) ==
  LET offers[i \in 0 .. Len(services)] ==
        IF i = 0 THEN <<>>
        ELSE IF services[i][2] = a
        THEN Append(offers[i - 1], message("offer", services[i][1]))
        ELSE offers[i - 1]
  IN offers[Len(services)]

\* ServiceAnnouncer::announceServices
announceServices(w, a) ==
  IF w.app[a].phase = "new" THEN w
  ELSE multicast(w, a, offersOf(a, w.app[a].m_services))

\* Notification::sendMessageToSubscribedClients: to the listener of a, or over
\* the connection that another application has opened, as often as the client
\* is listed.
notify(w, a, s) ==
  LET clients == w.app[a].m_subscribedClients[s]
      times(c) == Cardinality({i \in DOMAIN clients : clients[i] = c})
  IN [w EXCEPT !.app[a].inbox[s] = @ + times(a),
               !.toClient = [p \in Pair |->
                  IF p[1] = a
                  THEN @[p] \o [k \in 1 .. times(p[2]) |-> message("notification", s)]
                  ELSE @[p]]]

-----------------------------------------------------------------------------
(* The calls of an application.                                            *)

connectAnnouncer(a) ==
  /\ dead = None
  /\ app[a].phase = "new"
  /\ becomes([multicast(world, a, <<[type |-> "query"]>>) EXCEPT !.app[a].phase = "connecting"])
  /\ UNCHANGED boundVars

\* The rest of connect(): the socket of the RemoteServiceListener is bound, and
\* m_listener is set.
connectListener(a) ==
  /\ dead = None
  /\ app[a].phase = "connecting"
  /\ becomes([world EXCEPT !.app[a].phase = "connected"])
  /\ UNCHANGED boundVars

\* DaemonLessClient::registerService; a service that is known is left as it
\* is, and refused unless it is of a itself.
callRegisterService(a, s) ==
  /\ dead = None
  /\ a \in Provider
  /\ app[a].phase # "connecting"
  /\ registrations < MaxRegistrations
  /\ getService(world, a, s) \subseteq {a}
  /\ registrations' = registrations + 1
  /\ LET w == IF getService(world, a, s) = {} THEN registerService(world, a, s, a) ELSE world IN
     becomes([w EXCEPT !.app[a].m_registeredServices[s] = "service"])
  /\ UNCHANGED <<calls, lost>>

\* DaemonLessClient::unregisterService: an error for a service that was never
\* registered; the entry of one that was unregistered is nullptr.
callUnregisterService(a, s) ==
  /\ dead = None
  /\ app[a].phase # "connecting"
  /\ \/ /\ app[a].m_registeredServices[s] = "service"
        /\ becomes([unregisterService(world, a, s, a)
                      EXCEPT !.app[a].m_registeredServices[s] = "null"])
     \/ /\ app[a].m_registeredServices[s] = "null"
        /\ becomes(die(world, "unregistered"))
  /\ UNCHANGED boundVars

call(a) ==
  /\ dead = None
  /\ app[a].phase = "connected"
  /\ calls < MaxCalls
  /\ calls' = calls + 1
  /\ UNCHANGED <<registrations, lost>>

callSubscribe(a, s) ==
  /\ call(a)
  /\ becomes(subscribeClientForNotifications(world, a, s, a))

\* sendMessage of a notification of a service of a.
callNotify(a, s) ==
  /\ call(a)
  /\ s \in local(world, a)
  /\ becomes(notify(getOrCreateNotification(world, a, s), a, s))

\* sendMessage of a request: to the listener of a, or over the connection to
\* the provider, or answered with an error.  The request carries the
\* identifier of the daemon interface, which is in no slot of the dispatcher:
\* an answer is dropped.
callRequest(a, s) ==
  /\ call(a)
  /\ LET remote == getService(world, a, s) \ {a} IN
     becomes([world EXCEPT !.toServer = [p \in Pair |->
        IF p[1] = a /\ p[2] \in remote THEN Append(@[p], message("request", s)) ELSE @[p]]])

-----------------------------------------------------------------------------
(* The callbacks of the main loop of a; connect() does not return to it.   *)

callback(a) ==
  /\ dead = None
  /\ app[a].phase # "connecting"
  /\ UNCHANGED <<registrations, calls>>

\* The timer of the ServiceAnnouncer: 30 s, in which what was sent arrives.
onAnnouncementTimer(a) ==
  /\ callback(a)
  /\ \A p \in Pair : p[1] = a => discovery[p] = <<>>
  /\ becomes(announceServices(world, a))
  /\ UNCHANGED lost

\* RemoteServiceListener::handleMessage
handleMessage(a, b) ==
  /\ callback(a)
  /\ discovery[<<b, a>>] # <<>>
  /\ LET m == Head(discovery[<<b, a>>])
         w == [world EXCEPT !.discovery[<<b, a>>] = Tail(@)]
     IN \/ m.type = "query" /\ becomes(announceServices(w, a))
        \/ m.type = "offer" /\ becomes(onServiceAvailable(w, a, m.service, b))
        \/ m.type = "stop" /\ becomes(onServiceUnavailable(w, a, m.service, b))
  /\ UNCHANGED lost

\* A multicast datagram does not arrive.
loseMessage(a, b) ==
  /\ dead = None
  /\ lost < MaxLost
  /\ discovery[<<b, a>>] # <<>>
  /\ lost' = lost + 1
  /\ becomes([world EXCEPT !.discovery[<<b, a>>] = Tail(@)])
  /\ UNCHANGED <<registrations, calls>>

\* TCPClient::processIncomingData of the connection that b opened: the
\* namespace of the TCPServer is looked at, and the listener of a answers.
processRequest(a, b) ==
  /\ callback(a)
  /\ toServer[<<b, a>>] # <<>>
  /\ LET m == Head(toServer[<<b, a>>])
         w == [world EXCEPT !.toServer[<<b, a>>] = Tail(@)]
     IN \/ /\ m.type = "subscribe"
           /\ becomes(subscribeClientForNotifications(w, a, m.service, b))
        \/ /\ m.type = "request"
           /\ m.service \in local(w, a)
           /\ becomes([w EXCEPT !.toClient[<<a, b>>] = Append(@, message("reply", m.service))])
        \/ /\ m.type = "request"
           /\ m.service \notin local(w, a)
           /\ becomes(die(w, "unknown"))
  /\ UNCHANGED lost

\* TCPClient::processIncomingData of the connection that a opened to b.
processAnswer(a, b) ==
  /\ callback(a)
  /\ toClient[<<b, a>>] # <<>>
  /\ LET m == Head(toClient[<<b, a>>])
         w == [world EXCEPT !.toClient[<<b, a>>] = Tail(@)]
         entry == app[a].m_instanceNamespace[b][m.service]
     IN \/ entry = None /\ becomes(die(w, "unknown"))
        \/ entry = "null" /\ becomes(die(w, "null"))
        \/ entry = "service" /\ m.type = "reply" /\ becomes(w)
        \/ /\ entry = "service"
           /\ m.type = "notification"
           /\ becomes(notify(getOrCreateNotification(w, a, m.service), a, m.service))
  /\ UNCHANGED lost

Next ==
  \/ \E a \in Application :
       connectAnnouncer(a) \/ connectListener(a) \/ onAnnouncementTimer(a)
  \/ \E a \in Application, s \in Service :
       \/ callRegisterService(a, s) \/ callUnregisterService(a, s)
       \/ callSubscribe(a, s) \/ callNotify(a, s) \/ callRequest(a, s)
  \/ \E p \in Pair :
       \/ handleMessage(p[1], p[2]) \/ loseMessage(p[1], p[2])
       \/ processRequest(p[1], p[2]) \/ processAnswer(p[1], p[2])

\* connect() returns, and the main loop of an application comes to each of its
\* watches and to its timer.
Fairness ==
  /\ \A a \in Application :
       WF_vars(connectListener(a)) /\ WF_vars(onAnnouncementTimer(a))
  /\ \A p \in Pair :
       /\ WF_vars(handleMessage(p[1], p[2]))
       /\ WF_vars(processRequest(p[1], p[2]))
       /\ WF_vars(processAnswer(p[1], p[2]))

Spec == Init /\ [][Next]_vars /\ Fairness

-----------------------------------------------------------------------------
(* Properties.                                                             *)

crashed == dead # None
connected(a) == app[a].phase = "connected"
known(b, s, a) == getService(world, b, s) = {a}

\* isServiceRegistered() of an application answers from its ServiceRegistry,
\* which only hears of changes: it lists what the dispatcher of the
\* application knows, in the same order, whoever the provider is.
RegistryIsMirror ==
  \A a \in Application :
    app[a].m_availableServices = [i \in DOMAIN app[a].m_services |-> app[a].m_services[i][1]]

\* A service that stays registered is seen by every other application that is
\* connected, whichever of the two connected first and although the query or
\* an offer is lost: query, offer and timer make up for each other.
ServiceBecomesVisible ==
  \A p \in Pair, s \in Service :
    (s \in local(world, p[1]) /\ connected(p[1]) /\ connected(p[2]))
      ~> (getService(world, p[2], s) # {} \/ s \notin local(world, p[1]) \/ crashed)

\* unregisterService() reaches the others: none goes on taking the application
\* for the provider, unless a message was lost (nothing repeats it).
WithdrawnDisappears ==
  \A p \in Pair, s \in Service :
    (known(p[2], s, p[1]) /\ s \notin local(world, p[1]))
      ~> (~known(p[2], s, p[1]) \/ s \in local(world, p[1]) \/ lost > 0 \/ crashed)

\* subscribeToNotifications() has its effect at the provider, whether the
\* provider is found before or after it.
SubscriptionIsInstalled ==
  \A p \in Pair, s \in Service :
    (p[2] \in Range(app[p[2]].m_subscribedClients[s]) /\ known(p[2], s, p[1]))
      ~> (p[2] \in Range(app[p[1]].m_subscribedClients[s]) \/ ~known(p[2], s, p[1]) \/ crashed)
=============================================================================
