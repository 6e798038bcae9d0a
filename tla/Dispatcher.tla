----------------------------- MODULE Dispatcher -----------------------------
(***************************************************************************)
(* The dispatcher daemon with its local clients: lib/Dispatcher, lib/Client *)
(* and daemon/LocalClient.  The daemon runs one GLib main loop in a single *)
(* thread, so every message handler is one action.                         *)
(*                                                                         *)
(* A Client is one accepted connection of a local application; an          *)
(* application that connects again is another Client.  In this module the  *)
(* daemon handles the hang-up of a connection before it writes to it       *)
(* again; module ReentrantDispatcher drops that assumption.                *)
(***************************************************************************)
EXTENDS Naturals, Sequences, FiniteSets, Functions

CONSTANTS
  Client,            \* LocalClient objects
  ServiceID,         \* ServiceIDs: a service and an instance number
  Member,            \* numbers of the members one can subscribe to
  NULL,              \* nullptr
  ClientIDs,         \* number of values of the type ClientIdentifier
  Reregister,        \* may an application register a service it has already?
  MaxServices,       \* bound: Service objects allocated
  MaxRegistrations,  \* bound: entries of m_registeredServices of a client
  MaxSubscriptions,  \* bound: subscriptions of one client to one member
  MaxRequests        \* bound: requests that wait for their answer

ASSUME ClientIDsAssumption == ClientIDs \in Nat \ {0}
ASSUME ReregisterAssumption == Reregister \in BOOLEAN

UNKNOWN_CLIENT == ClientIDs - 1

\* MemberIDs: <<ServiceIDs, member>>.
MemberIDs == ServiceID \X Member

\* A Service object; "address" tells apart two objects for the same ids.
Service == [serviceID : ServiceID, client : Client, address : Nat]

ASSUME NullAssumption == NULL \notin Client /\ NULL \notin Service

VARIABLES
  m_services,                \* registered Service objects
  m_clients,                 \* clients by identifier, NULL once disconnected
  m_nextAvailableClientID,
  m_disconnectedClients,     \* clients the idle callback will delete
  m_listeners,               \* m_serviceRegistrationListeners
  m_notifications,           \* members for which a Notification exists
  m_providerService,         \* provider of each Notification
  m_subscribedClients,       \* how often a client subscribed, per Notification
  allocated,                 \* Service objects created so far
  aborted                    \* an assertion has failed

dispatcherVars == <<m_services, m_clients, m_nextAvailableClientID,
                    m_disconnectedClients, m_listeners, m_notifications,
                    m_providerService, m_subscribedClients, allocated, aborted>>

VARIABLES
  life,                      \* stage of each LocalClient object
  m_id,                      \* identifier of each client
  m_registeredServices,      \* Service objects each client registered
  m_subscribedNotifications  \* how often each client subscribed to a member

clientVars == <<life, m_id, m_registeredServices, m_subscribedNotifications>>

VARIABLES
  m_availableServices,       \* ServiceRegistry of each application
  undefinedErase,            \* applications that erased the end() iterator
  requests                   \* requests received by a provider, not yet answered

appVars == <<m_availableServices, undefinedErase, requests>>

vars == <<dispatcherVars, clientVars, appVars>>

-----------------------------------------------------------------------------
\* Dispatcher::getService, on any set of services
findService(services, sid) ==
  IF \E s \in services : s.serviceID = sid
  THEN CHOOSE s \in services : s.serviceID = sid
  ELSE NULL
getService(sid) == findService(m_services, sid)

\* Dispatcher::getClientFromId
getClientFromId(id) == IF Len(m_clients) > id THEN m_clients[id + 1] ELSE NULL

\* MUTANT: a Notification created late does not look up its provider.
getOrCreateNotificationNoInit(m) ==
  /\ m_notifications' = m_notifications \cup {m}
  /\ UNCHANGED m_providerService

\* Dispatcher::getOrCreateNotification with Notification::init: a new
\* Notification looks up the service that provides it.
getOrCreateNotification(m) ==
  /\ m_notifications' = m_notifications \cup {m}
  /\ m_providerService' =
       IF m \in m_notifications
       THEN m_providerService
       ELSE [m_providerService EXCEPT ![m] = getService(m[1])]

\* Every application in "listeners" is told that sid was registered
\* (LocalClient::onServiceRegistered, ServiceRegistry::onServiceRegistered).
notifyRegistered(listeners, sid) ==
  m_availableServices' =
    [d \in Client |->
       IF d \in listeners
       THEN [m_availableServices[d] EXCEPT ![sid] = @ + 1]
       ELSE m_availableServices[d]]

\* Every application in "listeners" is told of times[sid] unregistrations of
\* each sid (LocalClient::onServiceUnregistered,
\* ServiceRegistry::onServiceUnregistered).  The application erases what
\* std::find returns; without an entry for sid that is end(), which is
\* undefined.
notifyUnregistered(listeners, times) ==
  /\ m_availableServices' =
       [d \in Client |->
          IF d \in listeners
          THEN [sid \in ServiceID |->
                  IF m_availableServices[d][sid] >= times[sid]
                  THEN m_availableServices[d][sid] - times[sid]
                  ELSE 0]
          ELSE m_availableServices[d]]
  /\ undefinedErase' = undefinedErase \cup
       {d \in listeners :
          \E sid \in ServiceID : m_availableServices[d][sid] < times[sid]}

\* MUTANT: a new client is not sent the services registered before it came.
sendRegistryOmitted(c) == UNCHANGED m_availableServices

\* LocalClient::sendRegistry: a new client is sent the registered services.
sendRegistry(c) ==
  m_availableServices' =
    [m_availableServices EXCEPT ![c] =
       [sid \in ServiceID |-> IF getService(sid) # NULL THEN 1 ELSE 0]]

\* MUTANT: the identifier of a client that left is given to the next one.
onNewClientReusingSlot(c) ==
  LET free == {i \in 1 .. Len(m_clients) : m_clients[i] = NULL}
      slot == CHOOSE i \in free : TRUE
  IN
  IF free = {}
  THEN /\ m_id' = [m_id EXCEPT ![c] = Len(m_clients)]
       /\ m_clients' = Append(m_clients, c)
       /\ m_nextAvailableClientID' = (m_nextAvailableClientID + 1) % ClientIDs
  ELSE /\ m_id' = [m_id EXCEPT ![c] = slot - 1]
       /\ m_clients' = [m_clients EXCEPT ![slot] = c]
       /\ UNCHANGED m_nextAvailableClientID

\* Dispatcher::onNewClient: a new client takes the next identifier and the
\* next slot of m_clients.
onNewClient(c) ==
  /\ m_id' = [m_id EXCEPT ![c] = m_nextAvailableClientID]
  /\ m_nextAvailableClientID' = (m_nextAvailableClientID + 1) % ClientIDs
  /\ m_clients' = Append(m_clients, c)

\* MUTANT: services are erased by their ids, not by their address.
eraseServicesByIDs(services) ==
  LET erased == {s \in m_services :
                   \E t \in services : t.serviceID = s.serviceID} IN
  /\ m_services' = m_services \ erased
  /\ m_providerService' =
       [m \in MemberIDs |-> IF m_providerService[m] \in erased
                            THEN NULL ELSE m_providerService[m]]

\* Dispatcher::unregisterService for each of "services": the object is no
\* longer registered and no longer the provider of a Notification.
eraseServices(services) ==
  /\ m_services' = m_services \ services
  /\ m_providerService' =
       [m \in MemberIDs |-> IF m_providerService[m] \in services
                            THEN NULL ELSE m_providerService[m]]

\* MUTANT: a client that subscribed twice is unsubscribed once.
unsubscribeOnce(c) ==
  m_subscribedClients' =
    [m \in MemberIDs |->
       [m_subscribedClients[m] EXCEPT ![c] =
          IF @ > 0 /\ m_subscribedNotifications[c][m] > 0 THEN @ - 1 ELSE @]]

\* Notification::unsubscribe for each entry of m_subscribedNotifications:
\* each call takes back one subscription of the client.
unsubscribe(c) ==
  m_subscribedClients' =
    [m \in MemberIDs |->
       [m_subscribedClients[m] EXCEPT ![c] =
          IF @ >= m_subscribedNotifications[c][m]
          THEN @ - m_subscribedNotifications[c][m] ELSE 0]]

\* MUTANT: the slot of a client that left still points at it.
onClientDisconnectedKeepsSlot(c) ==
  /\ m_disconnectedClients' = m_disconnectedClients \cup {c}
  /\ UNCHANGED m_clients

\* Dispatcher::onClientDisconnected: the slot of the client is freed and its
\* object left to the idle callback.
onClientDisconnected(c) ==
  /\ m_clients' = [m_clients EXCEPT ![m_id[c] + 1] = NULL]
  /\ m_disconnectedClients' = m_disconnectedClients \cup {c}

-----------------------------------------------------------------------------
Init ==
  /\ m_services = {}
  /\ m_clients = <<>>
  /\ m_nextAvailableClientID = 0
  /\ m_disconnectedClients = {}
  /\ m_listeners = {}
  /\ m_notifications = {}
  /\ m_providerService = [m \in MemberIDs |-> NULL]
  /\ m_subscribedClients = [m \in MemberIDs |-> [c \in Client |-> 0]]
  /\ allocated = 0
  /\ aborted = FALSE
  /\ life = [c \in Client |-> "new"]
  /\ m_id = [c \in Client |-> UNKNOWN_CLIENT]
  /\ m_registeredServices = [c \in Client |-> <<>>]
  /\ m_subscribedNotifications = [c \in Client |-> [m \in MemberIDs |-> 0]]
  /\ m_availableServices = [c \in Client |-> [sid \in ServiceID |-> 0]]
  /\ undefinedErase = {}
  /\ requests = {}

-----------------------------------------------------------------------------
\* LocalServer::createNewClientConnection: the new client gets an identifier
\* and a slot, is sent the registered services and becomes a listener.
createNewClientConnection(c) ==
  /\ ~aborted
  /\ life[c] = "new"
  /\ m_nextAvailableClientID = Len(m_clients)
  /\ life' = [life EXCEPT ![c] = "registered"]
  /\ onNewClient(c)
  /\ sendRegistry(c)
  /\ m_listeners' = m_listeners \cup {c}
  /\ UNCHANGED <<m_services, m_disconnectedClients, m_notifications,
                 m_providerService, m_subscribedClients, allocated, aborted,
                 m_registeredServices, m_subscribedNotifications,
                 undefinedErase, requests>>

\* Dispatcher::onNewClient once the identifiers have wrapped around: the
\* assertion on the identifier ends the daemon.
onNewClientAsserts(c) ==
  /\ ~aborted
  /\ life[c] = "new"
  /\ m_nextAvailableClientID # Len(m_clients)
  /\ aborted' = TRUE
  /\ UNCHANGED <<m_services, m_clients, m_nextAvailableClientID,
                 m_disconnectedClients, m_listeners, m_notifications,
                 m_providerService, m_subscribedClients, allocated,
                 clientVars, appVars>>

\* Dispatcher::tryRegisterService for ids nobody registered: a new Service
\* is registered, the listeners are told, and the Notifications of the
\* service get their provider (Dispatcher::registerService).
registerNewService(c, sid) ==
  LET service == [serviceID |-> sid, client |-> c, address |-> allocated] IN
  /\ getService(sid) = NULL
  /\ allocated < MaxServices
  /\ allocated' = allocated + 1
  /\ m_services' = m_services \cup {service}
  /\ notifyRegistered(m_listeners, sid)
  /\ m_providerService' =
       [m \in MemberIDs |-> IF m \in m_notifications /\ m[1] = sid
                            THEN service ELSE m_providerService[m]]
  /\ m_registeredServices' =
       [m_registeredServices EXCEPT ![c] = Append(@, service)]

\* Dispatcher::tryRegisterService for a service the same client registered:
\* the client is given the service again and lists it once more.
registerOwnServiceAgain(c, sid) ==
  /\ Reregister
  /\ getService(sid) # NULL
  /\ getService(sid).client = c
  /\ m_registeredServices' =
       [m_registeredServices EXCEPT ![c] = Append(@, getService(sid))]
  /\ UNCHANGED <<m_services, m_providerService, allocated, m_availableServices>>

\* LocalClient::handleIncomingIPCMessage, REGISTER_SERVICE.  Registering a
\* service of another client is refused and changes nothing.
registerService(c, sid) ==
  /\ ~aborted
  /\ life[c] = "registered"
  /\ Len(m_registeredServices[c]) < MaxRegistrations
  /\ registerNewService(c, sid) \/ registerOwnServiceAgain(c, sid)
  /\ UNCHANGED <<m_clients, m_nextAvailableClientID, m_disconnectedClients,
                 m_listeners, m_notifications, m_subscribedClients, aborted,
                 life, m_id, m_subscribedNotifications, undefinedErase,
                 requests>>

\* std::vector::erase of one element.
erase(seq, i) == SubSeq(seq, 1, i - 1) \o SubSeq(seq, i + 1, Len(seq))

\* LocalClient::handleIncomingIPCMessage, UNREGISTER_SERVICE: the first entry
\* of m_registeredServices for sid is unregistered (Dispatcher::
\* unregisterService) and removed from the list.  Without such an entry the
\* answer is ERROR and nothing changes.
unregisterService(c, sid) ==
  /\ ~aborted
  /\ life[c] = "registered"
  /\ \E i \in 1 .. Len(m_registeredServices[c]) :
       LET service == m_registeredServices[c][i] IN
       /\ service.serviceID = sid
       /\ \A j \in 1 .. i - 1 : m_registeredServices[c][j].serviceID # sid
       /\ eraseServices({service})
       /\ m_registeredServices' =
            [m_registeredServices EXCEPT ![c] = erase(@, i)]
  /\ notifyUnregistered(m_listeners,
                        [x \in ServiceID |-> IF x = sid THEN 1 ELSE 0])
  /\ UNCHANGED <<m_clients, m_nextAvailableClientID, m_disconnectedClients,
                 m_listeners, m_notifications, m_subscribedClients, allocated,
                 aborted, life, m_id, m_subscribedNotifications, requests>>

\* LocalClient::handleIncomingIPCMessage, SUBSCRIBE_NOTIFICATION
\* (Client::subscribeToNotification): subscriptions are counted, not merged.
subscribeToNotification(c, m) ==
  /\ ~aborted
  /\ life[c] = "registered"
  /\ m_subscribedNotifications[c][m] < MaxSubscriptions
  /\ getOrCreateNotification(m)
  /\ m_subscribedClients' = [m_subscribedClients EXCEPT ![m][c] = @ + 1]
  /\ m_subscribedNotifications' =
       [m_subscribedNotifications EXCEPT ![c][m] = @ + 1]
  /\ UNCHANGED <<m_services, m_clients, m_nextAvailableClientID,
                 m_disconnectedClients, m_listeners, allocated, aborted,
                 life, m_id, m_registeredServices, appVars>>

\* Dispatcher::dispatchMessage for a notification: the Notification is
\* created if need be; its subscribers receive the message.
dispatchNotification(c, m) ==
  /\ ~aborted
  /\ life[c] = "registered"
  /\ getOrCreateNotification(m)
  /\ UNCHANGED <<m_services, m_clients, m_nextAvailableClientID,
                 m_disconnectedClients, m_listeners, m_subscribedClients,
                 allocated, aborted, clientVars, appVars>>

\* Dispatcher::dispatchMessage for a request with return: the message is
\* tagged with the identifier of its sender and goes to the client of the
\* service.  The sender is recorded as "origin", which no message carries.
\* A request nobody can serve is answered at once and changes nothing.
dispatchRequest(c, sid) ==
  /\ ~aborted
  /\ life[c] = "registered"
  /\ Cardinality(requests) < MaxRequests
  /\ getService(sid) # NULL
  /\ requests' = requests \cup {[provider |-> getService(sid).client,
                                 clientIdentifier |-> m_id[c],
                                 origin |-> c]}
  /\ UNCHANGED <<dispatcherVars, clientVars, m_availableServices,
                 undefinedErase>>

\* Dispatcher::dispatchMessage for a reply: the provider answers a request;
\* the answer goes to getClientFromId(clientIdentifier), or nowhere.
dispatchReply(r) ==
  /\ ~aborted
  /\ life[r.provider] = "registered"
  /\ requests' = requests \ {r}
  /\ UNCHANGED <<dispatcherVars, clientVars, m_availableServices,
                 undefinedErase>>

\* LocalClient::onDisconnected: the client is no longer a listener, then
\* Client::unregisterClient takes back its subscriptions, unregisters every
\* entry of m_registeredServices, frees its slot and leaves the object to the
\* idle callback (Dispatcher::onClientDisconnected).
onDisconnected(c) ==
  LET registered == m_registeredServices[c]
      times == [sid \in ServiceID |->
                  Cardinality({i \in 1 .. Len(registered) :
                                 registered[i].serviceID = sid})]
  IN
  /\ ~aborted
  /\ life[c] = "registered"
  /\ m_listeners' = m_listeners \ {c}
  /\ unsubscribe(c)
  /\ eraseServices(Range(registered))
  /\ notifyUnregistered(m_listeners \ {c}, times)
  /\ onClientDisconnected(c)
  /\ life' = [life EXCEPT ![c] = "disconnected"]
  /\ requests' = {r \in requests : r.provider # c}
  /\ UNCHANGED <<m_nextAvailableClientID, m_notifications, allocated, aborted,
                 m_id, m_registeredServices, m_subscribedNotifications>>

\* Dispatcher::cleanDisconnectedClients, run by the idle callback: the
\* objects of the disconnected clients are deleted.
cleanDisconnectedClients ==
  /\ ~aborted
  /\ m_disconnectedClients # {}
  /\ life' = [c \in Client |-> IF c \in m_disconnectedClients
                               THEN "deleted" ELSE life[c]]
  /\ m_registeredServices' =
       [c \in Client |-> IF c \in m_disconnectedClients
                         THEN <<>> ELSE m_registeredServices[c]]
  /\ m_subscribedNotifications' =
       [c \in Client |-> IF c \in m_disconnectedClients
                         THEN [m \in MemberIDs |-> 0]
                         ELSE m_subscribedNotifications[c]]
  /\ m_disconnectedClients' = {}
  /\ UNCHANGED <<m_services, m_clients, m_nextAvailableClientID, m_listeners,
                 m_notifications, m_providerService, m_subscribedClients,
                 allocated, aborted, m_id, appVars>>

Next ==
  \/ \E c \in Client :
       \/ createNewClientConnection(c)
       \/ onNewClientAsserts(c)
       \/ onDisconnected(c)
       \/ \E sid \in ServiceID :
            \/ registerService(c, sid)
            \/ unregisterService(c, sid)
            \/ dispatchRequest(c, sid)
       \/ \E m \in MemberIDs :
            \/ subscribeToNotification(c, m)
            \/ dispatchNotification(c, m)
  \/ \E r \in requests : dispatchReply(r)
  \/ cleanDisconnectedClients

\* The idle source stays attached until it has run.
Spec == Init /\ [][Next]_vars /\ WF_vars(cleanDisconnectedClients)

-----------------------------------------------------------------------------
TypeOK ==
  /\ m_services \in SUBSET Service
  /\ m_clients \in Seq(Client \cup {NULL})
  /\ m_nextAvailableClientID \in 0 .. ClientIDs - 1
  /\ m_disconnectedClients \in SUBSET Client
  /\ m_listeners \in SUBSET Client
  /\ m_notifications \in SUBSET MemberIDs
  /\ m_providerService \in [MemberIDs -> Service \cup {NULL}]
  /\ m_subscribedClients \in [MemberIDs -> [Client -> Nat]]
  /\ allocated \in Nat
  /\ aborted \in BOOLEAN
  /\ life \in [Client -> {"new", "registered", "disconnected", "deleted"}]
  /\ m_id \in [Client -> 0 .. ClientIDs - 1]
  /\ m_registeredServices \in [Client -> Seq(Service)]
  /\ m_subscribedNotifications \in [Client -> [MemberIDs -> Nat]]
  /\ m_availableServices \in [Client -> [ServiceID -> Nat]]
  /\ undefinedErase \in SUBSET Client
  /\ requests \in SUBSET [provider : Client, clientIdentifier : Nat,
                          origin : Client]

\* The slot of an identifier holds the one connected client that has this
\* identifier, or NULL: what the assertions of onNewClient and
\* onClientDisconnected and the routing of replies rely on.
IdentifierIsSlot ==
  /\ \A i \in 1 .. Len(m_clients) :
       m_clients[i] # NULL => /\ life[m_clients[i]] = "registered"
                              /\ m_id[m_clients[i]] = i - 1
  /\ \A c \in Client : life[c] = "registered" =>
       /\ m_id[c] < Len(m_clients)
       /\ m_clients[m_id[c] + 1] = c

\* An answer never reaches a client that did not send the request: whoever
\* getClientFromId would hand the answer to is the origin of the request, or
\* nobody when the origin has gone, however many clients connected since.
AnswerReachesRequester ==
  \A r \in requests : getClientFromId(r.clientIdentifier) \in {r.origin, NULL}

\* A ServiceIDs value has at most one registered Service, and a Notification
\* that exists points at the Service registered for it, or at none if none
\* is: neither a late subscription nor an unregistration leaves it stale.
ProviderIsCurrent ==
  /\ \A s, t \in m_services : s.serviceID = t.serviceID => s = t
  /\ \A m \in m_notifications : m_providerService[m] = getService(m[1])

\* Nothing the dispatcher will follow refers to a deleted client: no
\* subscription, listener, slot, registered service or pending deletion.
NoDanglingClient ==
  \A c \in Client : life[c] = "deleted" =>
    /\ c \notin m_listeners
    /\ c \notin m_disconnectedClients
    /\ c \notin Range(m_clients)
    /\ \A m \in MemberIDs : m_subscribedClients[m][c] = 0
    /\ \A s \in m_services : s.client # c

\* The ServiceRegistry of every connected application, once it has read what
\* the daemon wrote to it, lists exactly the registered services, each once.
RegistryIsAccurate ==
  \A c \in Client : life[c] = "registered" =>
    /\ c \notin undefinedErase
    /\ \A sid \in ServiceID :
         m_availableServices[c][sid] = IF getService(sid) # NULL THEN 1 ELSE 0

\* No assertion of the dispatcher fails.
NoAssertionFails == ~aborted

\* An identifier is never given away again: a slot of m_clients that was
\* freed stays free, and slots are only added at the end.
SlotsAreNeverReused ==
  [][/\ Len(m_clients') >= Len(m_clients)
     /\ \A i \in 1 .. Len(m_clients) :
          m_clients'[i] \in {m_clients[i], NULL}]_vars

\* The dispatcher implements the contract of ProviderRegistry: the owner of a
\* service is the client of the registered Service object, whatever stale
\* entries the lists of the clients still hold.
providerOf == [sid \in ServiceID |-> IF getService(sid) = NULL
                                     THEN NULL ELSE getService(sid).client]
departed == {c \in Client : life[c] \in {"disconnected", "deleted"}}
Registry == INSTANCE ProviderRegistry WITH provider <- providerOf,
                                           gone <- departed
ImplementsProviderRegistry == Registry!Spec

=============================================================================
