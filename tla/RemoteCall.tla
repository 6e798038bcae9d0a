----------------------------- MODULE RemoteCall -----------------------------
(***************************************************************************)
(* Requests, answers, subscriptions and notifications between daemons.     *)
(* Daemons on several hosts have each a TCP connection to the daemon that  *)
(* offers the services.  A connection carries bytes, which arrive in       *)
(* pieces.  A SOME/IP message names neither the instance it is for nor the *)
(* application it comes from: the daemons of both ends keep a namespace of *)
(* instances for the connection, and the daemon of a requester puts the    *)
(* identifier of its client into the upper half of the request ID.  The    *)
(* connections stay open; RemoteServices is about those that do not.       *)
(***************************************************************************)
EXTENDS Integers, DiscoverySession, PayloadStream, FiniteSets

CONSTANTS
  Host,             \* connections, by the client identifier the provider's
                    \* daemon has given them
  Application,      \* <<host, identifier>> of the requesting applications
  Service,          \* the services, [serviceID, instanceID]
  Member,
  Arguments,        \* arguments of the requests of each application
  Reserved,         \* values of an m_reserved16 that is not initialized
  FirstRequestID,   \* s_nextAvailableRequestID of every application
  Chunk,            \* bound: bytes after which a message may be cut
  MaxCalls          \* bound: requests, subscriptions, notifications and
                    \* departures of applications and services, in all

ASSUME RemoteCallAssumption ==
  /\ Host \subseteq 0 .. 65534
  /\ Application \subseteq Host \X (0 .. 65534)
  /\ Service \subseteq [serviceID : 0 .. 65534, instanceID : 0 .. 65534]
  /\ \A s, t \in Service : s.serviceID = t.serviceID => s = t
  /\ Member \subseteq 0 .. 65535
  /\ DOMAIN Arguments = Application
  /\ Reserved \subseteq 0 .. 65535
  /\ FirstRequestID \in 0 .. 65535
  /\ Chunk \subseteq Nat \ {0}
  /\ MaxCalls \in Nat

VARIABLES
  toProvider,           \* bytes on the way to the provider's daemon, by host
  toHost,               \* bytes on the way from it
  providerReader,       \* bytes of the message its TCPClient is reading
  hostReader,           \* bytes of the message a host's RemoteTCPClient is reading
  m_instanceNamespace,  \* services of the provider's TCPServer
  aborted,              \* has the provider's daemon failed an assertion?
  session,              \* session of a host's next service discovery message
  gone,                 \* applications that have left
  m_subscribedClients,  \* subscribers of a host's Notifications, which are
                        \* created when they are needed
  subscribedHosts,      \* subscribers of the provider's Notifications
  requests,             \* requests made by each application
  pending,              \* requests given to the provider and not answered
  published,            \* notifications of the provider and who is to get them
  inbox                 \* messages each application has received

vars == <<toProvider, toHost, providerReader, hostReader, m_instanceNamespace,
          aborted, session, gone, m_subscribedClients, subscribedHosts, requests,
          pending, published, inbox>>

MemberIDs == Service \X Member

Init ==
  /\ toProvider = [h \in Host |-> <<>>]
  /\ toHost = [h \in Host |-> <<>>]
  /\ providerReader = [h \in Host |-> <<>>]
  /\ hostReader = [h \in Host |-> <<>>]
  /\ m_instanceNamespace = Service
  /\ aborted = FALSE
  /\ session = [h \in Host |-> firstSession]
  /\ gone = {}
  /\ m_subscribedClients = [h \in Host |-> <<>>]
  /\ subscribedHosts = [m \in MemberIDs |-> <<>>]
  /\ requests = [a \in Application |-> <<>>]
  /\ pending = <<>>
  /\ published = <<>>
  /\ inbox = [a \in Application |-> <<>>]

-----------------------------------------------------------------------------
\* MUTANT: the request ID is not tagged.
tagClientIdentifierNot(header, clientIdentifier) == header

\* TCPClient::tagClientIdentifier
tagClientIdentifier(header, clientIdentifier) ==
  [header EXCEPT !.requestID = word(clientIdentifier, @.lo)]

\* TCPClient::extractClientIdentifier
extractClientIdentifier(header) == header.requestID.hi

\* OutputMessage::assignUniqueRequestID: the request ID of the message that
\* an application makes after k others.
uniqueRequestID(k) == number((FirstRequestID + k) % 65536)

\* The instance a message on a connection is for.
instanceOf(services, header) ==
  CHOOSE s \in services : s.serviceID = header.messageID.hi

\* The loop of TCPClient::processIncomingData over the bytes that have come:
\* the complete messages, and what is left in the two readers.
readMessages(bytes) ==
  LET from[p \in Nat] ==
        LET now == SubSeq(bytes, p + 1, Len(bytes))
            end == SOMEIP_HEADER_LENGTH_ON_NETWORK + payloadLength(now)
            message == [header |-> readHeader(now),
                        payload |-> SubSeq(now, SOMEIP_HEADER_LENGTH_ON_NETWORK + 1, end)]
        IN IF Len(now) < SOMEIP_HEADER_LENGTH_ON_NETWORK \/ Len(now) < end
           THEN [messages |-> <<>>, rest |-> now]
           ELSE [messages |-> <<message>> \o from[p + end].messages,
                 rest |-> from[p + end].rest]
  IN from[0]

\* The numbers of bytes that may arrive from a stream at once: some of a
\* message, or everything.
arrivals(stream, reader) ==
  {k \in Chunk : k < Len(stream) /\ reader = <<>>} \cup ({Len(stream)} \ {0})

-----------------------------------------------------------------------------
\* What applications and the provider have done so far, for the bound.  A
\* subscription sends one service discovery message, or two if it creates the
\* host's Notification.
callCount ==
  Len(published) + Cardinality(gone) + Cardinality(Service \ m_instanceNamespace)
  + FoldFunction(LAMBDA r, n : n + Len(r), 0, requests)
  + FoldFunction(LAMBDA s, n : n + s.id - 1, 0, session)
  - FoldFunction(LAMBDA f, n : n + Cardinality(DOMAIN f), 0, m_subscribedClients)

\* An application requests service; its daemon's dispatchMessage sets the
\* client identifier and finds the remote service, whose TCPClient tags the
\* request and writes it to the connection.
sendRequest(a, service, member) ==
  /\ a \notin gone
  /\ callCount < MaxCalls
  /\ LET header == SomeIPHeader(getMessageID(service.serviceID, member),
                                uniqueRequestID(Len(requests[a])), REQUEST)
         payload == writeArguments(Arguments[a])
     IN /\ requests' = [requests EXCEPT ![a] = Append(@,
             [service |-> service, header |-> header, payload |-> payload])]
        /\ toProvider' = [toProvider EXCEPT ![a[1]] =
             @ \o writeMessage(tagClientIdentifier(header, a[2]), payload)]
  /\ UNCHANGED <<toHost, providerReader, hostReader, m_instanceNamespace, aborted,
                 session, gone, m_subscribedClients, subscribedHosts, pending, published, inbox>>

\* An application subscribes: the host's Notification, if it is new, asks the
\* TCPClient of the service a first time when it is created
\* (Notification::init), and in any case in Notification::subscribe.
\* TCPClient::onNotificationSubscribed writes a service discovery message.
subscribeToNotification(a, memberIDs, reserved) ==
  LET h == a[1]
      known == DOMAIN m_subscribedClients[h]
      subscribers == IF memberIDs \in known THEN m_subscribedClients[h][memberIDs] ELSE <<>>
      message(s) == serialize([session |-> s, unicast |-> FALSE, options |-> <<>>,
                      entries |-> <<subscribeEntry(memberIDs[1], memberIDs[2], reserved)>>])
      next == assignUniqueSessionID(session[h])
  IN /\ a \notin gone
     /\ callCount < MaxCalls
     /\ m_subscribedClients' = [m_subscribedClients EXCEPT ![h] =
          [m \in known \cup {memberIDs} |->
             IF m = memberIDs THEN Append(subscribers, a) ELSE @[m]]]
     /\ IF memberIDs \in known
        THEN /\ toProvider' = [toProvider EXCEPT ![h] = @ \o message(session[h])]
             /\ session' = [session EXCEPT ![h] = next]
        ELSE /\ toProvider' = [toProvider EXCEPT ![h] =
                                 @ \o message(session[h]) \o message(next)]
             /\ session' = [session EXCEPT ![h] = assignUniqueSessionID(next)]
     /\ UNCHANGED <<toHost, providerReader, hostReader, m_instanceNamespace, aborted,
                    gone, subscribedHosts, requests, pending, published, inbox>>

\* An application leaves: its daemon forgets its slot and its subscriptions.
unregisterClient(a) ==
  /\ a \notin gone
  /\ callCount < MaxCalls
  /\ gone' = gone \cup {a}
  /\ m_subscribedClients' = [m_subscribedClients EXCEPT ![a[1]] =
       [m \in DOMAIN @ |-> SelectSeq(@[m], LAMBDA b : b # a)]]
  /\ UNCHANGED <<toProvider, toHost, providerReader, hostReader, m_instanceNamespace,
                 aborted, session, subscribedHosts, requests, pending, published, inbox>>

-----------------------------------------------------------------------------
isDiscovery(m) == m.header.messageID = SERVICE_DISCOVERY_MEMBER_ID

\* MUTANT: the service of the subscription is not looked at.
subscribeHostToAll(subscribed, m, h) ==
  FoldLeft(LAMBDA f, c : IF c.call = "subscription"
                         THEN [k \in MemberIDs |-> IF k[2] = c.member
                                                   THEN Append(f[k], h) ELSE f[k]]
                         ELSE f,
           subscribed, decodeMessage(m.header, m.payload).calls)

\* The subscribers of the provider's Notifications after the service
\* discovery message m on the connection of h: onRemoteClientSubscription
\* adds the connection each time.
subscribeHost(subscribed, m, h) ==
  FoldLeft(LAMBDA f, c : IF c.call = "subscription"
                         THEN [f EXCEPT ![<<c.service, c.member>>] = Append(@, h)]
                         ELSE f,
           subscribed, decodeMessage(m.header, m.payload).calls)

\* Data of host h reaches the provider's daemon.  A request is given the
\* instance of its service ID, which must be one of the namespace, and the
\* identifier of the connection, and passed on to the provider.
receiveAtProvider(h) ==
  /\ ~aborted
  /\ \E k \in arrivals(toProvider[h], providerReader[h]) :
       LET in == readMessages(providerReader[h] \o SubSeq(toProvider[h], 1, k))
           received == SelectSeq(in.messages, LAMBDA m : ~isDiscovery(m))
           known == \A i \in DOMAIN received : \E s \in m_instanceNamespace :
                      s.serviceID = received[i].header.messageID.hi
       IN /\ toProvider' = [toProvider EXCEPT ![h] = SubSeq(@, k + 1, Len(@))]
          /\ providerReader' = [providerReader EXCEPT ![h] = in.rest]
          /\ aborted' = ~known
          /\ pending' = IF known
               THEN pending \o [i \in DOMAIN received |->
                      [clientIdentifier |-> h, header |-> received[i].header,
                       service |-> instanceOf(m_instanceNamespace, received[i].header),
                       payload |-> received[i].payload]]
               ELSE pending
          /\ subscribedHosts' = FoldLeft(LAMBDA f, m : subscribeHost(f, m, h),
                                         subscribedHosts, SelectSeq(in.messages, isDiscovery))
  /\ UNCHANGED <<toHost, hostReader, m_instanceNamespace, session, gone,
                 m_subscribedClients, requests, published, inbox>>

\* What a provider makes of the payload of a request, for the instance asked.
result(service, payload) == u16(service.instanceID) \o payload

\* createMethodReturn
createMethodReturn(header, messageType) ==
  SomeIPHeader(header.messageID, header.requestID, messageType)

\* The provider answers one of its requests; the answer goes to the client of
\* the identifier in it, the connection of the requesting host.
sendAnswer(i, messageType) ==
  LET r == pending[i] IN
  /\ ~aborted
  /\ toHost' = [toHost EXCEPT ![r.clientIdentifier] =
       @ \o writeMessage(createMethodReturn(r.header, messageType),
                         result(r.service, r.payload))]
  /\ pending' = RemoveAt(pending, i)
  /\ UNCHANGED <<toProvider, providerReader, hostReader, m_instanceNamespace, aborted,
                 session, gone, m_subscribedClients, subscribedHosts, requests,
                 published, inbox>>

\* The applications of host h that get a notification, with repetitions.
subscribersOf(h, memberIDs) ==
  IF memberIDs \in DOMAIN m_subscribedClients[h]
  THEN m_subscribedClients[h][memberIDs] ELSE <<>>

\* MUTANT: a notification is sent before the data that waits.
sendNotificationFirst(memberIDs) ==
  LET n == Len(published)
      message == writeMessage(
        SomeIPHeader(getMessageID(memberIDs[1].serviceID, memberIDs[2]),
                     uniqueRequestID(n), NOTIFICATION), u16(n + 1))
      hosts == subscribedHosts[memberIDs]
  IN /\ ~aborted
     /\ callCount < MaxCalls
     /\ toHost' = FoldLeft(LAMBDA f, h : [f EXCEPT ![h] = message \o @], toHost, hosts)
     /\ published' = Append(published, [memberIDs |-> memberIDs,
          audience |-> UNION {ToSet(subscribersOf(h, memberIDs)) : h \in ToSet(hosts)}])
     /\ UNCHANGED <<toProvider, providerReader, hostReader, m_instanceNamespace, aborted,
                    session, gone, m_subscribedClients, subscribedHosts, requests,
                    pending, inbox>>

\* The provider notifies its subscribers, once for each subscription.
sendNotification(memberIDs) ==
  LET n == Len(published)
      message == writeMessage(
        SomeIPHeader(getMessageID(memberIDs[1].serviceID, memberIDs[2]),
                     uniqueRequestID(n), NOTIFICATION), u16(n + 1))
      hosts == subscribedHosts[memberIDs]
  IN /\ ~aborted
     /\ callCount < MaxCalls
     /\ toHost' = FoldLeft(LAMBDA f, h : [f EXCEPT ![h] = @ \o message], toHost, hosts)
     /\ published' = Append(published, [memberIDs |-> memberIDs,
          audience |-> UNION {ToSet(subscribersOf(h, memberIDs)) : h \in ToSet(hosts)}])
     /\ UNCHANGED <<toProvider, providerReader, hostReader, m_instanceNamespace, aborted,
                    session, gone, m_subscribedClients, subscribedHosts, requests,
                    pending, inbox>>

\* MUTANT: the client identifier stays in the request ID.
dispatchMessageTagged(box, m, h) ==
  LET service == instanceOf(Service, m.header)
      requester == <<h, extractClientIdentifier(m.header)>>
      message == [service |-> service, header |-> m.header, payload |-> m.payload]
  IN IF isReply(m.header)
     THEN IF requester \in Application \ gone
          THEN [box EXCEPT ![requester] = Append(@, message)] ELSE box
     ELSE FoldLeft(LAMBDA b, a : [b EXCEPT ![a] = Append(@, message)],
                   box, subscribersOf(h, <<service, m.header.messageID.lo>>))

\* The messages of the applications after m was dispatched on host h: an
\* answer goes to the client whose identifier its request ID holds, if that
\* client is there; a notification to each subscriber.
dispatchMessage(box, m, h) ==
  LET service == instanceOf(Service, m.header)
      requester == <<h, extractClientIdentifier(m.header)>>
      message(header) == [service |-> service, header |-> header, payload |-> m.payload]
  IN IF isReply(m.header)
     THEN IF requester \in Application \ gone
          THEN [box EXCEPT ![requester] =
                  Append(@, message(tagClientIdentifier(m.header, 0)))]
          ELSE box
     ELSE FoldLeft(LAMBDA b, a : [b EXCEPT ![a] = Append(@, message(m.header))],
                   box, subscribersOf(h, <<service, m.header.messageID.lo>>))

\* Data of the provider's daemon reaches host h.
receiveAtHost(h) ==
  /\ \E k \in arrivals(toHost[h], hostReader[h]) :
       LET in == readMessages(hostReader[h] \o SubSeq(toHost[h], 1, k))
       IN /\ toHost' = [toHost EXCEPT ![h] = SubSeq(@, k + 1, Len(@))]
          /\ hostReader' = [hostReader EXCEPT ![h] = in.rest]
          /\ inbox' = FoldLeft(LAMBDA b, m : dispatchMessage(b, m, h), inbox, in.messages)
  /\ UNCHANGED <<toProvider, providerReader, m_instanceNamespace, aborted, session, gone,
                 m_subscribedClients, subscribedHosts, requests, pending, published>>

\* The provider unregisters a service (TCPServer::removeService), of which
\* the hosts hear later.
removeService(service) ==
  /\ ~aborted
  /\ callCount < MaxCalls
  /\ service \in m_instanceNamespace
  /\ m_instanceNamespace' = m_instanceNamespace \ {service}
  /\ UNCHANGED <<toProvider, toHost, providerReader, hostReader, aborted, session, gone,
                 m_subscribedClients, subscribedHosts, requests, pending, published, inbox>>

-----------------------------------------------------------------------------
Next ==
  \/ \E a \in Application :
       \/ \E s \in Service, m \in Member : sendRequest(a, s, m)
       \/ \E m \in MemberIDs, r \in Reserved : subscribeToNotification(a, m, r)
       \/ unregisterClient(a)
  \/ \E i \in DOMAIN pending, t \in {RESPONSE, ERROR} : sendAnswer(i, t)
  \/ \E m \in MemberIDs : sendNotification(m)
  \/ \E s \in Service : removeService(s)
  \/ \E h \in Host : receiveAtProvider(h) \/ receiveAtHost(h)

Spec == Init /\ [][Next]_vars

-----------------------------------------------------------------------------
\* InputMessage::isAnswerTo, and that the answer is what the instance that was
\* asked makes of the payload.
answers(message, request) ==
  /\ isReply(message.header)
  /\ message.header.requestID = request.header.requestID
  /\ message.service = request.service
  /\ message.header.messageID = request.header.messageID
  /\ message.payload = result(request.service, request.payload)

\* Whatever the applications of several hosts ask at the same time, with the
\* same request IDs, and however their bytes are cut, an answer that an
\* application receives is the one to a request it made, with its request ID
\* restored, and it receives one for a request at most
\* (TCPClient::tagClientIdentifier, Dispatcher::dispatchMessage).
AnswerIsForRequester ==
  \A a \in Application :
    LET replies == {i \in DOMAIN inbox[a] : isReply(inbox[a][i].header)} IN
    /\ \A i \in replies : \E k \in DOMAIN requests[a] : answers(inbox[a][i], requests[a][k])
    /\ \A i, j \in replies :
         inbox[a][i].header.requestID = inbox[a][j].header.requestID => i = j

\* The provider is given the arguments of the call, whatever they are made of,
\* however large they are, and with whatever else they share the connection
\* (SomeIPOutputStream, SomeIPInputStream, ByteArray).
ArgumentsArrive ==
  \A i \in DOMAIN pending :
    LET a == <<pending[i].clientIdentifier, extractClientIdentifier(pending[i].header)>> IN
    /\ a \in Application
    /\ readArguments(pending[i].payload, Arguments[a]) = Arguments[a]

\* A daemon expects notifications of what its applications subscribe to: the
\* subscriptions that the provider's daemon holds for a host are to
\* Notifications of that host (TCPClient::onNotificationSubscribed).
SubscriptionsAreKnown ==
  \A m \in MemberIDs : \A i \in DOMAIN subscribedHosts[m] :
    m \in DOMAIN m_subscribedClients[subscribedHosts[m][i]]

\* The number of notification n, from its payload.
numberOf(message) == r16(message.payload, 0)

\* A subscriber never sees an older notification after a newer one, of all
\* that the provider sends it, though each is sent once for each subscription
\* of the host, and none is invented (Notification::sendMessageToSubscribedClients).
NotificationsInOrder ==
  \A a \in Application :
    LET notes == SelectSeq(inbox[a], LAMBDA m : m.header.messageType = NOTIFICATION) IN
    /\ \A i \in DOMAIN notes : numberOf(notes[i]) \in DOMAIN published /\
         published[numberOf(notes[i])].memberIDs
           = <<notes[i].service, notes[i].header.messageID.lo>>
    /\ \A i, j \in DOMAIN notes : i < j => numberOf(notes[i]) <= numberOf(notes[j])

\* Nothing is on its way, the provider has answered what it was given, and its
\* daemon was not stopped by a request that came after its service was removed.
AtRest ==
  /\ ~aborted
  /\ \A h \in Host : toProvider[h] = <<>> /\ toHost[h] = <<>>
  /\ pending = <<>>

\* Nothing gets lost in the readers or between the daemons: at rest every
\* request is answered, unless its application has left.
RequestIsAnswered ==
  AtRest => \A a \in Application \ gone : \A k \in DOMAIN requests[a] :
              \E i \in DOMAIN inbox[a] : answers(inbox[a][i], requests[a][k])

\* Everyone who was subscribed, as far as the provider's daemon knew, when a
\* notification was sent has it once nothing is on its way.
SubscribersAreNotified ==
  AtRest => \A n \in DOMAIN published : \A a \in published[n].audience \ gone :
              \E i \in DOMAIN inbox[a] : /\ inbox[a][i].header.messageType = NOTIFICATION
                                         /\ numberOf(inbox[a][i]) = n
=============================================================================
