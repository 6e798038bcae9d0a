-------------------------- MODULE DispatcherProofs --------------------------
(***************************************************************************)
(* Theorems about module Dispatcher, for any sets of clients, services and *)
(* members and any width of the client identifiers: what its lists hold    *)
(* about one another, that a deleted client is forgotten, that it          *)
(* implements ProviderRegistry, and that the applications' registries are  *)
(* accurate as long as no application registers a service twice.           *)
(***************************************************************************)
EXTENDS Dispatcher, SequenceTheorems, FiniteSetTheorems, TLAPS

\* Most steps are first-order: Zenon proves them.  SMT is cited where a step
\* needs arithmetic or sequences.
USE Zenon
-----------------------------------------------------------------------------
(* Facts about the operators                                               *)

\* What Dispatcher::getService returns: a service with the ids asked for, if
\* there is one.
LEMMA FindService ==
  ASSUME NEW services \in SUBSET Service, NEW sid
  PROVE  LET found == findService(services, sid) IN
         /\ found \in Service \cup {NULL}
         /\ found # NULL => found \in services /\ found.serviceID = sid
         /\ found = NULL <=> \A s \in services : s.serviceID # sid
<1>1. CASE \E s \in services : s.serviceID = sid
  <2> DEFINE found == CHOOSE s \in services : s.serviceID = sid
  <2>1. found \in services /\ found.serviceID = sid
    BY <1>1
  <2>2. findService(services, sid) = found
    BY <1>1 DEF findService
  <2> QED BY <2>1, <2>2, NullAssumption
<1>2. CASE ~ \E s \in services : s.serviceID = sid
  <2>1. findService(services, sid) = NULL
    BY <1>2 DEF findService
  <2> QED BY <1>2, <2>1
<1> QED BY <1>1, <1>2

\* Where ids are unique, the service found is the one with those ids.
LEMMA FindUnique ==
  ASSUME NEW services \in SUBSET Service, NEW s \in services,
         \A t, u \in services : t.serviceID = u.serviceID => t = u
  PROVE  findService(services, s.serviceID) = s
<1>1. findService(services, s.serviceID) # NULL
  BY FindService
<1> QED BY <1>1, FindService

\* The lookup of some ids does not depend on services with other ids.
LEMMA FindKept ==
  ASSUME NEW before \in SUBSET Service, NEW after \in SUBSET Service, NEW sid,
         \A t, u \in after : t.serviceID = u.serviceID => t = u,
         \A s \in Service : s.serviceID = sid => (s \in before <=> s \in after)
  PROVE  findService(after, sid) = findService(before, sid)
<1>1. CASE findService(before, sid) = NULL
  <2>1. \A s \in before : s.serviceID # sid
    BY <1>1, FindService
  <2>2. \A s \in after : s.serviceID # sid
    BY <2>1
  <2> QED BY <1>1, <2>2, FindService
<1>2. CASE findService(before, sid) # NULL
  <2> DEFINE s == findService(before, sid)
  <2>1. s \in before /\ s.serviceID = sid
    BY <1>2, FindService
  <2> HIDE DEF s
  <2>2. s \in after
    BY <2>1
  <2>3. findService(after, s.serviceID) = s
    BY <2>2, FindUnique
  <2> QED BY <2>1, <2>3 DEF s
<1> QED BY <1>1, <1>2

\* Erasing one entry of a vector keeps the others, in their order.
LEMMA RemoveAtProperties ==
  ASSUME NEW S, NEW seq \in Seq(S), NEW i \in 1 .. Len(seq)
  PROVE  /\ erase(seq, i) \in Seq(S)
         /\ Len(erase(seq, i)) = Len(seq) - 1
         /\ \A j \in 1 .. Len(seq) - 1 :
              erase(seq, i)[j] = IF j < i THEN seq[j] ELSE seq[j + 1]
<1> DEFINE left == SubSeq(seq, 1, i - 1)
           right == SubSeq(seq, i + 1, Len(seq))
<1>1. Len(seq) \in Nat /\ i \in Int /\ \A j \in 1 .. Len(seq) : seq[j] \in S
  BY LenProperties, ElementOfSeq, SMT
<1>2. /\ left \in Seq(S) /\ Len(left) = i - 1
      /\ \A j \in 1 .. i - 1 : left[j] = seq[j]
  <2>1. \A j \in 1 .. i - 1 : seq[j] \in S
    BY <1>1, SMT
  <2>2. /\ left \in Seq(S)
        /\ Len(left) = IF 1 <= i - 1 THEN i - 1 - 1 + 1 ELSE 0
        /\ \A j \in 1 .. i - 1 - 1 + 1 : left[j] = seq[1 + j - 1]
    BY <1>1, <2>1, SubSeqProperties, SMT
  <2> QED BY <1>1, <2>2, SMT
<1>3. /\ right \in Seq(S) /\ Len(right) = Len(seq) - i
      /\ \A j \in 1 .. Len(seq) - i : right[j] = seq[i + j]
  <2>1. \A j \in i + 1 .. Len(seq) : seq[j] \in S
    BY <1>1, SMT
  <2>2. /\ right \in Seq(S)
        /\ Len(right) = IF i + 1 <= Len(seq) THEN Len(seq) - (i + 1) + 1 ELSE 0
        /\ \A j \in 1 .. Len(seq) - (i + 1) + 1 :
             right[j] = seq[i + 1 + j - 1]
    BY <1>1, <2>1, SubSeqProperties, SMT
  <2> QED BY <1>1, <2>2, SMT
<1>4. erase(seq, i) = left \o right
  BY DEF erase
<1>5. /\ left \o right \in Seq(S)
      /\ Len(left \o right) = Len(left) + Len(right)
      /\ \A j \in 1 .. Len(left) + Len(right) :
           (left \o right)[j] = IF j <= Len(left) THEN left[j]
                                ELSE right[j - Len(left)]
  BY <1>2, <1>3, ConcatProperties, ZenonT(30)
<1> HIDE DEF left, right
<1>6. ASSUME NEW j \in 1 .. Len(seq) - 1
      PROVE  (left \o right)[j] = IF j < i THEN seq[j] ELSE seq[j + 1]
  <2>1. (left \o right)[j] = IF j <= i - 1 THEN left[j] ELSE right[j - (i - 1)]
    BY <1>1, <1>2, <1>3, <1>5, SMT
  <2>2. CASE j < i
    BY <1>1, <1>2, <2>1, <2>2, SMT
  <2>3. CASE ~(j < i)
    <3>1. j - (i - 1) \in 1 .. Len(seq) - i /\ i + (j - (i - 1)) = j + 1
      BY <1>1, <2>3, SMT
    <3> QED BY <1>1, <1>3, <2>1, <2>3, <3>1, SMT
  <2> QED BY <2>2, <2>3, ZenonT(30)
<1> QED BY <1>1, <1>2, <1>3, <1>4, <1>5, <1>6, SMT

\* The number of entries of a vector that match is a natural number.
LEMMA CountIsNat ==
  ASSUME NEW seq \in Seq(Service), NEW sid
  PROVE  Cardinality({i \in 1 .. Len(seq) : seq[i].serviceID = sid}) \in Nat
<1>1. IsFiniteSet(1 .. Len(seq))
  BY LenProperties, FS_Interval, SMT
<1> QED BY <1>1, FS_Subset, FS_CardinalityType

-----------------------------------------------------------------------------
(* Types                                                                   *)

\* Unregistrations leave the applications' registries well formed.
LEMMA UnregisteredType ==
  ASSUME TypeOK, NEW listeners \in SUBSET Client,
         NEW times \in [ServiceID -> Nat],
         notifyUnregistered(listeners, times)
  PROVE  /\ m_availableServices' \in [Client -> [ServiceID -> Nat]]
         /\ undefinedErase' \in SUBSET Client
<1>1. m_availableServices \in [Client -> [ServiceID -> Nat]]
  BY DEF TypeOK
<1>2. undefinedErase' \in SUBSET Client
  BY DEF notifyUnregistered, TypeOK
<1>3. \A d \in Client, sid \in ServiceID :
        /\ m_availableServices[d][sid] \in Nat /\ times[sid] \in Nat
        /\ m_availableServices[d][sid] >= times[sid]
             => m_availableServices[d][sid] - times[sid] \in Nat
  BY <1>1, SMT
<1>4. m_availableServices' \in [Client -> [ServiceID -> Nat]]
  BY <1>1, <1>3 DEF notifyUnregistered
<1> QED BY <1>2, <1>4

\* A Notification, found or created, points at a registered Service or at none.
LEMMA NotificationType ==
  ASSUME TypeOK, NEW m \in MemberIDs, getOrCreateNotification(m)
  PROVE  /\ m_notifications' \in SUBSET MemberIDs
         /\ m_providerService' \in [MemberIDs -> Service \cup {NULL}]
<1>1. getService(m[1]) \in Service \cup {NULL}
  BY FindService DEF getService, TypeOK
<1> QED BY <1>1 DEF getOrCreateNotification, TypeOK

\* Every handler of the dispatcher preserves the types.
LEMMA TypeStep ==
  ASSUME TypeOK, [Next]_vars
  PROVE  TypeOK'
<1> USE DEF TypeOK
<1>1. ASSUME NEW c \in Client, createNewClientConnection(c) PROVE TypeOK'
  <2>1. m_clients' \in Seq(Client \cup {NULL})
    BY <1>1, AppendProperties DEF createNewClientConnection, onNewClient
  <2>2. m_nextAvailableClientID' \in 0 .. ClientIDs - 1
    BY <1>1, ClientIDsAssumption, SMT DEF createNewClientConnection, onNewClient
  <2>3. m_availableServices' \in [Client -> [ServiceID -> Nat]]
    BY <1>1 DEF createNewClientConnection, sendRegistry
  <2>4. m_id' \in [Client -> 0 .. ClientIDs - 1]
    BY <1>1 DEF createNewClientConnection, onNewClient
  <2>5. /\ m_listeners' \in SUBSET Client
        /\ life' \in [Client -> {"new", "registered", "disconnected", "deleted"}]
    BY <1>1 DEF createNewClientConnection
  <2> QED BY <1>1, <2>1, <2>2, <2>3, <2>4, <2>5 DEF createNewClientConnection
<1>2. ASSUME NEW c \in Client, onNewClientAsserts(c) PROVE TypeOK'
  BY <1>2 DEF onNewClientAsserts, clientVars, appVars
<1>3. ASSUME NEW c \in Client, NEW sid \in ServiceID, registerService(c, sid)
      PROVE  TypeOK'
  <2>1. CASE registerNewService(c, sid)
    <3> DEFINE service == [serviceID |-> sid, client |-> c,
                           address |-> allocated]
    <3>1. service \in Service
      BY DEF Service
    <3> HIDE DEF service
    <3>2. m_registeredServices' \in [Client -> Seq(Service)]
      BY <2>1, <3>1, AppendProperties DEF registerNewService, service
    <3>3. m_availableServices' \in [Client -> [ServiceID -> Nat]]
      BY <2>1, SMT DEF registerNewService, notifyRegistered
    <3>4. /\ m_services' \in SUBSET Service
          /\ m_providerService' \in [MemberIDs -> Service \cup {NULL}]
          /\ allocated' \in Nat
      BY <2>1, <3>1, SMT DEF registerNewService, service
    <3> QED BY <1>3, <3>2, <3>3, <3>4, ZenonT(30) DEF registerService
  <2>2. CASE registerOwnServiceAgain(c, sid)
    <3>1. getService(sid) \in Service
      BY <2>2, FindService DEF registerOwnServiceAgain, getService
    <3>2. m_registeredServices' \in [Client -> Seq(Service)]
      BY <2>2, <3>1, AppendProperties DEF registerOwnServiceAgain
    <3> QED BY <1>3, <2>2, <3>2 DEF registerService, registerOwnServiceAgain
  <2> QED BY <1>3, <2>1, <2>2 DEF registerService
<1>4. ASSUME NEW c \in Client, NEW sid \in ServiceID, unregisterService(c, sid)
      PROVE  TypeOK'
  <2> DEFINE times == [x \in ServiceID |-> IF x = sid THEN 1 ELSE 0]
  <2>1. PICK i \in 1 .. Len(m_registeredServices[c]) :
          /\ m_services' = m_services \ {m_registeredServices[c][i]}
          /\ m_providerService' =
               [m \in MemberIDs |->
                  IF m_providerService[m] = m_registeredServices[c][i]
                  THEN NULL ELSE m_providerService[m]]
          /\ m_registeredServices' =
               [m_registeredServices EXCEPT ![c] = erase(@, i)]
    BY <1>4, ZenonT(30) DEF unregisterService, eraseServices
  <2>2. erase(m_registeredServices[c], i) \in Seq(Service)
    BY RemoveAtProperties
  <2>3. m_registeredServices' \in [Client -> Seq(Service)]
    BY <2>1, <2>2
  <2>4. /\ m_services' \in SUBSET Service
        /\ m_providerService' \in [MemberIDs -> Service \cup {NULL}]
    BY <2>1
  <2>5. notifyUnregistered(m_listeners, times) /\ times \in [ServiceID -> Nat]
    BY <1>4 DEF unregisterService, eraseServices
  <2>6. /\ m_availableServices' \in [Client -> [ServiceID -> Nat]]
        /\ undefinedErase' \in SUBSET Client
    BY <2>5, UnregisteredType, ZenonT(30)
  <2> QED BY <1>4, <2>3, <2>4, <2>6, ZenonT(30) DEF unregisterService, eraseServices
<1>5. ASSUME NEW c \in Client, NEW m \in MemberIDs,
             subscribeToNotification(c, m)
      PROVE  TypeOK'
  <2>1. /\ m_notifications' \in SUBSET MemberIDs
        /\ m_providerService' \in [MemberIDs -> Service \cup {NULL}]
    BY <1>5, NotificationType, ZenonT(30) DEF subscribeToNotification
  <2>2. m_subscribedClients' \in [MemberIDs -> [Client -> Nat]]
    BY <1>5, SMT DEF subscribeToNotification
  <2>3. m_subscribedNotifications' \in [Client -> [MemberIDs -> Nat]]
    BY <1>5, SMT DEF subscribeToNotification
  <2> QED BY <1>5, <2>1, <2>2, <2>3, ZenonT(30) DEF subscribeToNotification, appVars
<1>6. ASSUME NEW c \in Client, NEW m \in MemberIDs, dispatchNotification(c, m)
      PROVE  TypeOK'
  BY <1>6, NotificationType, ZenonT(30) DEF dispatchNotification, clientVars, appVars
<1>7. ASSUME NEW c \in Client, NEW sid \in ServiceID, dispatchRequest(c, sid)
      PROVE  TypeOK'
  <2>1. getService(sid) \in Service
    BY <1>7, FindService DEF dispatchRequest, getService
  <2>2. m_id[c] \in Nat /\ getService(sid).client \in Client
    BY <2>1, ClientIDsAssumption, SMT DEF Service
  <2> QED
    BY <1>7, <2>2, SMTT(30) DEF dispatchRequest, dispatcherVars, clientVars
<1>8. ASSUME NEW r \in requests, dispatchReply(r) PROVE TypeOK'
  BY <1>8 DEF dispatchReply, dispatcherVars, clientVars
<1>9. ASSUME NEW c \in Client, onDisconnected(c) PROVE TypeOK'
  <2> DEFINE registered == m_registeredServices[c]
             times == [sid \in ServiceID |->
                         Cardinality({i \in 1 .. Len(registered) :
                                        registered[i].serviceID = sid})]
  <2>1. times \in [ServiceID -> Nat] /\ m_listeners \ {c} \in SUBSET Client
    <3>1. registered \in Seq(Service)
      OBVIOUS
    <3> HIDE DEF registered
    <3>2. \A sid \in ServiceID :
            Cardinality({i \in 1 .. Len(registered) :
                           registered[i].serviceID = sid}) \in Nat
      BY <3>1, CountIsNat, ZenonT(30)
    <3> QED BY <3>2
  <2>2. notifyUnregistered(m_listeners \ {c}, times)
    BY <1>9 DEF onDisconnected
  <2> HIDE DEF times
  <2>3. /\ m_availableServices' \in [Client -> [ServiceID -> Nat]]
        /\ undefinedErase' \in SUBSET Client
    BY <2>1, <2>2, UnregisteredType, ZenonT(30)
  <2>4. m_clients' \in Seq(Client \cup {NULL})
    <3>1. m_clients' = [m_clients EXCEPT ![m_id[c] + 1] = NULL]
      BY <1>9 DEF onDisconnected, onClientDisconnected
    <3>2. CASE m_id[c] + 1 \in 1 .. Len(m_clients)
      BY <3>1, <3>2, ExceptSeq
    <3>3. CASE m_id[c] + 1 \notin 1 .. Len(m_clients)
      <4>1. DOMAIN m_clients = 1 .. Len(m_clients)
            /\ m_clients \in [1 .. Len(m_clients) -> Client \cup {NULL}]
        BY LenProperties
      <4>2. m_clients' = m_clients
        BY <3>1, <3>3, <4>1, SMT
      <4> QED BY <4>2
    <3> QED BY <3>2, <3>3
  <2>5. m_subscribedClients' \in [MemberIDs -> [Client -> Nat]]
    <3>1. \A m \in MemberIDs :
            /\ m_subscribedClients[m] \in [Client -> Nat]
            /\ m_subscribedClients[m][c] \in Nat
            /\ m_subscribedNotifications[c][m] \in Nat
      BY SMT
    <3> QED BY <1>9, <3>1, SMT DEF onDisconnected, unsubscribe
  <2>6. /\ m_services' \in SUBSET Service
        /\ m_providerService' \in [MemberIDs -> Service \cup {NULL}]
        /\ m_disconnectedClients' \in SUBSET Client
        /\ m_listeners' \in SUBSET Client
        /\ life' \in [Client -> {"new", "registered", "disconnected", "deleted"}]
        /\ requests' \subseteq requests
    BY <1>9 DEF onDisconnected, eraseServices, onClientDisconnected
  <2> QED BY <1>9, <2>3, <2>4, <2>5, <2>6 DEF onDisconnected
<1>10. ASSUME cleanDisconnectedClients PROVE TypeOK'
  <2>1. m_registeredServices' \in [Client -> Seq(Service)]
    BY <1>10, EmptySeq DEF cleanDisconnectedClients
  <2>2. m_subscribedNotifications' \in [Client -> [MemberIDs -> Nat]]
    BY <1>10 DEF cleanDisconnectedClients
  <2> QED BY <1>10, <2>1, <2>2 DEF cleanDisconnectedClients, appVars
<1>11. ASSUME UNCHANGED vars PROVE TypeOK'
  BY <1>11 DEF vars, dispatcherVars, clientVars, appVars
<1> QED
  BY <1>1, <1>2, <1>3, <1>4, <1>5, <1>6, <1>7, <1>8, <1>9, <1>10, <1>11, ZenonT(30)
     DEF Next

\* The types of the dispatcher's and the clients' state are kept.
THEOREM TypeCorrect == Spec => []TypeOK
<1>1. ASSUME Init PROVE TypeOK
  <2>1. m_clients \in Seq(Client \cup {NULL})
    BY <1>1, EmptySeq DEF Init
  <2>2. m_registeredServices \in [Client -> Seq(Service)]
    BY <1>1, EmptySeq DEF Init
  <2>3. /\ m_nextAvailableClientID \in 0 .. ClientIDs - 1
        /\ m_id \in [Client -> 0 .. ClientIDs - 1]
    BY <1>1, ClientIDsAssumption, SMT DEF Init, UNKNOWN_CLIENT
  <2>4. /\ m_subscribedClients \in [MemberIDs -> [Client -> Nat]]
        /\ m_subscribedNotifications \in [Client -> [MemberIDs -> Nat]]
        /\ m_availableServices \in [Client -> [ServiceID -> Nat]]
        /\ m_providerService \in [MemberIDs -> Service \cup {NULL}]
        /\ life \in [Client -> {"new", "registered", "disconnected", "deleted"}]
    BY <1>1 DEF Init
  <2> QED BY <1>1, <2>1, <2>2, <2>3, <2>4, ZenonT(30) DEF Init, TypeOK
<1> QED BY <1>1, TypeStep, PTL DEF Spec

-----------------------------------------------------------------------------
(* Identifiers and slots                                                   *)

\* The containers that list clients by their stage: a registered client is a
\* listener, a disconnected one waits for the idle callback.
StageIsListed ==
  /\ m_listeners = {c \in Client : life[c] = "registered"}
  /\ m_disconnectedClients = {c \in Client : life[c] = "disconnected"}

\* The sender of a pending request still has its slot, or has left it empty.
RequestHasSlot ==
  \A r \in requests :
    /\ r.clientIdentifier < Len(m_clients)
    /\ m_clients[r.clientIdentifier + 1] \in {r.origin, NULL}

SlotInv == StageIsListed /\ IdentifierIsSlot /\ RequestHasSlot

connectionVars == <<m_clients, m_id, life, m_listeners, m_disconnectedClients>>

\* Only the arrival, the departure and the deletion of a client touch the
\* slots and the stages; only requests add to "requests".
LEMMA ConnectionSteps ==
  ASSUME [Next]_vars
  PROVE  \/ \E c \in Client : createNewClientConnection(c) \/ onDisconnected(c)
         \/ cleanDisconnectedClients
         \/ \E c \in Client, sid \in ServiceID : dispatchRequest(c, sid)
         \/ UNCHANGED connectionVars /\ requests' \subseteq requests
<1> USE DEF connectionVars
<1>1. ASSUME NEW c \in Client, onNewClientAsserts(c)
      PROVE  UNCHANGED connectionVars /\ requests' \subseteq requests
  BY <1>1 DEF onNewClientAsserts, clientVars, appVars
<1>2. ASSUME NEW c \in Client, NEW sid \in ServiceID,
             registerService(c, sid) \/ unregisterService(c, sid)
      PROVE  UNCHANGED connectionVars /\ requests' \subseteq requests
  BY <1>2 DEF registerService, unregisterService
<1>3. ASSUME NEW c \in Client, NEW m \in MemberIDs,
             subscribeToNotification(c, m) \/ dispatchNotification(c, m)
      PROVE  UNCHANGED connectionVars /\ requests' \subseteq requests
  BY <1>3 DEF subscribeToNotification, dispatchNotification, clientVars, appVars
<1>4. ASSUME NEW r \in requests, dispatchReply(r)
      PROVE  UNCHANGED connectionVars /\ requests' \subseteq requests
  BY <1>4 DEF dispatchReply, dispatcherVars, clientVars
<1>5. ASSUME UNCHANGED vars
      PROVE  UNCHANGED connectionVars /\ requests' \subseteq requests
  BY <1>5 DEF vars, dispatcherVars, clientVars, appVars
<1> QED BY <1>1, <1>2, <1>3, <1>4, <1>5 DEF Next

\* Every handler preserves the slot invariant, never shortens m_clients and never
\* fills a slot again.
LEMMA SlotStep ==
  ASSUME TypeOK, SlotInv, [Next]_vars
  PROVE  /\ SlotInv'
         /\ Len(m_clients) <= Len(m_clients')
         /\ \A i \in 1 .. Len(m_clients) : m_clients'[i] \in {m_clients[i], NULL}
<1> DEFINE Kept == /\ Len(m_clients) <= Len(m_clients')
                   /\ \A i \in 1 .. Len(m_clients) :
                        m_clients'[i] \in {m_clients[i], NULL}
<1>0. /\ Len(m_clients) \in Nat
      /\ \A i \in 1 .. Len(m_clients) : m_clients[i] \in Client \cup {NULL}
      /\ \A c \in Client : m_id[c] \in Nat
      /\ m_nextAvailableClientID \in Nat
      /\ \A r \in requests : r.clientIdentifier \in Nat /\ r.origin \in Client
  BY LenProperties, ClientIDsAssumption, ElementOfSeq, SMT DEF TypeOK
<1>1. ASSUME NEW c \in Client, createNewClientConnection(c)
      PROVE  SlotInv' /\ Kept
  <2>1. /\ m_clients' = Append(m_clients, c)
        /\ m_nextAvailableClientID = Len(m_clients)
        /\ m_id' = [m_id EXCEPT ![c] = Len(m_clients)]
        /\ life[c] = "new" /\ life' = [life EXCEPT ![c] = "registered"]
        /\ m_listeners' = m_listeners \cup {c}
        /\ UNCHANGED <<m_disconnectedClients, requests>>
    BY <1>1 DEF createNewClientConnection, onNewClient
  <2>2. /\ Len(m_clients') = Len(m_clients) + 1
        /\ \A i \in 1 .. Len(m_clients) : m_clients'[i] = m_clients[i]
        /\ m_clients'[Len(m_clients) + 1] = c
    BY <2>1, AppendProperties, SMT DEF TypeOK
  <2>3. /\ m_id'[c] = Len(m_clients) /\ life'[c] = "registered"
        /\ \A d \in Client \ {c} : m_id'[d] = m_id[d] /\ life'[d] = life[d]
    BY <2>1 DEF TypeOK
  <2>4. StageIsListed'
    BY <2>1, <2>3 DEF SlotInv, StageIsListed
  <2>5. ASSUME NEW i \in 1 .. Len(m_clients'), m_clients'[i] # NULL
        PROVE  /\ life'[m_clients'[i]] = "registered"
               /\ m_id'[m_clients'[i]] = i - 1
    <3>1. CASE i = Len(m_clients) + 1
      BY <1>0, <2>2, <2>3, <3>1, SMT
    <3>2. CASE i \in 1 .. Len(m_clients)
      <4>1. /\ m_clients[i] \in Client /\ life[m_clients[i]] = "registered"
            /\ m_id[m_clients[i]] = i - 1
        BY <1>0, <2>2, <2>5, <3>2 DEF SlotInv, IdentifierIsSlot
      <4> QED BY <2>1, <2>2, <2>3, <3>2, <4>1
    <3> QED BY <1>0, <2>2, <3>1, <3>2, SMT
  <2>6. ASSUME NEW d \in Client, life'[d] = "registered"
        PROVE  m_id'[d] < Len(m_clients') /\ m_clients'[m_id'[d] + 1] = d
    <3>1. CASE d = c
      BY <1>0, <2>2, <2>3, <3>1, SMT
    <3>2. CASE d # c
      <4>1. m_id[d] < Len(m_clients) /\ m_clients[m_id[d] + 1] = d
        BY <2>3, <2>6, <3>2 DEF SlotInv, IdentifierIsSlot
      <4> QED BY <1>0, <2>2, <2>3, <3>2, <4>1, SMT
    <3> QED BY <3>1, <3>2
  <2>7. RequestHasSlot'
    BY <1>0, <2>1, <2>2, SMT DEF SlotInv, RequestHasSlot
  <2>8. IdentifierIsSlot'
    BY <2>5, <2>6 DEF IdentifierIsSlot
  <2>9. Kept
    BY <1>0, <2>2, SMT
  <2> QED BY <2>4, <2>7, <2>8, <2>9 DEF SlotInv
<1>2. ASSUME NEW c \in Client, onDisconnected(c)
      PROVE  SlotInv' /\ Kept
  <2>1. /\ life[c] = "registered"
        /\ m_clients' = [m_clients EXCEPT ![m_id[c] + 1] = NULL]
        /\ life' = [life EXCEPT ![c] = "disconnected"]
        /\ m_listeners' = m_listeners \ {c}
        /\ m_disconnectedClients' = m_disconnectedClients \cup {c}
        /\ m_id' = m_id /\ requests' \subseteq requests
    BY <1>2 DEF onDisconnected, onClientDisconnected
  <2>2. m_id[c] + 1 \in 1 .. Len(m_clients) /\ m_clients[m_id[c] + 1] = c
    BY <1>0, <2>1, SMT DEF SlotInv, IdentifierIsSlot
  <2>3. /\ Len(m_clients') = Len(m_clients)
        /\ \A i \in 1 .. Len(m_clients) :
             m_clients'[i] = IF i = m_id[c] + 1 THEN NULL ELSE m_clients[i]
    BY <2>1, <2>2, ExceptSeq, SMT DEF TypeOK
  <2>4. /\ life'[c] = "disconnected"
        /\ \A d \in Client \ {c} : life'[d] = life[d]
    BY <2>1 DEF TypeOK
  <2>5. StageIsListed'
    BY <2>1, <2>4 DEF SlotInv, StageIsListed
  <2>6. ASSUME NEW i \in 1 .. Len(m_clients'), m_clients'[i] # NULL
        PROVE  /\ life'[m_clients'[i]] = "registered"
               /\ m_id'[m_clients'[i]] = i - 1
    <3>1. m_clients'[i] = m_clients[i] /\ i # m_id[c] + 1
      BY <2>3, <2>6
    <3>2. /\ m_clients[i] \in Client /\ life[m_clients[i]] = "registered"
          /\ m_id[m_clients[i]] = i - 1
      BY <1>0, <2>3, <2>6, <3>1 DEF SlotInv, IdentifierIsSlot
    <3>3. m_clients[i] # c
      BY <1>0, <2>3, <3>1, <3>2, SMT
    <3> QED BY <2>1, <2>4, <3>1, <3>2, <3>3
  <2>7. ASSUME NEW d \in Client, life'[d] = "registered"
        PROVE  m_id'[d] < Len(m_clients') /\ m_clients'[m_id'[d] + 1] = d
    <3>1. d # c /\ life[d] = "registered"
      BY <2>4, <2>7
    <3>2. m_id[d] < Len(m_clients) /\ m_clients[m_id[d] + 1] = d
      BY <3>1 DEF SlotInv, IdentifierIsSlot
    <3>3. m_id[d] + 1 # m_id[c] + 1
      BY <2>2, <3>1, <3>2
    <3> QED BY <1>0, <2>1, <2>3, <3>2, <3>3, SMT
  <2>8. RequestHasSlot'
    BY <1>0, <2>1, <2>3, SMT DEF SlotInv, RequestHasSlot
  <2>9. IdentifierIsSlot'
    BY <2>6, <2>7 DEF IdentifierIsSlot
  <2>10. Kept
    BY <1>0, <2>3, SMT
  <2> QED BY <2>5, <2>8, <2>9, <2>10 DEF SlotInv
<1>3. ASSUME cleanDisconnectedClients
      PROVE  SlotInv' /\ Kept
  <2>1. /\ UNCHANGED <<m_clients, m_id, m_listeners, requests>>
        /\ m_disconnectedClients' = {}
        /\ \A d \in Client : life'[d] = IF life[d] = "disconnected"
                                        THEN "deleted" ELSE life[d]
    BY <1>3 DEF cleanDisconnectedClients, appVars, SlotInv, StageIsListed
  <2>2. StageIsListed'
    BY <2>1 DEF SlotInv, StageIsListed
  <2>3. IdentifierIsSlot'
    BY <1>0, <2>1 DEF SlotInv, IdentifierIsSlot
  <2>4. RequestHasSlot' /\ Kept
    BY <1>0, <2>1, SMT DEF SlotInv, RequestHasSlot
  <2> QED BY <2>2, <2>3, <2>4 DEF SlotInv
<1>4. ASSUME NEW c \in Client, NEW sid \in ServiceID, dispatchRequest(c, sid)
      PROVE  SlotInv' /\ Kept
  <2>1. /\ life[c] = "registered"
        /\ UNCHANGED connectionVars
        /\ \A r \in requests' :
             r \in requests \/ (r.clientIdentifier = m_id[c] /\ r.origin = c)
    BY <1>4, SMT DEF dispatchRequest, dispatcherVars, clientVars, connectionVars
  <2>2. m_id[c] < Len(m_clients) /\ m_clients[m_id[c] + 1] = c
    BY <2>1 DEF SlotInv, IdentifierIsSlot
  <2>3. RequestHasSlot'
    BY <2>1, <2>2 DEF SlotInv, RequestHasSlot, connectionVars
  <2>4. StageIsListed' /\ IdentifierIsSlot' /\ Kept
    BY <1>0, <2>1, SMT DEF SlotInv, StageIsListed, IdentifierIsSlot, connectionVars
  <2> QED BY <2>3, <2>4 DEF SlotInv
<1>5. ASSUME UNCHANGED connectionVars, requests' \subseteq requests
      PROVE  SlotInv' /\ Kept
  BY <1>0, <1>5, SMT DEF SlotInv, StageIsListed, IdentifierIsSlot, RequestHasSlot,
                    connectionVars
<1> QED BY <1>1, <1>2, <1>3, <1>4, <1>5, ConnectionSteps

\* The inductive argument behind the three theorems on identifiers.
THEOREM SlotInvariant == Spec => []SlotInv
<1>1. Init => SlotInv
  BY SMT DEF Init, SlotInv, StageIsListed, IdentifierIsSlot, RequestHasSlot
<1> QED BY <1>1, SlotStep, TypeCorrect, PTL DEF Spec

\* A client's identifier is its slot in m_clients, so the lookups by
\* identifier and the assertion of onClientDisconnected are right.
THEOREM IdentifiersAreSlots == Spec => []IdentifierIsSlot
<1>1. SlotInv => IdentifierIsSlot
  BY DEF SlotInv
<1> QED BY <1>1, SlotInvariant, PTL

\* Answers reach the requester or nobody.
THEOREM AnswersReachRequesters == Spec => []AnswerReachesRequester
<1>1. SlotInv => AnswerReachesRequester
  BY DEF SlotInv, RequestHasSlot, AnswerReachesRequester, getClientFromId
<1> QED BY <1>1, SlotInvariant, PTL

\* Slots, hence identifiers, are never given away twice.
THEOREM SlotsNotReused == Spec => SlotsAreNeverReused
<1> DEFINE Kept == /\ Len(m_clients') >= Len(m_clients)
                   /\ \A i \in 1 .. Len(m_clients) :
                        m_clients'[i] \in {m_clients[i], NULL}
<1>1. TypeOK /\ TypeOK' /\ SlotInv /\ [Next]_vars => [Kept]_vars
  <2> SUFFICES ASSUME TypeOK, TypeOK', SlotInv, [Next]_vars PROVE Kept
    OBVIOUS
  <2>1. Len(m_clients) \in Nat /\ Len(m_clients') \in Nat
    BY LenProperties DEF TypeOK
  <2> QED BY <2>1, SlotStep
<1> QED BY <1>1, SlotInvariant, TypeCorrect, PTL DEF Spec, SlotsAreNeverReused

-----------------------------------------------------------------------------
(* Services and their providers                                            *)

\* A registered service belongs to a registered client, which lists it; a
\* client lists only services of its own.
ServiceIsOwned ==
  /\ \A s \in m_services : /\ life[s.client] = "registered"
                           /\ s \in Range(m_registeredServices[s.client])
  /\ \A c \in Client :
       \A i \in 1 .. Len(m_registeredServices[c]) :
         m_registeredServices[c][i].client = c

ServiceInv == ServiceIsOwned /\ ProviderIsCurrent

\* The entries of the vector, as a set.
LEMMA EntriesOf ==
  ASSUME NEW S, NEW seq \in Seq(S)
  PROVE  \A s : s \in Range(seq) <=> \E i \in 1 .. Len(seq) : s = seq[i]
BY LenProperties DEF Range

\* push_back adds one entry.
LEMMA EntriesOfAppend ==
  ASSUME NEW S, NEW seq \in Seq(S), NEW e \in S
  PROVE  Range(Append(seq, e)) = Range(seq) \cup {e}
<1> DEFINE longer == Append(seq, e)
<1>1. /\ longer \in Seq(S) /\ Len(seq) \in Nat
      /\ Len(longer) = Len(seq) + 1
      /\ \A i \in 1 .. Len(seq) : longer[i] = seq[i]
      /\ longer[Len(seq) + 1] = e
  BY AppendProperties, LenProperties, SMT
<1> HIDE DEF longer
<1>2. \A s : s \in Range(seq) <=> \E i \in 1 .. Len(seq) : s = seq[i]
  BY EntriesOf
<1>3. \A s : s \in Range(longer) <=> \E i \in 1 .. Len(longer) : s = longer[i]
  BY <1>1, EntriesOf
<1>4. Range(longer) = Range(seq) \cup {e}
  BY <1>1, <1>2, <1>3, SMT
<1> QED BY <1>4 DEF longer

\* Only the entry erased can disappear from the vector.
LEMMA EntriesOfRemoveAt ==
  ASSUME NEW S, NEW seq \in Seq(S), NEW i \in 1 .. Len(seq)
  PROVE  /\ Range(erase(seq, i)) \subseteq Range(seq)
         /\ Range(seq) \ {seq[i]} \subseteq Range(erase(seq, i))
<1> DEFINE rest == erase(seq, i)
<1>1. /\ rest \in Seq(S) /\ Len(seq) \in Nat /\ Len(rest) = Len(seq) - 1
      /\ \A j \in 1 .. Len(seq) - 1 :
           rest[j] = IF j < i THEN seq[j] ELSE seq[j + 1]
  BY RemoveAtProperties, LenProperties
<1> HIDE DEF rest
<1>2. \A s : s \in Range(seq) <=> \E j \in 1 .. Len(seq) : s = seq[j]
  BY EntriesOf
<1>3. \A s : s \in Range(rest) <=> \E j \in 1 .. Len(seq) - 1 : s = rest[j]
  BY <1>1, EntriesOf, SMT
<1>4. ASSUME NEW s \in Range(rest) PROVE s \in Range(seq)
  <2>1. PICK j \in 1 .. Len(seq) - 1 : s = rest[j]
    BY <1>3
  <2>2. j \in 1 .. Len(seq) /\ j + 1 \in 1 .. Len(seq)
    BY <1>1, SMT
  <2> QED BY <1>1, <1>2, <2>1, <2>2
<1>5. ASSUME NEW s \in Range(seq), s # seq[i] PROVE s \in Range(rest)
  <2>1. PICK j \in 1 .. Len(seq) : s = seq[j]
    BY <1>2
  <2>2. CASE j < i
    <3>1. j \in 1 .. Len(seq) - 1 /\ rest[j] = seq[j]
      BY <1>1, <2>2, SMT
    <3> QED BY <1>3, <2>1, <3>1
  <2>3. CASE j > i
    <3>1. j - 1 \in 1 .. Len(seq) - 1 /\ ~(j - 1 < i) /\ (j - 1) + 1 = j
      BY <1>1, <2>3, SMT
    <3>2. rest[j - 1] = seq[j]
      BY <1>1, <3>1
    <3> QED BY <1>3, <2>1, <3>1, <3>2
  <2> QED BY <1>1, <1>5, <2>1, <2>2, <2>3, SMT
<1> QED BY <1>4, <1>5 DEF rest

\* A client lists only services of its own.
LEMMA OwnEntries ==
  ASSUME TypeOK, ServiceIsOwned, NEW c \in Client,
         NEW s \in Range(m_registeredServices[c])
  PROVE  s \in Service /\ s.client = c
<1>1. m_registeredServices[c] \in Seq(Service)
  BY DEF TypeOK
<1>2. PICK i \in 1 .. Len(m_registeredServices[c]) : s = m_registeredServices[c][i]
  BY <1>1, EntriesOf
<1> QED BY <1>1, <1>2, ElementOfSeq DEF ServiceIsOwned

serviceVars == <<m_services, m_registeredServices, m_notifications,
                 m_providerService, life>>

\* The handlers that change services, their lists or the Notifications.
LEMMA ServiceSteps ==
  ASSUME [Next]_vars
  PROVE  \/ \E c \in Client : createNewClientConnection(c) \/ onDisconnected(c)
         \/ cleanDisconnectedClients
         \/ \E c \in Client, sid \in ServiceID :
              registerService(c, sid) \/ unregisterService(c, sid)
         \/ \E m \in MemberIDs : /\ getOrCreateNotification(m)
                                 /\ UNCHANGED <<m_services, life,
                                                m_registeredServices>>
         \/ UNCHANGED serviceVars
<1> USE DEF serviceVars
<1>1. ASSUME NEW c \in Client, onNewClientAsserts(c)
      PROVE  UNCHANGED serviceVars
  BY <1>1 DEF onNewClientAsserts, clientVars
<1>2. ASSUME NEW c \in Client, NEW sid \in ServiceID, dispatchRequest(c, sid)
      PROVE  UNCHANGED serviceVars
  BY <1>2, ZenonT(30) DEF dispatchRequest, dispatcherVars, clientVars
<1>3. ASSUME NEW c \in Client, NEW m \in MemberIDs,
             subscribeToNotification(c, m) \/ dispatchNotification(c, m)
      PROVE  /\ getOrCreateNotification(m)
             /\ UNCHANGED <<m_services, life, m_registeredServices>>
  BY <1>3 DEF subscribeToNotification, dispatchNotification, clientVars
<1>4. ASSUME NEW r \in requests, dispatchReply(r)
      PROVE  UNCHANGED serviceVars
  BY <1>4 DEF dispatchReply, dispatcherVars, clientVars
<1>5. ASSUME UNCHANGED vars PROVE UNCHANGED serviceVars
  BY <1>5 DEF vars, dispatcherVars, clientVars
<1> QED BY <1>1, <1>2, <1>3, <1>4, <1>5 DEF Next

\* Every handler preserves the service invariant.
LEMMA ServiceStep ==
  ASSUME TypeOK, TypeOK', StageIsListed, ServiceInv, [Next]_vars
  PROVE  ServiceInv'
<1> DEFINE Lists(c) == Range(m_registeredServices[c])
<1>0. /\ m_services \in SUBSET Service
      /\ \A s \in m_services : s.client \in Client /\ s.serviceID \in ServiceID
      /\ \A c \in Client : m_registeredServices[c] \in Seq(Service)
      /\ \A m \in MemberIDs : m[1] \in ServiceID
      /\ \A c \in Client : \A s : s \in Lists(c)
           <=> \E i \in 1 .. Len(m_registeredServices[c]) :
                 s = m_registeredServices[c][i]
  BY EntriesOf, ZenonT(30) DEF TypeOK, Service, MemberIDs
<1>1. ASSUME NEW c \in Client, createNewClientConnection(c)
      PROVE  ServiceInv'
  <2>1. /\ UNCHANGED <<m_services, m_registeredServices, m_notifications,
                       m_providerService>>
        /\ \A d \in Client : life[d] = "registered" => life'[d] = "registered"
    BY <1>1 DEF createNewClientConnection, TypeOK
  <2> QED
    BY <1>0, <2>1 DEF ServiceInv, ServiceIsOwned, ProviderIsCurrent, getService
<1>2. ASSUME NEW c \in Client, onDisconnected(c)
      PROVE  ServiceInv'
  <2>1. /\ m_services' = m_services \ Lists(c)
        /\ m_providerService' =
             [m \in MemberIDs |-> IF m_providerService[m] \in Lists(c)
                                  THEN NULL ELSE m_providerService[m]]
        /\ UNCHANGED <<m_registeredServices, m_notifications>>
        /\ \A d \in Client \ {c} : life'[d] = life[d]
    BY <1>2, ZenonT(30) DEF onDisconnected, eraseServices, TypeOK
  <2>2. \A s \in m_services' : s \in m_services /\ s.client # c
    BY <1>0, <2>1, ZenonT(30) DEF ServiceInv, ServiceIsOwned
  <2>3. ServiceIsOwned'
    BY <1>0, <2>1, <2>2 DEF ServiceInv, ServiceIsOwned
  <2>4. \A s, t \in m_services' : s.serviceID = t.serviceID => s = t
    BY <2>2 DEF ServiceInv, ProviderIsCurrent
  <2>5. ASSUME NEW m \in m_notifications'
        PROVE  m_providerService'[m] = findService(m_services', m[1])
    <3>1. m \in MemberIDs /\ m_providerService[m] = findService(m_services, m[1])
      BY <2>1, <2>5 DEF ServiceInv, ProviderIsCurrent, getService, TypeOK
    <3>2. CASE m_providerService[m] \in Lists(c)
      <4>1. m_providerService[m] # NULL
        BY <1>0, <3>2, NullAssumption, ElementOfSeq, SMT
      <4>2. /\ m_providerService[m] \in m_services
            /\ m_providerService[m].serviceID = m[1]
        BY <1>0, <3>1, <4>1, FindService, SMT
      <4>3. \A s \in m_services' : s.serviceID # m[1]
        BY <2>1, <2>2, <3>2, <4>2 DEF ServiceInv, ProviderIsCurrent
      <4>4. findService(m_services', m[1]) = NULL
        BY <1>0, <2>1, <4>3, FindService, ZenonT(30)
      <4> QED BY <2>1, <3>1, <3>2, <4>4
    <3>3. CASE m_providerService[m] \notin Lists(c)
      <4>1. \A s \in m_services : s.serviceID = m[1] => s = m_providerService[m]
        BY <1>0, <3>1, FindUnique DEF ServiceInv, ProviderIsCurrent
      <4>2. \A s \in Service : s.serviceID = m[1] =>
              (s \in m_services <=> s \in m_services')
        BY <2>1, <3>3, <4>1
      <4>3. m_services \in SUBSET Service /\ m_services' \in SUBSET Service
        BY <1>0, <2>1
      <4>4. findService(m_services', m[1]) = findService(m_services, m[1])
        BY <2>4, <4>2, <4>3, FindKept
      <4> QED BY <2>1, <3>1, <3>3, <4>4
    <3> QED BY <3>2, <3>3
  <2> QED BY <2>3, <2>4, <2>5 DEF ServiceInv, ProviderIsCurrent, getService
<1>3. ASSUME cleanDisconnectedClients
      PROVE  ServiceInv'
  <2>1. /\ UNCHANGED <<m_services, m_notifications, m_providerService>>
        /\ \A d \in Client :
             /\ life[d] = "registered" =>
                  /\ life'[d] = "registered"
                  /\ m_registeredServices'[d] = m_registeredServices[d]
             /\ m_registeredServices'[d] \in {<<>>, m_registeredServices[d]}
    BY <1>3 DEF cleanDisconnectedClients, StageIsListed
  <2>2. \A i \in 1 .. Len(<<>>) : FALSE
    BY SMT
  <2>3. ServiceIsOwned'
    BY <1>0, <2>1, <2>2 DEF ServiceInv, ServiceIsOwned
  <2> QED BY <2>1, <2>3 DEF ServiceInv, ProviderIsCurrent, getService
<1>4. ASSUME NEW c \in Client, NEW sid \in ServiceID, registerService(c, sid),
             registerNewService(c, sid)
      PROVE  ServiceInv'
  <2> DEFINE service == [serviceID |-> sid, client |-> c,
                         address |-> allocated]
  <2>1. /\ service \in Service
        /\ service.serviceID = sid /\ service.client = c
    BY DEF Service, TypeOK
  <2>2. /\ getService(sid) = NULL
        /\ m_services' = m_services \cup {service}
        /\ m_providerService' =
             [m \in MemberIDs |-> IF m \in m_notifications /\ m[1] = sid
                                  THEN service ELSE m_providerService[m]]
        /\ m_registeredServices' =
             [m_registeredServices EXCEPT ![c] = Append(@, service)]
        /\ life[c] = "registered" /\ life' = life
        /\ m_notifications' = m_notifications
    BY <1>4 DEF registerService, registerNewService
  <2> HIDE DEF service
  <2>3. \A s \in m_services : s.serviceID # sid
    BY <1>0, <2>2, FindService DEF getService
  <2>4. /\ m_registeredServices'[c] = Append(m_registeredServices[c], service)
        /\ \A d \in Client \ {c} :
             m_registeredServices'[d] = m_registeredServices[d]
    BY <2>2 DEF TypeOK
  <2>5. Range(m_registeredServices'[c]) = Lists(c) \cup {service}
    BY <1>0, <2>1, <2>4, EntriesOfAppend, SMT
  <2>6. ASSUME NEW d \in Client,
               NEW i \in 1 .. Len(m_registeredServices'[d])
        PROVE  m_registeredServices'[d][i].client = d
    <3>1. CASE d = c
      <4>1. m_registeredServices'[c] \in Seq(Service)
        BY DEF TypeOK
      <4>2. m_registeredServices'[c][i] \in Lists(c) \cup {service}
        BY <2>5, <3>1, <4>1, EntriesOf
      <4> QED BY <2>1, <3>1, <4>2, OwnEntries DEF ServiceInv
    <3>2. CASE d # c
      BY <2>4, <2>6, <3>2 DEF ServiceInv, ServiceIsOwned
    <3> QED BY <3>1, <3>2
  <2>7. ASSUME NEW s \in m_services'
        PROVE  /\ life'[s.client] = "registered"
               /\ s \in Range(m_registeredServices'[s.client])
    <3>1. CASE s = service
      BY <2>1, <2>2, <2>5, <3>1
    <3>2. CASE s \in m_services
      <4>1. /\ s.client \in Client /\ life[s.client] = "registered"
            /\ s \in Lists(s.client)
        BY <1>0, <3>2 DEF ServiceInv, ServiceIsOwned
      <4> QED BY <2>2, <2>4, <2>5, <4>1
    <3> QED BY <2>2, <3>1, <3>2
  <2>8. \A s, t \in m_services' : s.serviceID = t.serviceID => s = t
    BY <2>1, <2>2, <2>3 DEF ServiceInv, ProviderIsCurrent
  <2>9. ASSUME NEW m \in m_notifications'
        PROVE  m_providerService'[m] = findService(m_services', m[1])
    <3>0. /\ m \in MemberIDs /\ m \in m_notifications
          /\ m_providerService[m] = findService(m_services, m[1])
          /\ m_services' \in SUBSET Service
      BY <2>2, <2>9 DEF ServiceInv, ProviderIsCurrent, getService, TypeOK
    <3>1. CASE m[1] = sid
      <4>1. findService(m_services', sid) = service
        BY <2>1, <2>2, <2>8, <3>0, FindUnique, ZenonT(30)
      <4> QED BY <2>2, <3>0, <3>1, <4>1
    <3>2. CASE m[1] # sid
      <4>1. \A s \in Service : s.serviceID = m[1] =>
              (s \in m_services <=> s \in m_services')
        BY <2>1, <2>2, <3>2
      <4>2. m_services \in SUBSET Service /\ m_services' \in SUBSET Service
        BY <1>0, <3>0
      <4>3. findService(m_services', m[1]) = findService(m_services, m[1])
        BY <2>8, <4>1, <4>2, FindKept
      <4> QED BY <2>2, <3>0, <3>2, <4>3
    <3> QED BY <3>1, <3>2
  <2>10. ServiceIsOwned'
    BY <2>6, <2>7 DEF ServiceIsOwned
  <2> QED BY <2>8, <2>9, <2>10 DEF ServiceInv, ProviderIsCurrent, getService
<1>5. ASSUME NEW c \in Client, NEW sid \in ServiceID, registerService(c, sid),
             registerOwnServiceAgain(c, sid)
      PROVE  ServiceInv'
  <2> DEFINE service == getService(sid)
  <2>1. /\ service # NULL /\ service.client = c
        /\ m_registeredServices' =
             [m_registeredServices EXCEPT ![c] = Append(@, service)]
        /\ UNCHANGED <<m_services, m_providerService, m_notifications, life>>
    BY <1>5 DEF registerService, registerOwnServiceAgain
  <2>2. service \in Service
    BY <1>0, <2>1, FindService DEF getService
  <2> HIDE DEF service
  <2>3. /\ m_registeredServices'[c] = Append(m_registeredServices[c], service)
        /\ \A d \in Client \ {c} :
             m_registeredServices'[d] = m_registeredServices[d]
    BY <2>1 DEF TypeOK
  <2>4. Range(m_registeredServices'[c]) = Lists(c) \cup {service}
    BY <1>0, <2>2, <2>3, EntriesOfAppend, SMT
  <2>5. ASSUME NEW d \in Client,
               NEW i \in 1 .. Len(m_registeredServices'[d])
        PROVE  m_registeredServices'[d][i].client = d
    <3>1. CASE d = c
      <4>1. m_registeredServices'[c] \in Seq(Service)
        BY DEF TypeOK
      <4>2. m_registeredServices'[c][i] \in Lists(c) \cup {service}
        BY <2>4, <3>1, <4>1, EntriesOf
      <4> QED BY <2>1, <3>1, <4>2, OwnEntries DEF ServiceInv
    <3>2. CASE d # c
      BY <2>3, <2>5, <3>2 DEF ServiceInv, ServiceIsOwned
    <3> QED BY <3>1, <3>2
  <2>6. \A s \in m_services' : /\ life'[s.client] = "registered"
                               /\ s \in Range(m_registeredServices'[s.client])
    BY <1>0, <2>1, <2>3, <2>4 DEF ServiceInv, ServiceIsOwned
  <2>7. ServiceIsOwned'
    BY <2>5, <2>6 DEF ServiceIsOwned
  <2> QED BY <2>1, <2>7 DEF ServiceInv, ProviderIsCurrent, getService
<1>6. ASSUME NEW c \in Client, NEW sid \in ServiceID, unregisterService(c, sid)
      PROVE  ServiceInv'
  <2>1. PICK i \in 1 .. Len(m_registeredServices[c]) :
          /\ m_registeredServices[c][i].serviceID = sid
          /\ m_services' = m_services \ {m_registeredServices[c][i]}
          /\ m_providerService' =
               [m \in MemberIDs |->
                  IF m_providerService[m] = m_registeredServices[c][i]
                  THEN NULL ELSE m_providerService[m]]
          /\ m_registeredServices' =
               [m_registeredServices EXCEPT ![c] = erase(@, i)]
    BY <1>6, ZenonT(30) DEF unregisterService, eraseServices
  <2> DEFINE service == m_registeredServices[c][i]
  <2>2. service \in Service /\ service # NULL
    BY <1>0, <2>1, ElementOfSeq, NullAssumption, SMT
  <2>3. UNCHANGED <<m_notifications, life>>
    BY <1>6 DEF unregisterService, eraseServices
  <2>4. /\ m_registeredServices'[c] = erase(m_registeredServices[c], i)
        /\ \A d \in Client \ {c} :
             m_registeredServices'[d] = m_registeredServices[d]
    BY <2>1 DEF TypeOK
  <2>5. /\ Range(m_registeredServices'[c]) \subseteq Lists(c)
        /\ Lists(c) \ {service} \subseteq Range(m_registeredServices'[c])
    BY <1>0, <2>4, EntriesOfRemoveAt, SMT
  <2> HIDE DEF service
  <2>6. ASSUME NEW d \in Client,
               NEW j \in 1 .. Len(m_registeredServices'[d])
        PROVE  m_registeredServices'[d][j].client = d
    <3>1. CASE d = c
      <4>1. m_registeredServices'[c] \in Seq(Service)
        BY DEF TypeOK
      <4>2. m_registeredServices'[c][j] \in Lists(c)
        BY <2>5, <3>1, <4>1, EntriesOf
      <4> QED BY <3>1, <4>2, OwnEntries DEF ServiceInv
    <3>2. CASE d # c
      BY <2>4, <2>6, <3>2 DEF ServiceInv, ServiceIsOwned
    <3> QED BY <3>1, <3>2
  <2>7. \A s \in m_services' : /\ life'[s.client] = "registered"
                               /\ s \in Range(m_registeredServices'[s.client])
    BY <1>0, <2>1, <2>3, <2>4, <2>5, ZenonT(30) DEF ServiceInv, ServiceIsOwned, service
  <2>8. \A s, t \in m_services' : s.serviceID = t.serviceID => s = t
    BY <2>1 DEF ServiceInv, ProviderIsCurrent
  <2>9. ASSUME NEW m \in m_notifications'
        PROVE  m_providerService'[m] = findService(m_services', m[1])
    <3>0. /\ m \in MemberIDs
          /\ m_providerService[m] = findService(m_services, m[1])
          /\ m_services' \in SUBSET Service
      BY <2>3, <2>9 DEF ServiceInv, ProviderIsCurrent, getService, TypeOK
    <3>1. CASE m_providerService[m] = service
      <4>0. findService(m_services, m[1]) = service
        BY <3>0, <3>1
      <4>1. service \in m_services /\ service.serviceID = m[1]
        BY <1>0, <2>2, <4>0, FindService
      <4>2. \A s \in m_services' : s.serviceID # m[1]
        BY <2>1, <4>1 DEF ServiceInv, ProviderIsCurrent, service
      <4>3. findService(m_services', m[1]) = NULL
        BY <3>0, <4>2, FindService
      <4> QED BY <2>1, <3>0, <3>1, <4>3 DEF service
    <3>2. CASE m_providerService[m] # service
      <4>1. \A s \in m_services : s.serviceID = m[1] => s = m_providerService[m]
        BY <1>0, <3>0, FindUnique DEF ServiceInv, ProviderIsCurrent
      <4>2. \A s \in Service : s.serviceID = m[1] =>
              (s \in m_services <=> s \in m_services')
        BY <2>1, <3>2, <4>1 DEF service
      <4>3. m_services \in SUBSET Service /\ m_services' \in SUBSET Service
        BY <1>0, <3>0
      <4>4. findService(m_services', m[1]) = findService(m_services, m[1])
        BY <2>8, <4>2, <4>3, FindKept
      <4> QED BY <2>1, <3>0, <3>2, <4>4 DEF service
    <3> QED BY <3>1, <3>2
  <2>10. ServiceIsOwned'
    BY <2>6, <2>7 DEF ServiceIsOwned
  <2> QED BY <2>8, <2>9, <2>10 DEF ServiceInv, ProviderIsCurrent, getService
<1>7. ASSUME NEW m \in MemberIDs, getOrCreateNotification(m),
             UNCHANGED <<m_services, life, m_registeredServices>>
      PROVE  ServiceInv'
  <2>1. ServiceIsOwned'
    BY <1>7 DEF ServiceInv, ServiceIsOwned
  <2>2. \A n \in m_notifications' : m_providerService'[n] = getService(n[1])
    BY <1>7 DEF ServiceInv, ProviderIsCurrent, getOrCreateNotification, TypeOK
  <2> QED BY <1>7, <2>1, <2>2 DEF ServiceInv, ProviderIsCurrent, getService
<1>8. ASSUME UNCHANGED serviceVars PROVE ServiceInv'
  BY <1>8 DEF ServiceInv, ServiceIsOwned, ProviderIsCurrent, getService,
              serviceVars
<1> QED
  BY <1>1, <1>2, <1>3, <1>4, <1>5, <1>6, <1>7, <1>8, ServiceSteps
     DEF registerService

\* The inductive invariant of registration and unregistration: a registered
\* Service belongs to a connected client that lists it, no two Services have
\* the same identifiers, and every Notification points at the current one.
THEOREM ServiceInvariant == Spec => []ServiceInv
<1>1. Init => ServiceInv
  <2> SUFFICES ASSUME Init PROVE ServiceInv
    OBVIOUS
  <2>1. \A i \in 1 .. Len(<<>>) : FALSE
    BY SMT
  <2> QED BY <2>1 DEF Init, ServiceInv, ServiceIsOwned, ProviderIsCurrent
<1>2. TypeOK /\ TypeOK' /\ SlotInv /\ ServiceInv /\ [Next]_vars => ServiceInv'
  BY ServiceStep DEF SlotInv
<1> QED BY <1>1, <1>2, SlotInvariant, TypeCorrect, PTL DEF Spec

\* A service has one provider, and every Notification points at it.
THEOREM ProvidersAreCurrent == Spec => []ProviderIsCurrent
<1>1. ServiceInv => ProviderIsCurrent
  BY DEF ServiceInv
<1> QED BY <1>1, ServiceInvariant, PTL

-----------------------------------------------------------------------------
(* Subscriptions                                                           *)

\* The two sides of a subscription agree: a Notification counts as many
\* subscriptions of a client as the client does, and none once it has left.
SubscriptionInv ==
  \A c \in Client, m \in MemberIDs :
    /\ m_subscribedClients[m][c] =
         IF life[c] = "registered" THEN m_subscribedNotifications[c][m] ELSE 0
    /\ life[c] = "new" => m_subscribedNotifications[c][m] = 0

subscriptionVars == <<m_subscribedClients, m_subscribedNotifications, life>>

\* The handlers that change subscriptions or the life of a client.
LEMMA SubscriptionSteps ==
  ASSUME [Next]_vars
  PROVE  \/ \E c \in Client : createNewClientConnection(c) \/ onDisconnected(c)
         \/ cleanDisconnectedClients
         \/ \E c \in Client, m \in MemberIDs : subscribeToNotification(c, m)
         \/ UNCHANGED subscriptionVars
<1> USE DEF subscriptionVars
<1>1. ASSUME NEW c \in Client, onNewClientAsserts(c)
      PROVE  UNCHANGED subscriptionVars
  BY <1>1 DEF onNewClientAsserts, clientVars
<1>2. ASSUME NEW c \in Client, NEW sid \in ServiceID,
             \/ registerService(c, sid)
             \/ unregisterService(c, sid)
             \/ dispatchRequest(c, sid)
      PROVE  UNCHANGED subscriptionVars
  BY <1>2 DEF registerService, unregisterService, dispatchRequest,
              dispatcherVars, clientVars
<1>3. ASSUME NEW c \in Client, NEW m \in MemberIDs, dispatchNotification(c, m)
      PROVE  UNCHANGED subscriptionVars
  BY <1>3 DEF dispatchNotification, clientVars
<1>4. ASSUME NEW r \in requests, dispatchReply(r)
      PROVE  UNCHANGED subscriptionVars
  BY <1>4 DEF dispatchReply, dispatcherVars, clientVars
<1>5. ASSUME UNCHANGED vars PROVE UNCHANGED subscriptionVars
  BY <1>5 DEF vars, dispatcherVars, clientVars
<1> QED BY <1>1, <1>2, <1>3, <1>4, <1>5 DEF Next

\* Every handler preserves the subscription invariant.
LEMMA SubscriptionStep ==
  ASSUME TypeOK, StageIsListed, SubscriptionInv, [Next]_vars
  PROVE  SubscriptionInv'
<1>0. /\ \A c \in Client, m \in MemberIDs :
           /\ m_subscribedClients[m][c] \in Nat
           /\ m_subscribedNotifications[c][m] \in Nat
      /\ \A m \in MemberIDs : m_subscribedClients[m] \in [Client -> Nat]
  BY SMT DEF TypeOK
<1>1. ASSUME NEW c \in Client, createNewClientConnection(c)
      PROVE  SubscriptionInv'
  <2>1. /\ UNCHANGED <<m_subscribedClients, m_subscribedNotifications>>
        /\ life[c] = "new" /\ life'[c] = "registered"
        /\ \A d \in Client \ {c} : life'[d] = life[d]
    BY <1>1 DEF createNewClientConnection, TypeOK
  <2> QED BY <2>1, SMT DEF SubscriptionInv
<1>2. ASSUME NEW c \in Client, onDisconnected(c)
      PROVE  SubscriptionInv'
  <2>1. /\ m_subscribedNotifications' = m_subscribedNotifications
        /\ life[c] = "registered" /\ life'[c] = "disconnected"
        /\ \A d \in Client \ {c} : life'[d] = life[d]
    BY <1>2 DEF onDisconnected, TypeOK
  <2>2. ASSUME NEW m \in MemberIDs
        PROVE  /\ m_subscribedClients'[m][c] = 0
               /\ \A d \in Client \ {c} :
                    m_subscribedClients'[m][d] = m_subscribedClients[m][d]
    <3>1. m_subscribedClients'[m] =
            [m_subscribedClients[m] EXCEPT ![c] =
               IF @ >= m_subscribedNotifications[c][m]
               THEN @ - m_subscribedNotifications[c][m] ELSE 0]
      BY <1>2 DEF onDisconnected, unsubscribe
    <3>2. m_subscribedClients[m][c] = m_subscribedNotifications[c][m]
      BY <2>1 DEF SubscriptionInv
    <3> QED BY <1>0, <3>1, <3>2, SMT
  <2> QED BY <2>1, <2>2, SMT DEF SubscriptionInv
<1>3. ASSUME cleanDisconnectedClients
      PROVE  SubscriptionInv'
  <2>1. \A d \in Client :
          IF life[d] = "disconnected"
          THEN life'[d] = "deleted"
          ELSE /\ life'[d] = life[d]
               /\ m_subscribedNotifications'[d] = m_subscribedNotifications[d]
    BY <1>3 DEF cleanDisconnectedClients, StageIsListed
  <2>2. m_subscribedClients' = m_subscribedClients
    BY <1>3 DEF cleanDisconnectedClients
  <2> QED BY <2>1, <2>2, SMT DEF SubscriptionInv
<1>4. ASSUME NEW c \in Client, NEW m \in MemberIDs,
             subscribeToNotification(c, m)
      PROVE  SubscriptionInv'
  <2>1. /\ m_subscribedClients' = [m_subscribedClients EXCEPT ![m][c] = @ + 1]
        /\ m_subscribedNotifications' =
             [m_subscribedNotifications EXCEPT ![c][m] = @ + 1]
        /\ life[c] = "registered" /\ life' = life
    BY <1>4 DEF subscribeToNotification
  <2>2. \A d \in Client, n \in MemberIDs :
          /\ m_subscribedClients'[n][d] =
               IF d = c /\ n = m THEN m_subscribedClients[m][c] + 1
                                 ELSE m_subscribedClients[n][d]
          /\ m_subscribedNotifications'[d][n] =
               IF d = c /\ n = m THEN m_subscribedNotifications[c][m] + 1
                                 ELSE m_subscribedNotifications[d][n]
    BY <2>1, SMTT(30) DEF TypeOK
  <2> QED BY <2>1, <2>2, SMT DEF SubscriptionInv
<1>5. ASSUME UNCHANGED subscriptionVars PROVE SubscriptionInv'
  BY <1>5 DEF SubscriptionInv, subscriptionVars
<1> QED BY <1>1, <1>2, <1>3, <1>4, <1>5, SubscriptionSteps

\* The Notifications and the clients agree on the subscriptions, which
\* Client::unregisterClient relies on to undo all of them.
THEOREM SubscriptionInvariant == Spec => []SubscriptionInv
<1>1. Init => SubscriptionInv
  BY SMT DEF Init, SubscriptionInv
<1>2. TypeOK /\ SlotInv /\ SubscriptionInv /\ [Next]_vars => SubscriptionInv'
  BY SubscriptionStep DEF SlotInv
<1> QED BY <1>1, <1>2, SlotInvariant, TypeCorrect, PTL DEF Spec

\* When the object of a client is deleted nothing refers to it any more: not
\* the listeners, the slots, the subscribers of a Notification or a Service.
THEOREM NoClientDangles == Spec => []NoDanglingClient
<1>1. TypeOK /\ SlotInv /\ ServiceInv /\ SubscriptionInv => NoDanglingClient
  <2> SUFFICES ASSUME TypeOK, SlotInv, ServiceInv, SubscriptionInv,
                      NEW c \in Client, life[c] = "deleted"
               PROVE  /\ c \notin m_listeners
                      /\ c \notin m_disconnectedClients
                      /\ c \notin Range(m_clients)
                      /\ \A m \in MemberIDs : m_subscribedClients[m][c] = 0
                      /\ \A s \in m_services : s.client # c
    BY DEF NoDanglingClient
  <2>1. c \notin m_listeners /\ c \notin m_disconnectedClients
    BY DEF SlotInv, StageIsListed
  <2>2. c \notin Range(m_clients)
    <3>1. \A s : s \in Range(m_clients)
                   <=> \E i \in 1 .. Len(m_clients) : s = m_clients[i]
      BY EntriesOf DEF TypeOK
    <3> QED BY <3>1, NullAssumption, SMT DEF SlotInv, IdentifierIsSlot
  <2>3. \A m \in MemberIDs : m_subscribedClients[m][c] = 0
    BY DEF SubscriptionInv
  <2>4. \A s \in m_services : s.client # c
    BY DEF ServiceInv, ServiceIsOwned
  <2> QED BY <2>1, <2>2, <2>3, <2>4
<1> QED
  BY <1>1, TypeCorrect, SlotInvariant, ServiceInvariant, SubscriptionInvariant,
     PTL

-----------------------------------------------------------------------------
(* The dispatcher implements ProviderRegistry                              *)

\* The client that owns sid among "services".
owner(services, sid) == IF findService(services, sid) = NULL
                        THEN NULL ELSE findService(services, sid).client

\* The owner of a service, where services have distinct identifiers.
LEMMA OwnerOf ==
  ASSUME NEW services \in SUBSET Service, NEW sid,
         \A t, u \in services : t.serviceID = u.serviceID => t = u
  PROVE  /\ \A s \in services : s.serviceID = sid
                                  => owner(services, sid) = s.client
         /\ (\A s \in services : s.serviceID # sid) => owner(services, sid) = NULL
<1>1. ASSUME NEW s \in services, s.serviceID = sid
      PROVE  owner(services, sid) = s.client
  <2>1. findService(services, sid) = s
    BY <1>1, FindUnique
  <2>2. s # NULL
    BY NullAssumption
  <2> QED BY <2>1, <2>2 DEF owner
<1>2. ASSUME \A s \in services : s.serviceID # sid
      PROVE  owner(services, sid) = NULL
  BY <1>2, FindService DEF owner
<1> QED BY <1>1, <1>2

\* Every handler is a step of ProviderRegistry, or changes nothing it shows.
LEMMA RegistryStep ==
  ASSUME TypeOK, TypeOK', SlotInv, ServiceInv, ServiceInv', [Next]_vars
  PROVE  [Registry!Next]_<<providerOf, departed>>
<1> DEFINE Stutters == UNCHANGED <<providerOf, departed>>
<1>0. /\ m_services \in SUBSET Service /\ m_services' \in SUBSET Service
      /\ \A t, u \in m_services : t.serviceID = u.serviceID => t = u
      /\ \A t, u \in m_services' : t.serviceID = u.serviceID => t = u
      /\ \A s \in m_services : s.client \in Client
  BY SMTT(30) DEF TypeOK, ServiceInv, ProviderIsCurrent, Service
<1>a. providerOf = [sid \in ServiceID |-> owner(m_services, sid)]
  BY DEF providerOf, owner, getService
<1>b. providerOf' = [sid \in ServiceID |-> owner(m_services', sid)]
  BY DEF providerOf, owner, getService
<1>1. ASSUME NEW c \in Client, createNewClientConnection(c) PROVE Stutters
  <2>1. /\ m_services' = m_services
        /\ life[c] = "new" /\ life'[c] = "registered"
        /\ \A d \in Client \ {c} : life'[d] = life[d]
    BY <1>1 DEF createNewClientConnection, TypeOK
  <2>2. departed' = departed
    BY <2>1 DEF departed
  <2> QED BY <1>a, <1>b, <2>1, <2>2
<1>2. ASSUME cleanDisconnectedClients PROVE Stutters
  <2>1. /\ m_services' = m_services
        /\ \A d \in Client : life'[d] = IF life[d] = "disconnected"
                                        THEN "deleted" ELSE life[d]
    BY <1>2 DEF cleanDisconnectedClients, SlotInv, StageIsListed
  <2>2. departed' = departed
    BY <2>1 DEF departed
  <2> QED BY <1>a, <1>b, <2>1, <2>2
<1>3. ASSUME NEW c \in Client, onDisconnected(c) PROVE Registry!Leave(c)
  <2>1. /\ m_services' = m_services \ Range(m_registeredServices[c])
        /\ life[c] = "registered" /\ life'[c] = "disconnected"
        /\ \A d \in Client \ {c} : life'[d] = life[d]
    BY <1>3 DEF onDisconnected, eraseServices, TypeOK
  <2>2. c \notin departed /\ departed' = departed \cup {c}
    BY <2>1 DEF departed
  <2>3. m_services' = {s \in m_services : s.client # c}
    <3>1. \A s \in m_services : s.client = c
                                  => s \in Range(m_registeredServices[c])
      BY DEF ServiceInv, ServiceIsOwned
    <3>2. \A s \in Range(m_registeredServices[c]) : s.client = c
      BY OwnEntries DEF ServiceInv
    <3> QED BY <2>1, <3>1, <3>2
  <2>4. ASSUME NEW sid \in ServiceID
        PROVE  owner(m_services', sid) =
                 IF owner(m_services, sid) = c
                 THEN NULL ELSE owner(m_services, sid)
    <3>1. CASE \A s \in m_services : s.serviceID # sid
      BY <1>0, <2>3, <3>1, NullAssumption, OwnerOf, SMT
    <3>2. CASE \E s \in m_services : s.serviceID = sid
      <4>1. PICK s \in m_services : s.serviceID = sid
        BY <3>2
      <4>2. owner(m_services, sid) = s.client
        BY <1>0, <4>1, OwnerOf
      <4>3. CASE s.client = c
        <5>1. \A t \in m_services' : t.serviceID # sid
          BY <1>0, <2>3, <4>1, <4>3
        <5>2. owner(m_services', sid) = NULL
          BY <1>0, <5>1, OwnerOf
        <5> QED BY <4>2, <4>3, <5>2
      <4>4. CASE s.client # c
        <5>1. s \in m_services'
          BY <2>3, <4>4
        <5>2. owner(m_services', sid) = s.client
          BY <1>0, <4>1, <5>1, OwnerOf
        <5> QED BY <4>2, <4>4, <5>2
      <4> QED BY <4>3, <4>4
    <3> QED BY <3>1, <3>2
  <2>5. providerOf' = [sid \in ServiceID |-> IF providerOf[sid] = c
                                             THEN NULL ELSE providerOf[sid]]
    BY <1>a, <1>b, <2>4
  <2> QED BY <2>2, <2>5 DEF Registry!Leave
<1>4. ASSUME NEW c \in Client, NEW sid \in ServiceID, registerService(c, sid),
             registerNewService(c, sid)
      PROVE  Registry!Claim(c, sid)
  <2> DEFINE service == [serviceID |-> sid, client |-> c,
                         address |-> allocated]
  <2>1. /\ getService(sid) = NULL
        /\ m_services' = m_services \cup {service}
        /\ life[c] = "registered" /\ life' = life
    BY <1>4 DEF registerService, registerNewService
  <2>2. service.serviceID = sid /\ service.client = c
    OBVIOUS
  <2> HIDE DEF service
  <2>3. c \notin departed /\ departed' = departed
    BY <2>1 DEF departed
  <2>4. owner(m_services, sid) = NULL
    BY <2>1 DEF owner, getService
  <2>5. owner(m_services', sid) = c
    BY <1>0, <2>1, <2>2, OwnerOf, SMT
  <2>6. ASSUME NEW x \in ServiceID, x # sid
        PROVE  owner(m_services', x) = owner(m_services, x)
    <3>1. findService(m_services', x) = findService(m_services, x)
      BY <1>0, <2>1, <2>2, <2>6, FindKept, SMT
    <3> QED BY <3>1 DEF owner
  <2>7. providerOf' = [providerOf EXCEPT ![sid] = c]
    BY <1>a, <1>b, <2>5, <2>6
  <2> QED BY <1>a, <2>3, <2>4, <2>7 DEF Registry!Claim
<1>5. ASSUME NEW c \in Client, NEW sid \in ServiceID, registerService(c, sid),
             registerOwnServiceAgain(c, sid)
      PROVE  Stutters
  BY <1>5, <1>a, <1>b DEF registerService, registerOwnServiceAgain, departed
<1>6. ASSUME NEW c \in Client, NEW sid \in ServiceID, unregisterService(c, sid)
      PROVE  Registry!Release(c, sid) \/ Stutters
  <2>1. PICK i \in 1 .. Len(m_registeredServices[c]) :
          /\ m_registeredServices[c][i].serviceID = sid
          /\ m_services' = m_services \ {m_registeredServices[c][i]}
    BY <1>6 DEF unregisterService, eraseServices
  <2> DEFINE service == m_registeredServices[c][i]
  <2>2. service.client = c /\ service.serviceID = sid
    BY <2>1 DEF ServiceInv, ServiceIsOwned
  <2>3. m_services' = m_services \ {service}
    BY <2>1
  <2>4. departed' = departed
    BY <1>6 DEF unregisterService, eraseServices, departed
  <2> HIDE DEF service
  <2>5. CASE service \notin m_services
    <3>1. m_services' = m_services
      BY <2>3, <2>5
    <3> QED BY <1>a, <1>b, <2>4, <3>1
  <2>6. CASE service \in m_services
    <3>1. owner(m_services, sid) = c
      BY <1>0, <2>2, <2>6, OwnerOf
    <3>2. \A s \in m_services' : s.serviceID # sid
      BY <1>0, <2>2, <2>3, <2>6
    <3>3. owner(m_services', sid) = NULL
      BY <1>0, <3>2, OwnerOf
    <3>4. ASSUME NEW x \in ServiceID, x # sid
          PROVE  owner(m_services', x) = owner(m_services, x)
      <4>1. findService(m_services', x) = findService(m_services, x)
        BY <1>0, <2>2, <2>3, <3>4, FindKept, SMT
      <4> QED BY <4>1 DEF owner
    <3>5. providerOf' = [providerOf EXCEPT ![sid] = NULL]
      BY <1>a, <1>b, <3>3, <3>4
    <3> QED BY <1>a, <2>4, <3>1, <3>5 DEF Registry!Release
  <2> QED BY <2>5, <2>6
<1>7. ASSUME UNCHANGED <<m_services, life>> PROVE Stutters
  BY <1>7, <1>a, <1>b DEF departed
<1>8. ASSUME UNCHANGED serviceVars PROVE Stutters
  BY <1>7, <1>8 DEF serviceVars
<1> QED
  BY <1>1, <1>2, <1>3, <1>4, <1>5, <1>6, <1>7, <1>8, ServiceSteps
     DEF registerService, Registry!Next

\* The dispatcher implements ProviderRegistry: a service has at most one
\* provider, only its provider or its provider's departure sets it free, and
\* a client that left provides nothing again.
THEOREM RegistryRefinement == Spec => ImplementsProviderRegistry
<1>1. Init => Registry!Init
  <2> SUFFICES ASSUME Init PROVE Registry!Init
    OBVIOUS
  <2>1. \A sid : findService({}, sid) = NULL
    BY DEF findService
  <2> QED
    BY <2>1 DEF Init, Registry!Init, providerOf, departed, getService
<1>2. /\ TypeOK /\ TypeOK' /\ SlotInv /\ ServiceInv /\ ServiceInv'
      /\ [Next]_vars
      => [Registry!Next]_<<providerOf, departed>>
  BY RegistryStep
<1> QED
  BY <1>1, <1>2, TypeCorrect, SlotInvariant, ServiceInvariant, PTL
     DEF Spec, ImplementsProviderRegistry, Registry!Spec

-----------------------------------------------------------------------------
(* The applications' registries                                            *)

\* What each application's ServiceRegistry should hold for sid.
present(services, sid) == IF findService(services, sid) # NULL THEN 1 ELSE 0

\* A connected client lists only registered services, each of them once.
ListIsExact ==
  \A c \in Client :
    /\ life[c] = "new" => m_registeredServices[c] = <<>>
    /\ life[c] = "registered" =>
         /\ Range(m_registeredServices[c]) \subseteq m_services
         /\ \A i, j \in 1 .. Len(m_registeredServices[c]) :
              m_registeredServices[c][i].serviceID
                = m_registeredServices[c][j].serviceID => i = j

\* ... so that every unregistration finds its entry.
RegistryInv ==
  /\ ListIsExact
  /\ undefinedErase = {}
  /\ \A c \in Client, sid \in ServiceID :
       life[c] = "registered" =>
         m_availableServices[c][sid] = present(m_services, sid)

-----------------------------------------------------------------------------
\* The registry follows a set of services that shrinks by what is announced.
LEMMA UnregisteredCounts ==
  ASSUME TypeOK, RegistryInv, NEW listeners \in SUBSET Client,
         \A d \in listeners : life[d] = "registered",
         NEW times \in [ServiceID -> Nat], NEW after,
         \A sid \in ServiceID :
           present(m_services, sid) - times[sid] = present(after, sid),
         notifyUnregistered(listeners, times)
  PROVE  /\ undefinedErase' = {}
         /\ \A d \in listeners, sid \in ServiceID :
              m_availableServices'[d][sid] = present(after, sid)
<1>1. \A d \in listeners, sid \in ServiceID :
        /\ m_availableServices[d][sid] = present(m_services, sid)
        /\ m_availableServices[d][sid] \in Nat /\ times[sid] \in Nat
  BY DEF RegistryInv, TypeOK
<1>2. \A sid : present(after, sid) \in {0, 1}
  BY DEF present
<1>3. \A d \in listeners, sid \in ServiceID :
        m_availableServices[d][sid] >= times[sid]
  BY <1>1, <1>2, SMT
<1>4. \A d \in listeners, sid \in ServiceID :
        m_availableServices'[d][sid] = m_availableServices[d][sid] - times[sid]
  BY <1>3 DEF notifyUnregistered
<1>5. undefinedErase' = {}
  <2>1. \A d \in listeners, sid \in ServiceID :
          ~(m_availableServices[d][sid] < times[sid])
    BY <1>1, <1>3, SMT
  <2> QED BY <2>1 DEF notifyUnregistered, RegistryInv
<1> QED BY <1>1, <1>4, <1>5

\* An entry that is listed once is counted once.
LEMMA CountOfUnique ==
  ASSUME NEW seq \in Seq(Service), NEW sid,
         \A i, j \in 1 .. Len(seq) : seq[i].serviceID = seq[j].serviceID => i = j
  PROVE  Cardinality({i \in 1 .. Len(seq) : seq[i].serviceID = sid}) =
           IF \E i \in 1 .. Len(seq) : seq[i].serviceID = sid THEN 1 ELSE 0
<1> DEFINE matches == {i \in 1 .. Len(seq) : seq[i].serviceID = sid}
<1>1. CASE \E i \in 1 .. Len(seq) : seq[i].serviceID = sid
  <2>1. PICK i \in 1 .. Len(seq) : seq[i].serviceID = sid
    BY <1>1
  <2>2. matches = {i}
    BY <2>1
  <2> QED BY <1>1, <2>2, FS_Singleton, ZenonT(30)
<1>2. CASE ~ \E i \in 1 .. Len(seq) : seq[i].serviceID = sid
  <2>1. matches = {}
    BY <1>2
  <2> QED BY <1>2, <2>1, FS_EmptySet
<1> QED BY <1>1, <1>2

\* A service is present if a registered Service has its identifiers.
LEMMA PresentIff ==
  ASSUME NEW services \in SUBSET Service, NEW sid
  PROVE  present(services, sid) =
           IF \E s \in services : s.serviceID = sid THEN 1 ELSE 0
BY FindService DEF present

\* The presence of an identifier depends on the identifiers alone.
LEMMA PresentSame ==
  ASSUME NEW before \in SUBSET Service, NEW after \in SUBSET Service, NEW sid,
         (\E s \in before : s.serviceID = sid) <=> \E s \in after : s.serviceID = sid
  PROVE  present(before, sid) = present(after, sid)
<1>1. present(before, sid) = IF \E s \in before : s.serviceID = sid THEN 1 ELSE 0
  BY PresentIff
<1>2. present(after, sid) = IF \E s \in after : s.serviceID = sid THEN 1 ELSE 0
  BY PresentIff
<1> QED BY <1>1, <1>2, SMT

\* An identifier that is withdrawn.
LEMMA PresentNoMore ==
  ASSUME NEW before \in SUBSET Service, NEW after \in SUBSET Service, NEW sid,
         \E s \in before : s.serviceID = sid,
         ~ \E s \in after : s.serviceID = sid
  PROVE  present(before, sid) = 1 /\ present(after, sid) = 0
<1>1. present(before, sid) = 1
  BY PresentIff
<1>2. present(after, sid) = 0
  BY PresentIff
<1> QED BY <1>1, <1>2

-----------------------------------------------------------------------------
registryVars == <<m_services, m_registeredServices, life, m_availableServices,
                  undefinedErase>>

\* The handlers that change services or what applications know of them.
LEMMA RegistrySteps ==
  ASSUME [Next]_vars
  PROVE  \/ \E c \in Client : createNewClientConnection(c) \/ onDisconnected(c)
         \/ cleanDisconnectedClients
         \/ \E c \in Client, sid \in ServiceID :
              registerService(c, sid) \/ unregisterService(c, sid)
         \/ UNCHANGED registryVars
<1> USE DEF registryVars
<1>1. ASSUME NEW c \in Client, onNewClientAsserts(c)
      PROVE  UNCHANGED registryVars
  BY <1>1 DEF onNewClientAsserts, clientVars, appVars
<1>2. ASSUME NEW c \in Client, NEW sid \in ServiceID, dispatchRequest(c, sid)
      PROVE  UNCHANGED registryVars
  BY <1>2 DEF dispatchRequest, dispatcherVars, clientVars
<1>3. ASSUME NEW c \in Client, NEW m \in MemberIDs,
             subscribeToNotification(c, m) \/ dispatchNotification(c, m)
      PROVE  UNCHANGED registryVars
  BY <1>3 DEF subscribeToNotification, dispatchNotification, clientVars, appVars
<1>4. ASSUME NEW r \in requests, dispatchReply(r)
      PROVE  UNCHANGED registryVars
  BY <1>4 DEF dispatchReply, dispatcherVars, clientVars
<1>5. ASSUME UNCHANGED vars PROVE UNCHANGED registryVars
  BY <1>5 DEF vars, dispatcherVars, clientVars, appVars
<1> QED BY <1>1, <1>2, <1>3, <1>4, <1>5 DEF Next

\* Every handler preserves the registry invariant if no service is registered
\* twice by its provider.
LEMMA RegistryInvStep ==
  ASSUME ~Reregister, TypeOK, TypeOK', SlotInv, ServiceInv, ServiceInv',
         RegistryInv, [Next]_vars
  PROVE  RegistryInv'
<1>0. /\ m_services \in SUBSET Service /\ m_services' \in SUBSET Service
      /\ \A t, u \in m_services : t.serviceID = u.serviceID => t = u
      /\ \A c \in Client : m_registeredServices[c] \in Seq(Service)
      /\ \A c \in Client : m_registeredServices'[c] \in Seq(Service)
      /\ \A c \in Client : Len(m_registeredServices[c]) \in Nat
  BY LenProperties DEF TypeOK, ServiceInv, ProviderIsCurrent
<1>sets. m_services \in SUBSET Service /\ m_services' \in SUBSET Service
  BY <1>0
<1>1. ASSUME NEW c \in Client, createNewClientConnection(c) PROVE RegistryInv'
  <2>1. /\ UNCHANGED <<m_services, m_registeredServices, undefinedErase>>
        /\ life[c] = "new" /\ life'[c] = "registered"
        /\ \A d \in Client \ {c} : life'[d] = life[d]
    BY <1>1 DEF createNewClientConnection, TypeOK
  <2>2. /\ \A sid \in ServiceID :
             m_availableServices'[c][sid] = present(m_services, sid)
        /\ \A d \in Client \ {c} : m_availableServices'[d] = m_availableServices[d]
    BY <1>1 DEF createNewClientConnection, sendRegistry, TypeOK, present,
                getService
  <2>3. m_registeredServices[c] = <<>> /\ Range(<<>>) = {} /\ Len(<<>>) = 0
    BY <2>1, SMT DEF RegistryInv, ListIsExact, Range
  <2>4. ListIsExact'
    BY <2>1, <2>3, SMT DEF RegistryInv, ListIsExact
  <2> QED BY <2>1, <2>2, <2>4 DEF RegistryInv
<1>2. ASSUME NEW c \in Client, onDisconnected(c) PROVE RegistryInv'
  <2> DEFINE registered == m_registeredServices[c]
             times == [sid \in ServiceID |->
                         Cardinality({i \in 1 .. Len(registered) :
                                        registered[i].serviceID = sid})]
  <2>1. /\ m_services' = m_services \ Range(registered)
        /\ m_registeredServices' = m_registeredServices
        /\ life[c] = "registered" /\ life'[c] = "disconnected"
        /\ \A d \in Client \ {c} : life'[d] = life[d]
        /\ notifyUnregistered(m_listeners \ {c}, times)
    BY <1>2 DEF onDisconnected, eraseServices, TypeOK
  <2>2. registered \in Seq(Service)
    BY <1>0
  <2>3. /\ Range(registered) \subseteq m_services
        /\ \A i, j \in 1 .. Len(registered) :
             registered[i].serviceID = registered[j].serviceID => i = j
    BY <2>1 DEF RegistryInv, ListIsExact
  <2> HIDE DEF registered
  <2>4. \A s : s \in Range(registered)
                 <=> \E i \in 1 .. Len(registered) : s = registered[i]
    BY <2>2, EntriesOf
  <2>5. \A sid \in ServiceID :
          times[sid] = IF \E s \in Range(registered) : s.serviceID = sid
                       THEN 1 ELSE 0
    <3>1. ASSUME NEW sid \in ServiceID
          PROVE  times[sid] = IF \E i \in 1 .. Len(registered) :
                                   registered[i].serviceID = sid
                              THEN 1 ELSE 0
      BY <2>2, <2>3, CountOfUnique, ZenonT(30)
    <3>2. \A sid : (\E s \in Range(registered) : s.serviceID = sid)
                  <=> \E i \in 1 .. Len(registered) :
                        registered[i].serviceID = sid
      BY <2>4
    <3> HIDE DEF times
    <3> QED BY <3>1, <3>2, SMTT(30)
  <2> HIDE DEF times
  <2>6. times \in [ServiceID -> Nat]
    <3>1. DOMAIN times = ServiceID /\ times = [sid \in ServiceID |-> times[sid]]
      BY DEF times
    <3> QED BY <2>5, <3>1, SMT
  <2>7. ASSUME NEW sid \in ServiceID
        PROVE  present(m_services, sid) - times[sid] = present(m_services', sid)
    <3>1. CASE \E s \in Range(registered) : s.serviceID = sid
      <4>1. \E s \in m_services : s.serviceID = sid
        BY <2>3, <3>1
      <4>2. ~ \E s \in m_services' : s.serviceID = sid
        BY <1>0, <2>1, <2>3, <3>1
      <4>3. present(m_services, sid) = 1 /\ present(m_services', sid) = 0
        BY <1>sets, <4>1, <4>2, PresentNoMore, ZenonT(30)
      <4> QED BY <2>5, <3>1, <4>3, SMT
    <3>2. CASE ~ \E s \in Range(registered) : s.serviceID = sid
      <4>1. (\E s \in m_services : s.serviceID = sid)
              <=> \E s \in m_services' : s.serviceID = sid
        BY <2>1, <3>2
      <4>2. present(m_services, sid) = present(m_services', sid)
        BY <1>sets, <4>1, PresentSame
      <4>3. present(m_services, sid) \in {0, 1} /\ times[sid] = 0
        BY <2>5, <3>2 DEF present
      <4> QED BY <4>2, <4>3, SMT
    <3> QED BY <3>1, <3>2
  <2>8. /\ m_listeners \ {c} \in SUBSET Client
        /\ \A d \in m_listeners \ {c} : life[d] = "registered"
        /\ \A d \in Client : life'[d] = "registered" => d \in m_listeners \ {c}
    BY <2>1 DEF SlotInv, StageIsListed
  <2>9. /\ undefinedErase' = {}
        /\ \A d \in m_listeners \ {c}, sid \in ServiceID :
             m_availableServices'[d][sid] = present(m_services', sid)
    <3>1. PICK stay : stay = m_listeners \ {c} OBVIOUS
    <3>2. PICK missing : missing = times OBVIOUS
    <3>3. PICK after : after = m_services' OBVIOUS
    <3>4. /\ stay \in SUBSET Client /\ \A d \in stay : life[d] = "registered"
          /\ missing \in [ServiceID -> Nat] /\ notifyUnregistered(stay, missing)
      BY <2>1, <2>6, <2>8, <3>1, <3>2
    <3>5. \A sid \in ServiceID :
            present(m_services, sid) - missing[sid] = present(after, sid)
      BY <2>7, <3>2, <3>3
    <3>6. /\ undefinedErase' = {}
          /\ \A d \in stay, sid \in ServiceID :
               m_availableServices'[d][sid] = present(after, sid)
      BY <3>4, <3>5, UnregisteredCounts, SMT
    <3> QED BY <3>1, <3>3, <3>6
  <2>10. ListIsExact'
    <3>1. ASSUME NEW d \in Client, d # c, life[d] = "registered",
                 NEW s \in Range(m_registeredServices[d])
          PROVE  s \in m_services'
      <4>1. s \in m_services /\ s.client = d
        BY <3>1, OwnEntries DEF RegistryInv, ListIsExact, ServiceInv
      <4>2. \A t \in Range(registered) : t.client = c
        BY OwnEntries DEF ServiceInv, registered
      <4> QED BY <2>1, <3>1, <4>1, <4>2
    <3> QED BY <2>1, <3>1, SMT DEF RegistryInv, ListIsExact
  <2> QED BY <2>8, <2>9, <2>10 DEF RegistryInv
<1>3. ASSUME cleanDisconnectedClients PROVE RegistryInv'
  <2>1. /\ UNCHANGED <<m_services, m_availableServices, undefinedErase>>
        /\ \A d \in Client :
             /\ life'[d] \in {"new", "registered"} =>
                  /\ life'[d] = life[d]
                  /\ m_registeredServices'[d] = m_registeredServices[d]
    BY <1>3 DEF cleanDisconnectedClients, appVars
  <2>2. ListIsExact'
    BY <2>1, SMT DEF RegistryInv, ListIsExact
  <2> QED BY <2>1, <2>2 DEF RegistryInv
<1>4. ASSUME NEW c \in Client, NEW sid \in ServiceID, registerService(c, sid)
      PROVE  RegistryInv'
  <2> DEFINE service == [serviceID |-> sid, client |-> c,
                         address |-> allocated]
  <2>1. /\ getService(sid) = NULL
        /\ m_services' = m_services \cup {service}
        /\ notifyRegistered(m_listeners, sid)
        /\ m_registeredServices' =
             [m_registeredServices EXCEPT ![c] = Append(@, service)]
        /\ life[c] = "registered" /\ UNCHANGED <<life, undefinedErase>>
    BY <1>4 DEF registerService, registerNewService, registerOwnServiceAgain
  <2>2. service \in Service /\ service.serviceID = sid
    BY DEF Service, TypeOK
  <2> HIDE DEF service
  <2>3. \A s \in m_services : s.serviceID # sid
    BY <1>0, <2>1, FindService DEF getService
  <2>4. /\ m_registeredServices'[c] = Append(m_registeredServices[c], service)
        /\ \A d \in Client \ {c} :
             m_registeredServices'[d] = m_registeredServices[d]
    BY <2>1 DEF TypeOK
  <2>5. Range(m_registeredServices'[c])
          = Range(m_registeredServices[c]) \cup {service}
    BY <1>0, <2>2, <2>4, EntriesOfAppend, SMT
  <2>6. ASSUME NEW i \in 1 .. Len(m_registeredServices'[c]),
               NEW j \in 1 .. Len(m_registeredServices'[c]),
               m_registeredServices'[c][i].serviceID
                 = m_registeredServices'[c][j].serviceID
        PROVE  i = j
    <3> DEFINE old == m_registeredServices[c]
               new == m_registeredServices'[c]
    <3>1. /\ Len(new) = Len(old) + 1 /\ Len(old) \in Nat
          /\ \A k \in 1 .. Len(old) : new[k] = old[k]
          /\ new[Len(old) + 1] = service
      BY <1>0, <2>2, <2>4, AppendProperties, SMTT(30)
    <3>2. \A k \in 1 .. Len(old) : old[k].serviceID # sid
      <4>1. \A k \in 1 .. Len(old) : old[k] \in Range(old)
        BY <1>0, EntriesOf
      <4>2. Range(old) \subseteq m_services
        BY <2>1 DEF RegistryInv, ListIsExact
      <4> QED BY <2>3, <4>1, <4>2
    <3>3. \A k, l \in 1 .. Len(old) : old[k].serviceID = old[l].serviceID
                                        => k = l
      BY <2>1 DEF RegistryInv, ListIsExact
    <3>4. new[i].serviceID = new[j].serviceID
          /\ i \in 1 .. Len(new) /\ j \in 1 .. Len(new)
      BY <2>6
    <3> HIDE DEF old, new
    <3> QED BY <2>2, <3>1, <3>2, <3>3, <3>4, SMT
  <2>7. ListIsExact'
    BY <2>1, <2>4, <2>5, <2>6, SMTT(30) DEF RegistryInv, ListIsExact
  <2>8. ASSUME NEW d \in Client, life'[d] = "registered", NEW x \in ServiceID
        PROVE  m_availableServices'[d][x] = present(m_services', x)
    <3>1. d \in m_listeners /\ m_availableServices[d][x] = present(m_services, x)
      BY <2>1, <2>8 DEF RegistryInv, SlotInv, StageIsListed
    <3>2. m_availableServices'[d][x] =
            IF x = sid THEN m_availableServices[d][x] + 1
                       ELSE m_availableServices[d][x]
      BY <2>1, <3>1, ZenonT(30) DEF notifyRegistered, TypeOK
    <3>3. CASE x = sid
      <4>0. /\ \E s \in m_services' : s.serviceID = sid
            /\ ~ \E s \in m_services : s.serviceID = sid
        BY <2>1, <2>2, <2>3
      <4>1. present(m_services, sid) = 0 /\ present(m_services', sid) = 1
        BY <1>sets, <4>0, PresentNoMore
      <4> QED BY <3>1, <3>2, <3>3, <4>1, SMT
    <3>4. CASE x # sid
      <4>1. (\E s \in m_services : s.serviceID = x)
              <=> \E s \in m_services' : s.serviceID = x
        BY <2>1, <2>2, <3>4
      <4>2. present(m_services, x) = present(m_services', x)
        BY <1>sets, <4>1, PresentSame
      <4> QED BY <3>1, <3>2, <3>4, <4>2
    <3> QED BY <3>3, <3>4
  <2> QED BY <2>1, <2>7, <2>8, ZenonT(30) DEF RegistryInv
<1>5. ASSUME NEW c \in Client, NEW sid \in ServiceID, unregisterService(c, sid)
      PROVE  RegistryInv'
  <2> DEFINE times == [x \in ServiceID |-> IF x = sid THEN 1 ELSE 0]
  <2>1. PICK i \in 1 .. Len(m_registeredServices[c]) :
          /\ m_registeredServices[c][i].serviceID = sid
          /\ m_services' = m_services \ {m_registeredServices[c][i]}
          /\ m_registeredServices' =
               [m_registeredServices EXCEPT ![c] = erase(@, i)]
    BY <1>5, ZenonT(30) DEF unregisterService, eraseServices
  <2>2. /\ notifyUnregistered(m_listeners, times)
        /\ life[c] = "registered" /\ life' = life
    BY <1>5, SMTT(30) DEF unregisterService
  <2> DEFINE old == m_registeredServices[c]
             new == m_registeredServices'[c]
             service == old[i]
  <2>3. /\ new = erase(old, i)
        /\ \A d \in Client \ {c} :
             m_registeredServices'[d] = m_registeredServices[d]
    BY <2>1 DEF TypeOK
  <2>4. /\ old \in Seq(Service) /\ Len(old) \in Nat /\ i \in 1 .. Len(old)
        /\ service.serviceID = sid /\ m_services' = m_services \ {service}
    BY <1>0, <2>1
  <2>5. /\ Range(old) \subseteq m_services
        /\ \A j, k \in 1 .. Len(old) : old[j].serviceID = old[k].serviceID
                                         => j = k
    BY <2>2 DEF RegistryInv, ListIsExact
  <2>6. service \in m_services /\ service.client = c
    <3>1. service \in Range(old)
      BY <2>4, EntriesOf
    <3> QED BY <2>5, <3>1, OwnEntries DEF ServiceInv
  <2>7. \A d \in Client \ {c} : \A s \in Range(m_registeredServices[d]) :
          s # service
    BY <2>6, OwnEntries DEF ServiceInv
  <2> HIDE DEF old, new, service
  <2>8. /\ new \in Seq(Service) /\ Len(new) = Len(old) - 1
        /\ \A j \in 1 .. Len(old) - 1 :
             new[j] = IF j < i THEN old[j] ELSE old[j + 1]
    BY <2>3, <2>4, RemoveAtProperties, ZenonT(30)
  <2>9. \A j, k \in 1 .. Len(new) : new[j].serviceID = new[k].serviceID => j = k
    <3>1. SUFFICES ASSUME NEW j \in 1 .. Len(new), NEW k \in 1 .. Len(new),
                          new[j].serviceID = new[k].serviceID
                   PROVE  j = k
      OBVIOUS
    <3> DEFINE at(n) == IF n < i THEN n ELSE n + 1
    <3>2. /\ at(j) \in 1 .. Len(old) /\ new[j] = old[at(j)]
          /\ at(k) \in 1 .. Len(old) /\ new[k] = old[at(k)]
      BY <2>4, <2>8, SMT
    <3>3. at(j) = at(k)
      BY <2>5, <3>1, <3>2
    <3> QED BY <2>4, <2>8, <3>3, SMT
  <2>10. Range(new) \subseteq m_services'
    <3>1. SUFFICES ASSUME NEW s \in Range(new) PROVE s \in m_services'
      OBVIOUS
    <3>2. PICK j \in 1 .. Len(new) : s = new[j]
      BY <2>8, EntriesOf, SMT
    <3>3. PICK k \in 1 .. Len(old) : s = old[k] /\ k # i
      BY <2>4, <2>8, <3>2, SMT
    <3>4. s \in Range(old) /\ s.serviceID # sid
      BY <2>4, <2>5, <3>3, EntriesOf DEF service
    <3> QED BY <2>4, <2>5, <3>4
  <2>11. ListIsExact'
    <3>1. \A d \in Client \ {c} : life[d] = "registered" =>
            Range(m_registeredServices'[d]) \subseteq m_services'
      BY <2>3, <2>4, <2>7 DEF RegistryInv, ListIsExact
    <3> QED BY <2>2, <2>3, <2>9, <2>10, <3>1, SMT DEF RegistryInv, ListIsExact, new
  <2>12. ASSUME NEW x \in ServiceID
         PROVE  present(m_services, x) - times[x] = present(m_services', x)
    <3>1. CASE x = sid
      <4>1. /\ \E s \in m_services : s.serviceID = sid
            /\ ~ \E s \in m_services' : s.serviceID = sid
        BY <1>0, <2>4, <2>6
      <4>2. present(m_services, sid) = 1 /\ present(m_services', sid) = 0
        BY <1>sets, <4>1, PresentNoMore, ZenonT(30)
      <4> QED BY <3>1, <4>2, SMT
    <3>2. CASE x # sid
      <4>1. (\E s \in m_services : s.serviceID = x)
              <=> \E s \in m_services' : s.serviceID = x
        BY <2>4, <3>2
      <4>2. present(m_services, x) = present(m_services', x)
        BY <1>sets, <4>1, PresentSame
      <4>3. present(m_services, x) \in {0, 1}
        BY DEF present
      <4> QED BY <3>2, <4>2, <4>3, SMT
    <3> QED BY <3>1, <3>2
  <2>13. /\ m_listeners \in SUBSET Client
         /\ \A d \in m_listeners : life[d] = "registered"
         /\ \A d \in Client : life'[d] = "registered" => d \in m_listeners
    BY <2>2 DEF SlotInv, StageIsListed
  <2>14. times \in [ServiceID -> Nat]
    OBVIOUS
  <2> HIDE DEF times
  <2>15. /\ undefinedErase' = {}
         /\ \A d \in m_listeners, x \in ServiceID :
              m_availableServices'[d][x] = present(m_services', x)
    BY <2>2, <2>12, <2>13, <2>14, UnregisteredCounts, SMT
  <2> QED BY <2>11, <2>13, <2>15 DEF RegistryInv
<1>6. ASSUME UNCHANGED registryVars PROVE RegistryInv'
  BY <1>6 DEF RegistryInv, ListIsExact, registryVars
<1> QED BY <1>1, <1>2, <1>3, <1>4, <1>5, <1>6, RegistrySteps

\* Without double registrations the ServiceRegistry of every connected
\* application lists exactly the registered services, and no application
\* erases an entry it does not have.
THEOREM RegistriesAreAccurate == ~Reregister => (Spec => []RegistryIsAccurate)
<1> SUFFICES ASSUME ~Reregister PROVE Spec => []RegistryIsAccurate
  OBVIOUS
<1>1. Init => RegistryInv
  BY DEF Init, RegistryInv, ListIsExact
<1>2. /\ TypeOK /\ TypeOK' /\ SlotInv /\ ServiceInv /\ ServiceInv'
      /\ RegistryInv /\ [Next]_vars
      => RegistryInv'
  BY RegistryInvStep
<1>3. RegistryInv => RegistryIsAccurate
  BY DEF RegistryInv, RegistryIsAccurate, present, getService
<1> QED
  BY <1>1, <1>2, <1>3, TypeCorrect, SlotInvariant, ServiceInvariant, PTL
     DEF Spec

=============================================================================
