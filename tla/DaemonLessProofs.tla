-------------------------- MODULE DaemonLessProofs --------------------------
(***************************************************************************)
(* Proofs about applications without a daemon, for any applications and    *)
(* services and any number of calls and losses: the ServiceRegistry of an  *)
(* application lists what its dispatcher knows.                            *)
(***************************************************************************)
EXTENDS DaemonLess, FiniteSetTheorems, WellFoundedInduction, TLAPS

\* Most steps are first-order: Zenon proves them.  SMT is cited where a step
\* needs arithmetic or sequences.
USE Zenon

SDMessage == [type : {"query"}] \cup [type : {"offer", "stop"}, service : Service]
TCPMessage ==
  [type : {"subscribe", "request", "reply", "notification"}, service : Service]
Entry == Service \X Application
Pointer == {None, "service", "null"}
State ==
  [phase : {"new", "connecting", "connected"},
   m_services : Seq(Entry),
   m_registeredServices : [Service -> Pointer],
   m_availableServices : Seq(Service),
   m_notifications : SUBSET Service,
   m_subscribedClients : [Service -> Seq(Application)],
   m_instanceNamespace : [Application -> [Service -> Pointer]],
   inbox : [Service -> Nat]]
\* How an application may crash.
Cause == {"null", "unregistered", "unknown"}
World ==
  [app : [Application -> State], discovery : [Pair -> Seq(SDMessage)],
   toServer : [Pair -> Seq(TCPMessage)], toClient : [Pair -> Seq(TCPMessage)],
   dead : Cause \cup {None}]

\* The registry of application a mirrors its dispatcher, which knows a service
\* once, and knows those that a has registered.
Lists(a, services, available, registered) ==
  /\ available = [i \in DOMAIN services |-> services[i][1]]
  /\ \A i, j \in DOMAIN services : services[i][1] = services[j][1] => i = j
  /\ \A s \in Service : registered[s] = "service" =>
       \E i \in DOMAIN services : services[i] = <<s, a>>

Mirrors(a, x) ==
  Lists(a, x.m_services, x.m_availableServices, x.m_registeredServices)

Mirrored(w) == w \in World /\ \A a \in Application : Mirrors(a, w.app[a])

MirrorInv == Mirrored(world)

\* The dispatcher, the registry and the list of the services registered are as
\* they were.
Same(x, y) ==
  /\ y.m_services = x.m_services
  /\ y.m_availableServices = x.m_availableServices
  /\ y.m_registeredServices = x.m_registeredServices

Kept(w, v) == v \in World /\ \A c \in Application : Same(w.app[c], v.app[c])

-----------------------------------------------------------------------------
(* States of applications, and sequences.                                  *)

\* The parts of the state of an application.
LEMMA StateParts ==
  ASSUME NEW x \in State
  PROVE  /\ x.phase \in {"new", "connecting", "connected"}
         /\ x.m_services \in Seq(Entry) /\ x.m_availableServices \in Seq(Service)
         /\ x.m_registeredServices \in [Service -> Pointer]
         /\ x.m_notifications \in SUBSET Service
         /\ x.m_subscribedClients \in [Service -> Seq(Application)]
         /\ x.m_instanceNamespace \in [Application -> [Service -> Pointer]]
         /\ x.inbox \in [Service -> Nat]
BY SMT DEF State

\* The parts of the state of the group.
LEMMA WorldParts ==
  ASSUME NEW w \in World
  PROVE  /\ w.app \in [Application -> State] /\ w.dead \in Cause \cup {None}
         /\ w.discovery \in [Pair -> Seq(SDMessage)]
         /\ w.toServer \in [Pair -> Seq(TCPMessage)]
         /\ w.toClient \in [Pair -> Seq(TCPMessage)]
BY SMT DEF World

\* v is w, but for the state x of application a.
Replaces(w, v, a, x) ==
  /\ v \in World /\ v.app[a] = x
  /\ \A c \in Application : c # a => v.app[c] = w.app[c]
  /\ v.discovery = w.discovery /\ v.toServer = w.toServer
  /\ v.toClient = w.toClient /\ v.dead = w.dead

\* The state of one application is replaced.
LEMMA Updated ==
  ASSUME NEW w \in World, NEW a \in Application, NEW x \in State
  PROVE  Replaces(w, [w EXCEPT !.app[a] = x], a, x)
<1> DEFINE v == [w EXCEPT !.app[a] = x]
<1>1. /\ v \in World /\ v.app = [w.app EXCEPT ![a] = x]
      /\ v.discovery = w.discovery /\ v.toServer = w.toServer
      /\ v.toClient = w.toClient /\ v.dead = w.dead
  BY DEF World
<1> HIDE DEF v
<1>2. w.app \in [Application -> State] BY WorldParts
<1>3. v.app[a] = x /\ \A c \in Application : c # a => v.app[c] = w.app[c]
  BY <1>1, <1>2, SMT
<1>4. Replaces(w, v, a, x) BY <1>1, <1>3 DEF Replaces
<1> QED BY <1>4 DEF v

\* An application crashes.
LEMMA Died ==
  ASSUME NEW w \in World, NEW how \in Cause
  PROVE  Kept(w, die(w, how))
BY DEF World, die, Kept, Same

\* Messages follow those under way.
LEMMA Joined ==
  ASSUME NEW S, NEW q \in Seq(S), NEW r \in Seq(S)
  PROVE  q \o r \in Seq(S)
BY SMT

\* Datagrams are sent.
LEMMA Multicast ==
  ASSUME NEW w \in World, NEW a \in Application, NEW messages \in Seq(SDMessage)
  PROVE  Kept(w, multicast(w, a, messages))
<1>1. PICK d : d = [p \in Pair |-> IF p[1] = a /\ w.app[p[2]].phase = "connected"
                                   THEN w.discovery[p] \o messages ELSE w.discovery[p]]
  OBVIOUS
<1>2. d \in [Pair -> Seq(SDMessage)]
  BY <1>1, WorldParts, Joined
<1>3. multicast(w, a, messages) = [w EXCEPT !.discovery = d]
  BY <1>1 DEF multicast
<1>4. [w EXCEPT !.discovery = d] \in World /\ [w EXCEPT !.discovery = d].app = w.app
  BY <1>2 DEF World
<1> QED BY <1>3, <1>4 DEF Kept, Same

\* ServiceAnnouncer::onServiceRegistered and onServiceUnregistered.
LEMMA Announced ==
  ASSUME NEW w \in World, NEW a \in Application, NEW type \in {"offer", "stop"},
         NEW s \in Service
  PROVE  Kept(w, announce(w, a, type, s))
<1>1. <<message(type, s)>> \in Seq(SDMessage)
  BY SMT DEF message, SDMessage
<1> QED BY <1>1, Multicast DEF announce, Kept, Same

\* TCPClient::onNotificationSubscribed
LEMMA Asked ==
  ASSUME NEW w \in World, NEW a \in Application, NEW b \in Application,
         NEW s \in Service
  PROVE  Kept(w, onNotificationSubscribed(w, a, b, s))
<1>1. CASE b = a \/ w.app[a].m_instanceNamespace[b][s] = "null"
  <2>1. onNotificationSubscribed(w, a, b, s) \in {w, die(w, "null")}
    BY <1>1 DEF onNotificationSubscribed
  <2>2. Kept(w, die(w, "null")) BY Died DEF Cause
  <2>3. Kept(w, w) BY DEF Kept, Same
  <2> QED BY <2>1, <2>2, <2>3
<1>2. CASE b # a /\ w.app[a].m_instanceNamespace[b][s] # "null"
  <2>1. PICK x : x = [w.app[a] EXCEPT !.m_instanceNamespace[b][s] = "service"]
    OBVIOUS
  <2>2. PICK t : t = [w.toServer EXCEPT ![<<a, b>>] = Append(@, message("subscribe", s))]
    OBVIOUS
  <2>3. w.app[a] \in State /\ x \in State /\ Same(w.app[a], x)
    <3>1. w.app[a] \in State BY WorldParts
    <3> QED BY <2>1, <3>1 DEF State, Same, Pointer
  <2>4. t \in [Pair -> Seq(TCPMessage)]
    <3>1. message("subscribe", s) \in TCPMessage BY SMT DEF message, TCPMessage
    <3>2. w.toServer \in [Pair -> Seq(TCPMessage)] BY WorldParts
    <3>3. \A q \in Seq(TCPMessage) : Append(q, message("subscribe", s)) \in Seq(TCPMessage)
      BY <3>1, SMT
    <3> QED BY <2>2, <3>2, <3>3
  <2>5. PICK v : v = [w EXCEPT !.app[a] = x] OBVIOUS
  <2>6. onNotificationSubscribed(w, a, b, s) = [v EXCEPT !.toServer = t]
    BY <1>2, <2>1, <2>2, <2>5, SMT DEF onNotificationSubscribed, World
  <2>7. v \in World /\ v.app[a] = x /\ \A c \in Application : c # a => v.app[c] = w.app[c]
    <3>1. Replaces(w, [w EXCEPT !.app[a] = x], a, x) BY <2>3, Updated
    <3>2. Replaces(w, v, a, x) BY <2>5, <3>1
    <3> QED BY <3>2 DEF Replaces
  <2>8. [v EXCEPT !.toServer = t] \in World /\ [v EXCEPT !.toServer = t].app = v.app
    BY <2>4, <2>7 DEF World
  <2> QED BY <2>3, <2>6, <2>7, <2>8 DEF Kept, Same
<1> QED BY <1>1, <1>2

\* Nothing changed twice.
LEMMA KeptTwice ==
  ASSUME NEW u, NEW v, NEW w, Kept(u, v), Kept(v, w)
  PROVE  Kept(u, w)
BY DEF Kept, Same

LEMMA KeptAtAll ==
  ASSUME NEW w \in World
  PROVE  Kept(w, w)
BY DEF Kept, Same

\* The provider of a service is an application.
LEMMA Providers ==
  ASSUME NEW w \in World, NEW a \in Application, NEW s
  PROVE  getService(w, a, s) \subseteq Application
<1>0. w.app[a] \in State BY WorldParts
<1>1. w.app[a].m_services \in Seq(Entry) BY <1>0, StateParts
<1>2. \A i \in DOMAIN w.app[a].m_services : w.app[a].m_services[i] \in Entry
  BY <1>1, SMT
<1>3. \A e \in Entry : e[2] \in Application BY SMT DEF Entry
<1> QED BY <1>2, <1>3 DEF getService

\* Service::onNotificationSubscribed
LEMMA ProviderAsked ==
  ASSUME NEW w \in World, NEW a \in Application, NEW s \in Service
  PROVE  Kept(w, askProvider(w, a, s))
<1>1. CASE getService(w, a, s) = {} BY <1>1, KeptAtAll DEF askProvider
<1>2. CASE getService(w, a, s) # {}
  <2>1. PICK p : p = CHOOSE b \in getService(w, a, s) : TRUE OBVIOUS
  <2>2. p \in Application BY <1>2, <2>1, Providers
  <2>3. askProvider(w, a, s) = onNotificationSubscribed(w, a, p, s)
    BY <1>2, <2>1 DEF askProvider
  <2> QED BY <2>2, <2>3, Asked
<1> QED BY <1>1, <1>2

\* Only the state of one application changes, and neither its dispatcher nor
\* its registry.
LEMMA KeptWithin ==
  ASSUME NEW w \in World, NEW a \in Application, NEW x \in State,
         Same(w.app[a], x)
  PROVE  Kept(w, [w EXCEPT !.app[a] = x])
<1>1. Replaces(w, [w EXCEPT !.app[a] = x], a, x) BY Updated
<1>2. PICK v : v = [w EXCEPT !.app[a] = x] OBVIOUS
<1>3. Replaces(w, v, a, x) BY <1>1, <1>2
<1>4. Kept(w, v) BY <1>3 DEF Replaces, Kept, Same
<1> QED BY <1>2, <1>4

\* Dispatcher::getOrCreateNotification
LEMMA NotificationCreated ==
  ASSUME NEW w \in World, NEW a \in Application, NEW s \in Service
  PROVE  Kept(w, getOrCreateNotification(w, a, s))
<1>1. CASE s \in w.app[a].m_notifications
  BY <1>1, KeptAtAll DEF getOrCreateNotification
<1>2. CASE s \notin w.app[a].m_notifications
  <2>1. PICK x : x = [w.app[a] EXCEPT !.m_notifications = @ \cup {s}] OBVIOUS
  <2>2. x \in State /\ Same(w.app[a], x)
    <3>1. w.app[a] \in State BY WorldParts
    <3> QED BY <2>1, <3>1 DEF State, Same
  <2>3. PICK v : v = [w EXCEPT !.app[a] = x] OBVIOUS
  <2>4. Kept(w, v) /\ v \in World
    <3>1. Kept(w, [w EXCEPT !.app[a] = x]) BY <2>2, KeptWithin
    <3>2. Kept(w, v) BY <2>3, <3>1
    <3> QED BY <3>2 DEF Kept
  <2>5. getOrCreateNotification(w, a, s) = askProvider(v, a, s)
    BY <1>2, <2>1, <2>3 DEF getOrCreateNotification
  <2> QED BY <2>4, <2>5, ProviderAsked, KeptTwice
<1> QED BY <1>1, <1>2

\* Dispatcher::subscribeClientForNotifications
LEMMA ClientSubscribed ==
  ASSUME NEW w \in World, NEW a \in Application, NEW s \in Service,
         NEW client \in Application
  PROVE  Kept(w, subscribeClientForNotifications(w, a, s, client))
<1>1. PICK u : u = getOrCreateNotification(w, a, s) OBVIOUS
<1>2. Kept(w, u) /\ u \in World BY <1>1, NotificationCreated DEF Kept
<1>3. PICK x : x = [u.app[a] EXCEPT !.m_subscribedClients[s] = Append(@, client)] OBVIOUS
<1>4. x \in State /\ Same(u.app[a], x)
  <2>1. u.app[a] \in State BY <1>2, WorldParts
  <2>2. \A q \in Seq(Application) : Append(q, client) \in Seq(Application) BY SMT
  <2> QED BY <1>3, <2>1, <2>2 DEF State, Same
<1>5. PICK v : v = [u EXCEPT !.app[a] = x] OBVIOUS
<1>6. Kept(u, v) /\ v \in World
  <2>1. Kept(u, [u EXCEPT !.app[a] = x]) BY <1>2, <1>4, KeptWithin
  <2>2. Kept(u, v) BY <1>5, <2>1
  <2> QED BY <2>2 DEF Kept
<1>7. subscribeClientForNotifications(w, a, s, client) = askProvider(v, a, s)
  BY <1>1, <1>3, <1>5 DEF subscribeClientForNotifications
<1>8. Kept(v, askProvider(v, a, s)) BY <1>6, ProviderAsked
<1>9. Kept(w, v) BY <1>2, <1>6, KeptTwice
<1> QED BY <1>7, <1>8, <1>9, KeptTwice

-----------------------------------------------------------------------------
(* Numbers, and the offers of an application.                              *)

LEMMA LeastNumber ==
  ASSUME NEW T, T \subseteq Nat, T # {}
  PROVE  \E x \in T : \A y \in T : x <= y
<1> DEFINE R == OpToRel(<, Nat)
<1>1. IsWellFoundedOn(R, Nat) BY NatLessThanWellFounded
<1>2. PICK x \in T : \A y \in T : ~(<<y, x>> \in R)
  <2> HIDE DEF R
  <2> QED BY <1>1, WFMin
<1>3. \A y \in T : <<y, x>> \in R <=> y < x
  BY DEF OpToRel
<1>4. x \in Nat /\ \A y \in T : y \in Nat /\ ~(y < x) BY <1>2, <1>3
<1> QED BY <1>4, SMT

\* Induction, for a set of numbers.
LEMMA Induction ==
  ASSUME NEW T, 0 \in T, \A n \in Nat : n \in T => n + 1 \in T
  PROVE  Nat \subseteq T
<1> SUFFICES ASSUME Nat \ T # {} PROVE FALSE
  OBVIOUS
<1>1. PICK x \in Nat \ T : \A y \in Nat \ T : x <= y
  <2>1. Nat \ T \subseteq Nat OBVIOUS
  <2> QED BY <2>1, LeastNumber
<1>2. x # 0 OBVIOUS
<1>3. x - 1 \in Nat /\ ~(x <= x - 1) /\ (x - 1) + 1 = x BY <1>2, SMT
<1> QED BY <1>1, <1>3

\* The function by which offersOf is defined.
Offering(a, services, n, F) ==
  F = [i \in 0 .. n |->
         IF i = 0 THEN <<>>
         ELSE IF services[i][2] = a
         THEN Append(F[i - 1], message("offer", services[i][1]))
         ELSE F[i - 1]]

LEMMA OfferingExists ==
  ASSUME NEW a, NEW services \in Seq(Entry)
  PROVE  \E F : Offering(a, services, Len(services), F)
<1> DEFINE T == {n \in Nat : \E F : Offering(a, services, n, F)}
<1>0. Len(services) \in Nat BY SMT
<1>1. 0 \in T
  <2> DEFINE F == [i \in 0 .. 0 |-> <<>>]
  <2>1. Offering(a, services, 0, F) BY SMT DEF Offering
  <2> QED BY <2>1
<1>2. ASSUME NEW n \in Nat, n \in T PROVE n + 1 \in T
  <2>1. PICK F : Offering(a, services, n, F) BY <1>2
  <2> DEFINE v == IF services[n + 1][2] = a
                  THEN Append(F[n], message("offer", services[n + 1][1])) ELSE F[n]
             G == [i \in 0 .. n + 1 |-> IF i = n + 1 THEN v ELSE F[i]]
  <2>2. ASSUME NEW i \in 0 .. n + 1
        PROVE  G[i] = IF i = 0 THEN <<>>
                      ELSE IF services[i][2] = a
                      THEN Append(G[i - 1], message("offer", services[i][1]))
                      ELSE G[i - 1]
    <3>1. CASE i = n + 1
      <4>1. G[i] = v /\ G[i - 1] = F[n] /\ i # 0 BY <3>1, SMT
      <4> HIDE DEF G
      <4> QED BY <3>1, <4>1
    <3>2. CASE i # n + 1
      <4>1. G[i] = F[i] /\ i \in 0 .. n BY <3>2, SMT
      <4>2. i # 0 => G[i - 1] = F[i - 1] BY <3>2, SMT
      <4> HIDE DEF G
      <4> QED BY <2>1, <4>1, <4>2 DEF Offering
    <3> QED BY <3>1, <3>2
  <2>3. G = [i \in 0 .. n + 1 |-> G[i]] OBVIOUS
  <2> HIDE DEF G
  <2>4. Offering(a, services, n + 1, G) BY <2>2, <2>3 DEF Offering
  <2>5. n + 1 \in Nat BY SMT
  <2> QED BY <2>4, <2>5
<1> HIDE DEF T
<1>3. Nat \subseteq T BY <1>1, <1>2, Induction
<1> USE DEF T
<1> QED BY <1>0, <1>3

\* What ServiceAnnouncer::announceServices sends are offers.
LEMMA OffersAreMessages ==
  ASSUME NEW a, NEW services \in Seq(Entry)
  PROVE  offersOf(a, services) \in Seq(SDMessage)
<1> DEFINE N == Len(services)
           F == CHOOSE F : Offering(a, services, N, F)
           T == {n \in Nat : n <= N => F[n] \in Seq(SDMessage)}
<1>0. N \in Nat /\ \A i \in 1 .. N : services[i][1] \in Service
  <2>1. Len(services) \in Nat /\ \A i \in 1 .. Len(services) : services[i] \in Entry
    BY SMT
  <2>2. \A e \in Entry : e[1] \in Service BY SMT DEF Entry
  <2> QED BY <2>1, <2>2
<1>1. Offering(a, services, N, F) BY OfferingExists
<1>2. offersOf(a, services) = F[N] BY DEF offersOf, Offering
<1> HIDE DEF F, N
<1>3. 0 \in T
  <2>1. 0 \in 0 .. N BY <1>0, SMT
  <2>2. F[0] = <<>> BY <1>1, <2>1 DEF Offering
  <2>3. <<>> \in Seq(SDMessage) BY SMT
  <2>4. 0 \in Nat BY SMT
  <2> QED BY <2>2, <2>3, <2>4
<1>4. ASSUME NEW n \in Nat, n \in T PROVE n + 1 \in T
  <2> SUFFICES ASSUME n + 1 <= N PROVE F[n + 1] \in Seq(SDMessage)
    BY SMT
  <2>1. n + 1 \in 0 .. N /\ n + 1 \in 1 .. N /\ n + 1 # 0 /\ (n + 1) - 1 = n /\ n <= N
    BY <1>0, SMT
  <2>2. F[n + 1] = IF services[n + 1][2] = a
                   THEN Append(F[n], message("offer", services[n + 1][1])) ELSE F[n]
    BY <1>1, <2>1 DEF Offering
  <2>3. F[n] \in Seq(SDMessage) BY <1>4, <2>1
  <2>4. message("offer", services[n + 1][1]) \in SDMessage
    BY <1>0, <2>1 DEF message, SDMessage
  <2>5. \A q \in Seq(SDMessage), m \in SDMessage : Append(q, m) \in Seq(SDMessage) BY SMT
  <2> QED BY <2>2, <2>3, <2>4, <2>5
<1> HIDE DEF T
<1>5. Nat \subseteq T BY <1>3, <1>4, Induction
<1>6. N \in T /\ N <= N BY <1>0, <1>5, SMT
<1> QED BY <1>2, <1>6 DEF T

\* ServiceAnnouncer::announceServices
LEMMA ServicesAnnounced ==
  ASSUME NEW w \in World, NEW a \in Application
  PROVE  Kept(w, announceServices(w, a))
<1>1. w.app[a] \in State BY WorldParts
<1>2. w.app[a].m_services \in Seq(Entry) BY <1>1, StateParts
<1>3. offersOf(a, w.app[a].m_services) \in Seq(SDMessage) BY <1>2, OffersAreMessages
<1> QED BY <1>3, KeptAtAll, Multicast DEF announceServices

\* A client is listed finitely often.
LEMMA Listed ==
  ASSUME NEW S, NEW q \in Seq(S), NEW c
  PROVE  Cardinality({i \in DOMAIN q : q[i] = c}) \in Nat
<1>1. DOMAIN q = 1 .. Len(q) /\ Len(q) \in Nat BY SMT
<1>2. IsFiniteSet(1 .. Len(q)) BY <1>1, FS_Interval, SMT
<1>3. IsFiniteSet({i \in DOMAIN q : q[i] = c}) BY <1>1, <1>2, FS_Subset
<1> QED BY <1>3, FS_CardinalityType

\* Notification::sendMessageToSubscribedClients
LEMMA Notified ==
  ASSUME NEW w \in World, NEW a \in Application, NEW s \in Service
  PROVE  Kept(w, notify(w, a, s))
<1> DEFINE clients == w.app[a].m_subscribedClients[s]
           times(c) == Cardinality({i \in DOMAIN clients : clients[i] = c})
<1>0. w.app[a] \in State BY WorldParts
<1>1. clients \in Seq(Application) BY <1>0, StateParts
<1>2. \A c : times(c) \in Nat BY <1>1, Listed
<1>3. PICK n : n = times(a) OBVIOUS
<1>4. PICK t : t = [p \in Pair |->
                 IF p[1] = a
                 THEN w.toClient[p] \o [k \in 1 .. times(p[2]) |-> message("notification", s)]
                 ELSE w.toClient[p]]
  OBVIOUS
<1>5. PICK x : x = [w.app[a] EXCEPT !.inbox[s] = @ + n] OBVIOUS
<1>6. x \in State /\ Same(w.app[a], x)
  <2>1. n \in Nat BY <1>2, <1>3
  <2>2. \A k \in Nat : k + n \in Nat BY <2>1, SMT
  <2> QED BY <1>0, <1>5, <2>2 DEF State, Same
<1>7. t \in [Pair -> Seq(TCPMessage)]
  <2>1. w.toClient \in [Pair -> Seq(TCPMessage)] BY WorldParts
  <2>2. message("notification", s) \in TCPMessage BY SMT DEF message, TCPMessage
  <2> HIDE DEF times
  <2>3. \A k \in Nat : [j \in 1 .. k |-> message("notification", s)] \in Seq(TCPMessage)
    BY <2>2, SMT
  <2> QED BY <1>2, <1>4, <2>1, <2>3, Joined
<1>8. PICK v : v = [w EXCEPT !.app[a] = x] OBVIOUS
<1>9. Kept(w, v) /\ v \in World
  <2>1. Kept(w, [w EXCEPT !.app[a] = x]) BY <1>6, KeptWithin
  <2>2. Kept(w, v) BY <1>8, <2>1
  <2> QED BY <2>2 DEF Kept
<1>10. notify(w, a, s) = [v EXCEPT !.toClient = t]
  <2>1. notify(w, a, s) = [w EXCEPT !.app[a].inbox[s] = @ + n, !.toClient = t]
    BY <1>3, <1>4 DEF notify
  <2>2. [w EXCEPT !.app[a].inbox[s] = @ + n, !.toClient = t] = [v EXCEPT !.toClient = t]
    BY <1>5, <1>8, SMT DEF World
  <2> QED BY <2>1, <2>2
<1>11. [v EXCEPT !.toClient = t] \in World /\ [v EXCEPT !.toClient = t].app = v.app
  BY <1>7, <1>9 DEF World
<1> QED BY <1>9, <1>10, <1>11 DEF Kept

-----------------------------------------------------------------------------
(* Registration.                                                           *)

\* Dispatcher and registry of a know of the service s of b.
Registered(w, v, a, s, b) ==
  /\ v \in World
  /\ v.app[a].m_services = Append(w.app[a].m_services, <<s, b>>)
  /\ v.app[a].m_availableServices = Append(w.app[a].m_availableServices, s)
  /\ v.app[a].m_registeredServices = w.app[a].m_registeredServices
  /\ \A c \in Application : c # a => Same(w.app[c], v.app[c])

\* Dispatcher::registerService
LEMMA ServiceRegistered ==
  ASSUME NEW w \in World, NEW a \in Application, NEW s \in Service, NEW b \in Application
  PROVE  Registered(w, registerService(w, a, s, b), a, s, b)
<1>1. PICK x : x = [w.app[a] EXCEPT !.m_services = Append(@, <<s, b>>),
                                    !.m_availableServices = Append(@, s)]
  OBVIOUS
<1>2. PICK listed : listed = [w EXCEPT !.app[a] = x] OBVIOUS
<1>3. PICK told : told = IF b = a THEN announce(listed, a, "offer", s) ELSE listed OBVIOUS
<1>4. registerService(w, a, s, b) =
        IF s \in w.app[a].m_notifications THEN askProvider(told, a, s) ELSE told
  BY <1>1, <1>2, <1>3 DEF registerService
<1>5. /\ x \in State
      /\ x.m_services = Append(w.app[a].m_services, <<s, b>>)
      /\ x.m_availableServices = Append(w.app[a].m_availableServices, s)
      /\ x.m_registeredServices = w.app[a].m_registeredServices
  <2>1. w.app[a] \in State BY WorldParts
  <2>2. Append(w.app[a].m_services, <<s, b>>) \in Seq(Entry)
    <3>1. w.app[a].m_services \in Seq(Entry) /\ <<s, b>> \in Entry
      BY <2>1, StateParts DEF Entry
    <3> QED BY <3>1, SMT
  <2>3. Append(w.app[a].m_availableServices, s) \in Seq(Service)
    <3>1. w.app[a].m_availableServices \in Seq(Service) BY <2>1, StateParts
    <3> QED BY <3>1, SMT
  <2> QED BY <1>1, <2>1, <2>2, <2>3 DEF State
<1>6. Registered(w, listed, a, s, b)
  <2>1. Replaces(w, [w EXCEPT !.app[a] = x], a, x) BY <1>5, Updated
  <2>2. Replaces(w, listed, a, x) BY <1>2, <2>1
  <2> QED BY <1>5, <2>2 DEF Registered, Replaces, Same
<1>7. Kept(listed, told)
  <2>1. listed \in World BY <1>6 DEF Registered
  <2> QED BY <1>3, <2>1, Announced, KeptAtAll
<1>8. Kept(told, registerService(w, a, s, b))
  <2>1. told \in World BY <1>7 DEF Kept
  <2> QED BY <1>4, <2>1, ProviderAsked, KeptAtAll
<1>9. Kept(listed, registerService(w, a, s, b)) BY <1>7, <1>8, KeptTwice
<1> QED BY <1>6, <1>9 DEF Registered, Kept, Same

-----------------------------------------------------------------------------
(* Unregistration.                                                         *)

\* The sequence q without its element k.
Removed(q, k) == SubSeq(q, 1, k - 1) \o SubSeq(q, k + 1, Len(q))

LEMMA JoinedElements ==
  ASSUME NEW S, NEW q \in Seq(S), NEW r \in Seq(S), NEW i \in Len(q) + 1 .. Len(q) + Len(r)
  PROVE  (q \o r)[i] = r[i - Len(q)]
BY SMT

\* The elements that are left.
LEMMA RemovedElements ==
  ASSUME NEW S, NEW q \in Seq(S), NEW k \in DOMAIN q
  PROVE  /\ Removed(q, k) \in Seq(S)
         /\ DOMAIN Removed(q, k) = 1 .. Len(q) - 1
         /\ \A i \in 1 .. Len(q) - 1 : Removed(q, k)[i] = IF i < k THEN q[i] ELSE q[i + 1]
<1> DEFINE front == SubSeq(q, 1, k - 1)
           rest == SubSeq(q, k + 1, Len(q))
<1>1. k \in 1 .. Len(q) /\ Len(q) \in Nat BY SMT
<1>2. front \in Seq(S) /\ Len(front) = k - 1 /\ \A i \in 1 .. k - 1 : front[i] = q[i]
  BY <1>1, SMT
<1>3. /\ rest \in Seq(S) /\ Len(rest) = Len(q) - k
      /\ \A i \in 1 .. Len(q) - k : rest[i] = q[k + i]
  BY <1>1, SMT
<1> HIDE DEF front, rest
<1>4. front \o rest \in Seq(S) BY <1>2, <1>3, Joined
<1>5. Len(front \o rest) = Len(q) - 1 BY <1>1, <1>2, <1>3, SMT
<1>6. DOMAIN (front \o rest) = 1 .. Len(q) - 1 BY <1>4, <1>5, SMT
<1>7. \A i \in 1 .. Len(q) - 1 : (front \o rest)[i] = IF i < k THEN q[i] ELSE q[i + 1]
  <2> TAKE i \in 1 .. Len(q) - 1
  <2>1. CASE i < k BY <1>1, <1>2, <1>3, <2>1, SMT
  <2>2. CASE ~(i < k)
    <3>1. (front \o rest)[i] = rest[i - (k - 1)]
      <4>1. i \in Len(front) + 1 .. Len(front) + Len(rest) BY <1>1, <1>2, <1>3, <2>2, SMT
      <4>2. (front \o rest)[i] = rest[i - Len(front)] BY <1>2, <1>3, <4>1, JoinedElements
      <4> QED BY <1>2, <4>2
    <3>2. i - (k - 1) \in 1 .. Len(q) - k /\ k + (i - (k - 1)) = i + 1
      BY <1>1, <2>2, SMT
    <3>3. rest[i - (k - 1)] = q[k + (i - (k - 1))] BY <1>3, <3>2
    <3>4. (front \o rest)[i] = q[i + 1] BY <3>1, <3>2, <3>3
    <3> QED BY <2>2, <3>4
  <2> QED BY <2>1, <2>2
<1> QED BY <1>4, <1>6, <1>7 DEF Removed, front, rest

\* ServiceRegistry::onServiceUnregistered, for an element that occurs once.
LEMMA Erased ==
  ASSUME NEW S, NEW q \in Seq(S), NEW k \in DOMAIN q,
         \A j \in DOMAIN q : q[j] = q[k] => j = k
  PROVE  eraseFirst(q, q[k]) = Removed(q, k)
<1>1. k <= k BY SMT
<1>2. k = CHOOSE i \in DOMAIN q :
            q[i] = q[k] /\ \A j \in DOMAIN q : q[j] = q[k] => i <= j
  BY <1>1
<1>3. q[k] \in Range(q) BY DEF Range
<1> QED BY <1>2, <1>3 DEF eraseFirst, Removed

\* The service s of b goes from the dispatcher and from the registry of a.
Unregistered(w, v, a, s, b) ==
  /\ v \in World
  /\ \E k \in DOMAIN w.app[a].m_services :
       /\ w.app[a].m_services[k] = <<s, b>>
       /\ v.app[a].m_services = Removed(w.app[a].m_services, k)
       /\ v.app[a].m_availableServices = Removed(w.app[a].m_availableServices, k)
  /\ v.app[a].m_registeredServices = w.app[a].m_registeredServices
  /\ \A c \in Application : c # a => Same(w.app[c], v.app[c])

\* Dispatcher::unregisterService of a service that is known: both lists lose
\* the same element.
LEMMA ServiceUnregistered ==
  ASSUME NEW w \in World, NEW a \in Application, NEW s \in Service, NEW b \in Application,
         Mirrors(a, w.app[a]),
         NEW k \in DOMAIN w.app[a].m_services, w.app[a].m_services[k] = <<s, b>>
  PROVE  Unregistered(w, unregisterService(w, a, s, b), a, s, b)
<1>1. PICK q : q = w.app[a].m_services OBVIOUS
<1>2. PICK r : r = w.app[a].m_availableServices OBVIOUS
<1>3. w.app[a] \in State BY WorldParts
<1>4. q \in Seq(Entry) /\ r \in Seq(Service) BY <1>1, <1>2, <1>3, StateParts
<1>5. /\ DOMAIN r = DOMAIN q /\ \A i \in DOMAIN q : r[i] = q[i][1]
      /\ \A i, j \in DOMAIN q : q[i][1] = q[j][1] => i = j
  BY <1>1, <1>2 DEF Mirrors, Lists
<1>6. k \in DOMAIN q /\ q[k] = <<s, b>> /\ k \in DOMAIN r /\ r[k] = s
  <2>1. <<s, b>>[1] = s BY SMT
  <2>2. k \in DOMAIN q /\ q[k] = <<s, b>> BY <1>1
  <2>3. k \in DOMAIN r /\ r[k] = q[k][1] BY <1>5, <2>2
  <2> QED BY <2>1, <2>2, <2>3
<1>7. eraseFirst(q, <<s, b>>) = Removed(q, k)
  <2>1. \A j \in DOMAIN q : q[j] = q[k] => j = k BY <1>5, <1>6
  <2>2. eraseFirst(q, q[k]) = Removed(q, k) BY <1>4, <1>6, <2>1, Erased
  <2> QED BY <1>6, <2>2
<1>8. eraseFirst(r, s) = Removed(r, k)
  <2>1. \A j \in DOMAIN r : r[j] = r[k] => j = k BY <1>5, <1>6
  <2>2. eraseFirst(r, r[k]) = Removed(r, k) BY <1>4, <1>6, <2>1, Erased
  <2> QED BY <1>6, <2>2
<1>9. PICK x : x = [w.app[a] EXCEPT !.m_services = eraseFirst(@, <<s, b>>),
                                    !.m_availableServices = eraseFirst(@, s)]
  OBVIOUS
<1>10. /\ x \in State
       /\ x.m_services = Removed(q, k) /\ x.m_availableServices = Removed(r, k)
       /\ x.m_registeredServices = w.app[a].m_registeredServices
  <2>1. eraseFirst(w.app[a].m_services, <<s, b>>) = Removed(q, k) BY <1>1, <1>7
  <2>2. eraseFirst(w.app[a].m_availableServices, s) = Removed(r, k) BY <1>2, <1>8
  <2>3. Removed(q, k) \in Seq(Entry) BY <1>4, <1>6, RemovedElements
  <2>4. Removed(r, k) \in Seq(Service) BY <1>4, <1>6, RemovedElements
  <2> QED BY <1>3, <1>9, <2>1, <2>2, <2>3, <2>4 DEF State
<1>11. PICK gone : gone = [w EXCEPT !.app[a] = x] OBVIOUS
<1>12. Unregistered(w, gone, a, s, b)
  <2>1. Replaces(w, [w EXCEPT !.app[a] = x], a, x) BY <1>10, Updated
  <2>2. Replaces(w, gone, a, x) BY <1>11, <2>1
  <2> QED BY <1>1, <1>2, <1>6, <1>10, <2>2 DEF Unregistered, Replaces, Same
<1>13. unregisterService(w, a, s, b) = IF b = a THEN announce(gone, a, "stop", s) ELSE gone
  BY <1>9, <1>11 DEF unregisterService
<1>14. Kept(gone, unregisterService(w, a, s, b))
  <2>1. gone \in World BY <1>12 DEF Unregistered
  <2> QED BY <1>13, <2>1, Announced, KeptAtAll
<1> QED BY <1>12, <1>14 DEF Unregistered, Kept, Same

-----------------------------------------------------------------------------
(* What the registry mirrors.                                              *)

\* Nothing changed.
LEMMA MirrorKept ==
  ASSUME NEW w, NEW v, Mirrored(w), Kept(w, v)
  PROVE  Mirrored(v)
<1> SUFFICES ASSUME NEW a \in Application PROVE Mirrors(a, v.app[a])
  BY DEF Mirrored, Kept
<1>1. PICK x : x = w.app[a] OBVIOUS
<1>2. PICK y : y = v.app[a] OBVIOUS
<1>3. Mirrors(a, x) /\ Same(x, y) BY <1>1, <1>2 DEF Mirrored, Kept
<1>4. Mirrors(a, y) BY <1>3 DEF Mirrors, Same
<1> QED BY <1>2, <1>4

\* A service that was not known is appended to both lists.
LEMMA MirrorAppended ==
  ASSUME NEW x \in State, NEW y \in State, NEW a, NEW s \in Service, NEW b \in Application,
         Mirrors(a, x),
         \A i \in DOMAIN x.m_services : x.m_services[i][1] # s,
         y.m_services = Append(x.m_services, <<s, b>>),
         y.m_availableServices = Append(x.m_availableServices, s),
         \A t \in Service : y.m_registeredServices[t] = "service" =>
           x.m_registeredServices[t] = "service" \/ <<t, a>> = <<s, b>>
  PROVE  Mirrors(a, y)
<1>1. PICK q : q = x.m_services OBVIOUS
<1>2. PICK r : r = y.m_services OBVIOUS
<1>3. q \in Seq(Entry) /\ x.m_availableServices \in Seq(Service) /\ <<s, b>> \in Entry
  BY <1>1, StateParts DEF Entry
<1>4. PICK e : e = <<s, b>> OBVIOUS
<1>5. e[1] = s BY <1>4, SMT
<1>6. r = Append(q, e) BY <1>1, <1>2, <1>4
<1>7. PICK n : n = Len(q) + 1 OBVIOUS
<1>8. /\ DOMAIN r = DOMAIN q \cup {n} /\ n \notin DOMAIN q /\ r[n] = e
      /\ \A i \in DOMAIN q : r[i] = q[i]
  BY <1>3, <1>4, <1>6, <1>7, SMT
<1>9. y.m_availableServices = [i \in DOMAIN r |-> r[i][1]]
  <2>1. PICK z : z = x.m_availableServices OBVIOUS
  <2>2. z \in Seq(Service) /\ DOMAIN z = DOMAIN q /\ \A i \in DOMAIN q : z[i] = q[i][1]
    BY <1>1, <1>3, <2>1 DEF Mirrors, Lists
  <2>3. Len(z) = Len(q) BY <1>3, <2>2, SMT
  <2>4. PICK t : t = Append(z, s) OBVIOUS
  <2>5. /\ DOMAIN t = DOMAIN q \cup {n} /\ t[n] = s /\ \A i \in DOMAIN q : t[i] = z[i]
    BY <1>7, <2>2, <2>3, <2>4, SMT
  <2>6. t = [i \in DOMAIN t |-> t[i]]
    <3>1. t \in Seq(Service) BY <2>2, <2>4, SMT
    <3> QED BY <3>1, SMT
  <2>7. DOMAIN t = DOMAIN r /\ \A i \in DOMAIN r : t[i] = r[i][1]
    BY <1>5, <1>8, <2>2, <2>5
  <2>8. t = [i \in DOMAIN r |-> r[i][1]] BY <2>6, <2>7
  <2> QED BY <2>1, <2>4, <2>8
<1>10. \A i, j \in DOMAIN r : r[i][1] = r[j][1] => i = j
  <2>1. \A i, j \in DOMAIN q : r[i][1] = r[j][1] => i = j BY <1>1, <1>8 DEF Mirrors, Lists
  <2>2. \A i \in DOMAIN q : r[i][1] # r[n][1] BY <1>1, <1>5, <1>8
  <2> QED BY <1>8, <2>1, <2>2
<1>11. \A t \in Service : y.m_registeredServices[t] = "service" =>
         \E i \in DOMAIN r : r[i] = <<t, a>>
  <2> SUFFICES ASSUME NEW u \in Service, y.m_registeredServices[u] = "service"
               PROVE  \E i \in DOMAIN r : r[i] = <<u, a>>
    OBVIOUS
  <2>1. CASE x.m_registeredServices[u] = "service"
    <3>1. PICK i \in DOMAIN q : q[i] = <<u, a>> BY <1>1, <2>1 DEF Mirrors, Lists
    <3> QED BY <1>8, <3>1
  <2>2. CASE <<u, a>> = <<s, b>>
    <3>1. r[n] = <<u, a>> BY <1>4, <1>8, <2>2
    <3> QED BY <1>8, <3>1
  <2> QED BY <2>1, <2>2
<1> QED BY <1>2, <1>9, <1>10, <1>11 DEF Mirrors, Lists

\* Both lists lose the element of a service that is not registered by a (any
\* more).
LEMMA MirrorRemoved ==
  ASSUME NEW x \in State, NEW y \in State, NEW a, NEW k \in DOMAIN x.m_services,
         Mirrors(a, x),
         y.m_services = Removed(x.m_services, k),
         y.m_availableServices = Removed(x.m_availableServices, k),
         \A t \in Service : y.m_registeredServices[t] = "service" =>
           x.m_registeredServices[t] = "service" /\ <<t, a>> # x.m_services[k]
  PROVE  Mirrors(a, y)
<1>1. PICK q : q = x.m_services OBVIOUS
<1>2. PICK r : r = y.m_services OBVIOUS
<1>3. PICK z : z = x.m_availableServices OBVIOUS
<1>4. PICK t : t = y.m_availableServices OBVIOUS
<1>5. /\ q \in Seq(Entry) /\ k \in DOMAIN q /\ z \in Seq(Service)
      /\ DOMAIN z = DOMAIN q /\ \A i \in DOMAIN q : z[i] = q[i][1]
  BY <1>1, <1>3, StateParts DEF Mirrors, Lists
<1>6. Len(z) = Len(q) /\ Len(q) \in Nat /\ DOMAIN q = 1 .. Len(q) BY <1>5, SMT
<1>7. /\ DOMAIN r = 1 .. Len(q) - 1
      /\ \A i \in 1 .. Len(q) - 1 : r[i] = IF i < k THEN q[i] ELSE q[i + 1]
  <2>1. r = Removed(q, k) BY <1>1, <1>2
  <2> QED BY <1>5, <2>1, RemovedElements
<1>8. /\ t \in Seq(Service) /\ DOMAIN t = 1 .. Len(q) - 1
      /\ \A i \in 1 .. Len(q) - 1 : t[i] = IF i < k THEN z[i] ELSE z[i + 1]
  <2>1. t = Removed(z, k) BY <1>3, <1>4
  <2>2. k \in DOMAIN z BY <1>5
  <2>3. /\ t \in Seq(Service) /\ DOMAIN t = 1 .. Len(z) - 1
        /\ \A i \in 1 .. Len(z) - 1 : t[i] = IF i < k THEN z[i] ELSE z[i + 1]
    BY <1>5, <2>1, <2>2, RemovedElements
  <2> QED BY <1>6, <2>3
<1>9. \A i \in 1 .. Len(q) - 1 : i \in DOMAIN q /\ i + 1 \in DOMAIN q BY <1>6, SMT
<1>10. t = [i \in DOMAIN r |-> r[i][1]]
  <2>1. t = [i \in DOMAIN t |-> t[i]] BY <1>8, SMT
  <2>2. ASSUME NEW i \in DOMAIN r PROVE t[i] = r[i][1]
    <3>1. CASE i < k
      <4>1. t[i] = z[i] /\ r[i] = q[i] /\ i \in DOMAIN q BY <1>7, <1>8, <1>9, <3>1
      <4> QED BY <1>5, <4>1
    <3>2. CASE ~(i < k)
      <4>1. t[i] = z[i + 1] /\ r[i] = q[i + 1] /\ i + 1 \in DOMAIN q
        BY <1>7, <1>8, <1>9, <3>2
      <4> QED BY <1>5, <4>1
    <3> QED BY <3>1, <3>2
  <2> QED BY <1>7, <1>8, <2>1, <2>2
<1>11. \A i, j \in DOMAIN r : r[i][1] = r[j][1] => i = j
  <2> SUFFICES ASSUME NEW i \in DOMAIN r, NEW j \in DOMAIN r, r[i][1] = r[j][1]
               PROVE  i = j
    OBVIOUS
  <2>1. PICK f : f = IF i < k THEN i ELSE i + 1 OBVIOUS
  <2>2. PICK g : g = IF j < k THEN j ELSE j + 1 OBVIOUS
  <2>3. f \in DOMAIN q /\ g \in DOMAIN q /\ r[i] = q[f] /\ r[j] = q[g]
    BY <1>7, <1>9, <2>1, <2>2
  <2>4. f = g BY <1>1, <2>3 DEF Mirrors, Lists
  <2> QED BY <1>5, <1>6, <1>7, <2>1, <2>2, <2>4, SMT
<1>12. \A u \in Service : y.m_registeredServices[u] = "service" =>
         \E i \in DOMAIN r : r[i] = <<u, a>>
  <2> SUFFICES ASSUME NEW u \in Service, y.m_registeredServices[u] = "service"
               PROVE  \E i \in DOMAIN r : r[i] = <<u, a>>
    OBVIOUS
  <2>1. PICK j \in DOMAIN q : q[j] = <<u, a>> BY <1>1 DEF Mirrors, Lists
  <2>2. j # k BY <1>1, <2>1
  <2>3. PICK i : i = IF j < k THEN j ELSE j - 1 OBVIOUS
  <2>4. i \in DOMAIN r /\ (i < k => i = j) /\ (~(i < k) => i + 1 = j)
    BY <1>5, <1>6, <1>7, <2>2, <2>3, SMT
  <2>5. r[i] = q[j] BY <1>7, <2>4
  <2> QED BY <2>1, <2>4, <2>5
<1> QED BY <1>2, <1>4, <1>10, <1>11, <1>12 DEF Mirrors, Lists

\* An entry of a namespace is set.
LEMMA NamespaceSet ==
  ASSUME NEW w \in World, NEW a \in Application, NEW b \in Application, NEW s \in Service,
         NEW entry \in Pointer
  PROVE  Kept(w, [w EXCEPT !.app[a].m_instanceNamespace[b][s] = entry])
<1>1. PICK x : x = [w.app[a] EXCEPT !.m_instanceNamespace[b][s] = entry] OBVIOUS
<1>2. x \in State /\ Same(w.app[a], x)
  <2>1. w.app[a] \in State BY WorldParts
  <2> QED BY <1>1, <2>1 DEF State, Same
<1>3. Kept(w, [w EXCEPT !.app[a] = x]) BY <1>2, KeptWithin
<1>4. [w EXCEPT !.app[a].m_instanceNamespace[b][s] = entry] = [w EXCEPT !.app[a] = x]
  BY <1>1
<1> QED BY <1>3, <1>4

\* connect() of an application goes on.
LEMMA PhaseSet ==
  ASSUME NEW w \in World, NEW a \in Application, NEW phase \in {"connecting", "connected"}
  PROVE  Kept(w, [w EXCEPT !.app[a].phase = phase])
<1>1. PICK x : x = [w.app[a] EXCEPT !.phase = phase] OBVIOUS
<1>2. x \in State /\ Same(w.app[a], x)
  <2>1. w.app[a] \in State BY WorldParts
  <2> QED BY <1>1, <2>1 DEF State, Same
<1>3. Kept(w, [w EXCEPT !.app[a] = x]) BY <1>2, KeptWithin
<1>4. [w EXCEPT !.app[a].phase = phase] = [w EXCEPT !.app[a] = x] BY <1>1
<1> QED BY <1>3, <1>4

\* An entry of m_registeredServices is set: the rest is as it was.
Marked(w, v, a, s, entry) ==
  /\ v \in World
  /\ v.app[a].m_services = w.app[a].m_services
  /\ v.app[a].m_availableServices = w.app[a].m_availableServices
  /\ v.app[a].m_registeredServices[s] = entry
  /\ \A t \in Service : t # s =>
       v.app[a].m_registeredServices[t] = w.app[a].m_registeredServices[t]
  /\ \A c \in Application : c # a => Same(w.app[c], v.app[c])

LEMMA RegistrationSet ==
  ASSUME NEW w \in World, NEW a \in Application, NEW s \in Service, NEW entry \in Pointer
  PROVE  Marked(w, [w EXCEPT !.app[a].m_registeredServices[s] = entry], a, s, entry)
<1>1. PICK f : f = [w.app[a].m_registeredServices EXCEPT ![s] = entry] OBVIOUS
<1>2. PICK x : x = [w.app[a] EXCEPT !.m_registeredServices = f] OBVIOUS
<1>3. w.app[a] \in State BY WorldParts
<1>4. w.app[a].m_registeredServices \in [Service -> Pointer] BY <1>3, StateParts
<1>5. /\ f \in [Service -> Pointer] /\ f[s] = entry
      /\ \A t \in Service : t # s => f[t] = w.app[a].m_registeredServices[t]
  BY <1>1, <1>4, SMT
<1>6. /\ x \in State /\ x.m_registeredServices = f
      /\ x.m_services = w.app[a].m_services
      /\ x.m_availableServices = w.app[a].m_availableServices
  BY <1>2, <1>3, <1>5 DEF State
<1>7. PICK v : v = [w EXCEPT !.app[a] = x] OBVIOUS
<1>8. Replaces(w, v, a, x)
  <2>1. Replaces(w, [w EXCEPT !.app[a] = x], a, x) BY <1>6, Updated
  <2> QED BY <1>7, <2>1
<1>9. Marked(w, v, a, s, entry) BY <1>5, <1>6, <1>8 DEF Marked, Replaces, Same
<1>10. [w EXCEPT !.app[a].m_registeredServices[s] = entry] = v BY <1>1, <1>2, <1>7
<1> QED BY <1>9, <1>10

\* The providers of a service, and the entry of the dispatcher.
LEMMA Known ==
  ASSUME NEW w \in World, NEW a \in Application, NEW s, NEW b \in getService(w, a, s)
  PROVE  \E k \in DOMAIN w.app[a].m_services : w.app[a].m_services[k] = <<s, b>>
<1>1. PICK q : q = w.app[a].m_services OBVIOUS
<1>2. q \in Seq(Entry)
  <2>1. w.app[a] \in State BY WorldParts
  <2> QED BY <1>1, <2>1, StateParts
<1>3. PICK k \in DOMAIN q : q[k][1] = s /\ q[k][2] = b BY <1>1 DEF getService
<1>4. q[k] \in Entry BY <1>2, <1>3, SMT
<1>5. q[k] = <<s, b>> BY <1>3, <1>4, SMT DEF Entry
<1> QED BY <1>1, <1>3, <1>5

LEMMA Unknown ==
  ASSUME NEW w, NEW a, NEW s, getService(w, a, s) = {}
  PROVE  \A i \in DOMAIN w.app[a].m_services : w.app[a].m_services[i][1] # s
BY DEF getService

\* Two states of the group that differ at application a only.
LEMMA MirrorElsewhere ==
  ASSUME NEW w, NEW v \in World, NEW a \in Application, Mirrored(w), Mirrors(a, v.app[a]),
         \A c \in Application : c # a => Same(w.app[c], v.app[c])
  PROVE  Mirrored(v)
<1> SUFFICES ASSUME NEW c \in Application, c # a PROVE Mirrors(c, v.app[c])
  BY DEF Mirrored
<1>1. Mirrors(c, w.app[c]) /\ Same(w.app[c], v.app[c]) BY DEF Mirrored
<1> QED BY <1>1 DEF Mirrors, Same

\* A service of b that was not known is registered.
LEMMA MirrorRegistered ==
  ASSUME NEW w, NEW v, NEW a \in Application, NEW s \in Service, NEW b \in Application,
         Mirrored(w), getService(w, a, s) = {}, Registered(w, v, a, s, b)
  PROVE  Mirrored(v)
<1>1. PICK x : x = w.app[a] OBVIOUS
<1>2. PICK y : y = v.app[a] OBVIOUS
<1>3. w \in World /\ v \in World BY DEF Mirrored, Registered
<1>4. x \in State /\ y \in State BY <1>1, <1>2, <1>3, WorldParts
<1>5. Mirrors(a, x) BY <1>1 DEF Mirrored
<1>6. \A i \in DOMAIN x.m_services : x.m_services[i][1] # s BY <1>1, Unknown
<1>7. /\ y.m_services = Append(x.m_services, <<s, b>>)
      /\ y.m_availableServices = Append(x.m_availableServices, s)
      /\ y.m_registeredServices = x.m_registeredServices
  BY <1>1, <1>2 DEF Registered
<1>8. Mirrors(a, y)
  <2>1. \A t \in Service : y.m_registeredServices[t] = "service" =>
          x.m_registeredServices[t] = "service" \/ <<t, a>> = <<s, b>>
    BY <1>7
  <2>2. y.m_services = Append(x.m_services, <<s, b>>) BY <1>7
  <2>3. y.m_availableServices = Append(x.m_availableServices, s) BY <1>7
  <2> QED BY <1>4, <1>5, <1>6, <2>1, <2>2, <2>3, MirrorAppended, SMT
<1> QED BY <1>2, <1>3, <1>8, MirrorElsewhere DEF Registered

\* A service that the dispatcher knows gets into m_registeredServices.
LEMMA MirrorMarked ==
  ASSUME NEW w, NEW v, NEW a \in Application, NEW s \in Service,
         Mirrored(w), Marked(w, v, a, s, "service"),
         NEW k \in DOMAIN w.app[a].m_services, w.app[a].m_services[k] = <<s, a>>
  PROVE  Mirrored(v)
<1>1. PICK x : x = w.app[a] OBVIOUS
<1>2. PICK y : y = v.app[a] OBVIOUS
<1>3. PICK q : q = x.m_services OBVIOUS
<1>4. y.m_services = q /\ y.m_availableServices = x.m_availableServices
  BY <1>1, <1>2, <1>3 DEF Marked
<1>5. Lists(a, q, x.m_availableServices, x.m_registeredServices)
  BY <1>1, <1>3 DEF Mirrored, Mirrors
<1>6. \A t \in Service : y.m_registeredServices[t] = "service" =>
        \E i \in DOMAIN q : q[i] = <<t, a>>
  <2> SUFFICES ASSUME NEW t \in Service, y.m_registeredServices[t] = "service"
               PROVE  \E i \in DOMAIN q : q[i] = <<t, a>>
    OBVIOUS
  <2>1. CASE t = s BY <1>1, <1>3, <2>1
  <2>2. CASE t # s
    <3>1. x.m_registeredServices[t] = "service" BY <1>1, <1>2, <2>2 DEF Marked
    <3> QED BY <1>5, <3>1 DEF Lists
  <2> QED BY <2>1, <2>2
<1>7. Lists(a, q, x.m_availableServices, y.m_registeredServices)
  BY <1>5, <1>6 DEF Lists
<1>8. Mirrors(a, y) BY <1>4, <1>7 DEF Mirrors
<1> QED BY <1>2, <1>8, MirrorElsewhere DEF Marked

\* DaemonLessClient::registerService
LEMMA RegisterCall ==
  ASSUME NEW w, NEW a \in Application, NEW s \in Service, Mirrored(w),
         getService(w, a, s) \subseteq {a},
         NEW v, v = IF getService(w, a, s) = {} THEN registerService(w, a, s, a) ELSE w
  PROVE  Mirrored([v EXCEPT !.app[a].m_registeredServices[s] = "service"])
<1>1. w \in World BY DEF Mirrored
<1>2. Mirrored(v) /\ \E k \in DOMAIN v.app[a].m_services : v.app[a].m_services[k] = <<s, a>>
  <2>1. CASE getService(w, a, s) = {}
    <3>1. Registered(w, v, a, s, a) BY <1>1, <2>1, ServiceRegistered
    <3>2. Mirrored(v) BY <2>1, <3>1, MirrorRegistered
    <3>3. PICK q : q = w.app[a].m_services OBVIOUS
    <3>4. q \in Seq(Entry)
      <4>1. w.app[a] \in State BY <1>1, WorldParts
      <4> QED BY <3>3, <4>1, StateParts
    <3>5. PICK e : e = <<s, a>> OBVIOUS
    <3>6. e \in Entry BY <3>5 DEF Entry
    <3>7. Len(q) + 1 \in DOMAIN Append(q, e) /\ Append(q, e)[Len(q) + 1] = e
      BY <3>4, <3>6, SMT
    <3>8. v.app[a].m_services = Append(q, e) BY <3>1, <3>3, <3>5 DEF Registered
    <3> QED BY <3>2, <3>5, <3>7, <3>8
  <2>2. CASE getService(w, a, s) # {}
    <3>1. getService(w, a, s) = {a} BY <2>2
    <3>2. v = w BY <2>2
    <3>3. \E k \in DOMAIN w.app[a].m_services : w.app[a].m_services[k] = <<s, a>>
      <4>1. PICK b : b = a OBVIOUS
      <4>2. b \in getService(w, a, s) BY <3>1, <4>1
      <4>3. \E k \in DOMAIN w.app[a].m_services : w.app[a].m_services[k] = <<s, b>>
        BY <1>1, <4>2, Known, ZenonT(60)
      <4> QED BY <4>1, <4>3
    <3> QED BY <3>2, <3>3
  <2> QED BY <2>1, <2>2
<1>3. PICK u : u = [v EXCEPT !.app[a].m_registeredServices[s] = "service"] OBVIOUS
<1>4. Marked(v, u, a, s, "service")
  <2>1. v \in World BY <1>2 DEF Mirrored
  <2>2. "service" \in Pointer BY DEF Pointer
  <2>3. Marked(v, [v EXCEPT !.app[a].m_registeredServices[s] = "service"], a, s, "service")
    BY <2>1, <2>2, RegistrationSet
  <2> QED BY <1>3, <2>3
<1>5. Mirrored(u) BY <1>2, <1>4, MirrorMarked
<1> QED BY <1>3, <1>5

\* DaemonLessClient::unregisterService
LEMMA UnregisterCall ==
  ASSUME NEW w, NEW a \in Application, NEW s \in Service, Mirrored(w),
         w.app[a].m_registeredServices[s] = "service"
  PROVE  Mirrored([unregisterService(w, a, s, a) EXCEPT
                     !.app[a].m_registeredServices[s] = "null"])
<1>1. w \in World /\ Mirrors(a, w.app[a]) BY DEF Mirrored
<1>2. PICK v : v = unregisterService(w, a, s, a) OBVIOUS
<1>3. PICK u : u = [v EXCEPT !.app[a].m_registeredServices[s] = "null"] OBVIOUS
<1>4. Unregistered(w, v, a, s, a)
  <2>1. PICK i \in DOMAIN w.app[a].m_services : w.app[a].m_services[i] = <<s, a>>
    BY <1>1 DEF Mirrors, Lists
  <2> QED BY <1>1, <1>2, <2>1, ServiceUnregistered
<1>5. Marked(v, u, a, s, "null")
  <2>1. v \in World BY <1>4 DEF Unregistered
  <2>2. "null" \in Pointer BY DEF Pointer
  <2>3. Marked(v, [v EXCEPT !.app[a].m_registeredServices[s] = "null"], a, s, "null")
    BY <2>1, <2>2, RegistrationSet
  <2> QED BY <1>3, <2>3
<1>6. PICK x : x = w.app[a] OBVIOUS
<1>7. PICK y : y = u.app[a] OBVIOUS
<1>8. PICK k \in DOMAIN x.m_services :
        /\ x.m_services[k] = <<s, a>>
        /\ y.m_services = Removed(x.m_services, k)
        /\ y.m_availableServices = Removed(x.m_availableServices, k)
  BY <1>4, <1>5, <1>6, <1>7 DEF Unregistered, Marked
<1>9. \A t \in Service : y.m_registeredServices[t] = "service" =>
        x.m_registeredServices[t] = "service" /\ <<t, a>> # x.m_services[k]
  <2> SUFFICES ASSUME NEW t \in Service, y.m_registeredServices[t] = "service"
               PROVE  x.m_registeredServices[t] = "service" /\ <<t, a>> # <<s, a>>
    BY <1>8
  <2>1. t # s
    <3>1. y.m_registeredServices[s] = "null" BY <1>5, <1>7 DEF Marked
    <3> QED BY <3>1, SMT
  <2>2. x.m_registeredServices[t] = "service"
    BY <1>4, <1>5, <1>6, <1>7, <2>1 DEF Marked, Unregistered
  <2>3. <<t, a>> # <<s, a>> BY <2>1, SMT
  <2> QED BY <2>2, <2>3
<1>10. x \in State /\ y \in State /\ u \in World
  <2>1. u \in World BY <1>5 DEF Marked
  <2> QED BY <1>1, <1>6, <1>7, <2>1, WorldParts
<1>11. Mirrors(a, y) BY <1>1, <1>6, <1>8, <1>9, <1>10, MirrorRemoved
<1>12. \A c \in Application : c # a => Same(w.app[c], u.app[c])
  BY <1>4, <1>5 DEF Unregistered, Marked, Same
<1>13. Mirrored(u) BY <1>7, <1>10, <1>11, <1>12, MirrorElsewhere
<1> QED BY <1>2, <1>3, <1>13

\* TCPManager::onRemoteServiceAvailable
LEMMA RemoteServiceAvailable ==
  ASSUME NEW w, NEW a \in Application, NEW s \in Service, NEW b \in Application, Mirrored(w)
  PROVE  Mirrored(onServiceAvailable(w, a, s, b))
<1>1. w \in World BY DEF Mirrored
<1>2. PICK isKnown : isKnown = (getService(w, a, s) # {}) OBVIOUS
<1>3. PICK v : v = IF isKnown THEN w ELSE registerService(w, a, s, b) OBVIOUS
<1>4. PICK checked :
        checked = IF v.app[a].m_instanceNamespace[b][s] = "null" THEN die(v, "null") ELSE v
  OBVIOUS
<1>5. PICK entry : entry = IF isKnown THEN "null" ELSE "service" OBVIOUS
<1>6. onServiceAvailable(w, a, s, b) =
        [checked EXCEPT !.app[a].m_instanceNamespace[b][s] = entry]
  BY <1>2, <1>3, <1>4, <1>5 DEF onServiceAvailable
<1>7. Mirrored(v)
  <2>1. CASE isKnown BY <1>3, <2>1
  <2>2. CASE ~isKnown
    <3>1. Registered(w, v, a, s, b) BY <1>1, <1>3, <2>2, ServiceRegistered
    <3>2. getService(w, a, s) = {} BY <1>2, <2>2
    <3> QED BY <3>1, <3>2, MirrorRegistered
  <2> QED BY <2>1, <2>2
<1>8. Mirrored(checked)
  <2>1. v \in World BY <1>7 DEF Mirrored
  <2>2. "null" \in Cause BY DEF Cause
  <2>3. Kept(v, die(v, "null")) BY <2>1, <2>2, Died
  <2>4. Mirrored(die(v, "null")) BY <1>7, <2>3, MirrorKept
  <2> QED BY <1>4, <1>7, <2>4
<1>9. Kept(checked, [checked EXCEPT !.app[a].m_instanceNamespace[b][s] = entry])
  <2>1. checked \in World BY <1>8 DEF Mirrored
  <2>2. entry \in Pointer BY <1>5 DEF Pointer
  <2> QED BY <2>1, <2>2, NamespaceSet
<1> QED BY <1>6, <1>8, <1>9, MirrorKept

\* TCPManager::onRemoteServiceUnavailable: a service of a itself stays.
LEMMA RemoteServiceUnavailable ==
  ASSUME NEW w, NEW a \in Application, NEW s \in Service, NEW b \in Application, b # a,
         Mirrored(w)
  PROVE  Mirrored(onServiceUnavailable(w, a, s, b))
<1>1. w \in World /\ Mirrors(a, w.app[a]) BY DEF Mirrored
<1>2. PICK v : v = IF getService(w, a, s) = {b} THEN unregisterService(w, a, s, b) ELSE w
  OBVIOUS
<1>3. onServiceUnavailable(w, a, s, b) =
        [v EXCEPT !.app[a].m_instanceNamespace[b][s] = None]
  BY <1>2 DEF onServiceUnavailable
<1>4. Mirrored(v)
  <2>1. CASE getService(w, a, s) # {b} BY <1>2, <2>1
  <2>2. CASE getService(w, a, s) = {b}
    <3>1. PICK i \in DOMAIN w.app[a].m_services : w.app[a].m_services[i] = <<s, b>>
      <4>1. b \in getService(w, a, s) BY <2>2
      <4> QED BY <1>1, <4>1, Known, ZenonT(60)
    <3>2. Unregistered(w, v, a, s, b) BY <1>1, <1>2, <2>2, <3>1, ServiceUnregistered
    <3>3. PICK x : x = w.app[a] OBVIOUS
    <3>4. PICK y : y = v.app[a] OBVIOUS
    <3>5. PICK k \in DOMAIN x.m_services :
            /\ x.m_services[k] = <<s, b>>
            /\ y.m_services = Removed(x.m_services, k)
            /\ y.m_availableServices = Removed(x.m_availableServices, k)
      BY <3>2, <3>3, <3>4 DEF Unregistered
    <3>6. \A t \in Service : y.m_registeredServices[t] = "service" =>
            x.m_registeredServices[t] = "service" /\ <<t, a>> # x.m_services[k]
      <4>1. y.m_registeredServices = x.m_registeredServices
        BY <3>2, <3>3, <3>4 DEF Unregistered
      <4>2. \A t : <<t, a>> # <<s, b>> BY SMT
      <4> QED BY <3>5, <4>1, <4>2
    <3>7. x \in State /\ y \in State /\ v \in World
      <4>1. v \in World BY <3>2 DEF Unregistered
      <4> QED BY <1>1, <3>3, <3>4, <4>1, WorldParts
    <3>8. Mirrors(a, y) BY <1>1, <3>3, <3>5, <3>6, <3>7, MirrorRemoved
    <3> QED BY <3>2, <3>4, <3>7, <3>8, MirrorElsewhere DEF Unregistered
  <2> QED BY <2>1, <2>2
<1>5. Kept(v, [v EXCEPT !.app[a].m_instanceNamespace[b][s] = None])
  <2>1. v \in World BY <1>4 DEF Mirrored
  <2>2. None \in Pointer BY DEF Pointer
  <2> QED BY <2>1, <2>2, NamespaceSet
<1> QED BY <1>3, <1>4, <1>5, MirrorKept

-----------------------------------------------------------------------------
(* Messages under way.                                                     *)

\* The first message is taken.
LEMMA Taken ==
  ASSUME NEW S, NEW f \in [Pair -> Seq(S)], NEW p \in Pair, f[p] # <<>>
  PROVE  Head(f[p]) \in S /\ [f EXCEPT ![p] = Tail(@)] \in [Pair -> Seq(S)]
<1>1. f[p] \in Seq(S) OBVIOUS
<1>2. Head(f[p]) \in S /\ Tail(f[p]) \in Seq(S) BY <1>1, SMT
<1> QED BY <1>2

LEMMA DatagramTaken ==
  ASSUME NEW w \in World, NEW p \in Pair, w.discovery[p] # <<>>
  PROVE  Head(w.discovery[p]) \in SDMessage /\ Kept(w, [w EXCEPT !.discovery[p] = Tail(@)])
<1>1. PICK f : f = [w.discovery EXCEPT ![p] = Tail(@)] OBVIOUS
<1>2. Head(w.discovery[p]) \in SDMessage /\ f \in [Pair -> Seq(SDMessage)]
  <2>1. w.discovery \in [Pair -> Seq(SDMessage)] BY WorldParts
  <2> QED BY <1>1, <2>1, Taken
<1>3. [w EXCEPT !.discovery[p] = Tail(@)] = [w EXCEPT !.discovery = f] BY <1>1
<1>4. [w EXCEPT !.discovery = f] \in World /\ [w EXCEPT !.discovery = f].app = w.app
  BY <1>2 DEF World
<1> QED BY <1>2, <1>3, <1>4 DEF Kept, Same

LEMMA RequestTaken ==
  ASSUME NEW w \in World, NEW p \in Pair, w.toServer[p] # <<>>
  PROVE  Head(w.toServer[p]) \in TCPMessage /\ Kept(w, [w EXCEPT !.toServer[p] = Tail(@)])
<1>1. PICK f : f = [w.toServer EXCEPT ![p] = Tail(@)] OBVIOUS
<1>2. Head(w.toServer[p]) \in TCPMessage /\ f \in [Pair -> Seq(TCPMessage)]
  <2>1. w.toServer \in [Pair -> Seq(TCPMessage)] BY WorldParts
  <2> QED BY <1>1, <2>1, Taken
<1>3. [w EXCEPT !.toServer[p] = Tail(@)] = [w EXCEPT !.toServer = f] BY <1>1
<1>4. [w EXCEPT !.toServer = f] \in World /\ [w EXCEPT !.toServer = f].app = w.app
  BY <1>2 DEF World
<1> QED BY <1>2, <1>3, <1>4 DEF Kept, Same

LEMMA AnswerTaken ==
  ASSUME NEW w \in World, NEW p \in Pair, w.toClient[p] # <<>>
  PROVE  Head(w.toClient[p]) \in TCPMessage /\ Kept(w, [w EXCEPT !.toClient[p] = Tail(@)])
<1>1. PICK f : f = [w.toClient EXCEPT ![p] = Tail(@)] OBVIOUS
<1>2. Head(w.toClient[p]) \in TCPMessage /\ f \in [Pair -> Seq(TCPMessage)]
  <2>1. w.toClient \in [Pair -> Seq(TCPMessage)] BY WorldParts
  <2> QED BY <1>1, <2>1, Taken
<1>3. [w EXCEPT !.toClient[p] = Tail(@)] = [w EXCEPT !.toClient = f] BY <1>1
<1>4. [w EXCEPT !.toClient = f] \in World /\ [w EXCEPT !.toClient = f].app = w.app
  BY <1>2 DEF World
<1> QED BY <1>2, <1>3, <1>4 DEF Kept, Same

\* The answer to a request.
LEMMA Replied ==
  ASSUME NEW w \in World, NEW p \in Pair, NEW s \in Service
  PROVE  Kept(w, [w EXCEPT !.toClient[p] = Append(@, message("reply", s))])
<1>1. PICK f : f = [w.toClient EXCEPT ![p] = Append(@, message("reply", s))] OBVIOUS
<1>2. f \in [Pair -> Seq(TCPMessage)]
  <2>1. w.toClient \in [Pair -> Seq(TCPMessage)] BY WorldParts
  <2>2. message("reply", s) \in TCPMessage BY SMT DEF message, TCPMessage
  <2>3. \A q \in Seq(TCPMessage) : Append(q, message("reply", s)) \in Seq(TCPMessage)
    BY <2>2, SMT
  <2> QED BY <1>1, <2>1, <2>3
<1>3. [w EXCEPT !.toClient = f] \in World /\ [w EXCEPT !.toClient = f].app = w.app
  BY <1>2 DEF World
<1>4. Kept(w, [w EXCEPT !.toClient = f]) BY <1>3 DEF Kept, Same
<1> QED BY <1>1, <1>4

\* The services that discovery messages are about.
LEMMA Datagrams ==
  ASSUME NEW m \in SDMessage, m.type # "query"
  PROVE  m.service \in Service
BY SMT DEF SDMessage

LEMMA TCPMessages ==
  ASSUME NEW m \in TCPMessage
  PROVE  m.service \in Service
BY SMT DEF TCPMessage

-----------------------------------------------------------------------------
(* The actions.                                                            *)

\* The state after a step.
LEMMA Becomes ==
  ASSUME NEW v, Mirrored(v), becomes(v)
  PROVE  MirrorInv'
<1>1. v \in World BY DEF Mirrored
<1>2. v = [app |-> v.app, discovery |-> v.discovery, toServer |-> v.toServer,
           toClient |-> v.toClient, dead |-> v.dead]
  BY <1>1 DEF World
<1>3. /\ app' = v.app /\ discovery' = v.discovery /\ toServer' = v.toServer
      /\ toClient' = v.toClient /\ dead' = v.dead
  BY DEF becomes
<1>4. world' = v BY <1>2, <1>3 DEF world
<1> QED BY <1>4 DEF MirrorInv

LEMMA BecomesKept ==
  ASSUME MirrorInv, NEW v, Kept(world, v), becomes(v)
  PROVE  MirrorInv'
BY MirrorKept, Becomes DEF MirrorInv

\* The state of the group.
LEMMA WorldFields ==
  /\ world.app = app /\ world.discovery = discovery /\ world.toServer = toServer
  /\ world.toClient = toClient /\ world.dead = dead
BY DEF world

\* A channel from b to a.
LEMMA Channels ==
  ASSUME NEW p \in Pair
  PROVE  /\ p[1] \in Application /\ p[2] \in Application /\ p[1] # p[2]
         /\ <<p[1], p[2]>> \in Pair /\ <<p[2], p[1]>> \in Pair
BY SMT DEF Pair

\* DaemonLessClient::connect, registerService and unregisterService.
LEMMA RegistrationSteps ==
  ASSUME MirrorInv, NEW a \in Application
  PROVE  /\ connectAnnouncer(a) \/ connectListener(a) => MirrorInv'
         /\ \A s \in Service : callRegisterService(a, s) \/ callUnregisterService(a, s) => MirrorInv'
<1>1. PICK w : w = world OBVIOUS
<1>2. Mirrored(w) /\ w \in World /\ w.app = app
  BY <1>1, WorldFields DEF MirrorInv, Mirrored
<1>3. ASSUME connectAnnouncer(a) PROVE MirrorInv'
  <2>1. PICK v : v = multicast(w, a, <<[type |-> "query"]>>) OBVIOUS
  <2>2. Kept(w, v) /\ v \in World
    <3>1. <<[type |-> "query"]>> \in Seq(SDMessage) BY SMT DEF SDMessage
    <3> QED BY <1>2, <2>1, <3>1, Multicast DEF Kept
  <2>3. Kept(v, [v EXCEPT !.app[a].phase = "connecting"]) BY <2>2, PhaseSet
  <2>4. Kept(w, [v EXCEPT !.app[a].phase = "connecting"]) BY <2>2, <2>3, KeptTwice
  <2>5. becomes([v EXCEPT !.app[a].phase = "connecting"])
    BY <1>1, <1>3, <2>1 DEF connectAnnouncer
  <2> QED BY <1>1, <2>4, <2>5, BecomesKept
<1>4. ASSUME connectListener(a) PROVE MirrorInv'
  <2>1. Kept(w, [w EXCEPT !.app[a].phase = "connected"]) BY <1>2, PhaseSet
  <2>2. becomes([w EXCEPT !.app[a].phase = "connected"])
    BY <1>1, <1>4 DEF connectListener
  <2> QED BY <1>1, <2>1, <2>2, BecomesKept
<1>5. ASSUME NEW s \in Service, callRegisterService(a, s) PROVE MirrorInv'
  <2>1. PICK v : v = IF getService(w, a, s) = {} THEN registerService(w, a, s, a) ELSE w
    OBVIOUS
  <2>2. getService(w, a, s) \subseteq {a} BY <1>1, <1>5 DEF callRegisterService
  <2>3. Mirrored([v EXCEPT !.app[a].m_registeredServices[s] = "service"])
    BY <1>2, <2>1, <2>2, RegisterCall
  <2>4. becomes([v EXCEPT !.app[a].m_registeredServices[s] = "service"])
    BY <1>1, <1>5, <2>1 DEF callRegisterService
  <2> QED BY <2>3, <2>4, Becomes
<1>6. ASSUME NEW s \in Service, callUnregisterService(a, s) PROVE MirrorInv'
  <2>1. CASE /\ app[a].m_registeredServices[s] = "service"
             /\ becomes([unregisterService(w, a, s, a)
                           EXCEPT !.app[a].m_registeredServices[s] = "null"])
    <3>1. w.app[a].m_registeredServices[s] = "service" BY <1>2, <2>1
    <3>2. Mirrored([unregisterService(w, a, s, a)
                      EXCEPT !.app[a].m_registeredServices[s] = "null"])
      BY <1>2, <3>1, UnregisterCall
    <3> QED BY <2>1, <3>2, Becomes
  <2>2. CASE becomes(die(w, "unregistered"))
    <3>1. Kept(w, die(w, "unregistered")) BY <1>2, Died DEF Cause
    <3> QED BY <1>1, <2>2, <3>1, BecomesKept
  <2> QED BY <1>1, <1>6, <2>1, <2>2 DEF callUnregisterService
<1> QED BY <1>3, <1>4, <1>5, <1>6

\* The other calls, and the timer.
LEMMA OtherCalls ==
  ASSUME MirrorInv, NEW a \in Application
  PROVE  /\ onAnnouncementTimer(a) => MirrorInv'
         /\ \A s \in Service :
              callSubscribe(a, s) \/ callNotify(a, s) \/ callRequest(a, s) => MirrorInv'
<1>1. PICK w : w = world OBVIOUS
<1>2. w \in World BY <1>1 DEF MirrorInv, Mirrored
<1>3. ASSUME onAnnouncementTimer(a) PROVE MirrorInv'
  <2>1. Kept(w, announceServices(w, a)) BY <1>2, ServicesAnnounced
  <2>2. becomes(announceServices(w, a)) BY <1>1, <1>3 DEF onAnnouncementTimer
  <2> QED BY <1>1, <2>1, <2>2, BecomesKept
<1>4. ASSUME NEW s \in Service, callSubscribe(a, s) PROVE MirrorInv'
  <2>1. Kept(w, subscribeClientForNotifications(w, a, s, a)) BY <1>2, ClientSubscribed
  <2>2. becomes(subscribeClientForNotifications(w, a, s, a)) BY <1>1, <1>4 DEF callSubscribe
  <2> QED BY <1>1, <2>1, <2>2, BecomesKept
<1>5. ASSUME NEW s \in Service, callNotify(a, s) PROVE MirrorInv'
  <2>1. PICK v : v = getOrCreateNotification(w, a, s) OBVIOUS
  <2>2. Kept(w, v) /\ v \in World BY <1>2, <2>1, NotificationCreated DEF Kept
  <2>3. Kept(v, notify(v, a, s)) BY <2>2, Notified
  <2>4. Kept(w, notify(v, a, s)) BY <2>2, <2>3, KeptTwice
  <2>5. becomes(notify(v, a, s)) BY <1>1, <1>5, <2>1 DEF callNotify
  <2> QED BY <1>1, <2>4, <2>5, BecomesKept
<1>6. ASSUME NEW s \in Service, callRequest(a, s) PROVE MirrorInv'
  <2>1. PICK remote : remote = getService(w, a, s) \ {a} OBVIOUS
  <2>2. PICK f : f = [p \in Pair |->
                   IF p[1] = a /\ p[2] \in remote
                   THEN Append(w.toServer[p], message("request", s)) ELSE w.toServer[p]]
    OBVIOUS
  <2>3. Kept(w, [w EXCEPT !.toServer = f])
    <3>1. w.toServer \in [Pair -> Seq(TCPMessage)] BY <1>2, WorldParts
    <3>2. message("request", s) \in TCPMessage BY SMT DEF message, TCPMessage
    <3>3. \A q \in Seq(TCPMessage) : Append(q, message("request", s)) \in Seq(TCPMessage)
      BY <3>2, SMT
    <3>4. f \in [Pair -> Seq(TCPMessage)] BY <2>2, <3>1, <3>3
    <3>5. [w EXCEPT !.toServer = f] \in World /\ [w EXCEPT !.toServer = f].app = w.app
      BY <1>2, <3>4 DEF World
    <3> QED BY <3>5 DEF Kept, Same
  <2>4. becomes([w EXCEPT !.toServer = f]) BY <1>1, <1>6, <2>1, <2>2 DEF callRequest
  <2> QED BY <1>1, <2>3, <2>4, BecomesKept
<1> QED BY <1>3, <1>4, <1>5, <1>6

\* RemoteServiceListener::handleMessage, and the loss of a datagram.
LEMMA DiscoverySteps ==
  ASSUME MirrorInv, NEW a \in Application, NEW b \in Application, b # a, <<b, a>> \in Pair,
         handleMessage(a, b) \/ loseMessage(a, b)
  PROVE  MirrorInv'
<1>1. PICK p : p = <<b, a>> OBVIOUS
<1>2. PICK u : u = world OBVIOUS
<1>3. Mirrored(u) /\ u \in World /\ u.discovery = discovery
  BY <1>2, WorldFields DEF MirrorInv, Mirrored
<1>4. PICK m : m = Head(discovery[p]) OBVIOUS
<1>5. PICK w : w = [u EXCEPT !.discovery[p] = Tail(@)] OBVIOUS
<1>6. discovery[p] # <<>> BY <1>1 DEF handleMessage, loseMessage
<1>7. m \in SDMessage /\ Kept(u, w)
  <2>1. p \in Pair /\ u.discovery[p] # <<>> BY <1>1, <1>3, <1>6
  <2>2. Head(u.discovery[p]) \in SDMessage /\ Kept(u, [u EXCEPT !.discovery[p] = Tail(@)])
    BY <1>3, <2>1, DatagramTaken
  <2> QED BY <1>3, <1>4, <1>5, <2>2
<1>8. Mirrored(w) /\ w \in World BY <1>3, <1>7, MirrorKept DEF Kept
<1>9. \/ becomes(announceServices(w, a))
      \/ m.type = "offer" /\ becomes(onServiceAvailable(w, a, m.service, b))
      \/ m.type = "stop" /\ becomes(onServiceUnavailable(w, a, m.service, b))
      \/ becomes(w)
  <2>1. CASE handleMessage(a, b) BY <1>1, <1>2, <1>4, <1>5, <2>1 DEF handleMessage
  <2>2. CASE loseMessage(a, b) BY <1>1, <1>2, <1>5, <2>2 DEF loseMessage
  <2> QED BY <2>1, <2>2
<1>10. CASE becomes(announceServices(w, a))
  <2>1. Kept(w, announceServices(w, a)) BY <1>8, ServicesAnnounced
  <2>2. Mirrored(announceServices(w, a)) BY <1>8, <2>1, MirrorKept
  <2> QED BY <1>10, <2>2, Becomes
<1>11. CASE m.type = "offer" /\ becomes(onServiceAvailable(w, a, m.service, b))
  <2>1. "offer" # "query" BY SMT
  <2>2. m.service \in Service BY <1>7, <1>11, <2>1, Datagrams
  <2>3. Mirrored(onServiceAvailable(w, a, m.service, b))
    BY <1>8, <2>2, RemoteServiceAvailable
  <2> QED BY <1>11, <2>3, Becomes
<1>12. CASE m.type = "stop" /\ becomes(onServiceUnavailable(w, a, m.service, b))
  <2>1. "stop" # "query" BY SMT
  <2>2. m.service \in Service BY <1>7, <1>12, <2>1, Datagrams
  <2>3. Mirrored(onServiceUnavailable(w, a, m.service, b))
    BY <1>8, <2>2, RemoteServiceUnavailable
  <2> QED BY <1>12, <2>3, Becomes
<1>13. CASE becomes(w) BY <1>8, <1>13, Becomes
<1> QED BY <1>9, <1>10, <1>11, <1>12, <1>13

\* TCPClient::processIncomingData of the connection that b opened.
LEMMA RequestSteps ==
  ASSUME MirrorInv, NEW a \in Application, NEW b \in Application,
         <<b, a>> \in Pair, <<a, b>> \in Pair, processRequest(a, b)
  PROVE  MirrorInv'
<1>1. PICK p : p = <<b, a>> OBVIOUS
<1>2. PICK r : r = <<a, b>> OBVIOUS
<1>3. PICK u : u = world OBVIOUS
<1>4. Mirrored(u) /\ u \in World /\ u.toServer = toServer
  BY <1>3, WorldFields DEF MirrorInv, Mirrored
<1>5. PICK m : m = Head(toServer[p]) OBVIOUS
<1>6. PICK w : w = [u EXCEPT !.toServer[p] = Tail(@)] OBVIOUS
<1>7. m.service \in Service /\ Kept(u, w)
  <2>1. p \in Pair /\ u.toServer[p] # <<>> BY <1>1, <1>4 DEF processRequest
  <2>2. Head(u.toServer[p]) \in TCPMessage /\ Kept(u, [u EXCEPT !.toServer[p] = Tail(@)])
    BY <1>4, <2>1, RequestTaken
  <2>3. m \in TCPMessage BY <1>4, <1>5, <2>2
  <2> QED BY <1>6, <2>2, <2>3, TCPMessages
<1>8. w \in World BY <1>7 DEF Kept
<1>9. \/ becomes(subscribeClientForNotifications(w, a, m.service, b))
      \/ becomes([w EXCEPT !.toClient[r] = Append(@, message("reply", m.service))])
      \/ becomes(die(w, "unknown"))
  BY <1>1, <1>2, <1>3, <1>5, <1>6 DEF processRequest
<1>10. ASSUME NEW v, Kept(w, v), becomes(v) PROVE MirrorInv'
  <2>1. Kept(u, v) BY <1>7, <1>10, KeptTwice
  <2> QED BY <1>3, <1>10, <2>1, BecomesKept
<1>11. CASE becomes(subscribeClientForNotifications(w, a, m.service, b))
  <2>1. Kept(w, subscribeClientForNotifications(w, a, m.service, b))
    BY <1>7, <1>8, ClientSubscribed
  <2> QED BY <1>10, <1>11, <2>1
<1>12. CASE becomes([w EXCEPT !.toClient[r] = Append(@, message("reply", m.service))])
  <2>1. r \in Pair BY <1>2
  <2>2. Kept(w, [w EXCEPT !.toClient[r] = Append(@, message("reply", m.service))])
    BY <1>7, <1>8, <2>1, Replied
  <2> QED BY <1>10, <1>12, <2>2
<1>13. CASE becomes(die(w, "unknown"))
  <2>1. Kept(w, die(w, "unknown")) BY <1>8, Died DEF Cause
  <2> QED BY <1>10, <1>13, <2>1
<1> QED BY <1>9, <1>11, <1>12, <1>13

\* TCPClient::processIncomingData of the connection that a opened.
LEMMA AnswerSteps ==
  ASSUME MirrorInv, NEW a \in Application, NEW b \in Application, <<b, a>> \in Pair,
         processAnswer(a, b)
  PROVE  MirrorInv'
<1>1. PICK p : p = <<b, a>> OBVIOUS
<1>2. PICK u : u = world OBVIOUS
<1>3. Mirrored(u) /\ u \in World /\ u.toClient = toClient
  BY <1>2, WorldFields DEF MirrorInv, Mirrored
<1>4. PICK m : m = Head(toClient[p]) OBVIOUS
<1>5. PICK w : w = [u EXCEPT !.toClient[p] = Tail(@)] OBVIOUS
<1>6. m.service \in Service /\ Kept(u, w)
  <2>1. p \in Pair /\ u.toClient[p] # <<>> BY <1>1, <1>3 DEF processAnswer
  <2>2. Head(u.toClient[p]) \in TCPMessage /\ Kept(u, [u EXCEPT !.toClient[p] = Tail(@)])
    BY <1>3, <2>1, AnswerTaken
  <2>3. m \in TCPMessage BY <1>3, <1>4, <2>2
  <2> QED BY <1>5, <2>2, <2>3, TCPMessages
<1>7. w \in World BY <1>6 DEF Kept
<1>8. PICK x : x = getOrCreateNotification(w, a, m.service) OBVIOUS
<1>9. \/ becomes(die(w, "unknown")) \/ becomes(die(w, "null")) \/ becomes(w)
      \/ becomes(notify(x, a, m.service))
  BY <1>1, <1>2, <1>4, <1>5, <1>8 DEF processAnswer
<1>10. ASSUME NEW v, Kept(w, v), becomes(v) PROVE MirrorInv'
  <2>1. Kept(u, v) BY <1>6, <1>10, KeptTwice
  <2> QED BY <1>2, <1>10, <2>1, BecomesKept
<1>11. Kept(w, die(w, "unknown")) /\ Kept(w, die(w, "null")) /\ Kept(w, w)
  BY <1>7, Died, KeptAtAll DEF Cause
<1>12. Kept(w, notify(x, a, m.service))
  <2>1. Kept(w, x) /\ x \in World BY <1>6, <1>7, <1>8, NotificationCreated DEF Kept
  <2>2. Kept(x, notify(x, a, m.service)) BY <1>6, <2>1, Notified
  <2> QED BY <2>1, <2>2, KeptTwice
<1> QED BY <1>9, <1>10, <1>11, <1>12

-----------------------------------------------------------------------------
(* The theorems.                                                           *)

LEMMA Initially ==
  ASSUME Init
  PROVE  MirrorInv
<1>1. PICK x : x = [phase |-> "new", m_services |-> <<>>,
                    m_registeredServices |-> [s \in Service |-> None],
                    m_availableServices |-> <<>>, m_notifications |-> {},
                    m_subscribedClients |-> [s \in Service |-> <<>>],
                    m_instanceNamespace |-> [b \in Application |-> [s \in Service |-> None]],
                    inbox |-> [s \in Service |-> 0]]
  OBVIOUS
<1>2. \A S : <<>> \in Seq(S) BY SMT
<1>3. 0 \in Nat BY SMT
<1>4. x \in State BY <1>1, <1>2, <1>3 DEF State, Pointer
<1>5. \A a \in Application : app[a] = x BY <1>1 DEF Init
<1>6. app \in [Application -> State] BY <1>1, <1>4 DEF Init
<1>7. world \in World
  <2>1. /\ discovery \in [Pair -> Seq(SDMessage)] /\ toServer \in [Pair -> Seq(TCPMessage)]
        /\ toClient \in [Pair -> Seq(TCPMessage)] /\ dead \in Cause \cup {None}
    BY <1>2 DEF Init
  <2> QED BY <1>6, <2>1 DEF world, World
<1>8. \A a \in Application : Mirrors(a, x)
  <2>1. x.m_services = <<>> /\ x.m_availableServices = <<>> BY <1>1
  <2>2. \A s \in Service : x.m_registeredServices[s] = None BY <1>1
  <2>3. DOMAIN <<>> = {} BY SMT
  <2>4. <<>> = [i \in DOMAIN <<>> |-> <<>>[i][1]] BY SMT
  <2>5. None # "service" BY SMT DEF None
  <2> QED BY <2>1, <2>2, <2>3, <2>4, <2>5 DEF Mirrors, Lists
<1>9. world.app = app BY WorldFields
<1> QED BY <1>5, <1>7, <1>8, <1>9 DEF MirrorInv, Mirrored

\* MirrorInv is an inductive invariant.
LEMMA Step ==
  ASSUME MirrorInv, [Next]_vars
  PROVE  MirrorInv'
<1>1. CASE UNCHANGED vars
  <2>1. world' = world BY <1>1 DEF vars, netVars, world
  <2> QED BY <2>1 DEF MirrorInv
<1>2. ASSUME NEW a \in Application,
             connectAnnouncer(a) \/ connectListener(a) \/ onAnnouncementTimer(a)
      PROVE  MirrorInv'
  BY <1>2, RegistrationSteps, OtherCalls
<1>3. ASSUME NEW a \in Application, NEW s \in Service,
             \/ callRegisterService(a, s) \/ callUnregisterService(a, s)
             \/ callSubscribe(a, s) \/ callNotify(a, s) \/ callRequest(a, s)
      PROVE  MirrorInv'
  BY <1>3, RegistrationSteps, OtherCalls
<1>4. ASSUME NEW p \in Pair,
             \/ handleMessage(p[1], p[2]) \/ loseMessage(p[1], p[2])
             \/ processRequest(p[1], p[2]) \/ processAnswer(p[1], p[2])
      PROVE  MirrorInv'
  <2>1. PICK a : a = p[1] OBVIOUS
  <2>2. PICK b : b = p[2] OBVIOUS
  <2>3. a \in Application /\ b \in Application /\ b # a /\ <<a, b>> \in Pair /\ <<b, a>> \in Pair
    BY <2>1, <2>2, Channels
  <2>4. handleMessage(a, b) \/ loseMessage(a, b) \/ processRequest(a, b) \/ processAnswer(a, b)
    BY <1>4, <2>1, <2>2
  <2> QED BY <2>3, <2>4, DiscoverySteps, RequestSteps, AnswerSteps
<1> QED BY <1>1, <1>2, <1>3, <1>4 DEF Next

\* However calls, timers, losses and messages of the applications interleave,
\* the registry of an application mirrors its dispatcher, in which each
\* service occurs once and those that the application registered occur.
THEOREM Invariance == Spec => []MirrorInv
<1>1. MirrorInv /\ [Next]_vars => MirrorInv' BY Step
<1> QED BY <1>1, Initially, PTL DEF Spec

\* isServiceRegistered() tells what the dispatcher of the application knows.
THEOREM RegistryMirrors == Spec => []RegistryIsMirror
<1>1. MirrorInv => RegistryIsMirror
  <2> SUFFICES ASSUME MirrorInv, NEW a \in Application
               PROVE  app[a].m_availableServices =
                        [i \in DOMAIN app[a].m_services |-> app[a].m_services[i][1]]
    BY DEF RegistryIsMirror
  <2>1. Mirrors(a, app[a]) BY WorldFields DEF MirrorInv, Mirrored
  <2> QED BY <2>1 DEF Mirrors, Lists
<1> QED BY <1>1, Invariance, PTL
=============================================================================
