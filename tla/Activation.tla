----------------------------- MODULE Activation -----------------------------
(***************************************************************************)
(* On-demand activation of services: daemon/Activation with the parts of   *)
(* the dispatcher it goes through.  A WellKnownService is registered from  *)
(* its configuration file when the daemon starts; the first request starts *)
(* its process and waits, with those that follow, until a client has       *)
(* registered the service.                                                 *)
(***************************************************************************)
EXTENDS Naturals, Sequences, SequencesExt, FiniteSets

CONSTANTS
  ServiceID,         \* configured services
  Client,            \* connections of processes that provide a service
  NULL,              \* nullptr
  BadDirectory,      \* services whose WorkingDirectory does not exist
  SpawnMayFail,      \* may g_spawn_command_line_async fail?
  ProcessMayDie,     \* may a process end before it registers its service?
  ProviderMayLeave,  \* may a provider unregister its service or disconnect?
  MaxRequests        \* bound: requests

ASSUME ActivationAssumption ==
  /\ BadDirectory \subseteq ServiceID
  /\ NULL \notin Client
  /\ MaxRequests \in Nat

VARIABLES
  m_services,         \* services for which the WellKnownService is registered
  m_client,           \* client of each WellKnownService
  m_state,            \* ProcessState of each WellKnownService
  m_pendingMessages,  \* requests that wait for the provider, per service
  otherProvider,      \* client of an ordinary Service with these ids
  processes,          \* processes started, not yet connected, per service
  idle,               \* clients that have not connected yet
  requests,           \* requests made, all services together
  delivered,          \* requests a provider received, per service, in order
  failed,             \* requests answered with an ERROR
  aborted             \* an exception ended the daemon

vars == <<m_services, m_client, m_state, m_pendingMessages, otherProvider,
          processes, idle, requests, delivered, failed, aborted>>

-----------------------------------------------------------------------------
\* WellKnownServiceManager::readConfiguration: every configured service is
\* registered at once.
Init ==
  /\ m_services = ServiceID
  /\ m_client = [sid \in ServiceID |-> NULL]
  /\ m_state = [sid \in ServiceID |-> "STOPPED"]
  /\ m_pendingMessages = [sid \in ServiceID |-> <<>>]
  /\ otherProvider = [sid \in ServiceID |-> NULL]
  /\ processes = [sid \in ServiceID |-> 0]
  /\ idle = Client
  /\ requests = 0
  /\ delivered = [sid \in ServiceID |-> <<>>]
  /\ failed = {}
  /\ aborted = FALSE

-----------------------------------------------------------------------------
\* Request r is answered with a message of type ERROR.
replyError(r) == failed' = failed \cup {r}

\* WellKnownService::activateService, when no start is under way: the process
\* is spawned, or the spawn fails.
activate(sid) ==
  \/ /\ m_state' = [m_state EXCEPT ![sid] = "STARTING"]
     /\ processes' = [processes EXCEPT ![sid] = @ + 1]
  \/ /\ SpawnMayFail
     /\ m_state' = [m_state EXCEPT ![sid] = "START_FAILED"]
     /\ UNCHANGED processes

\* MUTANT: a request that finds the process starting is refused.
sendMessageImpatient(sid, r) ==
  /\ IF m_state[sid] = "STARTING"
     THEN replyError(r) /\ UNCHANGED <<m_state, processes, m_pendingMessages>>
     ELSE /\ activate(sid)
          /\ IF m_state'[sid] # "START_FAILED"
             THEN /\ m_pendingMessages' =
                       [m_pendingMessages EXCEPT ![sid] = Append(@, r)]
                  /\ UNCHANGED failed
             ELSE replyError(r) /\ UNCHANGED m_pendingMessages
  /\ UNCHANGED <<delivered, aborted>>

\* MUTANT: a request that finds the process starting is not kept.
sendMessageForgetful(sid, r) ==
  /\ IF m_state[sid] = "STARTING"
     THEN UNCHANGED <<m_state, processes, m_pendingMessages, failed>>
     ELSE /\ activate(sid)
          /\ IF m_state'[sid] # "START_FAILED"
             THEN /\ m_pendingMessages' =
                       [m_pendingMessages EXCEPT ![sid] = Append(@, r)]
                  /\ UNCHANGED failed
             ELSE replyError(r) /\ UNCHANGED m_pendingMessages
  /\ UNCHANGED <<delivered, aborted>>

\* WellKnownService::sendMessage without a client: the process is started
\* unless it is starting, and the request waits; or the start has failed and
\* the request is answered with an error.
sendMessageActivating(sid, r) ==
  /\ IF m_state[sid] = "STARTING" THEN UNCHANGED <<m_state, processes>>
     ELSE activate(sid)
  /\ IF m_state'[sid] # "START_FAILED"
     THEN /\ m_pendingMessages' = [m_pendingMessages EXCEPT ![sid] = Append(@, r)]
          /\ UNCHANGED failed
     ELSE replyError(r) /\ UNCHANGED m_pendingMessages
  /\ UNCHANGED <<delivered, aborted>>

\* A request r for sid (Dispatcher::dispatchMessage): to the WellKnownService
\* if it is registered, else to an ordinary Service, else it is refused.
\* WellKnownService::sendMessage passes it on when there is a client; a
\* WorkingDirectory that does not exist ends the daemon with an exception.
dispatchRequest(sid) ==
  LET r == requests + 1 IN
  /\ ~aborted
  /\ requests < MaxRequests
  /\ requests' = r
  /\ \/ /\ sid \in m_services
        /\ m_client[sid] = NULL
        /\ sid \notin BadDirectory
        /\ sendMessageActivating(sid, r)
     \/ /\ sid \in m_services
        /\ m_client[sid] = NULL
        /\ sid \in BadDirectory
        /\ aborted' = TRUE
        /\ UNCHANGED <<m_state, processes, m_pendingMessages, delivered, failed>>
     \/ /\ IF sid \in m_services THEN m_client[sid] # NULL
                                 ELSE otherProvider[sid] # NULL
        /\ delivered' = [delivered EXCEPT ![sid] = Append(@, r)]
        /\ UNCHANGED <<m_state, processes, m_pendingMessages, failed, aborted>>
     \/ /\ sid \notin m_services
        /\ otherProvider[sid] = NULL
        /\ replyError(r)
        /\ UNCHANGED <<m_state, processes, m_pendingMessages, delivered, aborted>>
  /\ UNCHANGED <<m_services, m_client, otherProvider, idle>>

\* MUTANT: the pending requests are sent from the back of the list.
setClientBackwards(sid, c) ==
  /\ m_client[sid] = NULL
  /\ m_client' = [m_client EXCEPT ![sid] = c]
  /\ delivered' = [delivered EXCEPT ![sid] = @ \o Reverse(m_pendingMessages[sid])]
  /\ m_pendingMessages' = [m_pendingMessages EXCEPT ![sid] = <<>>]

\* MUTANT: the pending requests are not sent.
setClientSilently(sid, c) ==
  /\ m_client[sid] = NULL
  /\ m_client' = [m_client EXCEPT ![sid] = c]
  /\ UNCHANGED <<delivered, m_pendingMessages>>

\* WellKnownService::setClient: the pending requests go to the client.
setClient(sid, c) ==
  /\ m_client[sid] = NULL
  /\ m_client' = [m_client EXCEPT ![sid] = c]
  /\ delivered' = [delivered EXCEPT ![sid] = @ \o m_pendingMessages[sid]]
  /\ m_pendingMessages' = [m_pendingMessages EXCEPT ![sid] = <<>>]

\* A client connects and registers sid (Dispatcher::tryRegisterService): it
\* becomes the client of the WellKnownService, or of a new Service once the
\* WellKnownService is no longer registered.  Otherwise it is refused, which
\* changes nothing.
tryRegisterService(c, sid) ==
  /\ c \in idle
  /\ idle' = idle \ {c}
  /\ \/ /\ sid \in m_services
        /\ setClient(sid, c)
        /\ UNCHANGED otherProvider
     \/ /\ sid \notin m_services
        /\ otherProvider[sid] = NULL
        /\ otherProvider' = [otherProvider EXCEPT ![sid] = c]
        /\ UNCHANGED <<m_client, delivered, m_pendingMessages>>

\* A process the daemon started registers its service.
processRegisters(c, sid) ==
  /\ ~aborted
  /\ processes[sid] > 0
  /\ processes' = [processes EXCEPT ![sid] = @ - 1]
  /\ tryRegisterService(c, sid)
  /\ UNCHANGED <<m_services, m_state, requests, failed, aborted>>

\* An application that was started otherwise registers the service.  Bound:
\* it leaves a connection for every process that runs or may be started.
applicationRegisters(c, sid) ==
  /\ ~aborted
  /\ tryRegisterService(c, sid)
  /\ Cardinality(idle') >=
       Cardinality({s \in ServiceID : \/ processes[s] > 0
                                      \/ s \in m_services /\ m_client'[s] = NULL})
  /\ UNCHANGED <<m_services, m_state, processes, requests, failed, aborted>>

\* A process ends before it has connected; the daemon does not notice.
processDies(sid) ==
  /\ ~aborted
  /\ ProcessMayDie
  /\ processes[sid] > 0
  /\ processes' = [processes EXCEPT ![sid] = @ - 1]
  /\ UNCHANGED <<m_services, m_client, m_state, m_pendingMessages,
                 otherProvider, idle, requests, delivered, failed, aborted>>

\* The provider of sid unregisters it or disconnects (Client::
\* unregisterService, Client::unregisterClient): the Service, well-known or
\* not, is removed from the dispatcher.
providerLeaves(sid) ==
  /\ ~aborted
  /\ ProviderMayLeave
  /\ \/ /\ sid \in m_services
        /\ m_client[sid] # NULL
        /\ m_services' = m_services \ {sid}
        /\ UNCHANGED otherProvider
     \/ /\ otherProvider[sid] # NULL
        /\ otherProvider' = [otherProvider EXCEPT ![sid] = NULL]
        /\ UNCHANGED m_services
  /\ UNCHANGED <<m_client, m_state, m_pendingMessages, processes, idle,
                 requests, delivered, failed, aborted>>

Next ==
  \E sid \in ServiceID :
    \/ dispatchRequest(sid)
    \/ processDies(sid)
    \/ providerLeaves(sid)
    \/ \E c \in Client : processRegisters(c, sid) \/ applicationRegisters(c, sid)

\* A process that was started and does not die registers its service.
Fairness ==
  \A sid \in ServiceID : WF_vars(\E c \in Client : processRegisters(c, sid))

Spec == Init /\ [][Next]_vars /\ Fairness

-----------------------------------------------------------------------------
TypeOK ==
  /\ m_services \subseteq ServiceID
  /\ m_client \in [ServiceID -> Client \cup {NULL}]
  /\ m_state \in [ServiceID -> {"STOPPED", "STARTING", "START_FAILED"}]
  /\ m_pendingMessages \in [ServiceID -> Seq(1 .. MaxRequests)]
  /\ otherProvider \in [ServiceID -> Client \cup {NULL}]
  /\ processes \in [ServiceID -> Nat]
  /\ idle \subseteq Client
  /\ requests \in 0 .. MaxRequests
  /\ delivered \in [ServiceID -> Seq(1 .. MaxRequests)]
  /\ failed \subseteq 1 .. MaxRequests
  /\ aborted \in BOOLEAN

\* The requests for sid that a provider received or that wait for one.
accepted(sid) == delivered[sid] \o m_pendingMessages[sid]

\* A request is never lost, and never handled twice: it waits for one
\* service, or was delivered once, or was answered with an error, whatever
\* the order of requests, starts and registrations.
EachRequestOnce ==
  ~aborted =>
    \A r \in 1 .. requests :
      Cardinality({p \in ServiceID \X (1 .. MaxRequests) :
                     p[2] <= Len(accepted(p[1])) /\ accepted(p[1])[p[2]] = r})
        = IF r \in failed THEN 0 ELSE 1

\* A provider receives the requests in the order in which they were made,
\* those that waited for it included.
DeliveredInOrder ==
  \A sid \in ServiceID :
    \A i, j \in 1 .. Len(delivered[sid]) :
      i < j => delivered[sid][i] < delivered[sid][j]

\* A request for a configured service is answered with an error only if there
\* was no client and its process could not be started, or if a provider has
\* left and no other came: then the dispatcher no longer knows the service
\* and does not start it again.
ErrorMeansStartFailed ==
  [][\A r \in failed' \ failed :
       \E sid \in ServiceID :
         \/ sid \in m_services /\ m_client[sid] = NULL /\ m_state'[sid] = "START_FAILED"
         \/ sid \notin m_services /\ otherProvider[sid] = NULL]_vars

\* A request for a configured service reaches a provider, or is answered
\* with an error, or waits for a process that has died: WellKnownService
\* stays STARTING and starts no other.
RequestIsServed ==
  \A r \in 1 .. MaxRequests :
    requests >= r ~>
      \/ aborted
      \/ r \in failed
      \/ \E sid \in ServiceID :
           \/ r \in ToSet(delivered[sid])
           \/ r \in ToSet(m_pendingMessages[sid]) /\ processes[sid] = 0

=============================================================================
