------------------------------ MODULE MainLoop ------------------------------
(***************************************************************************)
(* The main loop of the daemon and its hooks: the watches, the timer and   *)
(* the idle callback of GlibMainLoopInterfaceImplementation, run and       *)
(* ended by MainLoopApplication, and the clients that use them.  GLib      *)
(* itself is external: an iteration collects the sources of the highest    *)
(* priority that are ready, in the order in which they were attached, and  *)
(* then dispatches those that have not been destroyed in the meantime.  A  *)
(* step is one poll, one callback, or a step of a peer, a clock or the     *)
(* kernel in between.                                                      *)
(***************************************************************************)
EXTENDS Naturals, Sequences, Functions

CONSTANTS
  Client,
  Transport,   \* of each client: "UDS" or "TCP"
  MaxRuns,     \* bound: calls of run()
  MaxData,     \* bound: messages of a client
  MaxTicks,    \* bound: expirations of the timer
  MaxSignals   \* bound: signals from outside

Event == {"in", "out", "hup"}
Watch == Client \X Event
\* Hooks: the watch of the server socket, the idle callback and the timer of
\* the dispatcher, and what each call of run() leaves in the context.
OfRun == {"signal", "timeout"} \X (1 .. MaxRuns)
server == <<"server", 0>>
idle == <<"idle", 0>>
timer == <<"timer", 0>>

ASSUME MainLoopAssumption ==
  /\ Transport \in [Client -> {"UDS", "TCP"}]
  /\ Client \cap {"server", "idle", "timer", "signal", "timeout"} = {}
  /\ {MaxRuns, MaxData, MaxTicks, MaxSignals} \subseteq Nat

VARIABLES
  g,        \* the process: sources, hooks, clients, and the signals that
            \* wait to be read
  loop,     \* GMainLoop: "idle", "running", or "quitting"
  runs,     \* calls of run()
  data,     \* messages of each client that wait in its socket
  sentData, \* messages each client has sent
  closed,   \* clients whose peer has closed the connection
  due,      \* timers that have expired
  ticks,    \* expirations of the timer
  signals   \* signals sent from outside

peerVars == <<data, sentData, closed>>
clockVars == <<due, ticks>>
vars == <<g, loop, runs, peerVars, clockVars, signals>>

Init ==
  /\ g = [attached |-> <<timer, server>>,
          ready |-> <<>>,
          m_source |-> FALSE,
          inputSourceID |-> [w \in Watch |-> FALSE],
          m_isInputWatched |-> [w \in Watch |-> FALSE],
          client |-> [c \in Client |-> "none"],
          pending |-> {}]
  /\ loop = "idle"
  /\ runs = 0
  /\ data = [c \in Client |-> 0]
  /\ sentData = [c \in Client |-> 0]
  /\ closed = {}
  /\ due = {}
  /\ ticks = 0
  /\ signals = 0

-----------------------------------------------------------------------------
(* GLib, as far as the hooks use it.                                       *)

attach(p, h) == [p EXCEPT !.attached = Append(@, h)]

\* The sources of a context that are left when some are removed: in the same
\* order.
without(seq, hooks) ==
  LET kept[i \in 0 .. Len(seq)] ==
        IF i = 0 THEN <<>>
        ELSE IF seq[i] \notin hooks THEN Append(kept[i - 1], seq[i]) ELSE kept[i - 1]
  IN  kept[Len(seq)]

\* g_source_destroy: a source that is ready is not dispatched any more.
destroy(p, hooks) == [p EXCEPT !.attached = without(@, hooks), !.ready = without(@, hooks)]

\* What poll() reports of the socket of c: a closed UNIX domain socket hangs
\* up, while the end of a TCP stream only makes it readable.
revents(c) ==
  (IF data[c] > 0 \/ c \in closed THEN {"in"} ELSE {})
    \cup (IF c \in closed /\ Transport[c] = "UDS" THEN {"hup"} ELSE {})

-----------------------------------------------------------------------------
(* The hooks.                                                              *)

\* GlibIdleCallback::destroySource
destroySource(p) == IF p.m_source THEN [destroy(p, {idle}) EXCEPT !.m_source = FALSE] ELSE p

\* GlibIdleCallback::activate
activate(p) == IF p.m_source THEN p ELSE [attach(p, idle) EXCEPT !.m_source = TRUE]

\* GLibFileDescriptorWatch::disable, also by the destructor.
disable(p, w) ==
  IF p.inputSourceID[w] THEN [destroy(p, {w}) EXCEPT !.inputSourceID[w] = FALSE] ELSE p

\* GLibFileDescriptorWatch::enable
enable(p, w) ==
  IF p.m_isInputWatched[w] THEN p
  ELSE [attach(p, w) EXCEPT !.inputSourceID[w] = TRUE, !.m_isInputWatched[w] = TRUE]

\* The events of a watch that enable() translates: a watch for POLLOUT has an
\* empty condition.
condition(w) == {w[2]} \cap {"in", "hup"}

-----------------------------------------------------------------------------
(* The clients.                                                            *)

\* MUTANT: the end of the connection is watched for before its data.
initConnectionHangUpFirst(p, c) ==
  enable(enable([p EXCEPT !.client[c] = "connected"], <<c, "hup">>), <<c, "in">>)

\* LocalClient::initConnection for a connection just accepted; the watch for
\* output is created, not enabled.
initConnection(p, c) ==
  enable(enable([p EXCEPT !.client[c] = "connected"], <<c, "in">>), <<c, "hup">>)

\* MUTANT: the watch for the end of the connection stays.
onDisconnectedWatched(p, c) ==
  disable(disable(activate([p EXCEPT !.client[c] = "disconnected"]), <<c, "in">>),
          <<c, "out">>)

\* MUTANT: nobody asks for the deletion of the client.
onDisconnectedKept(p, c) ==
  disable(disable(disable([p EXCEPT !.client[c] = "disconnected"],
                          <<c, "in">>), <<c, "out">>), <<c, "hup">>)

\* LocalClient::onDisconnected, Dispatcher::onClientDisconnected
onDisconnected(p, c) ==
  disable(disable(disable(activate([p EXCEPT !.client[c] = "disconnected"]),
                          <<c, "in">>), <<c, "out">>), <<c, "hup">>)

\* SocketStreamConnection::disconnect
disconnect(p, c) == IF p.client[c] = "connected" THEN onDisconnected(p, c) ELSE p

\* UDSConnection::writeNonBlocking to c; full: does the socket take no more?
\* Data that waits is never sent, as its watch has no condition: the next
\* message joins it.  A failed write raises SIGPIPE.
writeNonBlocking(p, c, full) ==
  IF p.m_isInputWatched[<<c, "out">>] \/ (full /\ c \notin closed)
  THEN enable(p, <<c, "out">>)
  ELSE IF c \in closed THEN [disconnect(p, c) EXCEPT !.pending = @ \cup {"SIGPIPE"}]
  ELSE p

\* Dispatcher::cleanDisconnectedClients: the destructors of the hooks.
cleanDisconnectedClients(p) ==
  LET gone == {w \in Watch : p.client[w[1]] = "disconnected" /\ p.inputSourceID[w]} IN
  [destroy(p, gone) EXCEPT
     !.inputSourceID = [w \in Watch |-> @[w] /\ w \notin gone],
     !.client = [c \in Client |-> IF @[c] = "disconnected" THEN "deleted" ELSE @[c]]]

-----------------------------------------------------------------------------
(* The application: MainLoopApplication.                                   *)

\* The signals are blocked, and a watch reads them from a new descriptor.
setupSignalHandling(p) == attach(p, <<"signal", runs + 1>>)

\* run(): the signals and, if asked for, a timeout; neither source is ever
\* taken away if the loop ends for another reason.
run(timed) ==
  /\ loop = "idle"
  /\ runs < MaxRuns
  /\ runs' = runs + 1
  /\ loop' = "running"
  /\ g' = LET p == setupSignalHandling(g) IN
          IF timed THEN attach(p, <<"timeout", runs + 1>>) ELSE p
  /\ UNCHANGED <<peerVars, clockVars, signals>>

isReady(h) ==
  \/ h \in Watch /\ condition(h) \cap revents(h[1]) # {}
  \/ h = server /\ \E c \in Client : g.client[c] = "connecting"
  \/ h = idle
  \/ h \in due
  \/ h[1] = "signal" /\ g.pending # {}

\* GLib: the idle callback has a lower priority than all other sources.
poll ==
  /\ loop = "running"
  /\ g.ready = <<>>
  /\ LET waiting == {h \in Range(g.attached) : ~isReady(h)}
         chosen == without(g.attached, waiting \cup {idle}) IN
     /\ g' = [g EXCEPT !.ready =
                IF chosen = <<>> THEN without(g.attached, waiting) ELSE chosen]
     /\ g'.ready # <<>>
  /\ UNCHANGED <<loop, runs, peerVars, clockVars, signals>>

\* The next source is dispatched; p0 is the process in its callback.
dispatching(h) == g.ready # <<>> /\ h = Head(g.ready)
p0 == [g EXCEPT !.ready = Tail(@)]

\* SocketStreamServer::handleNewConnection
handleNewConnection ==
  /\ dispatching(server)
  /\ \E c \in Client : g.client[c] = "connecting" /\ g' = initConnection(p0, c)
  /\ UNCHANGED <<loop, runs, peerVars, clockVars, signals>>

\* LocalClient::onIncomingDataAvailable reads all there is; a message may make
\* the daemon write to a client.  The end of the stream is no data.
onIncomingDataAvailable(c) ==
  /\ dispatching(<<c, "in">>)
  /\ data' = [data EXCEPT ![c] = 0]
  /\ \/ g' = p0
     \/ /\ data[c] > 0
        /\ \E to \in Client, full \in BOOLEAN :
             g.client[to] = "connected" /\ g' = writeNonBlocking(p0, to, full)
  /\ UNCHANGED <<loop, runs, sentData, closed, clockVars, signals>>

\* The callback of the watch for POLLHUP.
onHangUp(c) ==
  /\ dispatching(<<c, "hup">>)
  /\ g' = disconnect(p0, c)
  /\ UNCHANGED <<loop, runs, peerVars, clockVars, signals>>

\* GlibIdleCallback::onGlibCallback for cleanDisconnectedClients, which
\* returns false.
onIdle ==
  /\ dispatching(idle)
  /\ g' = destroySource(cleanDisconnectedClients(p0))
  /\ UNCHANGED <<loop, runs, peerVars, clockVars, signals>>

\* GLibTimer::onTimerCallback: pings are not sent in this build, and the
\* timer keeps going.
onTimerCallback ==
  /\ dispatching(timer)
  /\ g' = p0
  /\ due' = due \ {timer}
  /\ UNCHANGED <<loop, runs, peerVars, ticks, signals>>

exit == loop' = IF loop = "running" THEN "quitting" ELSE loop

\* MainLoopApplication::timeout_callback
timeout_callback(r) ==
  /\ dispatching(<<"timeout", r>>)
  /\ exit
  /\ g' = destroy(p0, {<<"timeout", r>>})
  /\ due' = due \ {<<"timeout", r>>}
  /\ UNCHANGED <<runs, peerVars, ticks, signals>>

\* MUTANT: SIGTERM is only logged.
processUnixSignalLogged(sig) == UNCHANGED loop

processUnixSignal(sig) ==
  \/ sig = "SIGPIPE" /\ UNCHANGED loop
  \/ sig # "SIGPIPE" /\ exit

\* The watch of any run() reads the descriptor of the last one, and blocks
\* until there is a signal.
onUnixSignalReceived(r) ==
  /\ dispatching(<<"signal", r>>)
  /\ \E sig \in g.pending :
       /\ g' = [p0 EXCEPT !.pending = @ \ {sig}]
       /\ processUnixSignal(sig)
  /\ UNCHANGED <<runs, peerVars, clockVars, signals>>

\* g_main_loop_run returns at the end of the iteration.
runReturns ==
  /\ loop = "quitting"
  /\ g.ready = <<>>
  /\ loop' = "idle"
  /\ UNCHANGED <<g, runs, peerVars, clockVars, signals>>

-----------------------------------------------------------------------------
(* The world outside.                                                      *)

connect(c) ==
  /\ g.client[c] = "none"
  /\ g' = [g EXCEPT !.client[c] = "connecting"]
  /\ UNCHANGED <<loop, runs, peerVars, clockVars, signals>>

peerSends(c) ==
  /\ g.client[c] # "none"
  /\ c \notin closed
  /\ sentData[c] < MaxData
  /\ sentData' = [sentData EXCEPT ![c] = @ + 1]
  /\ data' = [data EXCEPT ![c] = @ + 1]
  /\ UNCHANGED <<g, loop, runs, closed, clockVars, signals>>

peerCloses(c) ==
  /\ g.client[c] # "none"
  /\ c \notin closed
  /\ closed' = closed \cup {c}
  /\ UNCHANGED <<g, loop, runs, data, sentData, clockVars, signals>>

timerExpires ==
  /\ ticks < MaxTicks
  /\ timer \notin due
  /\ ticks' = ticks + 1
  /\ due' = due \cup {timer}
  /\ UNCHANGED <<g, loop, runs, peerVars, signals>>

timeoutExpires(r) ==
  /\ <<"timeout", r>> \in Range(g.attached) \ due
  /\ due' = due \cup {<<"timeout", r>>}
  /\ UNCHANGED <<g, loop, runs, peerVars, ticks, signals>>

\* Signals are blocked from the first run() on.
signalArrives(sig) ==
  /\ runs > 0
  /\ signals < MaxSignals
  /\ signals' = signals + 1
  /\ g' = [g EXCEPT !.pending = @ \cup {sig}]
  /\ UNCHANGED <<loop, runs, peerVars, clockVars>>

Callback ==
  \/ handleNewConnection \/ onIdle \/ onTimerCallback
  \/ \E c \in Client : onIncomingDataAvailable(c) \/ onHangUp(c)
  \/ \E r \in 1 .. MaxRuns : timeout_callback(r) \/ onUnixSignalReceived(r)

Outside ==
  \/ \E c \in Client : connect(c) \/ peerSends(c) \/ peerCloses(c)
  \/ timerExpires
  \/ \E r \in 1 .. MaxRuns : timeoutExpires(r)
  \/ \E sig \in {"SIGTERM", "SIGPIPE"} : signalArrives(sig)

Next == Outside \/ (\E timed \in BOOLEAN : run(timed)) \/ poll \/ Callback \/ runReturns

\* The thread of the main loop goes on, and time passes.
Spec ==
  /\ Init /\ [][Next]_vars
  /\ WF_vars(poll) /\ WF_vars(Callback) /\ WF_vars(runReturns)
  /\ \A r \in 1 .. MaxRuns : WF_vars(timeoutExpires(r))

-----------------------------------------------------------------------------
\* A source is attached at most once, belongs to the hook that knows it, and,
\* if it is the watch of a client, to a client that is connected: no callback
\* reaches a client that has been disconnected or deleted, even if its
\* sources were ready in the iteration in which that happened.
CallbacksReachTheLiving ==
  /\ IsInjective(g.attached)
  /\ Range(g.ready) \subseteq Range(g.attached)
  /\ g.m_source = (idle \in Range(g.attached))
  /\ \A w \in Watch : w \in Range(g.attached) =>
       g.inputSourceID[w] /\ g.client[w[1]] = "connected"

\* What a client sent before it closed its connection is read before the
\* client is taken for gone, unless a message could not be written to it: the
\* watch for data is served before the watch for the end of the connection.
LastWordsAreRead ==
  [][\A c \in Client :
       g.client[c] = "connected" /\ g'.client[c] = "disconnected" /\ data'[c] > 0
         => "SIGPIPE" \in g'.pending /\ Head(g.ready)[2] = "in"]_vars

\* A client whose peer has closed the connection is deleted in the end, while
\* the loop runs: it is disconnected, the idle callback is activated for it,
\* and the loop becomes idle.
GoneClientIsDeleted ==
  \A c \in Client : c \in closed /\ g.client[c] \in {"connected", "disconnected"}
    ~> g.client[c] = "deleted" \/ loop = "idle"

\* "Run the main loop until either either the given timeout is reached, or a
\* termination signal is received": run() returns when that has happened.
RunEnds ==
  loop # "idle" /\ (due \cap OfRun # {} \/ "SIGTERM" \in g.pending) ~> loop = "idle"
=============================================================================
