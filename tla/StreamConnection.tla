--------------------------- MODULE StreamConnection ---------------------------
(***************************************************************************)
(* The writing side of lib/SocketStreamConnection with its two users:      *)
(* UDSConnection::writeNonBlocking (local clients) and                     *)
(* TCPClient::sendMessage (other hosts).  The kernel takes any part of     *)
(* what it is given; what it does not take waits in m_dataToBeSent until   *)
(* the main loop reports that the socket can be written again.             *)
(***************************************************************************)
EXTENDS Integers, Sequences

CONSTANTS
  Message,        \* messages, as records of two byte sequences: size, payload
  Transport,      \* "UDS" or "TCP"
  WatchedEvents,  \* poll events the MainLoopInterface implementation honours
  Capacity,       \* bytes the kernel buffers between the two ends
  MaxMessages     \* bound: messages written in a behaviour

ASSUME MessageAssumption ==
  \A msg \in Message : /\ msg.size \in Seq(Nat)
                       /\ msg.payload \in Seq(Nat)
ASSUME TransportAssumption == Transport \in {"UDS", "TCP"}
ASSUME WatchedEventsAssumption ==
  WatchedEvents \subseteq {"POLLIN", "POLLOUT", "POLLHUP"}
ASSUME CapacityAssumption == Capacity \in Nat /\ MaxMessages \in Nat

VARIABLES
  m_dataToBeSent,  \* bytes the kernel did not take yet
  connected,       \* the file descriptor is valid
  outputWatched,   \* m_outputDataWatcher is enabled
  sent,            \* all bytes the kernel took, in order
  read,            \* number of these bytes the peer has read
  peerOpen,        \* the peer has its end open
  written,         \* all bytes the application wrote, in order
  messages         \* the messages written, in order

vars == <<m_dataToBeSent, connected, outputWatched, sent, read, peerOpen,
          written, messages>>

Init ==
  /\ m_dataToBeSent = <<>>
  /\ connected = TRUE
  /\ outputWatched = FALSE
  /\ sent = <<>>
  /\ read = 0
  /\ peerOpen = TRUE
  /\ written = <<>>
  /\ messages = <<>>

-----------------------------------------------------------------------------
isCongested == m_dataToBeSent # <<>>

\* Room left in the buffers of the kernel.
room == Capacity - (Len(sent) - read)

\* MUTANT: the main loop is not asked to report.
enqueueDataSilently(pending, data) ==
  /\ m_dataToBeSent' = pending \o data
  /\ UNCHANGED outputWatched

\* SocketStreamConnection::enqueueData: the bytes wait and the main loop is
\* asked to report when the socket can be written (onCongestionDetected).
enqueueData(pending, data) ==
  /\ m_dataToBeSent' = pending \o data
  /\ outputWatched' = (data # <<>> \/ outputWatched)

\* SocketStreamConnection::writeBytesNonBlocking on an open connection: the
\* kernel takes the first k bytes, the rest is enqueued behind "pending".
writeBytesNonBlocking(pending, data) ==
  \E k \in 0 .. Len(data) :
    /\ k <= room
    /\ sent' = sent \o SubSeq(data, 1, k)
    /\ enqueueData(pending, SubSeq(data, k + 1, Len(data)))

\* MUTANT: a congested connection is written to like any other.
writeNonBlockingUnqueued(msg) ==
  writeBytesNonBlocking(m_dataToBeSent, msg.size \o msg.payload)

\* UDSConnection::writeNonBlocking: on a congested connection everything is
\* enqueued.  Otherwise the size and then the payload are written; a size
\* that did not fit entirely takes the payload with it into the buffer, so
\* the kernel has a prefix of the two.
writeNonBlocking(msg) ==
  LET data == msg.size \o msg.payload IN
  \/ /\ isCongested
     /\ enqueueData(m_dataToBeSent, data)
     /\ UNCHANGED sent
  \/ /\ ~isCongested
     /\ writeBytesNonBlocking(m_dataToBeSent, data)

\* TCPClient::sendMessage: header and payload are serialised into one buffer,
\* which is written whether or not older data is waiting.
sendMessage(msg) == writeBytesNonBlocking(m_dataToBeSent, msg.size \o msg.payload)

\* The application writes a message to a peer that is there.
write(msg) ==
  /\ connected
  /\ peerOpen
  /\ Len(messages) < MaxMessages
  /\ IF Transport = "UDS" THEN writeNonBlocking(msg) ELSE sendMessage(msg)
  /\ written' = written \o msg.size \o msg.payload
  /\ messages' = Append(messages, msg)
  /\ UNCHANGED <<connected, read, peerOpen>>

\* SocketStreamConnection::disconnect, from a write that fails with EPIPE or
\* from the hang-up watch: onDisconnected disables the watches.
disconnect ==
  /\ connected
  /\ ~peerOpen
  /\ connected' = FALSE
  /\ outputWatched' = FALSE
  /\ UNCHANGED <<m_dataToBeSent, sent, read, peerOpen, written, messages>>

\* onWritingPossible, run by the output watch if the main loop honours
\* POLLOUT (SocketStreamConnection::writePendingDataNonBlocking): the
\* pending data is taken out and written again.  The kernel reports the
\* socket writable when it will take at least one byte.
onWritingPossible ==
  /\ connected
  /\ peerOpen
  /\ outputWatched
  /\ "POLLOUT" \in WatchedEvents
  /\ isCongested
  /\ writeBytesNonBlocking(<<>>, m_dataToBeSent)
  /\ sent' # sent
  /\ UNCHANGED <<connected, read, peerOpen, written, messages>>

\* The peer reads some of the bytes that have arrived.
peerReads ==
  /\ peerOpen
  /\ \E n \in 1 .. Len(sent) - read : read' = read + n
  /\ UNCHANGED <<m_dataToBeSent, connected, outputWatched, sent, peerOpen,
                 written, messages>>

peerCloses ==
  /\ peerOpen
  /\ peerOpen' = FALSE
  /\ UNCHANGED <<m_dataToBeSent, connected, outputWatched, sent, read, written,
                 messages>>

Next ==
  \/ \E msg \in Message : write(msg)
  \/ onWritingPossible
  \/ disconnect
  \/ peerReads
  \/ peerCloses

\* The main loop runs the watches whose condition holds, and the peer keeps
\* reading as long as it has its end open.
Fairness ==
  /\ WF_vars(onWritingPossible)
  /\ WF_vars(disconnect)
  /\ WF_vars(peerReads)

Spec == Init /\ [][Next]_vars /\ Fairness

-----------------------------------------------------------------------------
TypeOK ==
  /\ m_dataToBeSent \in Seq(Nat)
  /\ connected \in BOOLEAN
  /\ outputWatched \in BOOLEAN
  /\ sent \in Seq(Nat)
  /\ read \in 0 .. Len(sent)
  /\ peerOpen \in BOOLEAN
  /\ written \in Seq(Nat)
  /\ messages \in Seq(Message)

\* "The data order is always kept": what the kernel was given, followed by
\* what waits in m_dataToBeSent, is what the application wrote.
DataOrderKept == sent \o m_dataToBeSent = written

\* Data that waits on an open connection has the output watch enabled: no
\* path fills m_dataToBeSent without asking the main loop to come back.
PendingIsWatched == connected /\ isCongested => outputWatched
=============================================================================
