---------------------------- MODULE MessageStream ----------------------------
(***************************************************************************)
(* Both ends of a local connection: the writer of StreamConnection and the *)
(* reader of UDSConnection::read as the daemon runs it                     *)
(* (LocalClient::onIncomingDataAvailable).  The reader takes the stream in *)
(* pieces of any length, first the size of a message, then its payload.    *)
(***************************************************************************)
EXTENDS StreamConnection

CONSTANTS
  SizeBytes,  \* sizeof(size_t)
  Base        \* values of a byte

\* The size field, least significant byte first.
decode(bytes) ==
  LET value[i \in 1 .. Len(bytes) + 1] ==
        IF i > Len(bytes) THEN 0 ELSE bytes[i] + Base * value[i + 1]
  IN  value[1]

ASSUME FramingAssumption ==
  /\ SizeBytes \in Nat \ {0}
  /\ \A msg \in Message : /\ Len(msg.size) = SizeBytes
                          /\ decode(msg.size) = Len(msg.payload)
                          /\ msg.payload # <<>>

VARIABLES
  lengthBytes,  \* bytes of m_totalMessageSize received by m_messageLengthReader
  payload,      \* bytes of the payload received: m_receivedSize of them
  received      \* payloads handed to handleIncomingIPCMessage, in order

readerVars == <<lengthBytes, payload, received>>
streamVars == <<vars, readerVars>>

StreamInit == Init /\ lengthBytes = <<>> /\ payload = <<>> /\ received = <<>>

\* recv: the first n bytes that have arrived and were not read.
recv(n) == SubSeq(sent, read + 1, read + n)

\* IPCBufferReader::read on the size field.
readLength ==
  /\ peerOpen
  /\ Len(lengthBytes) < SizeBytes
  /\ \E n \in 1 .. SizeBytes - Len(lengthBytes) :
       /\ read + n <= Len(sent)
       /\ read' = read + n
       /\ lengthBytes' = lengthBytes \o recv(n)
  /\ UNCHANGED <<m_dataToBeSent, connected, outputWatched, sent, peerOpen,
                 written, messages, payload, received>>

\* MUTANT: the size of a message is kept for the next one.
readPayloadKeepingLength ==
  /\ peerOpen
  /\ Len(lengthBytes) = SizeBytes
  /\ \E n \in 1 .. decode(lengthBytes) - Len(payload) :
       /\ read + n <= Len(sent)
       /\ read' = read + n
       /\ IF Len(payload) + n = decode(lengthBytes)
          THEN /\ received' = Append(received, payload \o recv(n))
               /\ payload' = <<>>
          ELSE /\ payload' = payload \o recv(n)
               /\ UNCHANGED received
  /\ UNCHANGED <<m_dataToBeSent, connected, outputWatched, sent, peerOpen,
                 written, messages, lengthBytes>>

\* SocketStreamConnection::readAvailableData on the payload.  A complete
\* message is handled and the reader starts over (setInputMessage).
readPayload ==
  /\ peerOpen
  /\ Len(lengthBytes) = SizeBytes
  /\ \E n \in 1 .. decode(lengthBytes) - Len(payload) :
       /\ read + n <= Len(sent)
       /\ read' = read + n
       /\ IF Len(payload) + n = decode(lengthBytes)
          THEN /\ received' = Append(received, payload \o recv(n))
               /\ payload' = <<>>
               /\ lengthBytes' = <<>>
          ELSE /\ payload' = payload \o recv(n)
               /\ UNCHANGED <<received, lengthBytes>>
  /\ UNCHANGED <<m_dataToBeSent, connected, outputWatched, sent, peerOpen,
                 written, messages>>

StreamNext ==
  \/ /\ \/ \E msg \in Message : write(msg)
        \/ onWritingPossible
        \/ disconnect
        \/ peerCloses
     /\ UNCHANGED readerVars
  \/ readLength
  \/ readPayload

StreamSpec ==
  /\ StreamInit
  /\ [][StreamNext]_streamVars
  /\ WF_streamVars(onWritingPossible /\ UNCHANGED readerVars)
  /\ WF_streamVars(disconnect /\ UNCHANGED readerVars)
  /\ WF_streamVars(readLength)
  /\ WF_streamVars(readPayload)

-----------------------------------------------------------------------------
\* The peer handles the messages that were written, in the order in which
\* they were written, none of them cut, merged or repeated, however the
\* stream is split on its way.
MessagesInOrder ==
  /\ Len(received) <= Len(messages)
  /\ \A i \in 1 .. Len(received) : received[i] = messages[i].payload

\* Every message written is eventually handled unless one of the two ends is
\* closed.
MessagesArrive ==
  \A n \in 1 .. MaxMessages :
    Len(messages) >= n ~> (Len(received) >= n \/ ~peerOpen)
=============================================================================
